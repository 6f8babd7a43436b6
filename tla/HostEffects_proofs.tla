------------------------- MODULE HostEffects_proofs -------------------------
(***************************************************************************)
(* Proofs about HostEffects, for any number of sessions and effects, any   *)
(* limit, and any number of leaders that die and appends that fail: an     *)
(* at-most-once effect is started once (Ledger); no more sessions than     *)
(* the limit hold a slot, and none with effects is forgotten (EffectsInv   *)
(* and Covered); an effect is on disk until its one, true outcome; what    *)
(* runs without a slot is cancelled; and effects start in order (HostInv). *)
(* The last part is about EffectWake: no wake, end or cancellation is lost *)
(* and the flag's channel of one is never full.                            *)
(***************************************************************************)
EXTENDS HostEffects, FiniteSetTheorems, SequenceTheorems, TLAPS

-----------------------------------------------------------------------------
(* The ledger of attempts *)

(***************************************************************************)
(* An effect has never been started more often than the disk, and the      *)
(* memory of a running leader, count attempts of it.                       *)
(***************************************************************************)
Ledger ==
  /\ started \in [Effects -> Nat]
  /\ attempts \in [Effects -> Nat]
  /\ durableAttempts \in [Effects -> Nat]
  /\ \A e \in Effects : started[e] <= durableAttempts[e]
  /\ up => \A e \in Effects : started[e] <= attempts[e]
  /\ RunsAtMostOnce

(* What a dispatch does to the ledger: tries are the attempts it goes by. *)
LEMMA DispatchKeepsLedger ==
  ASSUME NEW queues, NEW slots, NEW waiting, NEW tries \in [Effects -> Nat], NEW n, NEW failing,
         NEW inbox, NEW alarms,
         Ledger, \A e \in Effects : started[e] <= tries[e],
         Dispatch(queues, slots, waiting, tries, n, failing, inbox, alarms)
  PROVE  Ledger'
<1> DEFINE E == Executed(queues, tries, {waiting[k] : k \in 1 .. n} \ failing)
           F == Fronts(queues, failing)
<1>1. /\ attempts' = [e \in Effects |-> IF e \in E \cup F THEN tries[e] + 1 ELSE tries[e]]
      /\ durableAttempts' = [e \in Effects |-> IF e \in E THEN tries[e] + 1 ELSE durableAttempts[e]]
      /\ started' = [e \in Effects |-> IF e \in E THEN started[e] + 1 ELSE started[e]]
  BY DEF Dispatch, Attempted
<1>2. \A e \in E : ~(e \in AtMostOnce /\ tries[e] > 0)
  BY DEF Executed, MayHaveRun
<1> HIDE DEF E, F
<1>3. AtMostOnce \subseteq Effects
  BY EffectsAssumption
<1>4. \A e \in AtMostOnce : started'[e] <= 1
  BY <1>1, <1>2, <1>3 DEF Ledger, RunsAtMostOnce
<1>5. QED
  BY <1>1, <1>4 DEF Ledger, RunsAtMostOnce

(* A leader that dies in a dispatch has journaled the attempts it started. *)
LEMMA AttemptedKeepsLedger ==
  ASSUME NEW queues, NEW tries \in [Effects -> Nat], NEW S,
         Ledger, \A e \in Effects : started[e] <= tries[e],
         Attempted(Executed(queues, tries, S), tries), LoseMemory
  PROVE  Ledger'
<1> DEFINE E == Executed(queues, tries, S)
<1>1. /\ attempts' = [e \in Effects |-> 0] /\ up' = FALSE
      /\ durableAttempts' = [e \in Effects |-> IF e \in E THEN tries[e] + 1 ELSE durableAttempts[e]]
      /\ started' = [e \in Effects |-> IF e \in E THEN started[e] + 1 ELSE started[e]]
  BY DEF Attempted, LoseMemory
<1>2. \A e \in E : ~(e \in AtMostOnce /\ tries[e] > 0)
  BY DEF Executed, MayHaveRun
<1> HIDE DEF E
<1>3. AtMostOnce \subseteq Effects
  BY EffectsAssumption
<1>4. \A e \in AtMostOnce : started'[e] <= 1
  BY <1>1, <1>2, <1>3 DEF Ledger, RunsAtMostOnce
<1>5. QED
  BY <1>1, <1>4 DEF Ledger, RunsAtMostOnce

(* A checkpoint writes the attempts in memory. *)
LEMMA CheckpointKeepsLedger ==
  ASSUME NEW S, Ledger, up, Checkpoint(S)
  PROVE  /\ durableAttempts' \in [Effects -> Nat]
         /\ \A e \in Effects : started[e] <= durableAttempts'[e]
  BY DEF Checkpoint, Ledger

(* The ledger holds in every reachable state. *)
LEMMA LedgerInductive == Ledger /\ [Next]_vars => Ledger'
<1> SUFFICES ASSUME Ledger, [Next]_vars PROVE Ledger'
  OBVIOUS
<1>0. /\ attempts \in [Effects -> Nat] /\ durableAttempts \in [Effects -> Nat]
      /\ \A e \in Effects : started[e] <= durableAttempts[e]
      /\ up => \A e \in Effects : started[e] <= attempts[e]
  BY DEF Ledger
<1>1. ASSUME NEW s, NEW batch, Transition(s, batch) PROVE Ledger'
  BY <1>0, <1>1, DispatchKeepsLedger DEF Transition, Applied
<1>2. ASSUME NEW s, NEW done, NEW batch, NEW n, up, CutShort(s, done, batch, n) PROVE Ledger'
  BY <1>0, <1>2, AttemptedKeepsLedger DEF CutShort
<1>3. ASSUME NEW s, NEW batch, NEW n, RefusedTransition(s, batch, n) PROVE Ledger'
  BY <1>0, <1>3, DispatchKeepsLedger DEF RefusedTransition, Applied
<1>4. ASSUME NEW e, NEW output, NEW batch, NEW inbox, NEW alarms, up,
             Resolve(e, output, batch, inbox, alarms)
      PROVE  Ledger'
  BY <1>0, <1>4, DispatchKeepsLedger DEF Resolve, Applied
<1>5. ASSUME NEW order, NEW n, CutRestart(order, n) PROVE Ledger'
  BY <1>0, <1>5, AttemptedKeepsLedger DEF CutRestart
<1>6. ASSUME NEW order, Restart(order) PROVE Ledger'
  BY <1>0, <1>6, DispatchKeepsLedger DEF Restart
<1>7. ASSUME NEW saved, Die(saved) PROVE Ledger'
  BY <1>7, CheckpointKeepsLedger DEF Die, LoseMemory, Ledger, RunsAtMostOnce
<1>8. ASSUME NEW s, RenameSession(s) PROVE Ledger'
  BY <1>8, CheckpointKeepsLedger DEF RenameSession, queueVars, historyVars, Ledger, RunsAtMostOnce
<1>9. ASSUME NEW s, StopSession(s) PROVE Ledger'
  BY <1>9 DEF StopSession, Ledger, RunsAtMostOnce
<1>10. ASSUME NEW e, Finish(e) \/ IgnoreTimeout(e) \/ IgnoreCompletion(e) PROVE Ledger'
  BY <1>10 DEF Finish, IgnoreTimeout, IgnoreCompletion, queueVars, durableVars, historyVars,
               Ledger, RunsAtMostOnce
<1>11. CASE UNCHANGED vars
  BY <1>11 DEF vars, queueVars, durableVars, historyVars, Ledger, RunsAtMostOnce
<1>12. ASSUME NEW s, StopFails(s) PROVE Ledger'
  BY <1>12 DEF StopFails, queueVars, durableVars, Ledger, RunsAtMostOnce
<1>13. QED
  BY <1>1, <1>2, <1>3, <1>4, <1>5, <1>6, <1>7, <1>8, <1>9, <1>10, <1>11, <1>12
     DEF Next, CutTransition, EffectCompleted, CutCompleted, EffectTimedOut, CutTimedOut, CutResolve

(***************************************************************************)
(* An at-most-once effect is started at most once, whichever leaders die   *)
(* between which records.                                                  *)
(***************************************************************************)
THEOREM StartsAtMostOnce == Spec => []RunsAtMostOnce
<1>1. Init => Ledger
  BY EffectsAssumption DEF Init, Ledger, RunsAtMostOnce
<1>2. Ledger => RunsAtMostOnce
  BY DEF Ledger
<1>3. QED
  BY <1>1, <1>2, LedgerInductive, PTL DEF Spec

-----------------------------------------------------------------------------
(* Queues, slots and the sessions that wait *)

Busy(slots) == {s \in Sessions : slots[s] # NoEffect}

(***************************************************************************)
(* The effects of a queue belong to its session, and only hosted sessions  *)
(* have any.                                                               *)
(***************************************************************************)
Owned(H, queues) ==
  /\ queues \in [Sessions -> Seq(Effects)]
  /\ \A s \in Sessions \ H : queues[s] = <<>>
  /\ \A s \in Sessions : \A k \in 1 .. Len(queues[s]) : SessionOf[queues[s][k]] = s

(***************************************************************************)
(* A busy session runs the first effect of its queue, a session that waits *)
(* is idle, has effects and waits once, and slots are within the limit.    *)
(***************************************************************************)
Sound(H, queues, slots, waiting) ==
  /\ Owned(H, queues)
  /\ slots \in [Sessions -> Effects \cup {NoEffect}]
  /\ \A s \in Busy(slots) : queues[s] # <<>> /\ Head(queues[s]) = slots[s]
  /\ waiting \in Seq(H)
  /\ \A j, k \in 1 .. Len(waiting) : waiting[j] = waiting[k] => j = k
  /\ \A k \in 1 .. Len(waiting) : queues[waiting[k]] # <<>> /\ slots[waiting[k]] = NoEffect
  /\ Cardinality(Busy(slots)) <= Limit

(* Without leaves out x, and keeps the order of the rest. *)
LEMMA WithoutSeq ==
  ASSUME NEW S, NEW q \in Seq(S), NEW x
  PROVE  /\ Without(q, x) \in Seq(S)
         /\ \A k \in 1 .. Len(Without(q, x)) : \E j \in 1 .. Len(q) : Without(q, x)[k] = q[j]
         /\ (\A j, k \in 1 .. Len(q) : q[j] = q[k] => j = k) =>
              /\ \A k \in 1 .. Len(Without(q, x)) : Without(q, x)[k] # x
              /\ \A j, k \in 1 .. Len(Without(q, x)) : Without(q, x)[j] = Without(q, x)[k] => j = k
<1>0. Len(q) \in Nat /\ DOMAIN q = 1 .. Len(q) /\ \A k \in 1 .. Len(q) : q[k] \in S
  BY LenProperties, ElementOfSeq
<1>1. CASE x \notin Range(q)
  BY <1>0, <1>1 DEF Without, Range
<1>2. CASE x \in Range(q)
  <2> DEFINE i == CHOOSE j \in DOMAIN q : q[j] = x
             front == SubSeq(q, 1, i - 1)
             back == SubSeq(q, i + 1, Len(q))
  <2>1. i \in 1 .. Len(q) /\ q[i] = x
    BY <1>0, <1>2 DEF Range
  <2>2. Without(q, x) = front \o back
    BY <1>2 DEF Without
  <2> HIDE DEF i
  <2>3. /\ front \in Seq(S) /\ Len(front) = i - 1
        /\ \A k \in 1 .. i - 1 : front[k] = q[k]
    <3>1. \A k \in 1 .. i - 1 : q[k] \in S
      BY <1>0, <2>1
    <3>2. /\ front \in Seq(S)
          /\ Len(front) = IF 1 <= i - 1 THEN (i - 1) - 1 + 1 ELSE 0
          /\ \A k \in 1 .. (i - 1) - 1 + 1 : front[k] = q[1 + k - 1]
      BY <2>1, <3>1, SubSeqProperties
    <3>3. QED
      BY <2>1, <3>2
  <2>4. /\ back \in Seq(S) /\ Len(back) = Len(q) - i
        /\ \A k \in 1 .. Len(q) - i : back[k] = q[k + i]
    <3>1. \A k \in i + 1 .. Len(q) : q[k] \in S
      BY <1>0, <2>1
    <3>2. /\ back \in Seq(S)
          /\ Len(back) = IF i + 1 <= Len(q) THEN Len(q) - (i + 1) + 1 ELSE 0
          /\ \A k \in 1 .. Len(q) - (i + 1) + 1 : back[k] = q[i + 1 + k - 1]
      BY <1>0, <2>1, <3>1, SubSeqProperties
    <3> HIDE DEF back
    <3>3. i \in Int /\ Len(q) \in Int /\ 1 <= i /\ i <= Len(q)
      BY <1>0, <2>1
    <3>4. Len(back) = IF i + 1 <= Len(q) THEN Len(q) - (i + 1) + 1 ELSE 0
      BY <3>2
    <3>5. Len(back) = Len(q) - i
      BY <3>3, <3>4
    <3>6. \A k \in 1 .. Len(q) - i : k \in 1 .. Len(q) - (i + 1) + 1 /\ i + 1 + k - 1 = k + i
      BY <3>3
    <3>7. \A k \in 1 .. Len(q) - i : back[k] = q[k + i]
      BY <3>2, <3>6
    <3>8. QED
      BY <3>2, <3>5, <3>7
  <2> HIDE DEF front, back
  <2>5. /\ Without(q, x) \in Seq(S) /\ Len(Without(q, x)) = Len(q) - 1
        /\ \A k \in 1 .. Len(q) - 1 : Without(q, x)[k] = IF k < i THEN q[k] ELSE q[k + 1]
    <3>1. /\ front \o back \in Seq(S)
          /\ Len(front \o back) = Len(front) + Len(back)
          /\ \A k \in 1 .. Len(front) + Len(back) :
               (front \o back)[k] = IF k <= Len(front) THEN front[k] ELSE back[k - Len(front)]
      BY <2>3, <2>4, ConcatProperties
    <3>2. QED
      BY <1>0, <2>1, <2>2, <2>3, <2>4, <3>1
  <2>6. QED
    BY <1>0, <2>1, <2>5
<1>3. QED
  BY <1>1, <1>2

(* No more sessions get a slot than wait, nor than there are slots. *)
LEMMA SlotsBounded ==
  ASSUME NEW H, NEW queues, NEW slots, NEW waiting, Sound(H, queues, slots, waiting)
  PROVE  /\ IsFiniteSet(Busy(slots)) /\ Cardinality(Busy(slots)) \in Nat
         /\ Slots(slots, waiting) \in Nat
         /\ Slots(slots, waiting) <= Len(waiting)
         /\ Slots(slots, waiting) + Cardinality(Busy(slots)) <= Limit
<1>1. IsFiniteSet(Busy(slots)) /\ Cardinality(Busy(slots)) \in Nat
  BY EffectsAssumption, FS_Subset, FS_CardinalityType DEF Busy
<1>2. Len(waiting) \in Nat
  BY LenProperties DEF Sound
<1>3. Free(slots) = Limit - Cardinality(Busy(slots))
  BY DEF Free, Busy
<1>4. QED
  BY <1>1, <1>2, <1>3, EffectsAssumption DEF Sound, Slots

(* The first n of a sequence are at most n. *)
LEMMA FirstCardinality ==
  ASSUME NEW q, NEW n \in Nat
  PROVE  /\ IsFiniteSet({q[k] : k \in 1 .. n})
         /\ Cardinality({q[k] : k \in 1 .. n}) <= n
<1> DEFINE T == {q[k] : k \in 1 .. n}
           f == [k \in 1 .. n |-> q[k]]
<1>1. f \in Surjection(1 .. n, T)
  BY DEF Surjection
<1>2. IsFiniteSet(1 .. n) /\ Cardinality(1 .. n) = n
  BY FS_Interval
<1> HIDE DEF f
<1>3. IsFiniteSet(T) /\ Cardinality(T) <= Cardinality(1 .. n)
  <2> HIDE DEF T
  <2>1. QED
    BY <1>1, <1>2, FS_Surjection
<1>4. QED
  BY <1>2, <1>3

(* A batch is a sequence of effects of its session. *)
LEMMA BatchSeq ==
  ASSUME NEW s \in Sessions, NEW batch \in Batches(s)
  PROVE  /\ batch \in Seq(Effects)
         /\ \A k \in 1 .. Len(batch) : SessionOf[batch[k]] = s
<1>1. PICK n \in 0 .. MaxBatch : batch \in [1 .. n -> {e \in Effects : SessionOf[e] = s}]
  BY DEF Batches
<1>2. n \in Nat
  BY EffectsAssumption
<1>3. batch \in Seq({e \in Effects : SessionOf[e] = s})
  BY <1>1, <1>2
<1>4. QED
  BY <1>3

(* The queue of a session after a transition. *)
LEMMA ReplacedSeq ==
  ASSUME NEW s \in Sessions, NEW batch \in Batches(s), NEW q \in Seq(Effects), NEW done,
         \A k \in 1 .. Len(q) : SessionOf[q[k]] = s
  PROVE  /\ Replaced(q, done, batch) \in Seq(Effects)
         /\ \A k \in 1 .. Len(Replaced(q, done, batch)) : SessionOf[Replaced(q, done, batch)[k]] = s
         /\ done = NoEffect /\ q # <<>> =>
              Replaced(q, done, batch) # <<>> /\ Head(Replaced(q, done, batch)) = Head(q)
<1> DEFINE w == Without(q, done)
<1>1. /\ w \in Seq(Effects)
      /\ \A k \in 1 .. Len(w) : \E j \in 1 .. Len(q) : w[k] = q[j]
  BY WithoutSeq
<1>2. done = NoEffect => w = q
  <2>1. NoEffect \notin Range(q)
    BY EffectsAssumption, RangeOfSeq
  <2>2. QED
    BY <2>1 DEF Without
<1> HIDE DEF w
<1>3. /\ w \o batch \in Seq(Effects)
      /\ Len(w \o batch) = Len(w) + Len(batch)
      /\ \A k \in 1 .. Len(w) + Len(batch) :
           (w \o batch)[k] = IF k <= Len(w) THEN w[k] ELSE batch[k - Len(w)]
  BY <1>1, BatchSeq, ConcatProperties
<1>4. Len(w) \in Nat /\ Len(batch) \in Nat
  BY <1>1, BatchSeq
<1>5. \A k \in 1 .. Len(w \o batch) : SessionOf[(w \o batch)[k]] = s
  <2> SUFFICES ASSUME NEW k \in 1 .. Len(w) + Len(batch) PROVE SessionOf[(w \o batch)[k]] = s
    BY <1>3
  <2>1. CASE k <= Len(w)
    <3>1. k \in 1 .. Len(w) /\ (w \o batch)[k] = w[k]
      BY <1>3, <1>4, <2>1
    <3>2. PICK j \in 1 .. Len(q) : w[k] = q[j]
      BY <1>1, <3>1
    <3>3. QED
      BY <3>1, <3>2
  <2>2. CASE k > Len(w)
    <3>1. k - Len(w) \in 1 .. Len(batch)
      BY <1>4, <2>2
    <3>2. (w \o batch)[k] = batch[k - Len(w)]
      BY <1>3, <1>4, <2>2
    <3>3. QED
      BY <3>1, <3>2, BatchSeq
  <2>3. QED
    BY <1>4, <2>1, <2>2
<1>6. ASSUME done = NoEffect, q # <<>> PROVE w \o batch # <<>> /\ Head(w \o batch) = Head(q)
  <2>1. w = q /\ Len(q) \in Nat \ {0}
    BY <1>2, <1>6, EmptySeq
  <2>2. (w \o batch)[1] = q[1] /\ Len(w \o batch) > 0
    BY <1>3, <1>4, <2>1
  <2>3. QED
    BY <1>3, <2>2
<1>7. QED
  BY <1>3, <1>5, <1>6 DEF Replaced, w

(* A transition of s keeps queues, slots and waiting sessions sound. *)
LEMMA TransitionSound ==
  ASSUME hosted \subseteq Sessions, Sound(hosted, pending, active, ready),
         NEW s \in hosted, NEW batch \in Batches(s), NEW done \in Effects \cup {NoEffect},
         done = NoEffect \/ (Current(done) /\ SessionOf[done] = s)
  PROVE  Sound(hosted, NextQueues(s, done, batch), NextSlots(s, done), NextWaiting(s, done, batch))
<1> DEFINE queues == NextQueues(s, done, batch)
           slots == NextSlots(s, done)
           waiting == NextWaiting(s, done, batch)
           new == Replaced(pending[s], done, batch)
<1>0. /\ s \in Sessions /\ pending \in [Sessions -> Seq(Effects)]
      /\ active \in [Sessions -> Effects \cup {NoEffect}]
      /\ \A k \in 1 .. Len(pending[s]) : SessionOf[pending[s][k]] = s
  BY DEF Sound, Owned
<1>1. /\ new \in Seq(Effects)
      /\ \A k \in 1 .. Len(new) : SessionOf[new[k]] = s
      /\ done = NoEffect /\ pending[s] # <<>> => new # <<>> /\ Head(new) = Head(pending[s])
  BY <1>0, ReplacedSeq
<1>2. queues = [pending EXCEPT ![s] = new]
  BY DEF NextQueues
<1>3. /\ slots \in [Sessions -> Effects \cup {NoEffect}]
      /\ \A t \in Sessions \ {s} : slots[t] = active[t]
      /\ done = NoEffect => slots = active
      /\ done # NoEffect => slots[s] = NoEffect /\ active[s] # NoEffect
  BY <1>0, EffectsAssumption DEF NextSlots, Current
<1>4. waiting = Scheduled(s, queues, slots, ready)
  BY DEF NextWaiting
<1> HIDE DEF queues, slots, waiting, new
<1>5. Owned(hosted, queues)
  BY <1>0, <1>1, <1>2 DEF Sound, Owned
<1>6. \A t \in Busy(slots) : queues[t] # <<>> /\ Head(queues[t]) = slots[t]
  BY <1>0, <1>1, <1>2, <1>3 DEF Sound, Busy
<1>7. Cardinality(Busy(slots)) <= Limit
  <2>1. Busy(slots) \subseteq Busy(active)
    BY <1>3 DEF Busy
  <2>2. IsFiniteSet(Busy(active)) /\ IsFiniteSet(Busy(slots))
    BY EffectsAssumption, FS_Subset DEF Busy
  <2>3. Cardinality(Busy(slots)) <= Cardinality(Busy(active))
    BY <2>1, <2>2, FS_Subset
  <2>4. Cardinality(Busy(slots)) \in Nat /\ Cardinality(Busy(active)) \in Nat
    BY <2>2, FS_CardinalityType
  <2>5. QED
    BY <2>3, <2>4, EffectsAssumption DEF Sound
<1>8. /\ ready \in Seq(hosted) /\ Len(ready) \in Nat
      /\ \A k \in 1 .. Len(ready) : ready[k] \in hosted /\ queues[ready[k]] # <<>> /\ slots[ready[k]] = NoEffect
  <2>1. ready \in Seq(hosted) /\ Len(ready) \in Nat
    BY DEF Sound
  <2>2. ASSUME NEW k \in 1 .. Len(ready) PROVE ready[k] \in hosted /\ queues[ready[k]] # <<>> /\ slots[ready[k]] = NoEffect
    <3>1. ready[k] \in hosted /\ pending[ready[k]] # <<>> /\ active[ready[k]] = NoEffect
      BY <2>1 DEF Sound
    <3>2. QED
      BY <3>1, <1>0, <1>1, <1>2, <1>3
  <2>3. QED
    BY <2>1, <2>2
<1>9. CASE slots[s] = NoEffect /\ queues[s] # <<>> /\ s \notin Range(ready)
  <2>1. waiting = Append(ready, s)
    BY <1>4, <1>9 DEF Scheduled
  <2>2. /\ waiting \in Seq(hosted) /\ Len(waiting) = Len(ready) + 1
        /\ waiting[Len(ready) + 1] = s
        /\ \A k \in 1 .. Len(ready) : waiting[k] = ready[k]
    BY <1>8, <2>1
  <2>3. \A k \in 1 .. Len(ready) : ready[k] # s
    BY <1>8, <1>9 DEF Range
  <2>4. \A j, k \in 1 .. Len(waiting) : waiting[j] = waiting[k] => j = k
    BY <1>8, <2>2, <2>3 DEF Sound
  <2>5. \A k \in 1 .. Len(waiting) : queues[waiting[k]] # <<>> /\ slots[waiting[k]] = NoEffect
    BY <1>8, <1>9, <2>2
  <2>6. QED
    BY <1>3, <1>5, <1>6, <1>7, <2>2, <2>4, <2>5 DEF Sound, queues, slots, waiting
<1>10. CASE ~(slots[s] = NoEffect /\ queues[s] # <<>> /\ s \notin Range(ready))
  <2>1. waiting = ready
    BY <1>4, <1>10 DEF Scheduled
  <2>2. QED
    BY <1>3, <1>5, <1>6, <1>7, <1>8, <2>1 DEF Sound, queues, slots, waiting
<1>11. QED
  BY <1>9, <1>10

(***************************************************************************)
(* A dispatch of the first n waiting sessions keeps them sound; failing is *)
(* empty or the last of them.                                              *)
(***************************************************************************)
LEMMA DispatchSound ==
  ASSUME NEW H \in SUBSET Sessions,
         NEW queues, NEW slots, NEW waiting, NEW tries, NEW n \in 0 .. Slots(slots, waiting),
         NEW failing, NEW inbox, NEW alarms,
         Sound(H, queues, slots, waiting),
         Dispatch(queues, slots, waiting, tries, n, failing, inbox, alarms)
  PROVE  Sound(H, pending', active', ready')
<1> DEFINE popped == {waiting[k] : k \in 1 .. n}
           starting == popped \ failing
<1>1. /\ pending' = queues
      /\ active' = [s \in Sessions |-> IF s \in starting THEN Head(queues[s]) ELSE slots[s]]
      /\ ready' = SubSeq(waiting, n + 1, Len(waiting))
  BY DEF Dispatch
<1>2. /\ n \in Nat /\ Len(waiting) \in Nat /\ n <= Len(waiting)
      /\ n + Cardinality(Busy(slots)) <= Limit
      /\ IsFiniteSet(Busy(slots)) /\ Cardinality(Busy(slots)) \in Nat
  BY SlotsBounded, EffectsAssumption DEF Sound
<1>3. /\ \A k \in 1 .. Len(waiting) : waiting[k] \in H /\ queues[waiting[k]] # <<>>
                                      /\ slots[waiting[k]] = NoEffect
      /\ \A j, k \in 1 .. Len(waiting) : waiting[j] = waiting[k] => j = k
      /\ waiting \in Seq(H)
      /\ queues \in [Sessions -> Seq(Effects)]
      /\ slots \in [Sessions -> Effects \cup {NoEffect}]
      /\ \A s \in Busy(slots) : queues[s] # <<>> /\ Head(queues[s]) = slots[s]
  <2>1. waiting \in Seq(H)
    BY DEF Sound
  <2>2. \A k \in 1 .. Len(waiting) : waiting[k] \in H
    BY <2>1, ElementOfSeq
  <2>3. QED
    BY <2>1, <2>2 DEF Sound, Owned
<1>4. \A s \in starting : s \in H /\ queues[s] # <<>> /\ Head(queues[s]) \in Effects
  <2>1. \A s \in popped : s \in H /\ queues[s] # <<>>
    BY <1>2, <1>3
  <2>2. QED
    BY <1>3, <2>1, HeadTailProperties
<1>5. Cardinality(popped) <= n /\ IsFiniteSet(popped)
  BY <1>2, FirstCardinality
<1>6. /\ ready' \in Seq(H)
      /\ Len(ready') = Len(waiting) - n
      /\ \A k \in 1 .. Len(waiting) - n : ready'[k] = waiting[k + n]
  <2> DEFINE tail == SubSeq(waiting, n + 1, Len(waiting))
  <2>1. /\ tail \in Seq(H)
        /\ Len(tail) = IF n + 1 <= Len(waiting) THEN Len(waiting) - (n + 1) + 1 ELSE 0
        /\ \A k \in 1 .. Len(waiting) - (n + 1) + 1 : tail[k] = waiting[n + 1 + k - 1]
    <3>1. \A k \in n + 1 .. Len(waiting) : waiting[k] \in H
      BY <1>2, <1>3
    <3>2. QED
      BY <1>2, <3>1, SubSeqProperties
  <2>2. tail = ready'
    BY <1>1
  <2> HIDE DEF tail
  <2>3. Len(tail) = Len(waiting) - n
    BY <1>2, <2>1
  <2>4. \A k \in 1 .. Len(waiting) - n : k \in 1 .. Len(waiting) - (n + 1) + 1 /\ n + 1 + k - 1 = k + n
    BY <1>2
  <2>5. \A k \in 1 .. Len(waiting) - n : tail[k] = waiting[k + n]
    BY <2>1, <2>4
  <2>6. QED
    BY <2>1, <2>2, <2>3, <2>5
<1> HIDE DEF popped
<1>7. active' \in [Sessions -> Effects \cup {NoEffect}]
  BY <1>1, <1>3, <1>4
<1>8. \A s \in Busy(active') : pending'[s] # <<>> /\ Head(pending'[s]) = active'[s]
  BY <1>1, <1>3, <1>4 DEF Busy
<1>9. Cardinality(Busy(active')) <= Limit
  <2>1. Busy(active') \subseteq Busy(slots) \cup popped
    BY <1>1 DEF Busy
  <2>2. /\ IsFiniteSet(Busy(slots) \cup popped)
        /\ Cardinality(Busy(slots) \cup popped) =
             Cardinality(Busy(slots)) + Cardinality(popped) - Cardinality(Busy(slots) \cap popped)
    BY <1>2, <1>5, FS_Union
  <2>3. /\ Cardinality(popped) \in Nat
        /\ Cardinality(Busy(slots) \cup popped) \in Nat
        /\ Cardinality(Busy(slots) \cap popped) \in Nat
    BY <1>5, <1>2, <2>2, FS_CardinalityType, FS_Intersection
  <2>4. /\ Cardinality(Busy(active')) <= Cardinality(Busy(slots) \cup popped)
        /\ Cardinality(Busy(active')) \in Nat
    BY <2>1, <2>2, FS_Subset, FS_CardinalityType
  <2>5. QED
    BY <1>2, <1>5, <2>2, <2>3, <2>4, EffectsAssumption
<1>10. \A k \in 1 .. Len(ready') : pending'[ready'[k]] # <<>> /\ active'[ready'[k]] = NoEffect
  <2> SUFFICES ASSUME NEW k \in 1 .. Len(waiting) - n
               PROVE  pending'[ready'[k]] # <<>> /\ active'[ready'[k]] = NoEffect
    BY <1>6
  <2>1. k + n \in 1 .. Len(waiting) /\ k + n \notin 1 .. n
    BY <1>2
  <2>2. ready'[k] = waiting[k + n] /\ ready'[k] \in Sessions
    BY <1>3, <1>6, <2>1
  <2>3. ready'[k] \notin popped
    BY <1>2, <1>3, <2>1, <2>2 DEF popped
  <2>4. QED
    BY <1>1, <1>3, <2>1, <2>2, <2>3
<1>11. \A j, k \in 1 .. Len(ready') : ready'[j] = ready'[k] => j = k
  <2> SUFFICES ASSUME NEW j \in 1 .. Len(waiting) - n, NEW k \in 1 .. Len(waiting) - n,
                      ready'[j] = ready'[k]
               PROVE  j = k
    BY <1>6
  <2>1. j + n \in 1 .. Len(waiting) /\ k + n \in 1 .. Len(waiting)
    BY <1>2
  <2>2. ready'[j] = waiting[j + n] /\ ready'[k] = waiting[k + n]
    BY <1>6
  <2>3. j + n = k + n
    BY <1>3, <2>1, <2>2
  <2>4. QED
    BY <1>2, <2>3
<1>12. Owned(H, pending')
  BY <1>1 DEF Sound
<1>13. QED
  BY <1>6, <1>7, <1>8, <1>9, <1>10, <1>11, <1>12 DEF Sound

-----------------------------------------------------------------------------
(* The inductive invariant *)

(* What is not a queue, a slot or a count. *)
Tasks ==
  /\ up \in BOOLEAN
  /\ faults \in 0 .. MaxFaults
  /\ hosted \in SUBSET Sessions
  /\ running \in SUBSET Effects
  /\ cancelled \in SUBSET Effects
  /\ timers \in SUBSET Timed
  /\ completions \in SUBSET Completion
  /\ requested \in [Sessions -> Seq(Effects)]
  /\ outcomes \in [Effects -> Seq(Outputs)]
  /\ refused \in SUBSET Sessions

EffectsInv ==
  /\ Ledger
  /\ Tasks
  /\ Sound(hosted, pending, active, ready)
  /\ Owned(hosted, durablePending)

(* The sets that a dispatch changes keep their types. *)
LEMMA DispatchTasks ==
  ASSUME NEW H \in SUBSET Sessions,
         NEW queues, NEW slots, NEW waiting, NEW tries, NEW n \in 0 .. Slots(slots, waiting),
         NEW failing \in SUBSET Sessions, NEW inbox \in SUBSET Completion, NEW alarms \in SUBSET Timed,
         Sound(H, queues, slots, waiting),
         running \in SUBSET Effects, refused \in SUBSET Sessions,
         Dispatch(queues, slots, waiting, tries, n, failing, inbox, alarms)
  PROVE  /\ running' \in SUBSET Effects
         /\ timers' \in SUBSET Timed
         /\ completions' \in SUBSET Completion
         /\ refused' \in SUBSET Sessions
<1> DEFINE starting == {waiting[k] : k \in 1 .. n} \ failing
           executed == Executed(queues, tries, starting)
<1>1. /\ running' = running \cup executed
      /\ timers' = alarms \cup Deadlines(executed, tries)
      /\ completions' = inbox \cup {[effect |-> e, output |-> "unknown"] :
                                      e \in Fronts(queues, starting) \ executed}
      /\ refused' = (refused \ Range(waiting)) \cup failing
  BY DEF Dispatch
<1>2. n <= Len(waiting) /\ n \in Nat /\ Len(waiting) \in Nat
  BY SlotsBounded DEF Sound
<1>3. \A s \in starting : Head(queues[s]) \in Effects
  <2> SUFFICES ASSUME NEW k \in 1 .. n PROVE Head(queues[waiting[k]]) \in Effects
    OBVIOUS
  <2>1. k \in 1 .. Len(waiting)
    BY <1>2
  <2>2. waiting[k] \in Sessions /\ queues[waiting[k]] # <<>>
    BY <2>1, ElementOfSeq DEF Sound
  <2>3. queues[waiting[k]] \in Seq(Effects)
    BY <2>2 DEF Sound, Owned
  <2>4. QED
    BY <2>2, <2>3, HeadTailProperties
<1> HIDE DEF starting
<1>4. Fronts(queues, starting) \subseteq Effects /\ executed \subseteq Effects
  BY <1>3 DEF Fronts, Executed
<1>5. QED
  BY <1>1, <1>4 DEF Completion, Deadlines

(* A leader that dies leaves empty queues. *)
LEMMA LostSound ==
  ASSUME NEW H \in SUBSET Sessions, LoseMemory, Tasks
  PROVE  /\ Sound(H, pending', active', ready')
         /\ up' \in BOOLEAN /\ faults' \in 0 .. MaxFaults
         /\ running' \in SUBSET Effects /\ cancelled' \in SUBSET Effects
         /\ timers' \in SUBSET Timed /\ completions' \in SUBSET Completion
         /\ refused' \in SUBSET Sessions
<1>1. Busy(active') = {}
  BY DEF LoseMemory, Busy
<1>2. Cardinality(Busy(active')) = 0
  BY <1>1, FS_EmptySet
<1>3. Sound(H, pending', active', ready')
  BY <1>1, <1>2, EffectsAssumption DEF LoseMemory, Sound, Owned
<1>4. faults' \in 0 .. MaxFaults
  BY EffectsAssumption DEF LoseMemory, Tasks
<1>5. QED
  BY <1>3, <1>4 DEF LoseMemory

(* The record of a transition keeps the queues on disk owned. *)
LEMMA JournaledOwned ==
  ASSUME Tasks, Owned(hosted, durablePending),
         NEW s \in hosted, NEW batch \in Batches(s), NEW done, Journaled(s, done, batch)
  PROVE  Owned(hosted, durablePending') /\ requested' \in [Sessions -> Seq(Effects)]
<1>1. s \in Sessions
  BY DEF Tasks
<1>2. /\ Replaced(durablePending[s], done, batch) \in Seq(Effects)
      /\ \A k \in 1 .. Len(Replaced(durablePending[s], done, batch)) :
           SessionOf[Replaced(durablePending[s], done, batch)[k]] = s
  BY <1>1, ReplacedSeq DEF Owned
<1>3. Replayed(durablePending[s], done, batch) = Replaced(durablePending[s], done, batch)
  BY DEF Replayed, Replaced
<1>4. durablePending' = [durablePending EXCEPT ![s] = Replaced(durablePending[s], done, batch)]
  BY <1>3 DEF Journaled
<1> DEFINE new == Replaced(durablePending[s], done, batch)
<1> HIDE DEF new
<1>5. Owned(hosted, durablePending')
  <2>1. durablePending' = [durablePending EXCEPT ![s] = new] /\ new \in Seq(Effects)
        /\ \A k \in 1 .. Len(new) : SessionOf[new[k]] = s
    BY <1>2, <1>4 DEF new
  <2>2. QED
    BY <1>1, <2>1 DEF Owned
<1>6. requested[s] \o batch \in Seq(Effects)
  BY <1>1, BatchSeq, ConcatProperties DEF Tasks
<1>7. QED
  BY <1>5, <1>6 DEF Journaled, Tasks

(* A transition that is applied keeps the invariant, up to the ledger. *)
LEMMA AppliedKeepsInv ==
  ASSUME EffectsInv, NEW s \in hosted, NEW batch \in Batches(s), NEW done \in Effects \cup {NoEffect},
         done = NoEffect \/ (Current(done) /\ SessionOf[done] = s),
         NEW n \in 0 .. Width(s, done, batch), NEW failing \in SUBSET Sessions,
         NEW inbox \in SUBSET Completion, NEW alarms \in SUBSET Timed,
         Applied(s, done, batch, n, failing, inbox, alarms), hosted' = hosted
  PROVE  /\ Sound(hosted', pending', active', ready')
         /\ Owned(hosted', durablePending')
         /\ running' \in SUBSET Effects /\ timers' \in SUBSET Timed
         /\ completions' \in SUBSET Completion /\ refused' \in SUBSET Sessions
         /\ requested' \in [Sessions -> Seq(Effects)]
<1> DEFINE queues == NextQueues(s, done, batch)
           slots == NextSlots(s, done)
           waiting == NextWaiting(s, done, batch)
<1>1. hosted \in SUBSET Sessions /\ Tasks
  BY DEF EffectsInv, Tasks
<1>2. Sound(hosted, queues, slots, waiting)
  BY <1>1, TransitionSound DEF EffectsInv
<1>3. n \in 0 .. Slots(slots, waiting)
  BY DEF Width
<1>4. Dispatch(queues, slots, waiting, attempts, n, failing, inbox, alarms)
  BY DEF Applied
<1>5. Owned(hosted, durablePending') /\ requested' \in [Sessions -> Seq(Effects)]
  BY <1>1, JournaledOwned DEF Applied, EffectsInv
<1> HIDE DEF queues, slots, waiting
<1>6. Sound(hosted, pending', active', ready')
  BY <1>1, <1>2, <1>3, <1>4, DispatchSound
<1>7. /\ running' \in SUBSET Effects /\ timers' \in SUBSET Timed
      /\ completions' \in SUBSET Completion /\ refused' \in SUBSET Sessions
  BY <1>1, <1>2, <1>3, <1>4, DispatchTasks DEF Tasks
<1>8. QED
  BY <1>5, <1>6, <1>7

(* The number of sessions a handler dispatches. *)
LEMMA WidthInRange ==
  ASSUME EffectsInv, NEW s \in hosted, NEW batch \in Batches(s), NEW done \in Effects \cup {NoEffect},
         done = NoEffect \/ (Current(done) /\ SessionOf[done] = s)
  PROVE  Width(s, done, batch) \in 0 .. Width(s, done, batch)
<1>1. Sound(hosted, NextQueues(s, done, batch), NextSlots(s, done), NextWaiting(s, done, batch))
  BY TransitionSound DEF EffectsInv, Tasks
<1>2. Width(s, done, batch) \in Nat
  BY <1>1, SlotsBounded DEF Width
<1>3. QED
  BY <1>2

(* A leader that dies within a transition. *)
LEMMA CutShortKeepsInv ==
  ASSUME EffectsInv, NEW s \in hosted, NEW batch \in Batches(s), NEW done, NEW n,
         CutShort(s, done, batch, n), outcomes' \in [Effects -> Seq(Outputs)], Ledger'
  PROVE  EffectsInv'
<1>1. Tasks /\ Owned(hosted, durablePending) /\ hosted \in SUBSET Sessions /\ hosted' = hosted
  BY DEF EffectsInv, Tasks, CutShort
<1>2. Owned(hosted, durablePending') /\ requested' \in [Sessions -> Seq(Effects)]
  BY <1>1, JournaledOwned DEF CutShort
<1>3. QED
  BY <1>1, <1>2, LostSound DEF EffectsInv, Tasks, CutShort

(* An outcome that is reduced. *)
LEMMA OutcomeTyped ==
  ASSUME Tasks, NEW e \in Effects, NEW output \in Outputs,
         outcomes' = [outcomes EXCEPT ![e] = Append(@, output)]
  PROVE  outcomes' \in [Effects -> Seq(Outputs)]
<1>1. Append(outcomes[e], output) \in Seq(Outputs)
  BY DEF Tasks
<1>2. QED
  BY <1>1 DEF Tasks

(* The session of the current effect is hosted. *)
LEMMA CurrentHosted ==
  ASSUME EffectsInv, NEW e \in Effects, Current(e)
  PROVE  SessionOf[e] \in hosted
  BY EffectsAssumption DEF EffectsInv, Sound, Owned, Current

LEMMA ResolveKeepsInv ==
  ASSUME EffectsInv, NEW e \in Effects, NEW output \in Outputs, NEW batch \in Batches(SessionOf[e]),
         NEW inbox \in SUBSET Completion, NEW alarms \in SUBSET Timed,
         Resolve(e, output, batch, inbox, alarms), cancelled' \in SUBSET Effects, Ledger'
  PROVE  EffectsInv'
<1>1. SessionOf[e] \in hosted /\ Current(e)
  BY CurrentHosted DEF Resolve
<1>2. outcomes' \in [Effects -> Seq(Outputs)]
  BY OutcomeTyped DEF Resolve, EffectsInv
<1>3. /\ Sound(hosted', pending', active', ready')
      /\ Owned(hosted', durablePending')
      /\ running' \in SUBSET Effects /\ timers' \in SUBSET Timed
      /\ completions' \in SUBSET Completion /\ refused' \in SUBSET Sessions
      /\ requested' \in [Sessions -> Seq(Effects)]
  <2>1. Width(SessionOf[e], e, batch) \in 0 .. Width(SessionOf[e], e, batch)
    BY <1>1, WidthInRange
  <2>2. Applied(SessionOf[e], e, batch, Width(SessionOf[e], e, batch), {}, inbox, alarms) /\ hosted' = hosted
    BY DEF Resolve
  <2> DEFINE w == Width(SessionOf[e], e, batch)
  <2> HIDE DEF w
  <2>3. w \in 0 .. Width(SessionOf[e], e, batch) /\ Applied(SessionOf[e], e, batch, w, {}, inbox, alarms)
    BY <2>1, <2>2 DEF w
  <2>4. QED
    BY <1>1, <2>2, <2>3, AppliedKeepsInv
<1>4. QED
  BY <1>2, <1>3 DEF EffectsInv, Tasks, Resolve

(* A session that stops leaves the ready queue and frees its slot. *)
LEMMA StopKeepsInv ==
  ASSUME EffectsInv, NEW s \in Sessions, StopSession(s), Ledger'
  PROVE  EffectsInv'
<1>1. /\ s \in hosted /\ hosted' = hosted \ {s} /\ hosted' \in SUBSET Sessions
      /\ pending' = [pending EXCEPT ![s] = <<>>]
      /\ active' = [active EXCEPT ![s] = NoEffect]
      /\ ready' = Without(ready, s)
      /\ durablePending' = [durablePending EXCEPT ![s] = <<>>]
  BY DEF StopSession, Unready, EffectsInv, Tasks
<1>2. Sound(hosted, pending, active, ready) /\ Owned(hosted, durablePending)
  BY DEF EffectsInv
<1>3. Owned(hosted', pending') /\ Owned(hosted', durablePending')
  <2>1. <<>> \in Seq(Effects) /\ Len(<<>>) = 0
    OBVIOUS
  <2>2. Owned(hosted', pending')
    BY <1>1, <1>2, <2>1 DEF Sound, Owned
  <2>3. Owned(hosted', durablePending')
    BY <1>1, <1>2, <2>1 DEF Owned
  <2>4. QED
    BY <2>2, <2>3
<1>4. /\ ready \in Seq(hosted)
      /\ \A j, k \in 1 .. Len(ready) : ready[j] = ready[k] => j = k
      /\ \A k \in 1 .. Len(ready) : pending[ready[k]] # <<>> /\ active[ready[k]] = NoEffect
  BY <1>2 DEF Sound
<1>5. /\ Without(ready, s) \in Seq(hosted)
      /\ \A k \in 1 .. Len(Without(ready, s)) : \E j \in 1 .. Len(ready) : Without(ready, s)[k] = ready[j]
      /\ \A k \in 1 .. Len(Without(ready, s)) : Without(ready, s)[k] # s
      /\ \A j, k \in 1 .. Len(Without(ready, s)) : Without(ready, s)[j] = Without(ready, s)[k] => j = k
  BY <1>4, WithoutSeq
<1> DEFINE w == Without(ready, s)
<1> HIDE DEF w
<1>6. /\ w \in Seq(hosted) /\ ready' = w
      /\ \A k \in 1 .. Len(w) : \E j \in 1 .. Len(ready) : w[k] = ready[j]
      /\ \A k \in 1 .. Len(w) : w[k] # s
      /\ \A j, k \in 1 .. Len(w) : w[j] = w[k] => j = k
  BY <1>1, <1>5 DEF w
<1>7. w \in Seq(hosted')
  <2>1. \A k \in 1 .. Len(w) : w[k] \in hosted'
    BY <1>1, <1>6, ElementOfSeq
  <2>2. QED
    BY <1>6, <2>1, LenProperties
<1>8. \A k \in 1 .. Len(w) : pending'[w[k]] # <<>> /\ active'[w[k]] = NoEffect
  <2> SUFFICES ASSUME NEW k \in 1 .. Len(w)
               PROVE  pending'[w[k]] # <<>> /\ active'[w[k]] = NoEffect
    OBVIOUS
  <2>1. w[k] \in Sessions /\ w[k] # s
    BY <1>1, <1>6, <1>7, ElementOfSeq
  <2>2. pending[w[k]] # <<>> /\ active[w[k]] = NoEffect
    BY <1>4, <1>6
  <2>3. QED
    BY <1>1, <1>2, <2>1, <2>2 DEF Sound, Owned
<1>9. /\ active' \in [Sessions -> Effects \cup {NoEffect}]
      /\ \A t \in Busy(active') : pending'[t] # <<>> /\ Head(pending'[t]) = active'[t]
      /\ Busy(active') \subseteq Busy(active)
  <2>1. active' \in [Sessions -> Effects \cup {NoEffect}]
    BY <1>1, <1>2 DEF Sound
  <2>2. \A t \in Sessions : active'[t] # NoEffect => t # s /\ active'[t] = active[t] /\ pending'[t] = pending[t]
    BY <1>1, <1>2 DEF Sound, Owned
  <2>3. Busy(active') \subseteq Busy(active)
    BY <2>2 DEF Busy
  <2>4. \A t \in Busy(active') : pending'[t] # <<>> /\ Head(pending'[t]) = active'[t]
    BY <1>2, <2>2, <2>3 DEF Sound, Busy
  <2>5. QED
    BY <2>1, <2>3, <2>4
<1>10. Cardinality(Busy(active')) <= Limit
  <2>1. IsFiniteSet(Busy(active)) /\ Cardinality(Busy(active)) \in Nat
    BY <1>2, SlotsBounded
  <2>2. Cardinality(Busy(active')) <= Cardinality(Busy(active)) /\ Cardinality(Busy(active')) \in Nat
    BY <1>9, <2>1, FS_Subset, FS_CardinalityType
  <2>3. QED
    BY <1>2, <2>1, <2>2, EffectsAssumption DEF Sound
<1>11. Sound(hosted', pending', active', ready')
  BY <1>3, <1>6, <1>7, <1>8, <1>9, <1>10 DEF Sound
<1>12. QED
  <2>1. /\ active[s] \in Effects \cup {NoEffect}
        /\ UNCHANGED <<up, faults, running, timers, completions, requested, outcomes>>
        /\ cancelled' = cancelled \cup ({active[s]} \ {NoEffect})
        /\ refused' = refused \ {s}
    BY <1>2 DEF StopSession, Cancel, Sound
  <2>2. Tasks'
    BY <1>1, <2>1 DEF EffectsInv, Tasks
  <2>3. QED
    BY <1>3, <1>11, <2>2 DEF EffectsInv

(* A checkpoint replaces queues on disk by those in memory. *)
LEMMA CheckpointOwned ==
  ASSUME EffectsInv, NEW S \in SUBSET Sessions, Checkpoint(S)
  PROVE  Owned(hosted, durablePending')
<1>1. Owned(hosted, pending) /\ Owned(hosted, durablePending)
  BY DEF EffectsInv, Sound
<1>2. durablePending' = [s \in Sessions |-> IF s \in S THEN pending[s] ELSE durablePending[s]]
  BY DEF Checkpoint
<1>3. QED
  BY <1>1, <1>2 DEF Owned

(* A new leader starts from the queues on disk, with every slot free. *)
LEMMA RecoveredSound ==
  ASSUME EffectsInv, NEW order \in SetToSeqs(Recovered)
  PROVE  Sound(hosted, durablePending, Idle, order)
<1> DEFINE D == 1 .. Cardinality(Recovered)
<1>1. /\ order \in [D -> Recovered]
      /\ \A i, j \in D : i # j => order[i] # order[j]
  BY DEF SetToSeqs
<1>2. Cardinality(Recovered) \in Nat
  <2>1. Recovered \subseteq Sessions
    BY DEF Recovered, EffectsInv, Tasks
  <2>2. QED
    BY <2>1, EffectsAssumption, FS_Subset, FS_CardinalityType
<1>3. order \in Seq(Recovered) /\ Len(order) = Cardinality(Recovered)
  BY <1>1, <1>2
<1>4. order \in Seq(hosted)
  BY <1>3 DEF Recovered, Seq
<1>5. \A k \in 1 .. Len(order) : order[k] \in Sessions /\ durablePending[order[k]] # <<>>
  BY <1>1, <1>3 DEF Recovered, EffectsInv, Tasks
<1>6. Busy(Idle) = {} /\ Cardinality({}) = 0
  BY FS_EmptySet DEF Busy, Idle
<1>7. Owned(hosted, durablePending)
  BY DEF EffectsInv
<1>8. Idle \in [Sessions -> Effects \cup {NoEffect}] /\ \A s \in Sessions : Idle[s] = NoEffect
  BY DEF Idle
<1>9. \A j, k \in 1 .. Len(order) : order[j] = order[k] => j = k
  BY <1>1, <1>3
<1>10. Cardinality(Busy(Idle)) <= Limit
  BY <1>6, EffectsAssumption
<1> HIDE DEF D
<1>11. QED
  BY <1>4, <1>5, <1>6, <1>7, <1>8, <1>9, <1>10 DEF Sound

(* The initial state, and the steps of every action. *)
LEMMA EffectsInvInit == Init => EffectsInv
<1> SUFFICES ASSUME Init PROVE EffectsInv
  OBVIOUS
<1>1. Ledger
  BY EffectsAssumption DEF Init, Ledger, RunsAtMostOnce
<1>2. Tasks
  BY EffectsAssumption DEF Init, Tasks
<1>3. Busy(active) = {} /\ Cardinality({}) = 0
  BY FS_EmptySet DEF Init, Busy
<1>4. Owned(hosted, pending) /\ Owned(hosted, durablePending)
  BY DEF Init, Owned
<1>5. active \in [Sessions -> Effects \cup {NoEffect}] /\ ready = <<>> /\ ready \in Seq(hosted)
  BY DEF Init
<1>6. Cardinality(Busy(active)) <= Limit
  BY <1>3, EffectsAssumption
<1>7. Sound(hosted, pending, active, ready)
  BY <1>3, <1>4, <1>5, <1>6 DEF Sound
<1>8. QED
  BY <1>1, <1>2, <1>4, <1>7 DEF EffectsInv

LEMMA EffectsInvInductive == EffectsInv /\ [Next]_vars => EffectsInv'
<1> SUFFICES ASSUME EffectsInv, [Next]_vars PROVE EffectsInv'
  OBVIOUS
<1>0. Ledger' /\ hosted \in SUBSET Sessions /\ Tasks
  BY LedgerInductive DEF EffectsInv, Tasks
<1>1. ASSUME NEW s \in Sessions, NEW batch \in Batches(s), Transition(s, batch) PROVE EffectsInv'
  <2>1. s \in hosted /\ hosted' = hosted
    BY <1>1 DEF Transition
  <2> DEFINE n == Width(s, NoEffect, batch)
  <2>2. n \in 0 .. Width(s, NoEffect, batch)
    BY <2>1, WidthInRange
  <2>3. Applied(s, NoEffect, batch, n, {}, completions, timers)
    BY <1>1 DEF Transition
  <2> HIDE DEF n
  <2>4. /\ Sound(hosted', pending', active', ready') /\ Owned(hosted', durablePending')
        /\ running' \in SUBSET Effects /\ timers' \in SUBSET Timed
        /\ completions' \in SUBSET Completion /\ refused' \in SUBSET Sessions
        /\ requested' \in [Sessions -> Seq(Effects)]
    BY <1>0, <2>1, <2>2, <2>3, AppliedKeepsInv DEF Tasks
  <2>5. QED
    BY <1>0, <1>1, <2>4 DEF EffectsInv, Tasks, Transition
<1>2. ASSUME NEW s \in Sessions, NEW batch \in Batches(s), NEW n, CutTransition(s, batch, n)
      PROVE  EffectsInv'
  BY <1>0, <1>2, CutShortKeepsInv DEF CutTransition, Tasks
<1>3. ASSUME NEW s \in Sessions, NEW batch \in Batches(s), NEW n \in 1 .. Width(s, NoEffect, batch),
             RefusedTransition(s, batch, n)
      PROVE  EffectsInv'
  <2> DEFINE t == NextWaiting(s, NoEffect, batch)[n]
  <2>1. s \in hosted /\ hosted' = hosted
    BY <1>3 DEF RefusedTransition
  <2>2. Sound(hosted, NextQueues(s, NoEffect, batch), NextSlots(s, NoEffect), NextWaiting(s, NoEffect, batch))
    BY <1>0, <2>1, TransitionSound DEF EffectsInv
  <2>3. /\ NextWaiting(s, NoEffect, batch) \in Seq(hosted)
        /\ Width(s, NoEffect, batch) \in Nat
        /\ Width(s, NoEffect, batch) <= Len(NextWaiting(s, NoEffect, batch))
    BY <2>2, SlotsBounded DEF Sound, Width
  <2>4. n \in 1 .. Len(NextWaiting(s, NoEffect, batch)) /\ n \in 0 .. Width(s, NoEffect, batch)
    BY <2>3, LenProperties
  <2>5. t \in Sessions
    BY <1>0, <2>3, <2>4, ElementOfSeq
  <2>6. Applied(s, NoEffect, batch, n, {t}, completions, timers)
    BY <1>3 DEF RefusedTransition
  <2> HIDE DEF t
  <2>7. /\ Sound(hosted', pending', active', ready') /\ Owned(hosted', durablePending')
        /\ running' \in SUBSET Effects /\ timers' \in SUBSET Timed
        /\ completions' \in SUBSET Completion /\ refused' \in SUBSET Sessions
        /\ requested' \in [Sessions -> Seq(Effects)]
    BY <1>0, <2>1, <2>4, <2>5, <2>6, AppliedKeepsInv DEF Tasks
  <2>8. faults' \in 0 .. MaxFaults
    BY <1>0, <1>3, EffectsAssumption DEF RefusedTransition, Tasks
  <2>9. QED
    BY <1>0, <1>3, <2>7, <2>8 DEF EffectsInv, Tasks, RefusedTransition
<1>4. ASSUME NEW e \in Effects, Finish(e) PROVE EffectsInv'
  BY <1>0, <1>4 DEF EffectsInv, Tasks, Finish, queueVars, durableVars, historyVars, Completion
<1>5. ASSUME NEW m \in completions, NEW batch \in Batches(SessionOf[m.effect]), EffectCompleted(m, batch)
      PROVE  EffectsInv'
  <2>1. m.effect \in Effects /\ m.output \in Outputs /\ completions \ {m} \in SUBSET Completion
    BY <1>0 DEF Tasks, Completion, Outputs
  <2>2. Resolve(m.effect, m.output, batch, completions \ {m}, timers) /\ cancelled' \in SUBSET Effects
    BY <1>0, <1>5 DEF EffectCompleted, Tasks
  <2>3. timers \in SUBSET Timed
    BY <1>0 DEF Tasks
  <2>4. QED
    BY <1>0, <2>1, <2>2, <2>3, ResolveKeepsInv
<1>6. ASSUME NEW m \in completions, NEW batch \in Batches(SessionOf[m.effect]), NEW n, CutCompleted(m, batch, n)
      PROVE  EffectsInv'
  <2>1. m.effect \in Effects /\ m.output \in Outputs
    BY <1>0 DEF Tasks, Completion, Outputs
  <2>2. SessionOf[m.effect] \in hosted
    BY <1>6, <2>1, CurrentHosted DEF CutCompleted, CutResolve
  <2>3. outcomes' \in [Effects -> Seq(Outputs)]
    BY <1>0, <1>6, <2>1, OutcomeTyped DEF CutCompleted, CutResolve
  <2>4. QED
    BY <1>0, <1>6, <2>2, <2>3, CutShortKeepsInv DEF CutCompleted, CutResolve
<1>7. ASSUME NEW m \in completions, IgnoreCompletion(m) PROVE EffectsInv'
  BY <1>0, <1>7 DEF EffectsInv, Tasks, IgnoreCompletion, queueVars, durableVars, historyVars
<1>8. ASSUME NEW e \in timers, NEW batch \in Batches(SessionOf[e]), EffectTimedOut(e, batch)
      PROVE  EffectsInv'
  <2>1. e \in Effects /\ "timed_out" \in Outputs /\ timers \ {e} \in SUBSET Timed
    BY <1>0, EffectsAssumption DEF Tasks, Outputs
  <2>2. Resolve(e, "timed_out", batch, completions, timers \ {e}) /\ cancelled' \in SUBSET Effects
    BY <1>0, <1>8, <2>1 DEF EffectTimedOut, Cancel, Tasks
  <2>3. completions \in SUBSET Completion
    BY <1>0 DEF Tasks
  <2>4. QED
    BY <1>0, <2>1, <2>2, <2>3, ResolveKeepsInv
<1>9. ASSUME NEW e \in timers, NEW batch \in Batches(SessionOf[e]), NEW n, CutTimedOut(e, batch, n)
      PROVE  EffectsInv'
  <2>1. e \in Effects /\ "timed_out" \in Outputs
    BY <1>0, EffectsAssumption DEF Tasks, Outputs
  <2>2. SessionOf[e] \in hosted
    BY <1>9, <2>1, CurrentHosted DEF CutTimedOut, CutResolve
  <2>3. outcomes' \in [Effects -> Seq(Outputs)]
    BY <1>0, <1>9, <2>1, OutcomeTyped DEF CutTimedOut, CutResolve
  <2>4. QED
    BY <1>0, <1>9, <2>2, <2>3, CutShortKeepsInv DEF CutTimedOut, CutResolve
<1>10. ASSUME NEW e \in timers, IgnoreTimeout(e) PROVE EffectsInv'
  BY <1>0, <1>10 DEF EffectsInv, Tasks, IgnoreTimeout, queueVars, durableVars, historyVars
<1>11. ASSUME NEW s \in Sessions, StopSession(s) PROVE EffectsInv'
  BY <1>0, <1>11, StopKeepsInv
<1>12. ASSUME NEW s \in Sessions, RenameSession(s) PROVE EffectsInv'
  <2>1. Owned(hosted, durablePending')
    BY <1>12, CheckpointOwned DEF RenameSession
  <2>2. QED
    BY <1>0, <1>12, <2>1 DEF EffectsInv, Tasks, RenameSession, queueVars, taskVars, historyVars
<1>13. ASSUME NEW saved \in SUBSET Sessions, Die(saved) PROVE EffectsInv'
  <2>1. Owned(hosted, durablePending') /\ hosted' = hosted
    BY <1>13, CheckpointOwned DEF Die
  <2>2. QED
    BY <1>0, <1>13, <2>1, LostSound DEF EffectsInv, Tasks, Die
<1>14. ASSUME NEW order \in SetToSeqs(Recovered), Restart(order) PROVE EffectsInv'
  <2>1. Sound(hosted, durablePending, Idle, order)
    BY RecoveredSound
  <2> DEFINE n == Slots(Idle, order)
  <2>2. n \in 0 .. Slots(Idle, order)
    BY <2>1, SlotsBounded
  <2>3. Dispatch(durablePending, Idle, order, durableAttempts, n, {}, {}, {})
    BY <1>14 DEF Restart
  <2> HIDE DEF n
  <2>4. Sound(hosted, pending', active', ready')
    BY <1>0, <2>1, <2>2, <2>3, DispatchSound
  <2>5. /\ running' \in SUBSET Effects /\ timers' \in SUBSET Timed
        /\ completions' \in SUBSET Completion /\ refused' \in SUBSET Sessions
    <3>1. running \in SUBSET Effects /\ refused \in SUBSET Sessions
      BY <1>0 DEF Tasks
    <3> DEFINE none == {}
    <3>2. none \in SUBSET Sessions /\ none \in SUBSET Completion /\ none \in SUBSET Timed
      OBVIOUS
    <3>3. Dispatch(durablePending, Idle, order, durableAttempts, n, none, none, none)
      BY <2>3
    <3> HIDE DEF none
    <3>4. QED
      BY <1>0, <2>1, <2>2, <3>1, <3>2, <3>3, DispatchTasks
  <2>6. up' = TRUE /\ UNCHANGED <<hosted, cancelled, durablePending, faults, requested, outcomes>>
    BY <1>14 DEF Restart
  <2>7. Tasks'
    BY <1>0, <2>5, <2>6 DEF Tasks
  <2>8. Sound(hosted', pending', active', ready') /\ Owned(hosted', durablePending')
    BY <2>4, <2>6 DEF EffectsInv
  <2>9. QED
    BY <1>0, <2>7, <2>8 DEF EffectsInv
<1>15. ASSUME NEW order \in SetToSeqs(Recovered), NEW n, CutRestart(order, n) PROVE EffectsInv'
  BY <1>0, <1>15, LostSound DEF EffectsInv, Tasks, CutRestart
<1>16. CASE UNCHANGED vars
  BY <1>0, <1>16 DEF EffectsInv, Tasks, vars, queueVars, taskVars, durableVars, historyVars
<1>17. ASSUME NEW s \in Sessions, StopFails(s) PROVE EffectsInv'
  <2>1. /\ s \in Sessions /\ active[s] # NoEffect /\ faults < MaxFaults /\ faults' = faults + 1
        /\ cancelled' = cancelled \cup {active[s]}
        /\ UNCHANGED <<up, hosted, running, timers, completions, requested, outcomes, refused>>
        /\ UNCHANGED <<pending, attempts, active, ready, durablePending, durableAttempts, started>>
    BY <1>17 DEF StopFails, Cancel, queueVars, durableVars
  <2>2. active[s] \in Effects
    BY <1>0, <2>1 DEF EffectsInv, Sound
  <2>3. cancelled' \in SUBSET Effects
    BY <1>0, <2>1, <2>2 DEF Tasks
  <2>4. faults' \in 0 .. MaxFaults
    BY <1>0, <2>1, EffectsAssumption DEF Tasks
  <2>5. Tasks'
    BY <1>0, <2>1, <2>3, <2>4 DEF Tasks
  <2>6. Sound(hosted', pending', active', ready') /\ Owned(hosted', durablePending')
    BY <2>1 DEF EffectsInv
  <2>7. QED
    BY <1>0, <2>5, <2>6 DEF EffectsInv
<1>18. QED
  BY <1>1, <1>2, <1>3, <1>4, <1>5, <1>6, <1>7, <1>8, <1>9, <1>10, <1>11, <1>12, <1>13, <1>14, <1>15, <1>16,
     <1>17 DEF Next

LEMMA EffectsInvHolds == Spec => []EffectsInv
  BY EffectsInvInit, EffectsInvInductive, PTL DEF Spec

(***************************************************************************)
(* The host keeps its types: in particular only hosted sessions wait for a *)
(* slot, and every queue and history is one of effects.                    *)
(***************************************************************************)
THEOREM EffectsTypeCorrect == Spec => []EffectsTypeOK
<1>1. EffectsInv => EffectsTypeOK
  BY DEF EffectsInv, EffectsTypeOK, Ledger, Tasks, Sound, Owned
<1>2. QED
  BY <1>1, EffectsInvHolds, PTL

(***************************************************************************)
(* No more sessions than the limit ever hold a slot: dispatch_effects      *)
(* counts the busy sessions as the loop of the code does, whichever        *)
(* handler, restart or refused append comes before.                        *)
(***************************************************************************)
THEOREM SlotsWithinLimit == Spec => []WithinLimit
<1>1. EffectsInv => WithinLimit
  BY DEF EffectsInv, Sound, Busy, WithinLimit
<1>2. QED
  BY <1>1, EffectsInvHolds, PTL

-----------------------------------------------------------------------------
(* Queues are what is left of the requests *)

(***************************************************************************)
(* A queue is the end of the requests of its session, and the effects      *)
(* without an outcome are those in the queue.                              *)
(***************************************************************************)
InOrder(queue, reqs, outs) ==
  /\ Len(queue) <= Len(reqs)
  /\ \A k \in 1 .. Len(queue) : queue[k] = reqs[Len(reqs) - Len(queue) + k]
  /\ \A j \in 1 .. Len(reqs) : outs[reqs[j]] = <<>> <=> j > Len(reqs) - Len(queue)

(* A batch is new: none of its effects was requested before. *)
LEMMA BatchFresh ==
  ASSUME NEW s \in Sessions, NEW batch \in Batches(s)
  PROVE  /\ batch \in Seq(Effects)
         /\ \A k \in 1 .. Len(batch) : SessionOf[batch[k]] = s /\ batch[k] \notin Requested(s)
         /\ \A j, k \in 1 .. Len(batch) : batch[j] = batch[k] => j = k
<1>1. PICK n \in 0 .. MaxBatch : batch \in [1 .. n -> {e \in Effects : SessionOf[e] = s} \ Requested(s)]
  BY DEF Batches
<1>2. IsInjective(batch)
  BY DEF Batches
<1>3. n \in Nat
  BY EffectsAssumption
<1>4. DOMAIN batch = 1 .. n /\ Len(batch) = n
  BY <1>1, <1>3
<1>5. \A j, k \in 1 .. n : batch[j] = batch[k] => j = k
  BY <1>2, <1>4 DEF IsInjective
<1>6. \A k \in 1 .. n : batch[k] \in {e \in Effects : SessionOf[e] = s} \ Requested(s)
  BY <1>1
<1>7. QED
  BY <1>4, <1>5, <1>6, BatchSeq

(* The effects of a queue in order are requested and have no outcome. *)
LEMMA QueueIsRequested ==
  ASSUME NEW q \in Seq(Effects), NEW reqs \in Seq(Effects), NEW outs, InOrder(q, reqs, outs)
  PROVE  \A k \in 1 .. Len(q) :
           /\ Len(reqs) - Len(q) + k \in 1 .. Len(reqs)
           /\ q[k] = reqs[Len(reqs) - Len(q) + k]
           /\ outs[q[k]] = <<>>
<1>1. Len(q) \in Nat /\ Len(reqs) \in Nat /\ Len(q) <= Len(reqs)
  BY LenProperties DEF InOrder
<1> SUFFICES ASSUME NEW k \in 1 .. Len(q)
             PROVE  /\ Len(reqs) - Len(q) + k \in 1 .. Len(reqs)
                    /\ q[k] = reqs[Len(reqs) - Len(q) + k]
                    /\ outs[q[k]] = <<>>
  OBVIOUS
<1> DEFINE j == Len(reqs) - Len(q) + k
<1>2. j \in 1 .. Len(reqs) /\ j > Len(reqs) - Len(q)
  BY <1>1
<1>3. q[k] = reqs[j]
  BY DEF InOrder
<1> HIDE DEF j
<1>4. outs[reqs[j]] = <<>>
  BY <1>2 DEF InOrder
<1>5. QED
  BY <1>2, <1>3, <1>4 DEF j

(* New effects join a queue and the requests alike. *)
LEMMA GrownInOrder ==
  ASSUME NEW q \in Seq(Effects), NEW reqs \in Seq(Effects), NEW batch \in Seq(Effects), NEW outs,
         InOrder(q, reqs, outs), \A k \in 1 .. Len(batch) : outs[batch[k]] = <<>>
  PROVE  InOrder(q \o batch, reqs \o batch, outs)
<1> DEFINE a == Len(q)
           b == Len(reqs)
           c == Len(batch)
<1>1. a \in Nat /\ b \in Nat /\ c \in Nat /\ a <= b
  BY LenProperties DEF InOrder
<1>2. /\ Len(q \o batch) = a + c
      /\ \A k \in 1 .. a + c : (q \o batch)[k] = IF k <= a THEN q[k] ELSE batch[k - a]
  BY ConcatProperties
<1>3. /\ Len(reqs \o batch) = b + c
      /\ \A k \in 1 .. b + c : (reqs \o batch)[k] = IF k <= b THEN reqs[k] ELSE batch[k - b]
  BY ConcatProperties
<1>4. /\ \A k \in 1 .. a : q[k] = reqs[b - a + k]
      /\ \A j \in 1 .. b : outs[reqs[j]] = <<>> <=> j > b - a
      /\ \A k \in 1 .. c : outs[batch[k]] = <<>>
  BY DEF InOrder
<1> DEFINE longer == q \o batch
           all == reqs \o batch
<1> HIDE DEF a, b, c, longer, all
<1>5. ASSUME NEW k \in 1 .. a + c PROVE longer[k] = all[b - a + k]
  <2>1. b - a + k \in 1 .. b + c
    BY <1>1
  <2>2. CASE k <= a
    <3>1. b - a + k <= b /\ k \in 1 .. a
      BY <1>1, <2>2
    <3>2. longer[k] = q[k] /\ all[b - a + k] = reqs[b - a + k]
      BY <1>2, <1>3, <2>1, <2>2, <3>1 DEF longer, all
    <3>3. QED
      BY <1>4, <3>1, <3>2
  <2>3. CASE k > a
    <3>1. ~(b - a + k <= b) /\ b - a + k - b = k - a
      BY <1>1, <2>3
    <3>2. longer[k] = batch[k - a]
      BY <1>1, <1>2, <2>3 DEF longer
    <3> DEFINE m == b - a + k
    <3> HIDE DEF m
    <3>3. m \in 1 .. b + c /\ ~(m <= b) /\ m - b = k - a
      BY <1>1, <2>3 DEF m
    <3>4. all[m] = batch[k - a]
      BY <1>3, <3>3 DEF all
    <3>5. QED
      BY <3>2, <3>4 DEF m
  <2>4. QED
    BY <1>1, <2>2, <2>3
<1>6. ASSUME NEW j \in 1 .. b + c PROVE outs[all[j]] = <<>> <=> j > b - a
  <2>1. CASE j <= b
    <3>1. j \in 1 .. b /\ all[j] = reqs[j]
      BY <1>1, <1>3, <2>1 DEF all
    <3>2. QED
      BY <1>4, <3>1
  <2>2. CASE j > b
    <3>1. j - b \in 1 .. c /\ all[j] = batch[j - b] /\ j > b - a
      BY <1>1, <1>3, <2>2 DEF all
    <3>2. QED
      BY <1>4, <3>1
  <2>3. QED
    BY <1>1, <2>1, <2>2
<1>7. /\ Len(longer) = a + c /\ Len(all) = b + c /\ a + c <= b + c
      /\ (b + c) - (a + c) = b - a
  BY <1>1, <1>2, <1>3 DEF longer, all
<1>8. InOrder(longer, all, outs)
  BY <1>5, <1>6, <1>7 DEF InOrder
<1>9. QED
  BY <1>8 DEF longer, all

(* Without the first effect, a queue is its tail. *)
LEMMA WithoutHead ==
  ASSUME NEW q \in Seq(Effects), q # <<>>
  PROVE  /\ Without(q, Head(q)) \in Seq(Effects)
         /\ Len(Without(q, Head(q))) = Len(q) - 1
         /\ (\A j, k \in 1 .. Len(q) : q[j] = q[k] => j = k) =>
              \A k \in 1 .. Len(q) - 1 : Without(q, Head(q))[k] = q[k + 1]
<1> DEFINE x == Head(q)
           i == CHOOSE j \in DOMAIN q : q[j] = x
           front == SubSeq(q, 1, i - 1)
           back == SubSeq(q, i + 1, Len(q))
<1>1. /\ Len(q) \in Nat \ {0} /\ DOMAIN q = 1 .. Len(q) /\ x = q[1]
      /\ \A k \in 1 .. Len(q) : q[k] \in Effects
  BY EmptySeq, LenProperties, ElementOfSeq
<1>2. x \in Range(q) /\ i \in 1 .. Len(q) /\ q[i] = x
  BY <1>1 DEF Range
<1>3. Without(q, x) = front \o back
  BY <1>2 DEF Without
<1> HIDE DEF i, x
<1>4. /\ front \in Seq(Effects)
      /\ Len(front) = IF 1 <= i - 1 THEN (i - 1) - 1 + 1 ELSE 0
  <2>1. \A k \in 1 .. i - 1 : q[k] \in Effects
    BY <1>1, <1>2
  <2>2. QED
    BY <1>2, <2>1, SubSeqProperties
<1>5. /\ back \in Seq(Effects)
      /\ Len(back) = IF i + 1 <= Len(q) THEN Len(q) - (i + 1) + 1 ELSE 0
      /\ \A k \in 1 .. Len(q) - (i + 1) + 1 : back[k] = q[i + 1 + k - 1]
  <2>1. \A k \in i + 1 .. Len(q) : q[k] \in Effects
    BY <1>1, <1>2
  <2>2. QED
    BY <1>1, <1>2, <2>1, SubSeqProperties
<1> HIDE DEF front, back
<1>6. /\ front \o back \in Seq(Effects)
      /\ Len(front \o back) = Len(front) + Len(back)
      /\ \A k \in 1 .. Len(front) + Len(back) :
           (front \o back)[k] = IF k <= Len(front) THEN front[k] ELSE back[k - Len(front)]
  BY <1>4, <1>5, ConcatProperties
<1>7. Len(front) = i - 1 /\ Len(back) = Len(q) - i
  <2>1. i \in Int /\ Len(q) \in Int /\ 1 <= i /\ i <= Len(q)
    BY <1>1, <1>2
  <2>2. Len(front) = i - 1
    BY <1>4, <2>1
  <2>3. Len(back) = IF i + 1 <= Len(q) THEN Len(q) - (i + 1) + 1 ELSE 0
    BY <1>5
  <2>4. Len(back) = Len(q) - i
    BY <2>1, <2>3
  <2>5. QED
    BY <2>2, <2>4
<1>8. ASSUME \A j, k \in 1 .. Len(q) : q[j] = q[k] => j = k
      PROVE  \A k \in 1 .. Len(q) - 1 : (front \o back)[k] = q[k + 1]
  <2>1. i = 1
    BY <1>1, <1>2, <1>8
  <2>2. Len(front) = 0 /\ Len(back) = Len(q) - 1
    BY <1>1, <1>7, <2>1
  <2> SUFFICES ASSUME NEW k \in 1 .. Len(q) - 1 PROVE (front \o back)[k] = q[k + 1]
    OBVIOUS
  <2>3. k \in 1 .. Len(front) + Len(back) /\ ~(k <= Len(front)) /\ k - Len(front) = k
    BY <1>1, <2>2
  <2>4. (front \o back)[k] = back[k]
    BY <1>6, <2>3
  <2>5. k \in 1 .. Len(q) - (i + 1) + 1 /\ i + 1 + k - 1 = k + 1
    BY <1>1, <2>1
  <2>6. QED
    BY <1>5, <2>4, <2>5
<1>9. Len(front \o back) = Len(q) - 1
  BY <1>1, <1>2, <1>6, <1>7
<1>10. QED
  BY <1>3, <1>6, <1>8, <1>9 DEF x

(* The first effect of a queue gets its outcome and leaves. *)
LEMMA DoneInOrder ==
  ASSUME NEW q \in Seq(Effects), NEW reqs \in Seq(Effects), NEW outs \in [Effects -> Seq(Outputs)],
         NEW output \in Outputs, InOrder(q, reqs, outs), q # <<>>,
         \A j, k \in 1 .. Len(reqs) : reqs[j] = reqs[k] => j = k
  PROVE  InOrder(Without(q, Head(q)), reqs, [outs EXCEPT ![Head(q)] = Append(@, output)])
<1> DEFINE a == Len(q)
           b == Len(reqs)
           d == b - a
           w == Without(q, Head(q))
           new == [outs EXCEPT ![Head(q)] = Append(@, output)]
<1>1. /\ a \in Nat \ {0} /\ b \in Nat /\ a <= b /\ Head(q) = q[1]
      /\ \A k \in 1 .. a : q[k] \in Effects
      /\ \A j \in 1 .. b : reqs[j] \in Effects
  BY EmptySeq, LenProperties, ElementOfSeq DEF InOrder
<1>2. /\ \A k \in 1 .. a : q[k] = reqs[d + k]
      /\ \A j \in 1 .. b : outs[reqs[j]] = <<>> <=> j > d
  BY DEF InOrder
<1>3. \A j, k \in 1 .. a : q[j] = q[k] => j = k
  <2> SUFFICES ASSUME NEW j \in 1 .. a, NEW k \in 1 .. a, q[j] = q[k] PROVE j = k
    OBVIOUS
  <2> HIDE DEF a, b
  <2>1. d + j \in 1 .. b /\ d + k \in 1 .. b /\ d \in Int
    BY <1>1
  <2>2. reqs[d + j] = reqs[d + k]
    BY <1>2
  <2> HIDE DEF d
  <2>3. d + j = d + k
    BY <2>1, <2>2 DEF b
  <2>4. QED
    BY <2>1, <2>3
<1>4. Len(w) = a - 1 /\ \A k \in 1 .. a - 1 : w[k] = q[k + 1]
  BY <1>3, WithoutHead
<1>5. d + 1 \in 1 .. b /\ Head(q) = reqs[d + 1] /\ d \in Nat
  BY <1>1, <1>2
<1>6. new[reqs[d + 1]] = Append(outs[reqs[d + 1]], output) /\ \A e \in Effects \ {reqs[d + 1]} : new[e] = outs[e]
  BY <1>1, <1>5
<1>7. new[reqs[d + 1]] # <<>>
  <2>1. outs[reqs[d + 1]] \in Seq(Outputs)
    BY <1>1, <1>5
  <2>2. Len(Append(outs[reqs[d + 1]], output)) = Len(outs[reqs[d + 1]]) + 1 /\ Len(outs[reqs[d + 1]]) \in Nat
    BY <2>1
  <2>3. QED
    BY <1>6, <2>2
<1> HIDE DEF a, b, d, w, new
<1>8. b - (a - 1) = d + 1 /\ a - 1 <= b
  BY <1>1 DEF d
<1>9. ASSUME NEW k \in 1 .. a - 1 PROVE w[k] = reqs[d + 1 + k]
  <2>1. k + 1 \in 1 .. a /\ d + (k + 1) = d + 1 + k
    BY <1>1, <1>5
  <2>2. q[k + 1] = reqs[d + (k + 1)]
    BY <1>2, <2>1
  <2>3. QED
    BY <1>4, <2>1, <2>2
<1>10. ASSUME NEW j \in 1 .. b PROVE new[reqs[j]] = <<>> <=> j > d + 1
  <2>1. CASE j = d + 1
    BY <1>5, <1>7, <2>1
  <2>2. CASE j # d + 1
    <3>1. reqs[j] # reqs[d + 1]
      BY <1>5, <2>2 DEF b
    <3>2. new[reqs[j]] = outs[reqs[j]]
      BY <1>1, <1>6, <3>1
    <3>3. j > d <=> j > d + 1
      BY <1>5, <2>2
    <3>4. QED
      BY <1>2, <3>2, <3>3
  <2>3. QED
    BY <2>1, <2>2
<1>11. InOrder(w, reqs, new)
  <2>1. Len(w) = a - 1 /\ Len(reqs) = b
    BY <1>4 DEF b
  <2>2. Len(reqs) - Len(w) = d + 1
    BY <1>8, <2>1
  <2>3. QED
    BY <1>8, <1>9, <1>10, <2>1, <2>2 DEF InOrder
<1>12. QED
  BY <1>11 DEF w, new

(***************************************************************************)
(* Every effect is requested once, by its session, before its outcome.     *)
(***************************************************************************)
Requests ==
  /\ \A s \in Sessions : \A k \in 1 .. Len(requested[s]) : SessionOf[requested[s][k]] = s
  /\ \A s \in Sessions : \A j, k \in 1 .. Len(requested[s]) : requested[s][j] = requested[s][k] => j = k
  /\ \A e \in Effects : outcomes[e] # <<>> => e \in Requested(SessionOf[e])

(***************************************************************************)
(* The disk has the queues in order, and those in memory agree with it.    *)
(***************************************************************************)
OnDisk ==
  /\ \A s \in hosted : InOrder(durablePending[s], requested[s], outcomes)
  /\ up => \A s \in hosted : durablePending[s] = pending[s]

(* The effect that done completes, or none, with the outcome it gets. *)
Completes(s, done, output) ==
  \/ done = NoEffect /\ outcomes' = outcomes
  \/ /\ done \in Effects /\ SessionOf[done] = s /\ Current(done)
     /\ outcomes' = [outcomes EXCEPT ![done] = Append(@, output)]

(* The current effect is the first of its queue, and has no outcome. *)
LEMMA CurrentIsFirst ==
  ASSUME EffectsInv, OnDisk, up, NEW s \in hosted, NEW e \in Effects, SessionOf[e] = s, Current(e)
  PROVE  /\ pending[s] # <<>> /\ e = Head(pending[s]) /\ e = pending[s][1] /\ active[s] = e
         /\ outcomes[e] = <<>> /\ e \in Requested(s)
<1>1. /\ pending[s] # <<>> /\ e = Head(pending[s]) /\ active[s] = e
      /\ pending[s] \in Seq(Effects) /\ requested[s] \in Seq(Effects)
      /\ InOrder(pending[s], requested[s], outcomes)
  BY DEF Current, EffectsInv, Sound, Owned, OnDisk, Tasks
<1>2. 1 \in 1 .. Len(pending[s]) /\ e = pending[s][1]
  BY <1>1, EmptySeq
<1>3. /\ Len(requested[s]) - Len(pending[s]) + 1 \in 1 .. Len(requested[s])
      /\ e = requested[s][Len(requested[s]) - Len(pending[s]) + 1]
      /\ outcomes[e] = <<>>
  <2> DEFINE q == pending[s]
             r == requested[s]
  <2>1. q \in Seq(Effects) /\ r \in Seq(Effects) /\ InOrder(q, r, outcomes) /\ 1 \in 1 .. Len(q) /\ e = q[1]
    BY <1>1, <1>2
  <2> HIDE DEF q, r
  <2>2. Len(r) - Len(q) + 1 \in 1 .. Len(r) /\ q[1] = r[Len(r) - Len(q) + 1] /\ outcomes[q[1]] = <<>>
    BY <2>1, QueueIsRequested
  <2>3. QED
    BY <2>1, <2>2 DEF q, r
<1>4. DOMAIN requested[s] = 1 .. Len(requested[s])
  BY <1>1, LenProperties
<1>5. e \in Requested(s)
  BY <1>3, <1>4 DEF Requested, Range
<1>6. QED
  BY <1>1, <1>2, <1>3, <1>5

(* A transition keeps the requests distinct. *)
LEMMA JournaledRequests ==
  ASSUME EffectsInv, Requests, OnDisk, up, NEW s \in hosted, NEW batch \in Batches(s),
         NEW done, NEW output \in Outputs, Completes(s, done, output), Journaled(s, done, batch)
  PROVE  /\ Requests'
         /\ \A t \in Sessions : Requested(t) \subseteq Requested(t)'
         /\ outcomes' \in [Effects -> Seq(Outputs)]
<1> DEFINE old == requested[s]
           all == old \o batch
<1>1. /\ s \in Sessions /\ requested \in [Sessions -> Seq(Effects)] /\ old \in Seq(Effects)
      /\ outcomes \in [Effects -> Seq(Outputs)]
  BY DEF EffectsInv, Tasks
<1>2. /\ batch \in Seq(Effects)
      /\ \A k \in 1 .. Len(batch) : SessionOf[batch[k]] = s /\ batch[k] \notin Requested(s)
      /\ \A j, k \in 1 .. Len(batch) : batch[j] = batch[k] => j = k
  BY <1>1, BatchFresh
<1>3. /\ Len(old) \in Nat /\ Len(batch) \in Nat
      /\ all \in Seq(Effects) /\ Len(all) = Len(old) + Len(batch)
      /\ \A k \in 1 .. Len(old) + Len(batch) : all[k] = IF k <= Len(old) THEN old[k] ELSE batch[k - Len(old)]
  BY <1>1, <1>2, LenProperties, ConcatProperties
<1>4. /\ \A k \in 1 .. Len(old) : SessionOf[old[k]] = s /\ old[k] \in Requested(s)
      /\ \A j, k \in 1 .. Len(old) : old[j] = old[k] => j = k
  <2>1. DOMAIN old = 1 .. Len(old)
    BY <1>1, LenProperties
  <2>2. QED
    BY <1>1, <2>1 DEF Requests, Requested, Range
<1>5. requested' = [requested EXCEPT ![s] = all]
  BY DEF Journaled
<1> HIDE DEF old, all
<1>6. \A k \in 1 .. Len(all) :
        \/ k \in 1 .. Len(old) /\ all[k] = old[k]
        \/ k - Len(old) \in 1 .. Len(batch) /\ all[k] = batch[k - Len(old)]
  BY <1>3
<1>7. \A k \in 1 .. Len(all) : SessionOf[all[k]] = s
  BY <1>2, <1>4, <1>6
<1>8. \A j, k \in 1 .. Len(all) : all[j] = all[k] => j = k
  <2> SUFFICES ASSUME NEW j \in 1 .. Len(all), NEW k \in 1 .. Len(all), all[j] = all[k] PROVE j = k
    OBVIOUS
  <2>1. CASE j \in 1 .. Len(old) /\ all[j] = old[j] /\ k \in 1 .. Len(old) /\ all[k] = old[k]
    BY <1>4, <2>1
  <2>2. CASE /\ j - Len(old) \in 1 .. Len(batch) /\ all[j] = batch[j - Len(old)]
             /\ k - Len(old) \in 1 .. Len(batch) /\ all[k] = batch[k - Len(old)]
    <3>1. j - Len(old) = k - Len(old)
      BY <1>2, <2>2
    <3>2. QED
      BY <1>3, <3>1
  <2>3. QED
    BY <1>2, <1>4, <1>6, <2>1, <2>2
<1>9. Requested(s)' = Requested(s) \cup {batch[k] : k \in 1 .. Len(batch)}
  <2>1. requested'[s] = all /\ DOMAIN all = 1 .. Len(all) /\ DOMAIN old = 1 .. Len(old) /\ DOMAIN batch = 1 .. Len(batch)
    BY <1>1, <1>2, <1>3, <1>5, LenProperties
  <2>2. Requested(s)' = {all[k] : k \in 1 .. Len(all)} /\ Requested(s) = {old[k] : k \in 1 .. Len(old)}
    BY <2>1 DEF Requested, Range, old
  <2>3. \A k \in 1 .. Len(old) : k \in 1 .. Len(all) /\ all[k] = old[k]
    BY <1>3
  <2>4. \A k \in 1 .. Len(batch) : k + Len(old) \in 1 .. Len(all) /\ all[k + Len(old)] = batch[k]
    <3> SUFFICES ASSUME NEW k \in 1 .. Len(batch)
                 PROVE  k + Len(old) \in 1 .. Len(all) /\ all[k + Len(old)] = batch[k]
      OBVIOUS
    <3> DEFINE m == k + Len(old)
    <3> HIDE DEF m
    <3>1. m \in 1 .. Len(all) /\ ~(m <= Len(old)) /\ m - Len(old) = k
      BY <1>3 DEF m
    <3>2. all[m] = batch[k]
      BY <1>3, <3>1
    <3>3. QED
      BY <3>1, <3>2 DEF m
  <2>5. \A k \in 1 .. Len(batch) : \E m \in 1 .. Len(all) : all[m] = batch[k]
    BY <2>4
  <2>6. \A k \in 1 .. Len(all) : (\E m \in 1 .. Len(old) : all[k] = old[m]) \/ \E m \in 1 .. Len(batch) : all[k] = batch[m]
    BY <1>6
  <2>7. {all[k] : k \in 1 .. Len(all)} = {old[k] : k \in 1 .. Len(old)} \cup {batch[k] : k \in 1 .. Len(batch)}
    <3>1. ASSUME NEW k \in 1 .. Len(all)
          PROVE  all[k] \in {old[m] : m \in 1 .. Len(old)} \cup {batch[m] : m \in 1 .. Len(batch)}
      BY <2>6
    <3>2. ASSUME NEW k \in 1 .. Len(old) PROVE old[k] \in {all[m] : m \in 1 .. Len(all)}
      BY <2>3
    <3>3. ASSUME NEW k \in 1 .. Len(batch) PROVE batch[k] \in {all[m] : m \in 1 .. Len(all)}
      BY <2>5
    <3>4. QED
      BY <3>1, <3>2, <3>3
  <2>8. QED
    BY <2>2, <2>7
<1>10. \A t \in Sessions \ {s} : requested'[t] = requested[t] /\ Requested(t)' = Requested(t)
  BY <1>1, <1>5 DEF Requested
<1>11. \A t \in Sessions : Requested(t) \subseteq Requested(t)'
  BY <1>9, <1>10
<1>12. /\ outcomes' \in [Effects -> Seq(Outputs)]
       /\ \A e \in Effects : outcomes'[e] # <<>> => outcomes[e] # <<>> \/ e \in Requested(SessionOf[e])
  <2>1. CASE done = NoEffect /\ outcomes' = outcomes
    BY <1>1, <2>1
  <2>2. CASE /\ done \in Effects /\ SessionOf[done] = s /\ Current(done)
             /\ outcomes' = [outcomes EXCEPT ![done] = Append(@, output)]
    <3>1. done \in Requested(s)
      BY <2>2, CurrentIsFirst
    <3>2. Append(outcomes[done], output) \in Seq(Outputs)
      BY <1>1, <2>2
    <3>3. QED
      BY <1>1, <2>2, <3>1, <3>2
  <2>3. QED
    BY <2>1, <2>2 DEF Completes
<1>13. \A e \in Effects : SessionOf[e] \in Sessions
  BY EffectsAssumption
<1>14. \A e \in Effects : outcomes'[e] # <<>> => e \in Requested(SessionOf[e])'
  BY <1>11, <1>12, <1>13 DEF Requests
<1>15. requested'[s] = all
  BY <1>1, <1>5
<1>16. Requests'
  BY <1>7, <1>8, <1>10, <1>14, <1>15 DEF Requests
<1>17. QED
  BY <1>11, <1>12, <1>16

(* A transition keeps the queues in order, on disk and in memory. *)
LEMMA JournaledInOrder ==
  ASSUME EffectsInv, Requests, OnDisk, up, NEW s \in hosted, NEW batch \in Batches(s),
         NEW done, NEW output \in Outputs, Completes(s, done, output), Journaled(s, done, batch)
  PROVE  /\ \A t \in hosted : InOrder(durablePending'[t], requested'[t], outcomes')
         /\ \A t \in hosted : durablePending'[t] = NextQueues(s, done, batch)[t]
<1> DEFINE q == pending[s]
           r == requested[s]
           w == Without(q, done)
<1>1. /\ hosted \subseteq Sessions /\ s \in Sessions /\ requested \in [Sessions -> Seq(Effects)]
      /\ outcomes \in [Effects -> Seq(Outputs)]
      /\ pending \in [Sessions -> Seq(Effects)] /\ durablePending \in [Sessions -> Seq(Effects)]
      /\ \A t \in hosted : durablePending[t] = pending[t] /\ InOrder(pending[t], requested[t], outcomes)
  BY DEF EffectsInv, Sound, Owned, Tasks, OnDisk
<1>2. /\ q \in Seq(Effects) /\ r \in Seq(Effects) /\ InOrder(q, r, outcomes) /\ durablePending[s] = q
      /\ \A j, k \in 1 .. Len(r) : r[j] = r[k] => j = k
  BY <1>1 DEF Requests
<1>3. /\ batch \in Seq(Effects)
      /\ \A k \in 1 .. Len(batch) : batch[k] \in Effects /\ SessionOf[batch[k]] = s /\ batch[k] \notin Requested(s)
  BY <1>1, BatchFresh, ElementOfSeq
<1>4. \A k \in 1 .. Len(batch) : outcomes[batch[k]] = <<>>
  BY <1>3 DEF Requests
<1> HIDE DEF q, r
<1>5. w \in Seq(Effects) /\ InOrder(w, r, outcomes') /\ \A k \in 1 .. Len(batch) : outcomes'[batch[k]] = <<>>
  <2>1. CASE done = NoEffect /\ outcomes' = outcomes
    <3>1. done \notin Range(q)
      BY <1>2, <2>1, EffectsAssumption, RangeOfSeq
    <3>2. w = q
      BY <3>1 DEF Without
    <3>3. QED
      BY <1>2, <1>4, <2>1, <3>2
  <2>2. CASE /\ done \in Effects /\ SessionOf[done] = s /\ Current(done)
             /\ outcomes' = [outcomes EXCEPT ![done] = Append(@, output)]
    <3>1. q # <<>> /\ done = Head(q) /\ done \in Requested(s)
      BY <2>2, CurrentIsFirst DEF q
    <3>2. w \in Seq(Effects)
      BY <1>2, <3>1, WithoutHead
    <3>3. InOrder(Without(q, Head(q)), r, [outcomes EXCEPT ![Head(q)] = Append(@, output)])
      BY <1>1, <1>2, <3>1, DoneInOrder
    <3>4. \A k \in 1 .. Len(batch) : batch[k] # done
      BY <1>3, <3>1
    <3>5. QED
      BY <1>1, <1>3, <1>4, <2>2, <3>1, <3>2, <3>3, <3>4
  <2>3. QED
    BY <2>1, <2>2 DEF Completes
<1>6. InOrder(w \o batch, r \o batch, outcomes')
  <2> HIDE DEF w
  <2>1. QED
    BY <1>2, <1>3, <1>5, GrownInOrder
<1>7. /\ durablePending' = [durablePending EXCEPT ![s] = w \o batch]
      /\ NextQueues(s, done, batch) = [pending EXCEPT ![s] = w \o batch]
      /\ requested' = [requested EXCEPT ![s] = r \o batch]
  BY <1>2 DEF Journaled, NextQueues, Replayed, Replaced, q, r
<1> HIDE DEF w
<1>8. \A t \in hosted : durablePending'[t] = NextQueues(s, done, batch)[t]
  BY <1>1, <1>7
<1>9. ASSUME NEW t \in hosted \ {s}
      PROVE  InOrder(durablePending'[t], requested'[t], outcomes')
  <2>1. durablePending'[t] = pending[t] /\ requested'[t] = requested[t] /\ requested[t] \in Seq(Effects)
    BY <1>1, <1>7
  <2>2. \A j \in 1 .. Len(requested[t]) : SessionOf[requested[t][j]] = t /\ requested[t][j] \in Effects
    BY <1>1, ElementOfSeq DEF Requests
  <2>3. \A j \in 1 .. Len(requested[t]) : outcomes'[requested[t][j]] = outcomes[requested[t][j]]
    <3>1. CASE done = NoEffect /\ outcomes' = outcomes
      BY <3>1
    <3>2. CASE SessionOf[done] = s /\ outcomes' = [outcomes EXCEPT ![done] = Append(@, output)]
      BY <1>1, <2>2, <3>2
    <3>3. QED
      BY <3>1, <3>2 DEF Completes
  <2>4. QED
    BY <1>1, <2>1, <2>3 DEF InOrder
<1>10. durablePending'[s] = w \o batch /\ requested'[s] = r \o batch
  BY <1>1, <1>7
<1>11. QED
  BY <1>6, <1>8, <1>9, <1>10

-----------------------------------------------------------------------------
(* Tasks, answers and sessions that wait *)

(***************************************************************************)
(* What runs was started, and holds the slot of its session or has been    *)
(* cancelled.  What is answered does not run, and an effect that runs or   *)
(* is answered holds the slot for as long as it is in its queue.           *)
(***************************************************************************)
Tracked(queues, slots, run, inbox, alarms, starts, stopped) ==
  /\ \A e \in run :
       /\ starts[e] > 0
       /\ slots[SessionOf[e]] = e \/ e \in stopped
       /\ e \in Range(queues[SessionOf[e]]) => slots[SessionOf[e]] = e
  /\ \A m \in inbox :
       /\ m.effect \notin run
       /\ m.effect \in Range(queues[SessionOf[m.effect]]) => slots[SessionOf[m.effect]] = m.effect
       /\ IF m.output = "unknown" THEN m.effect \in AtMostOnce ELSE starts[m.effect] > 0
  /\ \A e \in alarms : starts[e] > 0

(***************************************************************************)
(* An idle session with effects waits, or the disk refused its attempt.    *)
(***************************************************************************)
Covered(H, queues, slots, waiting, without) ==
  \A s \in H : (slots[s] = NoEffect /\ queues[s] # <<>>) <=> (s \in Range(waiting) \cup without)

(* The front of a queue is an effect of its session, which is in the queue. *)
LEMMA FrontOwned ==
  ASSUME NEW H, NEW queues, Owned(H, queues), NEW s \in Sessions, queues[s] # <<>>
  PROVE  /\ Head(queues[s]) \in Effects /\ Head(queues[s]) # NoEffect
         /\ SessionOf[Head(queues[s])] = s
         /\ Head(queues[s]) \in Range(queues[s])
<1>1. queues[s] \in Seq(Effects) /\ \A k \in 1 .. Len(queues[s]) : SessionOf[queues[s][k]] = s
  BY DEF Owned
<1>2. /\ Len(queues[s]) \in Nat \ {0} /\ Head(queues[s]) = queues[s][1] /\ Head(queues[s]) \in Effects
      /\ DOMAIN queues[s] = 1 .. Len(queues[s])
  BY <1>1, EmptySeq, LenProperties, HeadTailProperties
<1>3. QED
  BY <1>1, <1>2, EffectsAssumption DEF Range

(* The sessions that wait have effects and are idle. *)
LEMMA WaitingIdle ==
  ASSUME NEW H \in SUBSET Sessions, NEW queues, NEW slots, NEW waiting,
         Sound(H, queues, slots, waiting)
  PROVE  /\ Len(waiting) \in Nat /\ DOMAIN waiting = 1 .. Len(waiting)
         /\ \A k \in 1 .. Len(waiting) :
              /\ waiting[k] \in H /\ waiting[k] \in Sessions
              /\ queues[waiting[k]] # <<>> /\ slots[waiting[k]] = NoEffect
<1>1. waiting \in Seq(H)
  BY DEF Sound
<1>2. \A k \in 1 .. Len(waiting) : waiting[k] \in H
  BY <1>1, ElementOfSeq
<1>3. QED
  BY <1>1, <1>2, LenProperties DEF Sound

(* A dispatch starts effects that neither run nor are answered. *)
LEMMA DispatchTracked ==
  ASSUME NEW H \in SUBSET Sessions,
         NEW queues, NEW slots, NEW waiting, NEW tries, NEW n \in 0 .. Slots(slots, waiting),
         NEW failing, NEW inbox \in SUBSET Completion, NEW alarms \in SUBSET Effects, NEW stopped,
         Sound(H, queues, slots, waiting), running \in SUBSET Effects, started \in [Effects -> Nat],
         Tracked(queues, slots, running, inbox, alarms, started, stopped),
         Dispatch(queues, slots, waiting, tries, n, failing, inbox, alarms)
  PROVE  Tracked(pending', active', running', completions', timers', started', stopped)
<1> DEFINE starting == {waiting[k] : k \in 1 .. n} \ failing
           executed == Executed(queues, tries, starting)
           fronts == Fronts(queues, starting)
<1>1. /\ pending' = queues
      /\ active' = [s \in Sessions |-> IF s \in starting THEN Head(queues[s]) ELSE slots[s]]
      /\ running' = running \cup executed
      /\ timers' = alarms \cup Deadlines(executed, tries)
      /\ completions' = inbox \cup {[effect |-> e, output |-> "unknown"] : e \in fronts \ executed}
      /\ started' = [e \in Effects |-> IF e \in executed THEN started[e] + 1 ELSE started[e]]
  BY DEF Dispatch, Attempted
<1>2. \A s \in starting : s \in Sessions /\ queues[s] # <<>> /\ slots[s] = NoEffect
  <2>1. n \in Nat /\ n <= Len(waiting) /\ Len(waiting) \in Nat
    BY SlotsBounded, WaitingIdle
  <2>2. \A k \in 1 .. Len(waiting) :
              /\ waiting[k] \in H /\ waiting[k] \in Sessions
              /\ queues[waiting[k]] # <<>> /\ slots[waiting[k]] = NoEffect
    <3>1. H \in SUBSET Sessions /\ Sound(H, queues, slots, waiting)
      OBVIOUS
    <3>2. QED
      BY ONLY <3>1, WaitingIdle
  <2>3. \A k \in 1 .. n : k \in 1 .. Len(waiting)
    BY <2>1
  <2>4. QED
    BY <2>2, <2>3
<1>3. executed \subseteq fronts /\ \A e \in fronts \ executed : e \in AtMostOnce
  BY DEF Executed, MayHaveRun
<1>4. \A e \in fronts : \E s \in starting : e = Head(queues[s])
  BY DEF Fronts
<1> HIDE DEF starting, executed, fronts
<1>5. ASSUME NEW e \in fronts
      PROVE  /\ e \in Effects /\ SessionOf[e] \in starting /\ e = Head(queues[SessionOf[e]])
             /\ e \in Range(queues[SessionOf[e]]) /\ slots[SessionOf[e]] # e
  <2>1. PICK s \in starting : e = Head(queues[s])
    BY <1>4
  <2>2. Owned(H, queues) /\ s \in Sessions /\ queues[s] # <<>> /\ slots[s] = NoEffect
    BY <1>2 DEF Sound
  <2>3. e \in Effects /\ e # NoEffect /\ SessionOf[e] = s /\ e \in Range(queues[s])
    BY <2>1, <2>2, FrontOwned
  <2>4. QED
    BY <2>1, <2>2, <2>3
<1>6. ASSUME NEW e \in fronts PROVE e \notin running /\ \A m \in inbox : m.effect # e
  <2>1. e \notin running
    BY <1>5 DEF Tracked
  <2>2. ASSUME NEW m \in inbox, m.effect = e PROVE FALSE
    <3>1. m.effect \in Range(queues[SessionOf[m.effect]]) => slots[SessionOf[m.effect]] = m.effect
      BY DEF Tracked
    <3>2. QED
      BY <1>5, <2>2, <3>1
  <2>3. QED
    BY <2>1, <2>2
<1>7. \A e \in Effects : SessionOf[e] \in Sessions
  BY EffectsAssumption
<1>8. ASSUME NEW e \in Effects
      PROVE  /\ e \in fronts => active'[SessionOf[e]] = e
             /\ slots[SessionOf[e]] = e => active'[SessionOf[e]] = e
  <2>1. e # NoEffect /\ SessionOf[e] \in Sessions
    BY <1>7, EffectsAssumption
  <2>2. e \in fronts => active'[SessionOf[e]] = e
    BY <1>1, <1>5, <2>1
  <2>3. slots[SessionOf[e]] = e => SessionOf[e] \notin starting
    BY <1>2, <2>1
  <2>4. QED
    BY <1>1, <2>1, <2>2, <2>3
<1>9. \A e \in Effects : started'[e] \in Nat /\ started'[e] >= started[e] /\ (e \in executed => started'[e] > 0)
  BY <1>1
<1>10. ASSUME NEW e \in running'
       PROVE  /\ started'[e] > 0
              /\ active'[SessionOf[e]] = e \/ e \in stopped
              /\ e \in Range(pending'[SessionOf[e]]) => active'[SessionOf[e]] = e
  <2>1. CASE e \in executed
    BY <1>3, <1>5, <1>8, <1>9, <2>1
  <2>2. CASE e \in running
    <3>1. /\ started[e] > 0 /\ (slots[SessionOf[e]] = e \/ e \in stopped)
          /\ e \in Range(queues[SessionOf[e]]) => slots[SessionOf[e]] = e
      BY <2>2 DEF Tracked
    <3>2. e \in Effects /\ started[e] \in Nat
      BY <2>2
    <3>3. QED
      BY <1>1, <1>8, <1>9, <3>1, <3>2
  <2>3. QED
    BY <1>1, <2>1, <2>2
<1>11. ASSUME NEW m \in completions'
       PROVE  /\ m.effect \notin running'
              /\ m.effect \in Range(pending'[SessionOf[m.effect]]) => active'[SessionOf[m.effect]] = m.effect
              /\ IF m.output = "unknown" THEN m.effect \in AtMostOnce ELSE started'[m.effect] > 0
  <2>1. CASE m \in inbox
    <3>1. /\ m.effect \notin running
          /\ m.effect \in Range(queues[SessionOf[m.effect]]) => slots[SessionOf[m.effect]] = m.effect
          /\ IF m.output = "unknown" THEN m.effect \in AtMostOnce ELSE started[m.effect] > 0
      BY <2>1 DEF Tracked
    <3>2. m.effect \in Effects /\ started[m.effect] \in Nat
      BY <2>1 DEF Completion
    <3>3. m.effect \notin executed
      BY <1>3, <1>6, <2>1
    <3>4. QED
      BY <1>1, <1>8, <1>9, <3>1, <3>2, <3>3
  <2>2. CASE m \notin inbox
    <3>1. PICK e \in fronts \ executed : m = [effect |-> e, output |-> "unknown"]
      BY <1>1, <2>2
    <3>2. m.effect = e /\ m.output = "unknown"
      BY <3>1
    <3>3. QED
      BY <1>1, <1>3, <1>5, <1>6, <1>8, <3>1, <3>2
  <2>3. QED
    BY <2>1, <2>2
<1>12. ASSUME NEW e \in timers' PROVE started'[e] > 0
  <2>1. CASE e \in alarms
    <3>1. started[e] > 0 /\ started[e] \in Nat /\ e \in Effects
      BY <2>1 DEF Tracked
    <3>2. QED
      BY <1>9, <3>1
  <2>2. CASE e \in executed
    BY <1>3, <1>5, <1>9, <2>2
  <2>3. QED
    BY <1>1, <2>1, <2>2 DEF Deadlines
<1>13. QED
  BY <1>10, <1>11, <1>12 DEF Tracked

(* A dispatch leaves no session aside, but the one whose attempt is refused. *)
LEMMA DispatchCovered ==
  ASSUME NEW H \in SUBSET Sessions,
         NEW queues, NEW slots, NEW waiting, NEW tries, NEW n \in 0 .. Slots(slots, waiting),
         NEW failing \in SUBSET {waiting[k] : k \in 1 .. n}, NEW inbox, NEW alarms,
         Sound(H, queues, slots, waiting), Covered(H, queues, slots, waiting, refused),
         Dispatch(queues, slots, waiting, tries, n, failing, inbox, alarms)
  PROVE  Covered(H, pending', active', ready', refused')
<1> DEFINE popped == {waiting[k] : k \in 1 .. n}
           starting == popped \ failing
<1>1. /\ pending' = queues
      /\ active' = [s \in Sessions |-> IF s \in starting THEN Head(queues[s]) ELSE slots[s]]
      /\ ready' = SubSeq(waiting, n + 1, Len(waiting))
      /\ refused' = (refused \ Range(waiting)) \cup failing
  BY DEF Dispatch
<1>2. /\ Len(waiting) \in Nat /\ DOMAIN waiting = 1 .. Len(waiting)
      /\ \A k \in 1 .. Len(waiting) :
           /\ waiting[k] \in H /\ waiting[k] \in Sessions
           /\ queues[waiting[k]] # <<>> /\ slots[waiting[k]] = NoEffect
  <2>1. H \in SUBSET Sessions /\ Sound(H, queues, slots, waiting)
    OBVIOUS
  <2>2. QED
    BY ONLY <2>1, WaitingIdle
<1>3. n \in Nat /\ n <= Len(waiting)
  BY <1>2, SlotsBounded
<1>4. Sound(H, pending', active', ready')
  BY DispatchSound
<1>5. Range(waiting) = popped \cup Range(ready')
  <2> DEFINE tail == SubSeq(waiting, n + 1, Len(waiting))
  <2>1. /\ tail \in Seq(H)
        /\ Len(tail) = IF n + 1 <= Len(waiting) THEN Len(waiting) - (n + 1) + 1 ELSE 0
        /\ \A k \in 1 .. Len(waiting) - (n + 1) + 1 : tail[k] = waiting[n + 1 + k - 1]
    <3>1. \A k \in n + 1 .. Len(waiting) : waiting[k] \in H
      BY <1>2, <1>3
    <3>2. QED
      BY <1>2, <1>3, <3>1, SubSeqProperties
  <2>2. tail = ready'
    BY <1>1
  <2> HIDE DEF tail
  <2>3. Len(tail) = Len(waiting) - n /\ DOMAIN tail = 1 .. Len(tail)
    <3>1. Len(tail) = IF n + 1 <= Len(waiting) THEN Len(waiting) - (n + 1) + 1 ELSE 0
      BY <2>1
    <3>2. n \in Int /\ Len(waiting) \in Int /\ n <= Len(waiting)
      BY <1>2, <1>3
    <3>3. Len(tail) = Len(waiting) - n
      BY ONLY <3>1, <3>2
    <3>4. QED
      BY <2>1, <3>3, LenProperties
  <2>4. \A k \in 1 .. Len(tail) : tail[k] = waiting[k + n]
    <3> SUFFICES ASSUME NEW k \in 1 .. Len(tail) PROVE tail[k] = waiting[k + n]
      OBVIOUS
    <3>1. k \in 1 .. Len(waiting) - (n + 1) + 1 /\ n + 1 + k - 1 = k + n
      BY <1>2, <1>3, <2>3
    <3>2. QED
      BY <2>1, <3>1
  <2>5. ASSUME NEW k \in 1 .. Len(waiting) PROVE waiting[k] \in popped \cup Range(tail)
    <3>1. CASE k <= n
      BY <1>3, <3>1
    <3>2. CASE k > n
      <4>1. k - n \in 1 .. Len(tail) /\ (k - n) + n = k
        BY <1>2, <1>3, <2>3, <3>2
      <4>2. tail[k - n] = waiting[k]
        BY <2>4, <4>1
      <4>3. QED
        BY <2>3, <4>1, <4>2 DEF Range
    <3>3. QED
      BY <1>3, <3>1, <3>2
  <2>6. ASSUME NEW k \in 1 .. n PROVE waiting[k] \in Range(waiting)
    BY <1>2, <1>3 DEF Range
  <2>7. ASSUME NEW k \in 1 .. Len(tail) PROVE tail[k] \in Range(waiting)
    <3>1. k + n \in DOMAIN waiting
      BY <1>2, <1>3, <2>3
    <3>2. QED
      BY <2>4, <3>1 DEF Range
  <2>8. Range(waiting) \subseteq popped \cup Range(tail)
    BY <1>2, <2>5 DEF Range
  <2>9. popped \subseteq Range(waiting) /\ Range(tail) \subseteq Range(waiting)
    BY <2>3, <2>6, <2>7 DEF Range
  <2>10. QED
    BY <2>2, <2>8, <2>9
<1>6. \A s \in popped : s \in Sessions /\ queues[s] # <<>> /\ slots[s] = NoEffect
  <2>1. \A k \in 1 .. n : k \in 1 .. Len(waiting)
    BY <1>2, <1>3
  <2>2. QED
    BY <1>2, <2>1
<1>7. \A s \in Range(ready') : pending'[s] # <<>> /\ active'[s] = NoEffect
  <2>1. ready' \in Seq(H) /\ \A k \in 1 .. Len(ready') : pending'[ready'[k]] # <<>> /\ active'[ready'[k]] = NoEffect
    BY <1>4 DEF Sound
  <2>2. DOMAIN ready' = 1 .. Len(ready')
    BY <2>1, LenProperties
  <2>3. QED
    BY <2>1, <2>2 DEF Range
<1>8. \A s \in starting : Head(queues[s]) # NoEffect
  <2>1. Owned(H, queues)
    BY DEF Sound
  <2>2. QED
    BY <1>6, <2>1, FrontOwned
<1>9. failing \subseteq popped
  OBVIOUS
<1> HIDE DEF popped
<1>10. ASSUME NEW s \in H
       PROVE  (active'[s] = NoEffect /\ pending'[s] # <<>>) <=> (s \in Range(ready') \cup refused')
  <2>1. (slots[s] = NoEffect /\ queues[s] # <<>>) <=> (s \in Range(waiting) \cup refused)
    BY DEF Covered
  <2>2. s \in Sessions /\ active'[s] = IF s \in starting THEN Head(queues[s]) ELSE slots[s]
    BY <1>1
  <2>3. CASE s \in starting
    <3>1. active'[s] # NoEffect /\ s \in Range(waiting) /\ s \notin failing
      BY <1>5, <1>8, <2>2, <2>3
    <3>2. s \notin Range(ready') /\ s \notin refused'
      BY <1>1, <1>7, <3>1
    <3>3. QED
      BY <3>1, <3>2
  <2>4. CASE s \notin starting
    <3>1. active'[s] = slots[s] /\ pending'[s] = queues[s]
      BY <1>1, <2>2, <2>4
    <3>2. s \in Range(ready') \cup refused' <=> s \in Range(waiting) \cup refused
      BY <1>1, <1>5, <1>9, <2>4
    <3>3. QED
      BY <2>1, <3>1, <3>2
  <2>5. QED
    BY <2>3, <2>4
<1>11. QED
  BY <1>10 DEF Covered

(* Who waits after one more joins. *)
LEMMA AppendRange ==
  ASSUME NEW S, NEW q \in Seq(S), NEW x \in S
  PROVE  Range(Append(q, x)) = Range(q) \cup {x}
<1>1. /\ Append(q, x) \in Seq(S) /\ Len(Append(q, x)) = Len(q) + 1 /\ Len(q) \in Nat
      /\ \A i \in 1 .. Len(q) : Append(q, x)[i] = q[i]
      /\ Append(q, x)[Len(q) + 1] = x
  BY AppendProperties, LenProperties
<1>2. Range(q) = {q[i] : i \in 1 .. Len(q)} /\ Range(Append(q, x)) = {Append(q, x)[i] : i \in 1 .. Len(q) + 1}
  BY <1>1, RangeEquality
<1>3. 1 .. Len(q) + 1 = 1 .. Len(q) \cup {Len(q) + 1}
  BY <1>1
<1>4. QED
  BY <1>1, <1>2, <1>3

(* A transition of s makes s wait if it is idle and has effects. *)
LEMMA TransitionCovered ==
  ASSUME hosted \subseteq Sessions, Sound(hosted, pending, active, ready),
         Covered(hosted, pending, active, ready, refused),
         NEW s \in hosted, NEW batch \in Batches(s), NEW done \in Effects \cup {NoEffect},
         done = NoEffect \/ (Current(done) /\ SessionOf[done] = s)
  PROVE  Covered(hosted, NextQueues(s, done, batch), NextSlots(s, done),
                 NextWaiting(s, done, batch), refused)
<1> DEFINE queues == NextQueues(s, done, batch)
           slots == NextSlots(s, done)
           waiting == NextWaiting(s, done, batch)
<1>1. Sound(hosted, queues, slots, waiting)
  BY TransitionSound
<1>2. /\ s \in Sessions /\ pending \in [Sessions -> Seq(Effects)] /\ ready \in Seq(hosted)
      /\ active \in [Sessions -> Effects \cup {NoEffect}]
      /\ \A k \in 1 .. Len(pending[s]) : SessionOf[pending[s][k]] = s
  BY DEF Sound, Owned
<1>3. /\ \A t \in Sessions \ {s} : queues[t] = pending[t] /\ slots[t] = active[t]
      /\ done = NoEffect => slots[s] = active[s]
      /\ done # NoEffect => active[s] # NoEffect
  BY <1>2, EffectsAssumption DEF NextQueues, NextSlots, Current
<1>4. done = NoEffect /\ pending[s] # <<>> => queues[s] # <<>>
  <2> DEFINE q == pending[s]
  <2>1. q \in Seq(Effects) /\ \A k \in 1 .. Len(q) : SessionOf[q[k]] = s
    BY <1>2
  <2> HIDE DEF q
  <2>2. done = NoEffect /\ q # <<>> => Replaced(q, done, batch) # <<>>
    BY <1>2, <2>1, ReplacedSeq
  <2>3. queues[s] = Replaced(q, done, batch)
    BY <1>2 DEF NextQueues, q
  <2>4. QED
    BY <2>2, <2>3 DEF q
<1>5. waiting = Scheduled(s, queues, slots, ready)
  BY DEF NextWaiting
<1> HIDE DEF queues, slots, waiting
<1>6. /\ Range(waiting) = Range(ready) \/ Range(waiting) = Range(ready) \cup {s}
      /\ slots[s] = NoEffect /\ queues[s] # <<>> => s \in Range(waiting)
  <2>1. Range(Append(ready, s)) = Range(ready) \cup {s}
    BY <1>2, AppendRange
  <2>2. QED
    BY <1>5, <2>1 DEF Scheduled
<1>7. \A t \in Range(waiting) : queues[t] # <<>> /\ slots[t] = NoEffect
  <2>1. hosted \in SUBSET Sessions
    OBVIOUS
  <2>2. /\ Len(waiting) \in Nat /\ DOMAIN waiting = 1 .. Len(waiting)
        /\ \A k \in 1 .. Len(waiting) :
              /\ waiting[k] \in hosted /\ waiting[k] \in Sessions
              /\ queues[waiting[k]] # <<>> /\ slots[waiting[k]] = NoEffect
    BY ONLY <1>1, <2>1, WaitingIdle
  <2>3. QED
    BY <2>2 DEF Range
<1>8. ASSUME NEW t \in hosted
      PROVE  (slots[t] = NoEffect /\ queues[t] # <<>>) <=> (t \in Range(waiting) \cup refused)
  <2>1. (active[t] = NoEffect /\ pending[t] # <<>>) <=> (t \in Range(ready) \cup refused)
    BY DEF Covered
  <2>2. CASE t = s
    <3>1. t \in refused => slots[t] = NoEffect /\ queues[t] # <<>>
      BY <1>3, <1>4, <2>1, <2>2
    <3>2. QED
      BY <1>6, <1>7, <2>2, <3>1
  <2>3. CASE t # s
    BY <1>3, <1>6, <2>1, <2>3
  <2>4. QED
    BY <2>2, <2>3
<1>9. QED
  BY <1>8 DEF Covered, queues, slots, waiting

(* What runs or is answered was requested by its session. *)
Known ==
  /\ \A e \in running : e \in Requested(SessionOf[e])
  /\ \A m \in completions : m.effect \in Requested(SessionOf[m.effect])

(* A queue in order has each effect once. *)
LEMMA QueueDistinct ==
  ASSUME NEW q \in Seq(Effects), NEW reqs \in Seq(Effects), NEW outs, InOrder(q, reqs, outs),
         \A j, k \in 1 .. Len(reqs) : reqs[j] = reqs[k] => j = k
  PROVE  \A j, k \in 1 .. Len(q) : q[j] = q[k] => j = k
<1> SUFFICES ASSUME NEW j \in 1 .. Len(q), NEW k \in 1 .. Len(q), q[j] = q[k] PROVE j = k
  OBVIOUS
<1> DEFINE i == Len(reqs) - Len(q) + j
           h == Len(reqs) - Len(q) + k
<1>1. i \in 1 .. Len(reqs) /\ h \in 1 .. Len(reqs) /\ reqs[i] = q[j] /\ reqs[h] = q[k]
  BY QueueIsRequested
<1> HIDE DEF i, h
<1>2. i = h
  BY <1>1
<1>3. Len(q) \in Nat /\ Len(reqs) \in Nat
  BY LenProperties
<1>4. QED
  BY <1>2, <1>3 DEF i, h

(* What was requested before a transition is in the queue only if it was, *)
(* and is not completed.                                                  *)
LEMMA OldInQueue ==
  ASSUME EffectsInv, Requests, OnDisk, up, NEW s \in hosted, NEW batch \in Batches(s), NEW done,
         NEW e \in Requested(s), e \in Range(NextQueues(s, done, batch)[s])
  PROVE  e \in Range(pending[s]) /\ e # done
<1> DEFINE q == pending[s]
           w == Without(q, done)
<1>1. /\ s \in Sessions /\ pending \in [Sessions -> Seq(Effects)] /\ q \in Seq(Effects)
      /\ requested[s] \in Seq(Effects) /\ InOrder(q, requested[s], outcomes)
  BY DEF EffectsInv, Sound, Owned, Tasks, OnDisk
<1>2. \A j, k \in 1 .. Len(q) : q[j] = q[k] => j = k
  BY <1>1, QueueDistinct DEF Requests
<1>3. batch \in Seq(Effects) /\ \A k \in 1 .. Len(batch) : batch[k] \notin Requested(s)
  BY <1>1, BatchFresh
<1>4. NextQueues(s, done, batch)[s] = w \o batch
  BY <1>1 DEF NextQueues, Replaced
<1> HIDE DEF q, w
<1>5. /\ w \in Seq(Effects)
      /\ \A k \in 1 .. Len(w) : (\E j \in 1 .. Len(q) : w[k] = q[j]) /\ w[k] # done
  <2>1. q \in Seq(Effects)
    BY <1>1
  <2>2. /\ w \in Seq(Effects)
        /\ \A k \in 1 .. Len(w) : \E j \in 1 .. Len(q) : w[k] = q[j]
        /\ (\A j, k \in 1 .. Len(q) : q[j] = q[k] => j = k) =>
              /\ \A k \in 1 .. Len(w) : w[k] # done
              /\ \A j, k \in 1 .. Len(w) : w[j] = w[k] => j = k
    BY ONLY <2>1, WithoutSeq DEF w
  <2>3. QED
    BY <1>2, <2>2
<1>6. Range(w \o batch) = Range(w) \cup Range(batch)
  BY <1>3, <1>5, RangeConcatenation
<1>7. e \notin Range(batch)
  BY <1>3, RangeEquality
<1>8. PICK k \in 1 .. Len(w) : e = w[k]
  BY <1>4, <1>5, <1>6, <1>7, RangeEquality
<1>9. e \in Range(q)
  BY <1>1, <1>5, <1>8, RangeEquality
<1>10. QED
  BY <1>5, <1>8, <1>9 DEF q

(* A transition keeps track of what runs and is answered. *)
LEMMA TransitionTracked ==
  ASSUME EffectsInv, Requests, OnDisk, Known, up,
         Tracked(pending, active, running, completions, timers, started, cancelled),
         NEW s \in hosted, NEW batch \in Batches(s), NEW done \in Effects \cup {NoEffect},
         done = NoEffect \/ (Current(done) /\ SessionOf[done] = s),
         NEW inbox \in SUBSET completions, NEW alarms \in SUBSET timers,
         NEW stopped, cancelled \subseteq stopped, done \in running => done \in stopped
  PROVE  Tracked(NextQueues(s, done, batch), NextSlots(s, done), running, inbox, alarms, started, stopped)
<1> DEFINE queues == NextQueues(s, done, batch)
           slots == NextSlots(s, done)
<1>1. /\ s \in Sessions /\ pending \in [Sessions -> Seq(Effects)]
      /\ active \in [Sessions -> Effects \cup {NoEffect}]
      /\ running \subseteq Effects /\ \A m \in completions : m.effect \in Effects
  BY DEF EffectsInv, Sound, Owned, Tasks, Completion
<1>2. /\ \A t \in Sessions \ {s} : queues[t] = pending[t] /\ slots[t] = active[t]
      /\ done = NoEffect => slots[s] = active[s]
      /\ done # NoEffect => active[s] = done
  BY <1>1 DEF NextQueues, NextSlots, Current
<1>3. \A e \in Requested(s) : e \in Range(queues[s]) => e \in Range(pending[s]) /\ e # done
  BY OldInQueue
<1>4. \A e \in Effects : SessionOf[e] \in Sessions
  BY EffectsAssumption
<1> HIDE DEF queues, slots
<1>5. ASSUME NEW e \in Effects, e \in Requested(SessionOf[e]),
             e \in Range(pending[SessionOf[e]]) => active[SessionOf[e]] = e
      PROVE  e \in Range(queues[SessionOf[e]]) => slots[SessionOf[e]] = e
  <2>1. CASE SessionOf[e] = s
    <3> SUFFICES ASSUME e \in Range(queues[s]) PROVE slots[s] = e
      BY <2>1
    <3>1. e \in Range(pending[s]) /\ e # done
      BY <1>3, <1>5, <2>1
    <3>2. active[s] = e
      BY <1>5, <2>1, <3>1
    <3>3. QED
      BY <1>2, <3>1, <3>2
  <2>2. CASE SessionOf[e] # s
    BY <1>2, <1>4, <1>5, <2>2
  <2>3. QED
    BY <2>1, <2>2
<1>6. ASSUME NEW e \in running
      PROVE  /\ started[e] > 0
             /\ slots[SessionOf[e]] = e \/ e \in stopped
             /\ e \in Range(queues[SessionOf[e]]) => slots[SessionOf[e]] = e
  <2>1. /\ started[e] > 0 /\ (active[SessionOf[e]] = e \/ e \in cancelled)
        /\ e \in Range(pending[SessionOf[e]]) => active[SessionOf[e]] = e
        /\ e \in Effects /\ e \in Requested(SessionOf[e])
    BY <1>1 DEF Tracked, Known
  <2>2. slots[SessionOf[e]] = e \/ e \in stopped
    BY <1>2, <1>4, <2>1
  <2>3. QED
    BY <1>5, <2>1, <2>2
<1>7. ASSUME NEW m \in inbox
      PROVE  /\ m.effect \notin running
             /\ m.effect \in Range(queues[SessionOf[m.effect]]) => slots[SessionOf[m.effect]] = m.effect
             /\ IF m.output = "unknown" THEN m.effect \in AtMostOnce ELSE started[m.effect] > 0
  <2>1. /\ m.effect \notin running /\ m.effect \in Effects /\ m.effect \in Requested(SessionOf[m.effect])
        /\ m.effect \in Range(pending[SessionOf[m.effect]]) => active[SessionOf[m.effect]] = m.effect
        /\ IF m.output = "unknown" THEN m.effect \in AtMostOnce ELSE started[m.effect] > 0
    BY <1>1 DEF Tracked, Known
  <2>2. QED
    BY <1>5, <2>1
<1>8. \A e \in alarms : started[e] > 0
  BY DEF Tracked
<1>9. QED
  BY <1>6, <1>7, <1>8 DEF Tracked, queues, slots

(* A session that is dispatched is hosted and has effects. *)
LEMMA DispatchedWait ==
  ASSUME NEW H \in SUBSET Sessions,
         NEW queues, NEW slots, NEW waiting, NEW n \in 0 .. Slots(slots, waiting),
         Sound(H, queues, slots, waiting)
  PROVE  \A k \in 1 .. n : waiting[k] \in H /\ queues[waiting[k]] # <<>>
<1>1. n \in Nat /\ n <= Len(waiting)
  BY SlotsBounded
<1>2. /\ Len(waiting) \in Nat /\ DOMAIN waiting = 1 .. Len(waiting)
      /\ \A k \in 1 .. Len(waiting) :
           /\ waiting[k] \in H /\ waiting[k] \in Sessions
           /\ queues[waiting[k]] # <<>> /\ slots[waiting[k]] = NoEffect
  <2>1. H \in SUBSET Sessions /\ Sound(H, queues, slots, waiting)
    OBVIOUS
  <2>2. QED
    BY ONLY <2>1, WaitingIdle
<1>3. \A k \in 1 .. n : k \in 1 .. Len(waiting)
  BY <1>1, <1>2
<1>4. QED
  BY <1>2, <1>3

(* What a dispatch starts or reports is first in the queue of its session. *)
LEMMA FrontsOwned ==
  ASSUME NEW H \in SUBSET Sessions, NEW queues, Owned(H, queues), NEW S,
         \A t \in S : t \in H /\ queues[t] # <<>>, NEW e \in Fronts(queues, S)
  PROVE  /\ e \in Effects /\ SessionOf[e] \in S /\ SessionOf[e] \in H
         /\ queues[SessionOf[e]] # <<>> /\ e = Head(queues[SessionOf[e]])
<1>1. PICK t \in S : e = Head(queues[t])
  BY DEF Fronts
<1>2. t \in H /\ t \in Sessions /\ queues[t] # <<>>
  OBVIOUS
<1>3. e \in Effects /\ SessionOf[e] = t
  BY <1>1, <1>2, FrontOwned
<1>4. QED
  BY <1>1, <1>2, <1>3

(* The first of a queue in order is requested and has no outcome. *)
LEMMA FirstIsRequested ==
  ASSUME NEW q \in Seq(Effects), NEW reqs \in Seq(Effects), NEW outs, InOrder(q, reqs, outs), q # <<>>
  PROVE  /\ Head(q) \in Range(reqs) /\ outs[Head(q)] = <<>>
         /\ Len(reqs) - Len(q) + 1 \in 1 .. Len(reqs) /\ Head(q) = reqs[Len(reqs) - Len(q) + 1]
<1>1. 1 \in 1 .. Len(q) /\ Head(q) = q[1]
  BY EmptySeq, LenProperties
<1>2. /\ Len(reqs) - Len(q) + 1 \in 1 .. Len(reqs)
      /\ q[1] = reqs[Len(reqs) - Len(q) + 1]
      /\ outs[q[1]] = <<>>
  BY <1>1, QueueIsRequested
<1>3. q[1] \in Range(reqs)
  BY <1>2, RangeEquality
<1>4. QED
  BY <1>1, <1>2, <1>3

(* What a dispatch starts or reports has been requested. *)
LEMMA DispatchKnown ==
  ASSUME NEW H \in SUBSET Sessions,
         NEW queues, NEW slots, NEW waiting, NEW tries, NEW n \in 0 .. Slots(slots, waiting),
         NEW failing, NEW inbox, NEW alarms,
         Sound(H, queues, slots, waiting),
         Dispatch(queues, slots, waiting, tries, n, failing, inbox, alarms),
         requested' \in [Sessions -> Seq(Effects)],
         \A t \in H : InOrder(queues[t], requested'[t], outcomes'),
         \A e \in running : e \in Range(requested'[SessionOf[e]]),
         \A m \in inbox : m.effect \in Range(requested'[SessionOf[m.effect]])
  PROVE  Known'
<1> DEFINE starting == {waiting[k] : k \in 1 .. n} \ failing
           executed == Executed(queues, tries, starting)
           fronts == Fronts(queues, starting)
<1>1. /\ running' = running \cup executed
      /\ completions' = inbox \cup {[effect |-> e, output |-> "unknown"] : e \in fronts \ executed}
      /\ executed \subseteq fronts
  BY DEF Dispatch, Executed
<1>2. \A t \in starting : t \in H /\ queues[t] # <<>>
  <2>1. \A k \in 1 .. n : waiting[k] \in H /\ queues[waiting[k]] # <<>>
    <3>1. H \in SUBSET Sessions /\ n \in 0 .. Slots(slots, waiting) /\ Sound(H, queues, slots, waiting)
      OBVIOUS
    <3>2. QED
      BY ONLY <3>1, DispatchedWait
  <2>2. QED
    BY <2>1
<1> HIDE DEF starting, executed
<1>3. \A e \in fronts :
        /\ e \in Effects /\ SessionOf[e] \in H
        /\ queues[SessionOf[e]] # <<>> /\ e = Head(queues[SessionOf[e]])
  BY <1>2, FrontsOwned DEF Sound
<1>4. ASSUME NEW e \in fronts PROVE e \in Range(requested'[SessionOf[e]])
  <2> DEFINE t == SessionOf[e]
             q == queues[t]
             r == requested'[t]
  <2>1. t \in H /\ q # <<>> /\ e = Head(q) /\ q \in Seq(Effects) /\ r \in Seq(Effects) /\ InOrder(q, r, outcomes')
    BY <1>3 DEF Sound, Owned
  <2> HIDE DEF q, r
  <2>2. Head(q) \in Range(r)
    BY <2>1, FirstIsRequested
  <2>3. QED
    BY <2>1, <2>2 DEF r
<1> HIDE DEF fronts
<1>5. \A m \in completions' : m \in inbox \/ m.effect \in fronts
  BY <1>1
<1>6. QED
  BY <1>1, <1>4, <1>5 DEF Known, Requested

(* A dispatch journals an attempt when it counts one in memory, or fails to. *)
LEMMA DispatchAttempts ==
  ASSUME NEW queues, NEW slots, NEW waiting, NEW tries \in [Effects -> Nat], NEW n, NEW failing,
         NEW inbox, NEW alarms, durableAttempts \in [Effects -> Nat],
         \A e \in Effects : durableAttempts[e] <= tries[e],
         Dispatch(queues, slots, waiting, tries, n, failing, inbox, alarms)
  PROVE  \A e \in Effects : durableAttempts'[e] <= attempts'[e]
<1> DEFINE E == Executed(queues, tries, {waiting[k] : k \in 1 .. n} \ failing)
           F == Fronts(queues, failing)
<1>1. /\ attempts' = [e \in Effects |-> IF e \in E \cup F THEN tries[e] + 1 ELSE tries[e]]
      /\ durableAttempts' = [e \in Effects |-> IF e \in E THEN tries[e] + 1 ELSE durableAttempts[e]]
  BY DEF Dispatch, Attempted
<1> HIDE DEF E, F
<1>2. QED
  BY <1>1

(* An outcome is the first of its effect, and tells the truth. *)
LEMMA OutcomesStayHonest ==
  ASSUME EffectsInv, OnDisk, OutcomesAreHonest, up, NEW s \in hosted, NEW done,
         NEW output \in Outputs, Completes(s, done, output),
         done \in Effects => IF output = "unknown" THEN done \in AtMostOnce ELSE started[done] > 0,
         started' \in [Effects -> Nat], \A e \in Effects : started[e] <= started'[e]
  PROVE  OutcomesAreHonest'
<1>1. /\ outcomes \in [Effects -> Seq(Outputs)] /\ started \in [Effects -> Nat]
      /\ \A e \in Effects :
           /\ Len(outcomes[e]) <= 1
           /\ \A k \in DOMAIN outcomes[e] :
                IF outcomes[e][k] = "unknown" THEN e \in AtMostOnce ELSE started[e] > 0
  BY DEF EffectsInv, Tasks, Ledger, OutcomesAreHonest
<1>2. ASSUME NEW e \in Effects, outcomes'[e] = outcomes[e]
      PROVE  /\ Len(outcomes'[e]) <= 1
             /\ \A k \in DOMAIN outcomes'[e] :
                  IF outcomes'[e][k] = "unknown" THEN e \in AtMostOnce ELSE started'[e] > 0
  BY <1>1, <1>2
<1>3. CASE done = NoEffect /\ outcomes' = outcomes
  BY <1>2, <1>3 DEF OutcomesAreHonest
<1>4. CASE /\ done \in Effects /\ SessionOf[done] = s /\ Current(done)
           /\ outcomes' = [outcomes EXCEPT ![done] = Append(@, output)]
  <2>1. outcomes[done] = <<>>
    BY <1>4, CurrentIsFirst
  <2>2. outcomes'[done] = <<output>> /\ \A e \in Effects \ {done} : outcomes'[e] = outcomes[e]
    BY <1>1, <1>4, <2>1
  <2>3. Len(<<output>>) = 1 /\ \A k \in DOMAIN <<output>> : <<output>>[k] = output
    OBVIOUS
  <2>4. started[done] > 0 => started'[done] > 0
    BY <1>1, <1>4
  <2>5. QED
    BY <1>2, <1>4, <2>2, <2>3, <2>4 DEF OutcomesAreHonest
<1>5. QED
  BY <1>3, <1>4 DEF Completes

-----------------------------------------------------------------------------
(* The invariant of the host *)

(***************************************************************************)
(* Queues are in order and durable, outcomes honest, tasks tracked, and no *)
(* session is left aside; a host without leader has no memory.             *)
(***************************************************************************)
HostInv ==
  /\ EffectsInv
  /\ Requests
  /\ OnDisk
  /\ OutcomesAreHonest
  /\ Known
  /\ Tracked(pending, active, running, completions, timers, started, cancelled)
  /\ up => /\ Covered(hosted, pending, active, ready, refused)
           /\ \A e \in Effects : durableAttempts[e] <= attempts[e]
  /\ ~up => running = {} /\ completions = {} /\ timers = {} /\ refused = {}

(* A transition that is applied. *)
LEMMA AppliedKeepsHostInv ==
  ASSUME HostInv, EffectsInv', up, up' = TRUE, hosted' = hosted,
         NEW s \in hosted, NEW batch \in Batches(s), NEW done \in Effects \cup {NoEffect},
         NEW output \in Outputs, Completes(s, done, output),
         done \in Effects => IF output = "unknown" THEN done \in AtMostOnce ELSE started[done] > 0,
         NEW n \in 0 .. Width(s, done, batch),
         NEW failing \in SUBSET {NextWaiting(s, done, batch)[k] : k \in 1 .. n},
         NEW inbox \in SUBSET completions, NEW alarms \in SUBSET timers,
         cancelled \subseteq cancelled', done \in running => done \in cancelled',
         Applied(s, done, batch, n, failing, inbox, alarms)
  PROVE  HostInv'
<1> DEFINE queues == NextQueues(s, done, batch)
           slots == NextSlots(s, done)
           waiting == NextWaiting(s, done, batch)
<1>1. /\ hosted \in SUBSET Sessions /\ started \in [Effects -> Nat] /\ attempts \in [Effects -> Nat]
      /\ durableAttempts \in [Effects -> Nat] /\ running \in SUBSET Effects
      /\ inbox \in SUBSET Completion /\ alarms \in SUBSET Effects
      /\ Sound(hosted, pending, active, ready) /\ started' \in [Effects -> Nat]
      /\ requested' \in [Sessions -> Seq(Effects)]
  BY EffectsAssumption DEF HostInv, EffectsInv, Tasks, Ledger
<1>2. done = NoEffect \/ (Current(done) /\ SessionOf[done] = s)
  BY DEF Completes
<1>3. Journaled(s, done, batch) /\ Dispatch(queues, slots, waiting, attempts, n, failing, inbox, alarms)
  BY DEF Applied
<1>4. Requests' /\ \A t \in Sessions : Requested(t) \subseteq Requested(t)'
  BY <1>3, JournaledRequests DEF HostInv
<1>5. /\ \A t \in hosted : InOrder(durablePending'[t], requested'[t], outcomes')
      /\ \A t \in hosted : durablePending'[t] = queues[t]
  BY <1>3, JournaledInOrder DEF HostInv
<1>6. Sound(hosted, queues, slots, waiting) /\ n \in 0 .. Slots(slots, waiting)
  BY <1>1, <1>2, TransitionSound DEF Width
<1>7. Tracked(queues, slots, running, inbox, alarms, started, cancelled')
  BY <1>2, TransitionTracked DEF HostInv
<1>8. Covered(hosted, queues, slots, waiting, refused)
  BY <1>1, <1>2, TransitionCovered DEF HostInv
<1>9. failing \in SUBSET {waiting[k] : k \in 1 .. n}
  OBVIOUS
<1> HIDE DEF queues, slots, waiting
<1>10. Tracked(pending', active', running', completions', timers', started', cancelled')
  BY <1>1, <1>3, <1>6, <1>7, DispatchTracked
<1>11. Covered(hosted, pending', active', ready', refused')
  BY <1>1, <1>3, <1>6, <1>8, <1>9, DispatchCovered
<1>12. \A e \in Effects : durableAttempts'[e] <= attempts'[e]
  BY <1>1, <1>3, DispatchAttempts DEF HostInv
<1>13. /\ \A e \in running : e \in Range(requested'[SessionOf[e]])
       /\ \A m \in inbox : m.effect \in Range(requested'[SessionOf[m.effect]])
  <2>1. \A e \in Effects : SessionOf[e] \in Sessions
    BY EffectsAssumption
  <2>2. \A m \in inbox : m.effect \in Effects
    BY <1>1 DEF Completion
  <2>3. QED
    BY <1>1, <1>4, <2>1, <2>2 DEF HostInv, Known, Requested
<1>14. Known'
  BY <1>1, <1>3, <1>5, <1>6, <1>13, DispatchKnown
<1>15. pending' = queues
  BY <1>3 DEF Dispatch
<1>16. OnDisk'
  BY <1>5, <1>15 DEF OnDisk
<1>17. \A e \in Effects : started[e] <= started'[e]
  BY <1>1, <1>3 DEF Dispatch, Attempted
<1>18. OutcomesAreHonest'
  BY <1>1, <1>17, OutcomesStayHonest DEF HostInv
<1>19. QED
  BY <1>4, <1>10, <1>11, <1>12, <1>14, <1>16, <1>18 DEF HostInv

(* What is left when the leader dies is what the disk has. *)
LEMMA LostHostInv ==
  ASSUME EffectsInv', Requests', OutcomesAreHonest', LoseMemory,
         \A t \in hosted' : InOrder(durablePending'[t], requested'[t], outcomes')
  PROVE  HostInv'
  BY DEF HostInv, LoseMemory, OnDisk, Known, Tracked

(* A leader that dies within a transition. *)
LEMMA CutShortKeepsHostInv ==
  ASSUME HostInv, EffectsInv', up, NEW s \in hosted, NEW batch \in Batches(s),
         NEW done, NEW output \in Outputs, Completes(s, done, output),
         done \in Effects => IF output = "unknown" THEN done \in AtMostOnce ELSE started[done] > 0,
         NEW n, CutShort(s, done, batch, n)
  PROVE  HostInv'
<1>1. Journaled(s, done, batch) /\ LoseMemory /\ hosted' = hosted
  BY DEF CutShort
<1>2. Requests'
  BY <1>1, JournaledRequests DEF HostInv
<1>3. \A t \in hosted : InOrder(durablePending'[t], requested'[t], outcomes')
  BY <1>1, JournaledInOrder DEF HostInv
<1>4. started' \in [Effects -> Nat] /\ \A e \in Effects : started[e] <= started'[e]
  BY DEF CutShort, Attempted, HostInv, EffectsInv, Ledger
<1>5. OutcomesAreHonest'
  BY <1>4, OutcomesStayHonest DEF HostInv
<1>6. QED
  BY <1>1, <1>2, <1>3, <1>5, LostHostInv

(* The next leader visits every session with effects. *)
LEMMA RecoveredRange ==
  ASSUME EffectsInv, NEW order \in SetToSeqs(Recovered)
  PROVE  Range(order) = Recovered
<1> DEFINE D == 1 .. Cardinality(Recovered)
<1>1. /\ order \in [D -> Recovered]
      /\ \A i, j \in D : i # j => order[i] # order[j]
  BY DEF SetToSeqs
<1>2. IsFiniteSet(Recovered) /\ Cardinality(Recovered) \in Nat
  <2>1. Recovered \subseteq Sessions
    BY DEF Recovered, EffectsInv, Tasks
  <2>2. QED
    BY <2>1, EffectsAssumption, FS_Subset, FS_CardinalityType
<1>3. IsFiniteSet(D) /\ Cardinality(D) = Cardinality(Recovered)
  BY <1>2, FS_Interval
<1>4. order \in Injection(D, Recovered)
  BY <1>1 DEF Injection, IsInjective
<1> HIDE DEF D
<1>5. order \in Surjection(D, Recovered)
  BY <1>2, <1>3, <1>4, FS_Injection
<1>6. QED
  BY <1>1, <1>5 DEF Surjection, Range

(* A new leader. *)
LEMMA RestartKeepsHostInv ==
  ASSUME HostInv, EffectsInv', NEW order \in SetToSeqs(Recovered), Restart(order)
  PROVE  HostInv'
<1>1. /\ ~up /\ up' = TRUE
      /\ UNCHANGED <<hosted, cancelled, durablePending, faults, requested, outcomes>>
  BY DEF Restart
<1>2. running = {} /\ refused = {}
  BY <1>1 DEF HostInv
<1>3. /\ hosted \in SUBSET Sessions /\ started \in [Effects -> Nat] /\ durableAttempts \in [Effects -> Nat]
      /\ requested \in [Sessions -> Seq(Effects)] /\ started' \in [Effects -> Nat]
  BY DEF HostInv, EffectsInv, Tasks, Ledger
<1>4. Sound(hosted, durablePending, Idle, order)
  BY RecoveredSound DEF HostInv
<1> DEFINE n == Slots(Idle, order)
           none == {}
<1>5. n \in 0 .. Slots(Idle, order)
  BY <1>4, SlotsBounded
<1>6. Dispatch(durablePending, Idle, order, durableAttempts, n, none, none, none)
  BY DEF Restart
<1>7. /\ none \in SUBSET {order[k] : k \in 1 .. n} /\ none \in SUBSET Completion /\ none \in SUBSET Effects
      /\ \A x \in none : FALSE
  OBVIOUS
<1>8. Tracked(durablePending, Idle, running, none, none, started, cancelled)
  BY <1>2 DEF Tracked
<1>9. Covered(hosted, durablePending, Idle, order, refused)
  BY <1>2, <1>3, RecoveredRange DEF Covered, Idle, Recovered, HostInv
<1> HIDE DEF n, none
<1>10. Tracked(pending', active', running', completions', timers', started', cancelled)
  BY <1>2, <1>3, <1>4, <1>5, <1>6, <1>7, <1>8, DispatchTracked
<1>11. Covered(hosted, pending', active', ready', refused')
  BY <1>3, <1>4, <1>5, <1>6, <1>7, <1>9, DispatchCovered
<1>12. \A e \in Effects : durableAttempts'[e] <= attempts'[e]
  <2>1. \A e \in Effects : durableAttempts[e] <= durableAttempts[e]
    BY <1>3
  <2>2. QED
    BY <1>3, <1>6, <2>1, DispatchAttempts
<1>13. \A t \in hosted : InOrder(durablePending[t], requested'[t], outcomes')
  BY <1>1 DEF HostInv, OnDisk
<1>14. Known'
  BY <1>1, <1>2, <1>3, <1>4, <1>5, <1>6, <1>7, <1>13, DispatchKnown
<1>15. OnDisk'
  BY <1>1, <1>6, <1>13 DEF Dispatch, OnDisk
<1>16. \A e \in Effects : started[e] <= started'[e]
  BY <1>3, <1>6 DEF Dispatch, Attempted
<1>17. OutcomesAreHonest'
  <2>1. \A e \in Effects : started[e] > 0 => started'[e] > 0
    BY <1>3, <1>16
  <2>2. QED
    BY <1>1, <2>1 DEF HostInv, OutcomesAreHonest
<1>18. Requests'
  BY <1>1 DEF HostInv, Requests, Requested
<1>19. QED
  BY <1>1, <1>10, <1>11, <1>12, <1>14, <1>15, <1>17, <1>18 DEF HostInv

(* A new leader that dies at once. *)
LEMMA CutRestartKeepsHostInv ==
  ASSUME HostInv, EffectsInv', NEW order, NEW n, CutRestart(order, n)
  PROVE  HostInv'
<1>1. LoseMemory /\ UNCHANGED <<hosted, durablePending, requested, outcomes>>
  BY DEF CutRestart
<1>2. started \in [Effects -> Nat] /\ \A e \in Effects : started[e] > 0 => started'[e] > 0
  BY DEF CutRestart, Attempted, HostInv, EffectsInv, Ledger
<1>3. OutcomesAreHonest'
  BY <1>1, <1>2 DEF HostInv, OutcomesAreHonest
<1>4. Requests'
  BY <1>1 DEF HostInv, Requests, Requested
<1>5. \A t \in hosted' : InOrder(durablePending'[t], requested'[t], outcomes')
  BY <1>1 DEF HostInv, OnDisk
<1>6. QED
  BY <1>1, <1>3, <1>4, <1>5, LostHostInv

(* Without leaves out nothing but x. *)
LEMMA WithoutKeeps ==
  ASSUME NEW S, NEW q \in Seq(S), NEW x, NEW y \in Range(q), y # x
  PROVE  y \in Range(Without(q, x))
<1>0. Len(q) \in Nat /\ DOMAIN q = 1 .. Len(q) /\ \A k \in 1 .. Len(q) : q[k] \in S
  BY LenProperties, ElementOfSeq
<1>1. CASE x \notin Range(q)
  BY <1>1 DEF Without
<1>2. CASE x \in Range(q)
  <2> DEFINE i == CHOOSE j \in DOMAIN q : q[j] = x
             front == SubSeq(q, 1, i - 1)
             back == SubSeq(q, i + 1, Len(q))
  <2>1. i \in 1 .. Len(q) /\ q[i] = x
    BY <1>0, <1>2 DEF Range
  <2>2. Without(q, x) = front \o back
    BY <1>2 DEF Without
  <2>3. PICK j \in 1 .. Len(q) : y = q[j]
    BY <1>0 DEF Range
  <2> HIDE DEF i
  <2>4. /\ front \in Seq(S)
        /\ Len(front) = IF 1 <= i - 1 THEN (i - 1) - 1 + 1 ELSE 0
        /\ \A k \in 1 .. (i - 1) - 1 + 1 : front[k] = q[1 + k - 1]
    <3>1. \A k \in 1 .. i - 1 : q[k] \in S
      BY <1>0, <2>1
    <3>2. QED
      BY <2>1, <3>1, SubSeqProperties
  <2>5. /\ back \in Seq(S)
        /\ Len(back) = IF i + 1 <= Len(q) THEN Len(q) - (i + 1) + 1 ELSE 0
        /\ \A k \in 1 .. Len(q) - (i + 1) + 1 : back[k] = q[i + 1 + k - 1]
    <3>1. \A k \in i + 1 .. Len(q) : q[k] \in S
      BY <1>0, <2>1
    <3>2. QED
      BY <1>0, <2>1, <3>1, SubSeqProperties
  <2> HIDE DEF front, back
  <2>6. i \in Int /\ j \in Int /\ Len(q) \in Int /\ 1 <= i /\ i <= Len(q) /\ 1 <= j /\ j <= Len(q) /\ j # i
    BY <1>0, <2>1, <2>3
  <2>7. Range(front \o back) = Range(front) \cup Range(back)
    BY <2>4, <2>5, RangeConcatenation
  <2>8. CASE j < i
    <3>1. j \in 1 .. (i - 1) - 1 + 1 /\ 1 + j - 1 = j /\ 1 <= i - 1
      BY <2>6, <2>8
    <3>2. (i - 1) - 1 + 1 = Len(front)
      BY <2>4, <3>1
    <3>3. front[j] = y /\ j \in 1 .. Len(front)
      BY <2>3, <2>4, <3>1, <3>2
    <3>4. y \in Range(front)
      BY <2>4, <3>3, RangeEquality
    <3>5. QED
      BY <2>2, <2>7, <3>4
  <2>9. CASE i < j
    <3> DEFINE m == j - i
    <3>1. m \in 1 .. Len(q) - (i + 1) + 1 /\ i + 1 + m - 1 = j /\ i + 1 <= Len(q)
      BY <2>6, <2>9
    <3> HIDE DEF m
    <3>2. Len(q) - (i + 1) + 1 = Len(back)
      BY <2>5, <3>1
    <3>3. back[m] = y /\ m \in 1 .. Len(back)
      BY <2>3, <2>5, <3>1, <3>2
    <3>4. y \in Range(back)
      BY <2>5, <3>3, RangeEquality
    <3>5. QED
      BY <2>2, <2>7, <3>4
  <2>10. QED
    BY <2>6, <2>8, <2>9
<1>3. QED
  BY <1>1, <1>2

(* A session that stops leaves the others as they are. *)
LEMMA StopKeepsHostInv ==
  ASSUME HostInv, EffectsInv', NEW s \in Sessions, StopSession(s)
  PROVE  HostInv'
<1>1. /\ up /\ s \in hosted /\ hosted' = hosted \ {s}
      /\ pending' = [pending EXCEPT ![s] = <<>>]
      /\ active' = [active EXCEPT ![s] = NoEffect]
      /\ ready' = Without(ready, s)
      /\ durablePending' = [durablePending EXCEPT ![s] = <<>>]
      /\ cancelled' = cancelled \cup ({active[s]} \ {NoEffect})
      /\ refused' = refused \ {s}
      /\ UNCHANGED <<up, attempts, running, timers, completions, durableAttempts,
                     requested, started, outcomes>>
  BY DEF StopSession, Unready, Cancel
<1>2. /\ hosted \subseteq Sessions /\ pending \in [Sessions -> Seq(Effects)]
      /\ durablePending \in [Sessions -> Seq(Effects)]
      /\ active \in [Sessions -> Effects \cup {NoEffect}] /\ ready \in Seq(hosted)
      /\ running \subseteq Effects /\ \A m \in completions : m.effect \in Effects
  BY DEF HostInv, EffectsInv, Tasks, Sound, Owned, Completion
<1>3. \A t \in Sessions \ {s} : /\ pending'[t] = pending[t] /\ active'[t] = active[t]
                                /\ durablePending'[t] = durablePending[t]
  BY <1>1, <1>2
<1>4. pending'[s] = <<>> /\ active'[s] = NoEffect /\ Range(<<>>) = {}
  <2>1. Range(<<>>) = {}
    BY DEF Range
  <2>2. QED
    BY <1>1, <1>2, <2>1
<1>5. \A e \in Effects : SessionOf[e] \in Sessions /\ e # NoEffect
  BY EffectsAssumption
<1>6. Tracked(pending', active', running', completions', timers', started', cancelled')
  <2>1. ASSUME NEW e \in Effects, e \in Range(pending[SessionOf[e]]) => active[SessionOf[e]] = e
        PROVE  e \in Range(pending'[SessionOf[e]]) => active'[SessionOf[e]] = e
    BY <1>3, <1>4, <1>5, <2>1
  <2>2. ASSUME NEW e \in running
        PROVE  /\ started[e] > 0
               /\ active'[SessionOf[e]] = e \/ e \in cancelled'
               /\ e \in Range(pending'[SessionOf[e]]) => active'[SessionOf[e]] = e
    <3>1. /\ started[e] > 0 /\ (active[SessionOf[e]] = e \/ e \in cancelled) /\ e \in Effects
          /\ e \in Range(pending[SessionOf[e]]) => active[SessionOf[e]] = e
      BY <1>2 DEF HostInv, Tracked
    <3>2. active'[SessionOf[e]] = e \/ e \in cancelled'
      BY <1>1, <1>3, <1>5, <3>1
    <3>3. QED
      BY <2>1, <3>1, <3>2
  <2>3. ASSUME NEW m \in completions
        PROVE  /\ m.effect \notin running
               /\ m.effect \in Range(pending'[SessionOf[m.effect]]) => active'[SessionOf[m.effect]] = m.effect
               /\ IF m.output = "unknown" THEN m.effect \in AtMostOnce ELSE started[m.effect] > 0
    BY <1>2, <2>1 DEF HostInv, Tracked
  <2>4. QED
    BY <1>1, <2>2, <2>3 DEF HostInv, Tracked
<1>7. \A t \in hosted' : t \in Range(ready') <=> t \in Range(ready)
  <2> SUFFICES ASSUME NEW t \in hosted' PROVE t \in Range(ready') <=> t \in Range(ready)
    OBVIOUS
  <2>1. t \in Range(ready) => t \in Range(ready')
    BY <1>1, <1>2, WithoutKeeps
  <2>2. /\ Without(ready, s) \in Seq(hosted)
        /\ \A k \in 1 .. Len(Without(ready, s)) : \E j \in 1 .. Len(ready) : Without(ready, s)[k] = ready[j]
    BY <1>2, WithoutSeq
  <2>3. t \in Range(ready') => t \in Range(ready)
    <3> DEFINE w == Without(ready, s)
    <3> HIDE DEF w
    <3>1. /\ w \in Seq(hosted) /\ ready' = w
          /\ \A k \in 1 .. Len(w) : \E j \in 1 .. Len(ready) : w[k] = ready[j]
      BY <1>1, <2>2 DEF w
    <3>2. Range(w) = {w[k] : k \in 1 .. Len(w)} /\ Range(ready) = {ready[k] : k \in 1 .. Len(ready)}
      <4>1. w \in Seq(hosted) /\ ready \in Seq(hosted)
        BY <1>2, <3>1
      <4>2. Range(w) = {w[k] : k \in 1 .. Len(w)}
        BY ONLY <4>1, RangeEquality
      <4>3. Range(ready) = {ready[k] : k \in 1 .. Len(ready)}
        BY ONLY <4>1, RangeEquality
      <4>4. QED
        BY <4>2, <4>3
    <3> SUFFICES ASSUME t \in Range(w) PROVE t \in Range(ready)
      BY <3>1
    <3>3. PICK k \in 1 .. Len(w) : t = w[k]
      BY <3>2
    <3>4. PICK j \in 1 .. Len(ready) : w[k] = ready[j]
      BY <3>1
    <3>5. QED
      BY <3>2, <3>3, <3>4
  <2>4. QED
    BY <2>1, <2>3
<1>8. Covered(hosted', pending', active', ready', refused')
  BY <1>1, <1>2, <1>3, <1>7 DEF HostInv, Covered
<1>9. OnDisk'
  BY <1>1, <1>2, <1>3 DEF HostInv, OnDisk
<1>10. Requests' /\ Known' /\ OutcomesAreHonest'
  BY <1>1 DEF HostInv, Requests, Requested, Known, OutcomesAreHonest
<1>11. QED
  BY <1>1, <1>6, <1>8, <1>9, <1>10 DEF HostInv

(* A checkpoint writes queues that the disk has already. *)
LEMMA CheckpointKeepsDisk ==
  ASSUME HostInv, up, NEW S \in SUBSET hosted, Checkpoint(S)
  PROVE  /\ durablePending' = durablePending
         /\ \A e \in Effects : durableAttempts'[e] <= attempts[e]
<1>1. /\ durablePending \in [Sessions -> Seq(Effects)] /\ hosted \subseteq Sessions
      /\ attempts \in [Effects -> Nat] /\ durableAttempts \in [Effects -> Nat]
      /\ \A t \in hosted : durablePending[t] = pending[t]
      /\ \A e \in Effects : durableAttempts[e] <= attempts[e]
  BY DEF HostInv, EffectsInv, Tasks, Owned, Ledger, OnDisk
<1>2. durablePending' = [t \in Sessions |-> IF t \in S THEN pending[t] ELSE durablePending[t]]
  BY DEF Checkpoint
<1>3. \A t \in Sessions : (IF t \in S THEN pending[t] ELSE durablePending[t]) = durablePending[t]
  BY <1>1
<1>4. durablePending' = durablePending
  BY <1>1, <1>2, <1>3
<1>5. \A e \in Effects : durableAttempts'[e] \in {attempts[e], durableAttempts[e]}
  BY DEF Checkpoint
<1>6. ASSUME NEW e \in Effects PROVE durableAttempts'[e] <= attempts[e]
  <2>1. attempts[e] \in Nat /\ durableAttempts[e] <= attempts[e]
    BY <1>1
  <2>2. durableAttempts'[e] = attempts[e] \/ durableAttempts'[e] = durableAttempts[e]
    BY <1>5
  <2>3. QED
    BY <2>1, <2>2
<1>7. QED
  BY <1>4, <1>6

(* The leader dies. *)
LEMMA DieKeepsHostInv ==
  ASSUME HostInv, EffectsInv', NEW saved, Die(saved)
  PROVE  HostInv'
<1>1. /\ up /\ saved \in SUBSET hosted /\ Checkpoint(saved) /\ LoseMemory
      /\ UNCHANGED <<hosted, requested, started, outcomes>>
  BY DEF Die
<1>2. durablePending' = durablePending
  BY <1>1, CheckpointKeepsDisk
<1>3. Requests' /\ OutcomesAreHonest'
  BY <1>1 DEF HostInv, Requests, Requested, OutcomesAreHonest
<1>4. \A t \in hosted' : InOrder(durablePending'[t], requested'[t], outcomes')
  BY <1>1, <1>2 DEF HostInv, OnDisk
<1>5. QED
  BY <1>1, <1>3, <1>4, LostHostInv

(* A rename. *)
LEMMA RenameKeepsHostInv ==
  ASSUME HostInv, EffectsInv', NEW s \in Sessions, RenameSession(s)
  PROVE  HostInv'
<1>1. /\ up /\ {s} \in SUBSET hosted /\ Checkpoint({s})
      /\ UNCHANGED <<up, hosted, queueVars, taskVars, historyVars>>
  BY DEF RenameSession
<1>2. durablePending' = durablePending /\ \A e \in Effects : durableAttempts'[e] <= attempts[e]
  BY <1>1, CheckpointKeepsDisk
<1>3. QED
  BY <1>1, <1>2 DEF HostInv, Requests, Requested, OnDisk, OutcomesAreHonest, Known,
                    Tracked, Covered, queueVars, taskVars, historyVars

(* An effect that returns is answered, and runs no more. *)
LEMMA FinishKeepsHostInv ==
  ASSUME HostInv, EffectsInv', NEW e \in Effects, Finish(e)
  PROVE  HostInv'
<1>1. /\ e \in running /\ running' = running \ {e}
      /\ completions' = completions \cup {[effect |-> e, output |-> "returned"]}
      /\ UNCHANGED <<up, hosted, queueVars, cancelled, timers, durableVars, historyVars>>
  BY DEF Finish
<1>2. /\ started[e] > 0 /\ e \in Requested(SessionOf[e])
      /\ e \in Range(pending[SessionOf[e]]) => active[SessionOf[e]] = e
  BY <1>1 DEF HostInv, Tracked, Known
<1>3. \A m \in completions' : m \in completions \/ (m.effect = e /\ m.output # "unknown")
  BY <1>1
<1>4. Tracked(pending, active, running', completions', timers, started, cancelled)
  BY <1>1, <1>2, <1>3 DEF HostInv, Tracked
<1>5. Known'
  BY <1>1, <1>2, <1>3 DEF HostInv, Known, Requested, historyVars
<1>6. up
  BY <1>1 DEF HostInv
<1>7. QED
  BY <1>1, <1>4, <1>5, <1>6 DEF HostInv, Requests, Requested, OnDisk, OutcomesAreHonest, Covered,
     queueVars, durableVars, historyVars

(* A message that comes too late is dropped. *)
LEMMA IgnoreKeepsHostInv ==
  ASSUME HostInv, EffectsInv',
         \/ \E m \in completions : IgnoreCompletion(m)
         \/ \E e \in timers : IgnoreTimeout(e)
         \/ UNCHANGED vars
  PROVE  HostInv'
<1>1. /\ completions' \subseteq completions /\ timers' \subseteq timers
      /\ UNCHANGED <<up, hosted, queueVars, running, cancelled, durableVars, historyVars>>
  BY DEF IgnoreCompletion, IgnoreTimeout, vars, taskVars
<1>2. QED
  BY <1>1 DEF HostInv, Requests, Requested, OnDisk, OutcomesAreHonest, Known, Tracked, Covered,
              queueVars, durableVars, historyVars

(* A stop that fails only cancels. *)
LEMMA StopFailsKeepsHostInv ==
  ASSUME HostInv, EffectsInv', NEW s \in Sessions, StopFails(s)
  PROVE  HostInv'
<1>1. /\ cancelled \subseteq cancelled'
      /\ UNCHANGED <<up, hosted, queueVars, running, timers, completions, durableVars,
                     requested, started, outcomes, refused>>
  BY DEF StopFails, Cancel
<1>2. Tracked(pending', active', running', completions', timers', started', cancelled')
  BY <1>1 DEF HostInv, Tracked, queueVars
<1>3. QED
  BY <1>1, <1>2 DEF HostInv, Requests, Requested, OnDisk, OutcomesAreHonest, Known, Covered,
                    queueVars, durableVars

(* An effect gets its outcome and its session goes on. *)
LEMMA ResolveKeepsHostInv ==
  ASSUME HostInv, EffectsInv', up, NEW e \in Effects, NEW output \in Outputs,
         IF output = "unknown" THEN e \in AtMostOnce ELSE started[e] > 0,
         NEW batch \in Batches(SessionOf[e]),
         NEW inbox \in SUBSET completions, NEW alarms \in SUBSET timers,
         cancelled \subseteq cancelled', e \in running => e \in cancelled',
         Resolve(e, output, batch, inbox, alarms)
  PROVE  HostInv'
<1>1. /\ Current(e) /\ up' = TRUE /\ hosted' = hosted
      /\ outcomes' = [outcomes EXCEPT ![e] = Append(@, output)]
  BY DEF Resolve, HostInv, EffectsInv, Tasks
<1>2. SessionOf[e] \in hosted
  BY <1>1, CurrentHosted DEF HostInv
<1>3. Completes(SessionOf[e], e, output)
  BY <1>1 DEF Completes
<1> DEFINE n == Width(SessionOf[e], e, batch)
           none == {}
<1>4. n \in 0 .. Width(SessionOf[e], e, batch)
  BY <1>1, <1>2, WidthInRange DEF HostInv
<1>5. none \in SUBSET {NextWaiting(SessionOf[e], e, batch)[k] : k \in 1 .. n}
  OBVIOUS
<1>6. Applied(SessionOf[e], e, batch, n, none, inbox, alarms)
  BY DEF Resolve
<1> HIDE DEF n, none
<1>7. QED
  BY <1>1, <1>2, <1>3, <1>4, <1>5, <1>6, AppliedKeepsHostInv

(* A command or a poll of s. *)
LEMMA TransitionKeepsHostInv ==
  ASSUME HostInv, EffectsInv', NEW s \in Sessions, NEW batch \in Batches(s), Transition(s, batch)
  PROVE  HostInv'
<1>1. /\ up /\ up' = TRUE /\ s \in hosted /\ hosted' = hosted /\ cancelled' = cancelled
      /\ Completes(s, NoEffect, "returned") /\ NoEffect \notin Effects /\ "returned" \in Outputs
  BY EffectsAssumption DEF Transition, Completes, HostInv, EffectsInv, Tasks, Outputs
<1>2. NoEffect \notin running /\ completions \in SUBSET completions /\ timers \in SUBSET timers
  BY <1>1 DEF HostInv, EffectsInv, Tasks
<1> DEFINE n == Width(s, NoEffect, batch)
           none == {}
<1>3. n \in 0 .. Width(s, NoEffect, batch)
  BY <1>1, WidthInRange DEF HostInv
<1>4. none \in SUBSET {NextWaiting(s, NoEffect, batch)[k] : k \in 1 .. n}
  OBVIOUS
<1>5. Applied(s, NoEffect, batch, n, none, completions, timers)
  BY DEF Transition
<1> HIDE DEF n, none
<1>6. QED
  BY <1>1, <1>2, <1>3, <1>4, <1>5, AppliedKeepsHostInv

(* A command whose last attempt the disk refuses. *)
LEMMA RefusedKeepsHostInv ==
  ASSUME HostInv, EffectsInv', NEW s \in Sessions, NEW batch \in Batches(s),
         NEW n \in 1 .. Width(s, NoEffect, batch), RefusedTransition(s, batch, n)
  PROVE  HostInv'
<1>1. /\ up /\ up' = TRUE /\ s \in hosted /\ hosted' = hosted /\ cancelled' = cancelled
      /\ Completes(s, NoEffect, "returned") /\ NoEffect \notin Effects /\ "returned" \in Outputs
  BY EffectsAssumption DEF RefusedTransition, Completes, HostInv, EffectsInv, Tasks, Outputs
<1>2. NoEffect \notin running /\ completions \in SUBSET completions /\ timers \in SUBSET timers
  BY <1>1 DEF HostInv, EffectsInv, Tasks
<1>3. Width(s, NoEffect, batch) \in Nat
  BY <1>1, WidthInRange DEF HostInv
<1>4. n \in 0 .. Width(s, NoEffect, batch) /\ n \in 1 .. n
  BY <1>3
<1> DEFINE last == {NextWaiting(s, NoEffect, batch)[n]}
<1>5. last \in SUBSET {NextWaiting(s, NoEffect, batch)[k] : k \in 1 .. n}
  BY <1>4
<1>6. Applied(s, NoEffect, batch, n, last, completions, timers)
  BY DEF RefusedTransition
<1> HIDE DEF last
<1>7. QED
  BY <1>1, <1>2, <1>4, <1>5, <1>6, AppliedKeepsHostInv

(* An answer and a deadline tell the truth about an effect that was started. *)
LEMMA AnswersAreHonest ==
  ASSUME HostInv
  PROVE  /\ \A m \in completions :
              /\ m.effect \in Effects /\ m.output \in Outputs /\ m.effect \notin running
              /\ IF m.output = "unknown" THEN m.effect \in AtMostOnce ELSE started[m.effect] > 0
         /\ \A e \in timers : e \in Effects /\ started[e] > 0
  BY EffectsAssumption DEF HostInv, EffectsInv, Tasks, Tracked, Completion, Outputs

LEMMA HostInvInit == Init => HostInv
<1> SUFFICES ASSUME Init PROVE HostInv
  OBVIOUS
<1>1. EffectsInv
  BY EffectsInvInit
<1>2. \A s \in Sessions : Len(requested[s]) = 0 /\ durablePending[s] = <<>> /\ pending[s] = <<>>
  BY DEF Init
<1>3. \A e \in Effects : outcomes[e] = <<>> /\ Len(<<>>) = 0 /\ DOMAIN <<>> = {}
  BY DEF Init
<1>4. Requests
  BY <1>2, <1>3 DEF Requests
<1>5. OnDisk
  BY <1>2 DEF Init, OnDisk, InOrder
<1>6. OutcomesAreHonest
  BY <1>3 DEF OutcomesAreHonest
<1>7. Covered(hosted, pending, active, ready, refused)
  BY <1>2 DEF Init, Covered, Range
<1>8. QED
  BY <1>1, <1>4, <1>5, <1>6, <1>7 DEF Init, HostInv, Known, Tracked

LEMMA HostInvInductive == HostInv /\ [Next]_vars => HostInv'
<1> SUFFICES ASSUME HostInv, [Next]_vars PROVE HostInv'
  OBVIOUS
<1>1. EffectsInv' /\ NoEffect \notin Effects /\ "returned" \in Outputs /\ "timed_out" \in Outputs
  BY EffectsInvInductive, EffectsAssumption DEF HostInv, Outputs
<1>2. ASSUME NEW s \in Sessions, NEW batch \in Batches(s), Transition(s, batch) PROVE HostInv'
  BY <1>1, <1>2, TransitionKeepsHostInv
<1>3. ASSUME NEW s \in Sessions, NEW batch \in Batches(s), NEW n, CutTransition(s, batch, n)
      PROVE  HostInv'
  <2>1. up /\ s \in hosted /\ CutShort(s, NoEffect, batch, n) /\ Completes(s, NoEffect, "returned")
    BY <1>3 DEF CutTransition, Completes
  <2>2. QED
    BY <1>1, <2>1, CutShortKeepsHostInv
<1>4. ASSUME NEW s \in Sessions, NEW batch \in Batches(s), NEW n \in 1 .. Width(s, NoEffect, batch),
             RefusedTransition(s, batch, n)
      PROVE  HostInv'
  BY <1>1, <1>4, RefusedKeepsHostInv
<1>5. ASSUME NEW m \in completions, NEW batch \in Batches(SessionOf[m.effect]), EffectCompleted(m, batch)
      PROVE  HostInv'
  <2>1. /\ up /\ Resolve(m.effect, m.output, batch, completions \ {m}, timers) /\ cancelled' = cancelled
        /\ completions \ {m} \in SUBSET completions /\ timers \in SUBSET timers
    BY <1>5 DEF EffectCompleted
  <2>2. QED
    BY <1>1, <2>1, AnswersAreHonest, ResolveKeepsHostInv
<1>6. ASSUME NEW m \in completions, NEW batch \in Batches(SessionOf[m.effect]), NEW n, CutCompleted(m, batch, n)
      PROVE  HostInv'
  <2>1. /\ up /\ Current(m.effect) /\ CutShort(SessionOf[m.effect], m.effect, batch, n)
        /\ outcomes' = [outcomes EXCEPT ![m.effect] = Append(@, m.output)]
    BY <1>6 DEF CutCompleted, CutResolve
  <2>2. /\ m.effect \in Effects /\ m.output \in Outputs
        /\ IF m.output = "unknown" THEN m.effect \in AtMostOnce ELSE started[m.effect] > 0
    BY AnswersAreHonest
  <2>3. Completes(SessionOf[m.effect], m.effect, m.output) /\ SessionOf[m.effect] \in hosted
    BY <2>1, <2>2, CurrentHosted DEF Completes, HostInv
  <2>4. QED
    BY <1>1, <2>1, <2>2, <2>3, CutShortKeepsHostInv
<1>7. ASSUME NEW e \in timers, NEW batch \in Batches(SessionOf[e]), EffectTimedOut(e, batch)
      PROVE  HostInv'
  <2>1. /\ up /\ Resolve(e, "timed_out", batch, completions, timers \ {e}) /\ cancelled' = cancelled \cup {e}
        /\ completions \in SUBSET completions /\ timers \ {e} \in SUBSET timers
    BY <1>7 DEF EffectTimedOut, Cancel
  <2>2. e \in Effects /\ started[e] > 0
    BY AnswersAreHonest
  <2>3. QED
    BY <1>1, <2>1, <2>2, ResolveKeepsHostInv
<1>8. ASSUME NEW e \in timers, NEW batch \in Batches(SessionOf[e]), NEW n, CutTimedOut(e, batch, n)
      PROVE  HostInv'
  <2>1. /\ up /\ Current(e) /\ CutShort(SessionOf[e], e, batch, n)
        /\ outcomes' = [outcomes EXCEPT ![e] = Append(@, "timed_out")]
    BY <1>8 DEF CutTimedOut, CutResolve
  <2>2. e \in Effects /\ started[e] > 0
    BY AnswersAreHonest
  <2>3. Completes(SessionOf[e], e, "timed_out") /\ SessionOf[e] \in hosted
    BY <2>1, <2>2, CurrentHosted DEF Completes, HostInv
  <2>4. QED
    BY <1>1, <2>1, <2>2, <2>3, CutShortKeepsHostInv
<1>9. ASSUME NEW e \in Effects, Finish(e) PROVE HostInv'
  BY <1>1, <1>9, FinishKeepsHostInv
<1>10. ASSUME NEW s \in Sessions, StopSession(s) PROVE HostInv'
  BY <1>1, <1>10, StopKeepsHostInv
<1>11. ASSUME NEW s \in Sessions, RenameSession(s) PROVE HostInv'
  BY <1>1, <1>11, RenameKeepsHostInv
<1>12. ASSUME NEW saved, Die(saved) PROVE HostInv'
  BY <1>1, <1>12, DieKeepsHostInv
<1>13. ASSUME NEW order \in SetToSeqs(Recovered), Restart(order) PROVE HostInv'
  BY <1>1, <1>13, RestartKeepsHostInv
<1>14. ASSUME NEW order \in SetToSeqs(Recovered), NEW n, CutRestart(order, n) PROVE HostInv'
  BY <1>1, <1>14, CutRestartKeepsHostInv
<1>15. ASSUME \/ \E m \in completions : IgnoreCompletion(m)
              \/ \E e \in timers : IgnoreTimeout(e)
              \/ UNCHANGED vars
       PROVE  HostInv'
  BY <1>1, <1>15, IgnoreKeepsHostInv
<1>16. ASSUME NEW s \in Sessions, StopFails(s) PROVE HostInv'
  BY <1>1, <1>16, StopFailsKeepsHostInv
<1>17. QED
  BY <1>2, <1>3, <1>4, <1>5, <1>6, <1>7, <1>8, <1>9, <1>10, <1>11, <1>12, <1>13, <1>14, <1>15, <1>16 DEF Next

LEMMA HostInvHolds == Spec => []HostInv
  BY HostInvInit, HostInvInductive, PTL DEF Spec

(***************************************************************************)
(* An effect that runs without the slot of its session, after a deadline,  *)
(* or the end of its session, has been cancelled.                          *)
(***************************************************************************)
THEOREM OrphansCancelled == Spec => []OrphansAreCancelled
<1>1. HostInv => OrphansAreCancelled
  BY DEF HostInv, Tracked, OrphansAreCancelled
<1>2. QED
  BY <1>1, HostInvHolds, PTL

(***************************************************************************)
(* Write-ahead and one honest outcome: the next leader loads the queue     *)
(* that this one has and counts every attempt it started, wherever this    *)
(* one dies; an effect has at most one outcome, of a start that was made.  *)
(***************************************************************************)
THEOREM EffectsAreAccountedFor == Spec => []EffectsAccountedFor
<1>1. HostInv => EffectsAreDurable
  <2> SUFFICES ASSUME HostInv, up, NEW s \in hosted
               PROVE  /\ durablePending[s] = pending[s]
                      /\ \A e \in Range(pending[s]) :
                           started[e] <= durableAttempts[e] /\ durableAttempts[e] <= attempts[e]
    BY DEF EffectsAreDurable
  <2>1. Range(pending[s]) \subseteq Effects
    BY RangeOfSeq DEF HostInv, EffectsInv, Tasks, Sound, Owned
  <2>2. QED
    BY <2>1 DEF HostInv, OnDisk, EffectsInv, Ledger
<1>2. HostInv => EffectsAccountedFor
  BY <1>1 DEF HostInv, EffectsAccountedFor
<1>3. QED
  BY <1>2, HostInvHolds, PTL

(***************************************************************************)
(* Slots are used, and not too many: a session with effects holds a slot,  *)
(* waits for one, or was refused its attempt, whatever the interleaving of *)
(* commands, answers, deadlines, stops and restarts.                       *)
(***************************************************************************)
THEOREM SlotsAlwaysAgree == Spec => []SlotsAgree
<1>1. HostInv => SlotsAgree
  BY DEF HostInv, Covered, EffectsInv, Sound, Busy, SlotsAgree, NothingStranded, WithinLimit
<1>2. QED
  BY <1>1, HostInvHolds, PTL

-----------------------------------------------------------------------------
(* Effects start in order *)

StartsNext ==
  \A s \in Sessions : \A k \in DOMAIN requested'[s] :
    started'[requested'[s][k]] # started[requested'[s][k]] =>
      /\ outcomes[requested'[s][k]] = <<>>
      /\ \A j \in 1 .. k - 1 : outcomes'[requested'[s][j]] # <<>>

(* What is started is first in a queue that is in order. *)
LEMMA FirstStarts ==
  ASSUME EffectsInv, Requests', requested' \in [Sessions -> Seq(Effects)],
         \A e \in Effects : outcomes'[e] = <<>> => outcomes[e] = <<>>,
         NEW queues, Owned(hosted, queues),
         \A t \in hosted : InOrder(queues[t], requested'[t], outcomes'),
         NEW tries, NEW S, \A t \in S : t \in hosted /\ queues[t] # <<>>,
         Attempted(Executed(queues, tries, S), tries)
  PROVE  StartsNext
<1> SUFFICES ASSUME NEW s \in Sessions, NEW k \in DOMAIN requested'[s],
                    started'[requested'[s][k]] # started[requested'[s][k]]
             PROVE  /\ outcomes[requested'[s][k]] = <<>>
                    /\ \A j \in 1 .. k - 1 : outcomes'[requested'[s][j]] # <<>>
  BY DEF StartsNext
<1> DEFINE r == requested'[s]
           q == queues[s]
           e == r[k]
           d == Len(r) - Len(q)
<1>1. /\ r \in Seq(Effects) /\ k \in 1 .. Len(r) /\ Len(r) \in Nat /\ e \in Effects
      /\ SessionOf[e] = s /\ \A i, j \in 1 .. Len(r) : r[i] = r[j] => i = j
  <2>1. r \in Seq(Effects)
    OBVIOUS
  <2>2. k \in 1 .. Len(r) /\ Len(r) \in Nat
    BY <2>1, LenProperties
  <2>3. QED
    BY <2>1, <2>2, ElementOfSeq DEF Requests
<1>2. started'[e] # started[e]
  OBVIOUS
<1> HIDE DEF r, q, e
<1>3. e \in Executed(queues, tries, S)
  BY <1>1, <1>2 DEF Attempted, EffectsInv, Ledger
<1>4. e \in Fronts(queues, S)
  BY <1>3 DEF Executed
<1>5. s \in hosted /\ q # <<>> /\ e = Head(q)
  <2>1. hosted \in SUBSET Sessions /\ Owned(hosted, queues)
    BY DEF EffectsInv, Tasks
  <2>2. \A t \in S : t \in hosted /\ queues[t] # <<>>
    OBVIOUS
  <2>3. /\ e \in Effects /\ SessionOf[e] \in S /\ SessionOf[e] \in hosted
        /\ queues[SessionOf[e]] # <<>> /\ e = Head(queues[SessionOf[e]])
    BY ONLY <1>4, <2>1, <2>2, FrontsOwned
  <2>4. QED
    BY <1>1, <2>3 DEF q
<1>6. q \in Seq(Effects) /\ InOrder(q, r, outcomes')
  BY <1>5 DEF q, r, Owned
<1>7. outcomes'[e] = <<>> /\ d + 1 \in 1 .. Len(r) /\ e = r[d + 1]
  BY <1>1, <1>5, <1>6, FirstIsRequested
<1>8. k = d + 1
  BY <1>1, <1>7 DEF e
<1>9. outcomes[e] = <<>>
  BY <1>1, <1>7
<1>10. ASSUME NEW j \in 1 .. k - 1 PROVE outcomes'[r[j]] # <<>>
  <2>1. Len(q) \in Nat /\ d \in Int
    BY <1>1, <1>6, LenProperties
  <2>2. j \in 1 .. Len(r) /\ ~(j > d)
    BY <1>1, <1>8, <2>1
  <2>3. QED
    BY <1>6, <2>2 DEF InOrder
<1>11. QED
  BY <1>9, <1>10 DEF e, r

(* A transition, also when the leader dies in it. *)
LEMMA TransitionStartsNext ==
  ASSUME HostInv, up, NEW s \in hosted, NEW batch \in Batches(s), NEW done \in Effects \cup {NoEffect},
         NEW output \in Outputs, Completes(s, done, output),
         NEW n \in 0 .. Width(s, done, batch), NEW failing,
         Journaled(s, done, batch),
         Attempted(Executed(NextQueues(s, done, batch), attempts,
                            {NextWaiting(s, done, batch)[k] : k \in 1 .. n} \ failing), attempts)
  PROVE  StartsNext
<1> DEFINE queues == NextQueues(s, done, batch)
           slots == NextSlots(s, done)
           waiting == NextWaiting(s, done, batch)
           S == {waiting[k] : k \in 1 .. n} \ failing
<1>1. Requests' /\ requested' \in [Sessions -> Seq(Effects)]
  BY JournaledRequests, JournaledOwned DEF HostInv, EffectsInv
<1>2. \A t \in hosted : InOrder(queues[t], requested'[t], outcomes')
  BY JournaledInOrder DEF HostInv
<1>3. done = NoEffect \/ (Current(done) /\ SessionOf[done] = s)
  BY DEF Completes
<1>4. hosted \in SUBSET Sessions /\ Sound(hosted, queues, slots, waiting) /\ n \in 0 .. Slots(slots, waiting)
  BY <1>3, TransitionSound DEF Width, HostInv, EffectsInv, Tasks
<1> HIDE DEF queues, slots, waiting
<1>5. \A k \in 1 .. n : waiting[k] \in hosted /\ queues[waiting[k]] # <<>>
  BY ONLY <1>4, DispatchedWait
<1>6. \A t \in S : t \in hosted /\ queues[t] # <<>>
  BY <1>5
<1>7. Attempted(Executed(queues, attempts, S), attempts)
  BY DEF queues, waiting
<1>8. \A e \in Effects : outcomes'[e] = <<>> => outcomes[e] = <<>>
  <2>1. CASE done = NoEffect /\ outcomes' = outcomes
    BY <2>1
  <2>2. CASE /\ done \in Effects /\ outcomes[done] = <<>>
             /\ outcomes' = [outcomes EXCEPT ![done] = Append(@, output)]
    BY <2>2 DEF HostInv, EffectsInv, Tasks
  <2>3. QED
    BY <2>1, <2>2, CurrentIsFirst DEF Completes, HostInv
<1>9. Owned(hosted, queues) /\ EffectsInv
  BY <1>4 DEF Sound, HostInv
<1> HIDE DEF S
<1>10. QED
  BY <1>1, <1>2, <1>6, <1>7, <1>8, <1>9, FirstStarts

(* A new leader, also when it dies at once. *)
LEMMA RestartStartsNext ==
  ASSUME HostInv, NEW order \in SetToSeqs(Recovered), NEW n \in 0 .. Slots(Idle, order), NEW failing,
         Attempted(Executed(durablePending, durableAttempts, {order[k] : k \in 1 .. n} \ failing),
                   durableAttempts),
         UNCHANGED <<requested, outcomes>>
  PROVE  StartsNext
<1> DEFINE S == {order[k] : k \in 1 .. n} \ failing
<1>1. hosted \in SUBSET Sessions /\ Sound(hosted, durablePending, Idle, order) /\ n \in 0 .. Slots(Idle, order)
  BY RecoveredSound DEF HostInv, EffectsInv, Tasks
<1>2. \A k \in 1 .. n : order[k] \in hosted /\ durablePending[order[k]] # <<>>
  BY ONLY <1>1, DispatchedWait
<1>3. \A t \in S : t \in hosted /\ durablePending[t] # <<>>
  BY <1>2
<1>4. Attempted(Executed(durablePending, durableAttempts, S), durableAttempts)
  OBVIOUS
<1> HIDE DEF S
<1>5. /\ Requests' /\ requested' \in [Sessions -> Seq(Effects)]
      /\ \A e \in Effects : outcomes'[e] = <<>> => outcomes[e] = <<>>
      /\ \A t \in hosted : InOrder(durablePending[t], requested'[t], outcomes')
      /\ EffectsInv /\ Owned(hosted, durablePending)
  BY DEF HostInv, Requests, Requested, OnDisk, EffectsInv, Tasks
<1>6. QED
  BY <1>3, <1>4, <1>5, FirstStarts

LEMMA StartsNextHolds == HostInv /\ [Next]_vars => StartsNext
<1> SUFFICES ASSUME HostInv, [Next]_vars PROVE StartsNext
  OBVIOUS
<1>1. NoEffect \notin Effects /\ "returned" \in Outputs /\ "timed_out" \in Outputs
  BY EffectsAssumption DEF Outputs
<1>2. ASSUME NEW s \in hosted, NEW batch \in Batches(s), NEW done \in Effects \cup {NoEffect}, up,
             NEW output \in Outputs, Completes(s, done, output), NEW n \in 0 .. Width(s, done, batch),
             NEW failing, NEW inbox, NEW alarms, Applied(s, done, batch, n, failing, inbox, alarms)
      PROVE  StartsNext
  BY <1>2, TransitionStartsNext DEF Applied, Dispatch
<1>3. ASSUME NEW s \in hosted, NEW batch \in Batches(s), NEW done \in Effects \cup {NoEffect}, up,
             NEW output \in Outputs, Completes(s, done, output), NEW n \in 0 .. Width(s, done, batch),
             CutShort(s, done, batch, n)
      PROVE  StartsNext
  <2> DEFINE S == {NextWaiting(s, done, batch)[k] : k \in 1 .. n}
             none == {}
  <2>1. S = S \ none
    OBVIOUS
  <2>2. Attempted(Executed(NextQueues(s, done, batch), attempts, S \ none), attempts)
    BY <1>3, <2>1 DEF CutShort
  <2> HIDE DEF none
  <2>3. QED
    BY <1>3, <2>2, TransitionStartsNext DEF CutShort
<1>4. ASSUME NEW s \in Sessions, NEW batch \in Batches(s), Transition(s, batch) PROVE StartsNext
  <2>1. up /\ s \in hosted /\ Completes(s, NoEffect, "returned")
    BY <1>4 DEF Transition, Completes
  <2> DEFINE n == Width(s, NoEffect, batch)
             none == {}
  <2>2. n \in 0 .. Width(s, NoEffect, batch)
    BY <2>1, WidthInRange DEF HostInv
  <2>3. Applied(s, NoEffect, batch, n, none, completions, timers)
    BY <1>4 DEF Transition
  <2> HIDE DEF n, none
  <2>4. QED
    BY <1>1, <1>2, <2>1, <2>2, <2>3
<1>5. ASSUME NEW s \in Sessions, NEW batch \in Batches(s), NEW n \in 0 .. Width(s, NoEffect, batch),
             CutTransition(s, batch, n)
      PROVE  StartsNext
  <2>1. up /\ s \in hosted /\ Completes(s, NoEffect, "returned") /\ CutShort(s, NoEffect, batch, n)
    BY <1>5 DEF CutTransition, Completes
  <2>2. QED
    BY <1>1, <1>3, <2>1
<1>6. ASSUME NEW s \in Sessions, NEW batch \in Batches(s), NEW n \in 1 .. Width(s, NoEffect, batch),
             RefusedTransition(s, batch, n)
      PROVE  StartsNext
  <2>1. up /\ s \in hosted /\ Completes(s, NoEffect, "returned")
    BY <1>6 DEF RefusedTransition, Completes
  <2>2. Width(s, NoEffect, batch) \in Nat
    BY <2>1, WidthInRange DEF HostInv
  <2>3. n \in 0 .. Width(s, NoEffect, batch)
    BY <2>2
  <2> DEFINE last == {NextWaiting(s, NoEffect, batch)[n]}
  <2>4. Applied(s, NoEffect, batch, n, last, completions, timers)
    BY <1>6 DEF RefusedTransition
  <2> HIDE DEF last
  <2>5. QED
    BY <1>1, <1>2, <2>1, <2>3, <2>4
<1>7. ASSUME NEW e \in Effects, NEW output \in Outputs, NEW batch \in Batches(SessionOf[e]),
             NEW inbox, NEW alarms, up, Resolve(e, output, batch, inbox, alarms)
      PROVE  StartsNext
  <2>1. SessionOf[e] \in hosted /\ Completes(SessionOf[e], e, output) /\ Current(e)
    BY <1>7, CurrentHosted DEF Resolve, Completes, HostInv
  <2> DEFINE n == Width(SessionOf[e], e, batch)
             none == {}
  <2>2. n \in 0 .. Width(SessionOf[e], e, batch)
    BY <2>1, WidthInRange DEF HostInv
  <2>3. Applied(SessionOf[e], e, batch, n, none, inbox, alarms)
    BY <1>7 DEF Resolve
  <2> HIDE DEF n, none
  <2>4. QED
    BY <1>2, <1>7, <2>1, <2>2, <2>3
<1>8. ASSUME NEW e \in Effects, NEW output \in Outputs, NEW batch \in Batches(SessionOf[e]),
             NEW n \in 0 .. Width(SessionOf[e], e, batch), up, CutResolve(e, output, batch, n)
      PROVE  StartsNext
  <2>1. SessionOf[e] \in hosted /\ Completes(SessionOf[e], e, output)
    BY <1>8, CurrentHosted DEF CutResolve, Completes, HostInv
  <2>2. QED
    BY <1>3, <1>8, <2>1 DEF CutResolve
<1>9. ASSUME NEW order \in SetToSeqs(Recovered), Restart(order) PROVE StartsNext
  <2> DEFINE n == Slots(Idle, order)
             none == {}
  <2>1. n \in 0 .. Slots(Idle, order)
    BY RecoveredSound, SlotsBounded DEF HostInv
  <2>2. Dispatch(durablePending, Idle, order, durableAttempts, n, none, none, none)
    BY <1>9 DEF Restart
  <2> HIDE DEF n, none
  <2>3. UNCHANGED <<requested, outcomes>>
    BY <1>9 DEF Restart
  <2>4. Attempted(Executed(durablePending, durableAttempts, {order[k] : k \in 1 .. n} \ none), durableAttempts)
    BY <2>2 DEF Dispatch
  <2>5. QED
    BY <2>1, <2>3, <2>4, RestartStartsNext
<1>10. ASSUME NEW order \in SetToSeqs(Recovered), NEW n \in 0 .. Slots(Idle, order), CutRestart(order, n)
       PROVE  StartsNext
  <2> DEFINE S == {order[k] : k \in 1 .. n}
             none == {}
  <2>1. S = S \ none
    OBVIOUS
  <2>2. Attempted(Executed(durablePending, durableAttempts, S \ none), durableAttempts)
    BY <1>10, <2>1 DEF CutRestart
  <2> HIDE DEF none
  <2>3. QED
    BY <1>10, <2>2, RestartStartsNext DEF CutRestart
<1>11. ASSUME started' = started PROVE StartsNext
  BY <1>11 DEF StartsNext
<1>12. ASSUME NEW s \in Sessions, NEW batch \in Batches(s)
       PROVE  /\ Transition(s, batch) => StartsNext
              /\ \A n \in 0 .. Width(s, NoEffect, batch) : CutTransition(s, batch, n) => StartsNext
              /\ \A n \in 1 .. Width(s, NoEffect, batch) : RefusedTransition(s, batch, n) => StartsNext
  BY <1>4, <1>5, <1>6
<1>13. ASSUME NEW m \in completions, NEW batch \in Batches(SessionOf[m.effect])
       PROVE  /\ EffectCompleted(m, batch) => StartsNext
              /\ \A n \in 0 .. Width(SessionOf[m.effect], m.effect, batch) : CutCompleted(m, batch, n) => StartsNext
  BY <1>7, <1>8, AnswersAreHonest DEF EffectCompleted, CutCompleted
<1>14. ASSUME NEW e \in timers, NEW batch \in Batches(SessionOf[e])
       PROVE  /\ EffectTimedOut(e, batch) => StartsNext
              /\ \A n \in 0 .. Width(SessionOf[e], e, batch) : CutTimedOut(e, batch, n) => StartsNext
  BY <1>1, <1>7, <1>8, AnswersAreHonest DEF EffectTimedOut, CutTimedOut
<1>15. ASSUME \/ \E e \in Effects : Finish(e)
              \/ \E m \in completions : IgnoreCompletion(m)
              \/ \E e \in timers : IgnoreTimeout(e)
              \/ \E s \in Sessions : StopSession(s) \/ StopFails(s) \/ RenameSession(s)
              \/ \E saved \in SUBSET Sessions : Die(saved)
              \/ UNCHANGED vars
       PROVE  StartsNext
  BY <1>11, <1>15 DEF Finish, IgnoreCompletion, IgnoreTimeout, StopSession, StopFails, RenameSession, Die, vars, historyVars
<1>16. QED
  BY <1>9, <1>10, <1>12, <1>13, <1>14, <1>15 DEF Next

(***************************************************************************)
(* Effects run in the order in which their session requested them: a step  *)
(* starts an effect only if all earlier ones have their outcome and it has *)
(* none, also the steps of leaders that recover or die.                    *)
(***************************************************************************)
THEOREM EffectsStartInOrder == Spec => StartsInOrder
<1>1. HostInv /\ [Next]_vars => [StartsNext]_vars
  BY StartsNextHolds
<1>2. QED
  BY <1>1, HostInvHolds, PTL DEF Spec, StartsInOrder, StartsNext

-----------------------------------------------------------------------------
(***************************************************************************)
(* The wakes and the cancellation of one attempt: EffectWake, for any      *)
(* threads, futures, capacity of the mailbox and number of lines.          *)
(***************************************************************************)

CONSTANTS Readers, Waiters, Capacity, MaxLines
VARIABLES reader, unread, lines, queued, channel, forwarder, mailbox, awaited, actor,
          attemptActive, commandAt, isCancelled, waker, waiter, displaced

W == INSTANCE EffectWake WITH
  active <- attemptActive, running <- commandAt, cancelled <- isCancelled


Messages == {"ready", "tick", "completed", "timedOut", "stop"}

Types ==
  /\ reader \in [Readers -> [at : {"reading", "notifying", "sending"}, last : BOOLEAN, closed : BOOLEAN]]
  /\ mailbox \in Seq(Messages)
  /\ awaited \subseteq Messages \ {"ready", "tick"}
  /\ {queued, channel} \subseteq BOOLEAN

(***************************************************************************)
(* There is one wake at most between the flag and the acknowledgement, the *)
(* flag is set while there is one, and only while there is one or the      *)
(* mailbox has been dropped.                                               *)
(***************************************************************************)
OneWake ==
  /\ \A r \in Readers : reader[r].at = "sending" =>
       /\ queued /\ ~channel /\ forwarder # "sending" /\ ~W!InMailbox
       /\ \A s \in Readers : reader[s].at = "sending" => s = r
  /\ channel => queued /\ forwarder # "sending" /\ ~W!InMailbox
  /\ forwarder = "sending" => queued /\ ~W!InMailbox
  /\ W!InMailbox => queued
  /\ \A i, j \in DOMAIN mailbox : mailbox[i] = "ready" /\ mailbox[j] = "ready" => i = j
FlagIsTrue ==
  queued /\ actor # "down" =>
    (\E r \in Readers : reader[r].at = "sending") \/ channel \/ forwarder = "sending" \/ W!InMailbox

WakeInv == Types /\ OneWake /\ FlagIsTrue /\ (forwarder = "gone" => actor = "down")

-----------------------------------------------------------------------------
(* What a message more or less does to the mailbox *)

LEMMA PostKeeps ==
  ASSUME mailbox \in Seq(Messages), NEW m \in Messages, mailbox' = Append(mailbox, m)
  PROVE  /\ mailbox' \in Seq(Messages)
         /\ W!InMailbox' <=> W!InMailbox \/ m = "ready"
         /\ /\ ~W!InMailbox \/ m # "ready"
            /\ \A i, j \in DOMAIN mailbox : mailbox[i] = "ready" /\ mailbox[j] = "ready" => i = j
            => \A i, j \in DOMAIN mailbox' : mailbox'[i] = "ready" /\ mailbox'[j] = "ready" => i = j
<1>1. /\ mailbox' \in Seq(Messages)
      /\ DOMAIN mailbox = 1 .. Len(mailbox) /\ Len(mailbox) \in Nat
      /\ DOMAIN mailbox' = 1 .. Len(mailbox) + 1
      /\ \A i \in 1 .. Len(mailbox) : mailbox'[i] = mailbox[i]
      /\ mailbox'[Len(mailbox) + 1] = m
  OBVIOUS
<1>2. W!InMailbox' <=> W!InMailbox \/ m = "ready"
  <2>1. ASSUME W!InMailbox PROVE W!InMailbox'
    BY <1>1, <2>1 DEF W!InMailbox
  <2>2. ASSUME m = "ready" PROVE W!InMailbox'
    BY <1>1, <2>2 DEF W!InMailbox
  <2>3. ASSUME W!InMailbox', m # "ready" PROVE W!InMailbox
    BY <1>1, <2>3 DEF W!InMailbox
  <2> QED
    BY <2>1, <2>2, <2>3
<1>3. ASSUME ~W!InMailbox \/ m # "ready",
             \A i, j \in DOMAIN mailbox : mailbox[i] = "ready" /\ mailbox[j] = "ready" => i = j,
             NEW i \in DOMAIN mailbox', NEW j \in DOMAIN mailbox',
             mailbox'[i] = "ready", mailbox'[j] = "ready"
      PROVE  i = j
  BY <1>1, <1>3 DEF W!InMailbox
<1> QED
  BY <1>1, <1>2, <1>3

LEMMA ReceiveKeeps ==
  ASSUME mailbox \in Seq(Messages), NEW m, W!Receives(m),
         \A i, j \in DOMAIN mailbox : mailbox[i] = "ready" /\ mailbox[j] = "ready" => i = j
  PROVE  /\ mailbox' \in Seq(Messages)
         /\ W!InMailbox' <=> W!InMailbox /\ m # "ready"
         /\ m = "ready" => W!InMailbox
         /\ \A i, j \in DOMAIN mailbox' : mailbox'[i] = "ready" /\ mailbox'[j] = "ready" => i = j
<1>1. /\ mailbox # <<>> /\ mailbox' = Tail(mailbox) /\ mailbox[1] = m
      /\ DOMAIN mailbox = 1 .. Len(mailbox) /\ Len(mailbox) \in Nat /\ Len(mailbox) >= 1
  BY DEF W!Receives
<1>2. /\ mailbox' \in Seq(Messages)
      /\ DOMAIN mailbox' = 1 .. Len(mailbox) - 1
      /\ \A i \in 1 .. Len(mailbox) - 1 : mailbox'[i] = mailbox[i + 1]
  BY <1>1
<1>3. ASSUME NEW i \in DOMAIN mailbox, mailbox[i] = "ready", m # "ready" PROVE W!InMailbox'
  <2>1. i - 1 \in DOMAIN mailbox' /\ mailbox'[i - 1] = mailbox[i]
    BY <1>1, <1>2, <1>3
  <2> QED
    BY <1>3, <2>1 DEF W!InMailbox
<1>4. ASSUME NEW i \in DOMAIN mailbox', mailbox'[i] = "ready" PROVE W!InMailbox /\ m # "ready"
  BY <1>1, <1>2, <1>4 DEF W!InMailbox
<1>5. m = "ready" => W!InMailbox
  BY <1>1 DEF W!InMailbox
<1>6. \A i, j \in DOMAIN mailbox' : mailbox'[i] = "ready" /\ mailbox'[j] = "ready" => i = j
  BY <1>1, <1>2
<1> QED
  BY <1>2, <1>3, <1>4, <1>5, <1>6 DEF W!InMailbox

-----------------------------------------------------------------------------
(* A wake is never lost *)

LEMMA InvInit == W!Init => WakeInv
<1> SUFFICES ASSUME W!Init PROVE WakeInv
  OBVIOUS
<1>1. ~W!InMailbox /\ mailbox \in Seq(Messages) /\ DOMAIN mailbox = {}
  BY DEF W!Init, W!InMailbox
<1> QED
  BY <1>1 DEF W!Init, WakeInv, Types, OneWake, FlagIsTrue, Messages

(* The steps of a thread. *)
LEMMA ReaderKeeps ==
  ASSUME WakeInv, NEW r \in Readers, W!ReaderStep(r) \/ W!Break(r)
  PROVE  WakeInv'
<1>1. /\ W!InMailbox' = W!InMailbox /\ DOMAIN mailbox' = DOMAIN mailbox
      /\ UNCHANGED <<forwarder, mailbox, awaited, actor>>
  BY DEF W!ReaderStep, W!Line, W!Complete, W!Break, W!Drop, W!Notify, W!TrySend, W!wake, W!host, W!InMailbox
<1>t. reader[r] \in [at : {"reading", "notifying", "sending"}, last : BOOLEAN, closed : BOOLEAN]
  BY DEF WakeInv, Types
<1>2. ASSUME NEW x \in [at : {"reading", "notifying", "sending"}, last : BOOLEAN, closed : BOOLEAN],
             W!Becomes(r, x)
      PROVE  /\ reader' \in [Readers -> [at : {"reading", "notifying", "sending"}, last : BOOLEAN, closed : BOOLEAN]]
             /\ reader'[r] = x /\ \A s \in Readers \ {r} : reader'[s] = reader[s]
  BY <1>2 DEF W!Becomes, WakeInv, Types
<1>3. ASSUME NEW x \in [at : {"reading", "notifying"}, last : BOOLEAN, closed : BOOLEAN],
             W!Becomes(r, x), reader[r].at = "reading", UNCHANGED <<queued, channel>>
      PROVE  WakeInv'
  BY <1>1, <1>2, <1>3 DEF WakeInv, Types, OneWake, FlagIsTrue
<1>4. CASE W!Line(r)
  BY <1>3, <1>4, <1>t DEF W!Line, W!Reads, W!wake
<1>5. CASE W!Complete(r)
  BY <1>3, <1>5 DEF W!Complete, W!Reads, W!wake
<1>6. CASE W!Break(r)
  BY <1>3, <1>6 DEF W!Break, W!Reads, W!wake
<1>7. CASE W!Drop(r)
  BY <1>3, <1>7, <1>t DEF W!Drop, W!wake
<1>8. CASE W!Notify(r)
  <2>1. PICK x \in [at : {"reading", "sending"}, last : BOOLEAN, closed : BOOLEAN] :
          W!Becomes(r, x) /\ (x.at = "sending" <=> ~queued)
    BY <1>8, <1>t DEF W!Notify, WakeInv, Types
  <2>2. /\ reader' \in [Readers -> [at : {"reading", "notifying", "sending"}, last : BOOLEAN, closed : BOOLEAN]]
        /\ reader'[r] = x /\ \A s \in Readers \ {r} : reader'[s] = reader[s]
    BY <1>2, <2>1
  <2> QED
    BY <1>1, <1>8, <2>1, <2>2 DEF W!Notify, WakeInv, Types, OneWake, FlagIsTrue
<1>9. CASE W!TrySend(r)
  <2>1. PICK x \in [at : {"reading"}, last : BOOLEAN, closed : BOOLEAN] : W!Becomes(r, x)
    BY <1>9, <1>t DEF W!TrySend
  <2>2. /\ reader' \in [Readers -> [at : {"reading", "notifying", "sending"}, last : BOOLEAN, closed : BOOLEAN]]
        /\ reader'[r] = x /\ \A s \in Readers \ {r} : reader'[s] = reader[s]
    BY <1>2, <2>1
  <2> QED
    BY <1>1, <1>9, <2>1, <2>2 DEF W!TrySend, WakeInv, Types, OneWake, FlagIsTrue
<1> QED
  BY <1>4, <1>5, <1>6, <1>7, <1>8, <1>9 DEF W!ReaderStep

(* The steps of the forwarder, and what else comes to the mailbox. *)
LEMMA MailboxKeeps ==
  ASSUME WakeInv, W!ForwarderStep \/ W!Arrival
  PROVE  WakeInv'
<1>1. CASE W!Forward
  BY <1>1 DEF W!Forward, W!output, W!host, WakeInv, Types, OneWake, FlagIsTrue, W!InMailbox
<1>2. CASE W!DeliverFails
  BY <1>2 DEF W!DeliverFails, W!output, W!host, WakeInv, Types, OneWake, FlagIsTrue, W!InMailbox
<1>3. CASE W!Deliver
  <2>1. /\ mailbox' \in Seq(Messages) /\ W!InMailbox' /\ ~W!InMailbox
        /\ \A i, j \in DOMAIN mailbox' : mailbox'[i] = "ready" /\ mailbox'[j] = "ready" => i = j
    BY <1>3, PostKeeps DEF W!Deliver, WakeInv, Types, OneWake, Messages
  <2> QED
    BY <1>3, <2>1 DEF W!Deliver, W!output, WakeInv, Types, OneWake, FlagIsTrue
<1>4. ASSUME NEW m \in Messages \ {"ready"}, mailbox' = Append(mailbox, m), awaited' \subseteq awaited,
             UNCHANGED <<W!output, W!wake, actor>>
      PROVE  WakeInv'
  <2>1. mailbox \in Seq(Messages) /\ m \in Messages /\ m # "ready"
    BY <1>4 DEF WakeInv, Types
  <2>2. /\ mailbox' \in Seq(Messages) /\ (W!InMailbox' <=> W!InMailbox)
        /\ \A i, j \in DOMAIN mailbox' : mailbox'[i] = "ready" /\ mailbox'[j] = "ready" => i = j
    BY <1>4, <2>1, PostKeeps DEF WakeInv, OneWake
  <2> QED
    BY <1>4, <2>2 DEF W!output, W!wake, WakeInv, Types, OneWake, FlagIsTrue
<1>5. CASE W!Tick
  BY <1>4, <1>5 DEF W!Tick, Messages
<1>6. ASSUME NEW m \in awaited, W!Post(m) PROVE WakeInv'
  BY <1>4, <1>6 DEF W!Post, WakeInv, Types
<1> QED
  BY <1>1, <1>2, <1>3, <1>5, <1>6 DEF W!ForwarderStep, W!Arrival

(* The steps of the actor. *)
LEMMA ActorKeeps ==
  ASSUME WakeInv, W!Handle \/ W!WakeWaiter \/ W!TakeLine \/ W!EndPoll \/ W!Shutdown
  PROVE  WakeInv'
<1>1. ASSUME NEW m, W!Receives(m)
      PROVE  /\ mailbox' \in Seq(Messages)
             /\ W!InMailbox' <=> W!InMailbox /\ m # "ready"
             /\ m = "ready" => W!InMailbox
             /\ \A i, j \in DOMAIN mailbox' : mailbox'[i] = "ready" /\ mailbox'[j] = "ready" => i = j
  BY <1>1, ReceiveKeeps DEF WakeInv, Types, OneWake
<1>2. CASE W!HandleReady
  <2>1. /\ mailbox' \in Seq(Messages) /\ W!InMailbox /\ ~W!InMailbox'
        /\ \A i, j \in DOMAIN mailbox' : mailbox'[i] = "ready" /\ mailbox'[j] = "ready" => i = j
    BY <1>1, <1>2 DEF W!HandleReady
  <2>2. queued' = FALSE /\ actor' # "down" /\ UNCHANGED <<reader, channel, forwarder, awaited>>
    BY <1>2 DEF W!HandleReady, W!output
  <2>3. actor # "down"
    BY <1>2 DEF W!HandleReady, W!Receives
  <2> QED
    BY <2>1, <2>2, <2>3 DEF WakeInv, Types, OneWake, FlagIsTrue
<1>3. ASSUME NEW m, m # "ready", W!Receives(m), UNCHANGED <<W!output, W!wake, awaited>>, actor' # "down"
      PROVE  WakeInv'
  BY <1>1, <1>3 DEF W!output, W!wake, W!Receives, WakeInv, Types, OneWake, FlagIsTrue
<1>4. CASE W!HandleTick \/ W!HandleCompleted \/ W!HandleTimedOut \/ W!HandleStop
  BY <1>3, <1>4 DEF W!HandleTick, W!HandleCompleted, W!HandleTimedOut, W!HandleStop, W!Cancels, W!Receives
<1>5. CASE W!WakeWaiter \/ W!TakeLine \/ W!EndPoll
  <2>1. /\ UNCHANGED <<reader, W!wake, mailbox, awaited>> /\ W!InMailbox' = W!InMailbox
        /\ actor' = "down" <=> actor = "down"
    BY <1>5 DEF W!WakeWaiter, W!TakeLine, W!EndPoll, W!output, W!host, W!InMailbox
  <2> QED
    BY <2>1 DEF W!wake, WakeInv, Types, OneWake, FlagIsTrue
<1>6. CASE W!Shutdown
  <2>1. mailbox' \in Seq(Messages) /\ DOMAIN mailbox' = {} /\ ~W!InMailbox'
    BY <1>6 DEF W!Shutdown, W!InMailbox
  <2> QED
    BY <1>6, <2>1 DEF W!Shutdown, W!output, W!wake, WakeInv, Types, OneWake, FlagIsTrue
<1> QED
  BY <1>2, <1>4, <1>5, <1>6 DEF W!Handle

LEMMA InvStep == WakeInv /\ [W!Next]_(W!vars) => WakeInv'
<1> SUFFICES ASSUME WakeInv, [W!Next]_(W!vars) PROVE WakeInv'
  OBVIOUS
<1>1. CASE \E r \in Readers : W!ReaderStep(r) \/ W!Break(r)
  BY <1>1, ReaderKeeps
<1>2. CASE W!ForwarderStep \/ W!Arrival
  BY <1>2, MailboxKeeps
<1>3. CASE W!Handle \/ W!WakeWaiter \/ W!TakeLine \/ W!EndPoll \/ W!Shutdown
  BY <1>3, ActorKeeps
<1>4. CASE UNCHANGED <<W!output, W!wake, W!host>>
  BY <1>4 DEF W!output, W!wake, W!host, WakeInv, Types, OneWake, FlagIsTrue, W!InMailbox
<1>5. ASSUME NEW w \in Waiters, W!PollCancelled(w) \/ W!Register(w) PROVE UNCHANGED <<W!output, W!wake, W!host>>
  BY <1>5 DEF W!PollCancelled, W!Register
<1> QED
  BY <1>1, <1>2, <1>3, <1>4, <1>5 DEF W!Next, W!CleanNext, W!vars

LEMMA Invariant == W!Spec => []WakeInv
  BY InvInit, InvStep, PTL DEF W!Spec

(***************************************************************************)
(* The full branch of try_send is unreachable.                             *)
(***************************************************************************)
THEOREM FullNeverHappens == W!Spec => []W!FullIsUnreachable
<1>1. WakeInv => W!FullIsUnreachable
  BY DEF WakeInv, OneWake, W!FullIsUnreachable
<1> QED
  BY <1>1, Invariant, PTL

(* A thread that has something to tell will notify. *)
LEMMA BecomesNotifying ==
  ASSUME WakeInv, NEW r \in Readers, W!Line(r) \/ W!Complete(r) \/ W!Break(r)
  PROVE  W!IsUnderWay'
<1>1. reader'[r].at = "notifying"
  BY DEF W!Line, W!Complete, W!Break, W!Becomes, WakeInv, Types
<1> QED
  BY <1>1 DEF W!IsUnderWay

(* A thread that notifies, or coalesces with another, leaves a wake under  *)
(* way; only the actor that takes it ends it.                              *)
LEMMA UnderWayStays ==
  ASSUME WakeInv, W!IsUnderWay, [W!Next]_(W!vars), actor' = "idle"
  PROVE  W!IsUnderWay'
<1>u. WakeInv'
  BY InvStep
<1>q. queued' => W!IsUnderWay'
  BY <1>u DEF WakeInv, FlagIsTrue, W!IsUnderWay
<1>1. ASSUME NEW r \in Readers, W!ReaderStep(r) \/ W!Break(r) PROVE W!IsUnderWay'
  <2>1. CASE W!Line(r) \/ W!Complete(r) \/ W!Break(r)
    BY <2>1, BecomesNotifying
  <2>2. CASE W!Drop(r)
    <3>1. /\ \A s \in Readers : reader'[s].at = reader[s].at
          /\ UNCHANGED <<channel, forwarder>> /\ (W!InMailbox' <=> W!InMailbox)
      BY <2>2 DEF W!Drop, W!Becomes, W!wake, W!host, W!InMailbox, WakeInv, Types
    <3> QED
      BY <3>1 DEF W!IsUnderWay
  <2>3. CASE W!Notify(r)
    BY <2>3, <1>q DEF W!Notify
  <2>4. CASE W!TrySend(r)
    <3>1. actor # "down" /\ forwarder # "gone"
      BY <2>4 DEF W!TrySend, W!host, WakeInv
    <3> QED
      BY <2>4, <3>1 DEF W!TrySend, W!IsUnderWay, WakeInv, Types
  <2> QED
    BY <1>1, <2>1, <2>2, <2>3, <2>4 DEF W!ReaderStep
<1>2. CASE W!ForwarderStep
  <2>1. CASE W!Forward
    BY <2>1 DEF W!Forward, W!IsUnderWay
  <2>2. CASE W!Deliver
    <3>1. W!InMailbox'
      BY <2>2, PostKeeps DEF W!Deliver, WakeInv, Types, Messages
    <3> QED
      BY <3>1 DEF W!IsUnderWay
  <2>3. ~W!DeliverFails
    BY DEF W!DeliverFails, W!host
  <2> QED
    BY <1>2, <2>1, <2>2, <2>3 DEF W!ForwarderStep
<1>3. ASSUME UNCHANGED <<reader, channel, forwarder>>, W!InMailbox => W!InMailbox' PROVE W!IsUnderWay'
  BY <1>3 DEF W!IsUnderWay
<1>4. CASE W!Arrival
  <2>1. PICK m \in Messages : mailbox' = Append(mailbox, m) /\ UNCHANGED <<W!output, W!wake>>
    BY <1>4 DEF W!Arrival, W!Post, W!Tick, Messages, WakeInv, Types
  <2>2. W!InMailbox' <=> W!InMailbox \/ m = "ready"
    BY <2>1, PostKeeps DEF WakeInv, Types
  <2> QED
    BY <1>3, <2>1, <2>2 DEF W!output, W!wake
<1>5. CASE W!Handle
  <2>1. PICK m : m # "ready" /\ W!Receives(m) /\ UNCHANGED <<W!output, W!wake>>
    BY <1>5 DEF W!Handle, W!HandleReady, W!HandleTick, W!HandleCompleted, W!HandleTimedOut, W!HandleStop
  <2>2. W!InMailbox' <=> W!InMailbox
    BY <2>1, ReceiveKeeps DEF WakeInv, Types, OneWake
  <2> QED
    BY <1>3, <2>1, <2>2 DEF W!output, W!wake
<1>6. CASE W!EndPoll \/ \E w \in Waiters : W!PollCancelled(w) \/ W!Register(w)
  BY <1>3, <1>6 DEF W!EndPoll, W!PollCancelled, W!Register, W!output, W!wake, W!host, W!InMailbox
<1>7. ~(W!WakeWaiter \/ W!TakeLine \/ W!Shutdown)
  BY DEF W!WakeWaiter, W!TakeLine, W!Shutdown, W!host
<1>8. CASE UNCHANGED W!vars
  BY <1>3, <1>8 DEF W!vars, W!output, W!wake, W!host, W!InMailbox
<1> QED
  BY <1>1, <1>2, <1>4, <1>5, <1>6, <1>7, <1>8 DEF W!Next, W!CleanNext

(* The actor comes to rest with a command by the end of a poll only. *)
LEMMA RestsAfterPoll ==
  ASSUME [W!Next]_(W!vars), actor' = "idle", commandAt' = "session"
  PROVE  W!EndPoll \/ (actor = "idle" /\ commandAt = "session")
<1>1. CASE W!Handle
  BY <1>1 DEF W!Handle, W!HandleReady, W!HandleTick, W!HandleCompleted, W!HandleTimedOut, W!HandleStop,
              W!Receives, W!Cancels
<1>2. ~(W!WakeWaiter \/ W!TakeLine \/ W!Shutdown)
  BY DEF W!WakeWaiter, W!TakeLine, W!Shutdown, W!host
<1>3. CASE \/ \E r \in Readers : W!ReaderStep(r) \/ W!Break(r)
           \/ W!ForwarderStep \/ W!Arrival
           \/ \E w \in Waiters : W!PollCancelled(w) \/ W!Register(w)
           \/ UNCHANGED W!vars
  BY <1>3 DEF W!ReaderStep, W!Line, W!Complete, W!Break, W!Drop, W!Notify, W!TrySend, W!ForwarderStep, W!Forward,
              W!Deliver, W!DeliverFails, W!Arrival, W!Tick, W!Post, W!PollCancelled, W!Register, W!host, W!vars
<1> QED
  BY <1>1, <1>2, <1>3 DEF W!Next, W!CleanNext

(* What is unread changes by lines that arrive and by polls. *)
LEMMA LinesChange ==
  ASSUME [W!Next]_(W!vars), unread' # unread
  PROVE  W!TakeLine \/ \E r \in Readers : W!Line(r) \/ W!Break(r)
<1>1. ASSUME NEW r \in Readers, W!ReaderStep(r) PROVE W!Line(r)
  BY <1>1 DEF W!ReaderStep, W!Complete, W!Drop, W!Notify, W!TrySend
<1>2. ~(W!ForwarderStep \/ W!Arrival)
  BY DEF W!ForwarderStep, W!Forward, W!Deliver, W!DeliverFails, W!Arrival, W!Tick, W!Post, W!output
<1>3. ~(W!Handle \/ W!WakeWaiter \/ W!EndPoll \/ W!Shutdown)
  BY DEF W!Handle, W!HandleReady, W!HandleTick, W!HandleCompleted, W!HandleTimedOut, W!HandleStop,
         W!WakeWaiter, W!EndPoll, W!Shutdown, W!output
<1>4. ~\E w \in Waiters : W!PollCancelled(w) \/ W!Register(w)
  BY DEF W!PollCancelled, W!Register, W!output
<1> QED
  BY <1>1, <1>2, <1>3, <1>4 DEF W!Next, W!CleanNext, W!vars, W!output

LEMMA LinesAreTold == WakeInv /\ W!NoWakeLost /\ [W!Next]_(W!vars) => W!NoWakeLost'
<1> SUFFICES ASSUME WakeInv, W!NoWakeLost, [W!Next]_(W!vars),
                    actor' = "idle", commandAt' = "session", unread' # 0
             PROVE  W!IsUnderWay'
  BY DEF W!NoWakeLost
<1>1. ~W!EndPoll
  BY DEF W!EndPoll, W!output
<1>2. actor = "idle" /\ commandAt = "session"
  BY <1>1, RestsAfterPoll
<1>3. CASE unread # 0
  BY <1>2, <1>3, UnderWayStays DEF W!NoWakeLost
<1>4. CASE unread = 0
  BY <1>2, <1>4, LinesChange, BecomesNotifying DEF W!TakeLine
<1> QED
  BY <1>3, <1>4

(***************************************************************************)
(* No wake for output is lost, also when streams break.                    *)
(***************************************************************************)
THEOREM WakesArrive == W!Spec => []W!NoWakeLost
<1>1. W!Init => W!NoWakeLost
  BY DEF W!Init, W!NoWakeLost
<1> QED
  BY <1>1, LinesAreTold, Invariant, PTL DEF W!Spec

-----------------------------------------------------------------------------
(* The end of the command *)

\* A thread that reads no more has dropped its Sender.
LastIsClosed == \A r \in Readers : reader[r].last => reader[r].closed

LEMMA LastStaysClosed == WakeInv /\ LastIsClosed /\ [W!CleanNext]_(W!vars) => LastIsClosed'
<1> SUFFICES ASSUME WakeInv, LastIsClosed, [W!CleanNext]_(W!vars) PROVE LastIsClosed'
  OBVIOUS
<1>1. ASSUME NEW r \in Readers, W!ReaderStep(r) PROVE LastIsClosed'
  BY <1>1 DEF W!ReaderStep, W!Line, W!Complete, W!Drop, W!Notify, W!TrySend, W!Reads, W!Becomes, LastIsClosed,
              WakeInv, Types
<1>2. CASE UNCHANGED reader
  BY <1>2 DEF LastIsClosed
<1>3. CASE W!ForwarderStep \/ W!Arrival \/ W!Handle \/ UNCHANGED W!vars
  BY <1>2, <1>3 DEF W!ForwarderStep, W!Forward, W!Deliver, W!DeliverFails, W!Arrival, W!Tick, W!Post, W!Handle,
     W!HandleReady, W!HandleTick, W!HandleCompleted, W!HandleTimedOut, W!HandleStop, W!output, W!vars
<1>4. CASE \/ W!WakeWaiter \/ W!TakeLine \/ W!EndPoll \/ W!Shutdown
           \/ \E w \in Waiters : W!PollCancelled(w) \/ W!Register(w)
  BY <1>2, <1>4 DEF W!WakeWaiter, W!TakeLine, W!EndPoll, W!Shutdown, W!PollCancelled, W!Register, W!output
<1> QED
  BY <1>1, <1>3, <1>4 DEF W!CleanNext

LEMMA EndIsTold == WakeInv /\ LastIsClosed /\ W!NoEndLost /\ [W!CleanNext]_(W!vars) => W!NoEndLost'
<1> SUFFICES ASSUME WakeInv, LastIsClosed, W!NoEndLost, [W!CleanNext]_(W!vars),
                    actor' = "idle", commandAt' = "session", W!AllClosed'
             PROVE  W!IsUnderWay'
  BY DEF W!NoEndLost
<1>n. [W!Next]_(W!vars)
  BY DEF W!Next
<1>1. CASE W!EndPoll
  BY <1>1 DEF W!EndPoll, W!output, W!AllClosed
<1>2. CASE actor = "idle" /\ commandAt = "session" /\ W!AllClosed
  BY <1>2, <1>n, UnderWayStays DEF W!NoEndLost
<1>3. CASE actor = "idle" /\ ~W!AllClosed
  <2>1. ASSUME NEW r \in Readers, W!Drop(r) \/ W!Notify(r) \/ W!TrySend(r) PROVE FALSE
    BY <1>3, <2>1 DEF W!Drop, W!Notify, W!TrySend, W!Becomes, W!AllClosed, LastIsClosed, WakeInv, Types
  <2>2. ASSUME NEW r \in Readers, W!ReaderStep(r) PROVE W!IsUnderWay'
    BY <2>1, <2>2, BecomesNotifying DEF W!ReaderStep
  <2>3. ~(W!ForwarderStep \/ W!Arrival \/ W!Handle \/ UNCHANGED W!vars)
    BY <1>3 DEF W!ForwarderStep, W!Forward, W!Deliver, W!DeliverFails, W!Arrival, W!Tick, W!Post, W!Handle,
       W!HandleReady, W!HandleTick, W!HandleCompleted, W!HandleTimedOut, W!HandleStop, W!output, W!vars, W!AllClosed
  <2>4. ~ \/ W!WakeWaiter \/ W!TakeLine \/ W!EndPoll \/ W!Shutdown
          \/ \E w \in Waiters : W!PollCancelled(w) \/ W!Register(w)
    BY <1>3 DEF W!WakeWaiter, W!TakeLine, W!EndPoll, W!Shutdown, W!PollCancelled, W!Register, W!output, W!AllClosed
  <2> QED
    BY <2>2, <2>3, <2>4 DEF W!CleanNext
<1> QED
  BY <1>1, <1>2, <1>3, <1>n, RestsAfterPoll

(***************************************************************************)
(* Nor is the wake for the end, if all streams end with Completed.         *)
(***************************************************************************)
THEOREM EndsArrive == W!CleanSpec => []W!NoEndLost
<1>1. W!Init => LastIsClosed /\ W!NoEndLost
  BY DEF W!Init, LastIsClosed, W!NoEndLost
<1>2. WakeInv /\ [W!CleanNext]_(W!vars) => WakeInv'
  BY InvStep DEF W!Next
<1> QED
  BY <1>1, <1>2, InvInit, LastStaysClosed, EndIsTold, PTL DEF W!CleanSpec

-----------------------------------------------------------------------------
(* The cancellation *)

\* A future that waits, was not woken, and whose waker was not replaced, is
\* the one in the slot; and so is the last that registered, until it is told.
SlotIsWaiter ==
  /\ waker \subseteq Waiters
  /\ waiter \in [Waiters -> [at : {"away", "checked", "waiting", "resolved"}, woken : BOOLEAN]]
  /\ \A w \in Waiters \ displaced : waiter[w].at = "waiting" /\ ~waiter[w].woken => w \in waker
  /\ isCancelled /\ actor # "cancelling" => waker = {}
  /\ displaced # {} => \E w \in Waiters \ displaced : waiter[w].at # "away"

(***************************************************************************)
(* However many futures wait for the cancellation of one effect, each of   *)
(* them is woken by it unless the waker of another has replaced its own in *)
(* the slot (CancellationState), and the last to register never is         *)
(* replaced: Cancelled::poll, which looks at the flag again under the      *)
(* lock, misses no cancellation that comes between.                        *)
(***************************************************************************)
THEOREM CancellationArrives == W!Spec => []W!LastIsTold
<1>1. W!Init => SlotIsWaiter
  BY DEF W!Init, SlotIsWaiter
<1>2. SlotIsWaiter /\ [W!Next]_(W!vars) => SlotIsWaiter'
  <2> SUFFICES ASSUME SlotIsWaiter, [W!Next]_(W!vars) PROVE SlotIsWaiter'
    OBVIOUS
  <2>1. CASE UNCHANGED W!cancellation /\ (actor' = actor \/ actor = "idle")
    BY <2>1 DEF W!cancellation, SlotIsWaiter
  <2>2. CASE \E r \in Readers : W!ReaderStep(r) \/ W!Break(r)
    BY <2>1, <2>2 DEF W!ReaderStep, W!Line, W!Complete, W!Break, W!Drop, W!Notify, W!TrySend, W!host
  <2>3. CASE W!ForwarderStep \/ W!Arrival \/ UNCHANGED W!vars
    BY <2>1, <2>3 DEF W!ForwarderStep, W!Forward, W!Deliver, W!DeliverFails, W!Arrival, W!Tick, W!Post, W!host, W!vars
  <2>4. CASE W!HandleReady \/ W!HandleTick \/ W!HandleCompleted
    BY <2>1, <2>4 DEF W!HandleReady, W!HandleTick, W!HandleCompleted, W!Receives
  <2>5. CASE W!HandleTimedOut \/ W!HandleStop
    BY <2>5 DEF W!HandleTimedOut, W!HandleStop, W!Receives, W!Cancels, SlotIsWaiter
  <2>6. CASE W!WakeWaiter
    BY <2>6 DEF W!WakeWaiter, SlotIsWaiter
  <2>7. CASE W!TakeLine \/ W!EndPoll \/ W!Shutdown
    BY <2>7 DEF W!TakeLine, W!EndPoll, W!Shutdown, W!host, W!cancellation, SlotIsWaiter
  <2>8. ASSUME NEW w \in Waiters, W!PollCancelled(w) PROVE SlotIsWaiter'
    BY <2>8 DEF W!PollCancelled, W!Advances, W!host, SlotIsWaiter
  <2>9. ASSUME NEW w \in Waiters, W!Register(w) PROVE SlotIsWaiter'
    BY <2>9 DEF W!Register, W!Advances, W!host, SlotIsWaiter
  <2> QED
    BY <2>2, <2>3, <2>4, <2>5, <2>6, <2>7, <2>8, <2>9 DEF W!Next, W!CleanNext, W!Handle
<1>3. SlotIsWaiter => W!LastIsTold
  BY DEF SlotIsWaiter, W!LastIsTold
<1> QED
  BY <1>1, <1>2, <1>3, PTL DEF W!Spec
=============================================================================
