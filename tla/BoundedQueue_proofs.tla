-------------------------- MODULE BoundedQueue_proofs --------------------------
(***************************************************************************)
(* Proofs about BoundedQueue for any set of consumers, any capacity and    *)
(* any number of pushes.                                                   *)
(***************************************************************************)
EXTENDS BoundedQueue, SequenceTheorems, FiniteSetTheorems, TLAPS

-------------------------------------------------------------------------------
\* The effective capacity is a positive number, whatever the constructor's
\* argument: the zero argument is replaced by the default.
LEMMA CapacityPositive == capacity_ \in Nat \ {0}
BY ConstAssumption DEF capacity_

\* What removing the front of a non-empty sequence of numbers returns.
LEMMA TailOfNats ==
    ASSUME NEW s \in Seq(Nat), s # <<>>
    PROVE  /\ Tail(s) \in Seq(Nat)
           /\ Len(s) \in Nat \ {0}
           /\ Len(Tail(s)) = Len(s) - 1
           /\ \A i \in 1 .. Len(s) - 1 : Tail(s)[i] = s[i + 1]
           /\ Head(s) = s[1]
           /\ Head(s) \in Nat
BY HeadTailProperties, EmptySeq, LenProperties

\* What appending a number to a sequence of numbers returns.
LEMMA AppendToNats ==
    ASSUME NEW s \in Seq(Nat), NEW n \in Nat
    PROVE  /\ Append(s, n) \in Seq(Nat)
           /\ Len(s) \in Nat
           /\ Len(Append(s, n)) = Len(s) + 1
           /\ \A i \in 1 .. Len(s) : Append(s, n)[i] = s[i]
           /\ Append(s, n)[Len(s) + 1] = n
BY AppendProperties, LenProperties

\* notify_one and notify_all only move consumers out of the wait set.
LEMMA NotifyType ==
    ASSUME pc \in [Consumers -> {"idle", "waiting", "woken"}], NotifyOne \/ NotifyAll
    PROVE  pc' \in [Consumers -> {"idle", "waiting", "woken"}]
BY DEF NotifyOne, NotifyAll, Waiting

-------------------------------------------------------------------------------
(* Type correctness.                                                       *)

\* Every variable keeps its type and the deque its bound, however producers
\* and consumers interleave.
THEOREM TypeCorrect == Spec => []TypeOK
<1>1. Init => TypeOK
  <2> SUFFICES ASSUME Init
               PROVE  TypeOK
    OBVIOUS
  <2>1. queue_ \in Seq(Nat) /\ delivered \in Seq(Nat) /\ Len(queue_) = 0
    BY EmptySeq DEF Init
  <2>2. Len(queue_) <= capacity_
    BY <2>1, CapacityPositive
  <2> QED
    BY <2>1, <2>2 DEF Init, TypeOK
<1>2. TypeOK /\ [Next]_vars => TypeOK'
  <2> SUFFICES ASSUME TypeOK, [Next]_vars
               PROVE  TypeOK'
    OBVIOUS
  <2> USE CapacityPositive
  <2>1. CASE Push
    <3> DEFINE base == IF Full THEN Tail(queue_) ELSE queue_
    <3>1. base \in Seq(Nat) /\ Len(base) < capacity_
      <4>1. CASE Full
        <5>1. queue_ # <<>>
          BY <4>1, EmptySeq DEF Full, TypeOK
        <5> QED
          BY <5>1, <4>1, TailOfNats DEF Full, TypeOK
      <4>2. CASE ~Full
        BY <4>2, LenProperties DEF Full, TypeOK
      <4> QED
        BY <4>1, <4>2
    <3>2. sent + 1 \in Nat /\ queue_' = Append(base, sent + 1)
      BY <2>1 DEF Push, TypeOK
    <3> HIDE DEF base
    <3>3. queue_' \in Seq(Nat) /\ Len(queue_') <= capacity_
      BY <3>1, <3>2, AppendToNats
    <3>4. pc' \in [Consumers -> {"idle", "waiting", "woken"}]
      BY <2>1, NotifyType DEF Push, TypeOK
    <3> QED
      BY <2>1, <3>3, <3>4 DEF Push, TypeOK, capacity_
  <2>2. CASE Shutdown
    BY <2>2, NotifyType DEF Shutdown, TypeOK, capacity_
  <2>3. ASSUME queue_ # <<>>, TakeFront
        PROVE  queue_' \in Seq(Nat) /\ delivered' \in Seq(Nat) /\ Len(queue_') <= capacity_
    BY <2>3, TailOfNats, AppendToNats DEF TakeFront, TypeOK
  <2>4. ASSUME NEW c \in Consumers, Pop(c)
        PROVE  TypeOK'
    BY <2>3, <2>4 DEF Pop, TypeOK, capacity_
  <2>5. ASSUME NEW c \in Consumers, WaitAndPop(c)
        PROVE  TypeOK'
    BY <2>3, <2>5 DEF WaitAndPop, TypeOK, capacity_
  <2>6. ASSUME NEW c \in Consumers, Expire(c)
        PROVE  TypeOK'
    BY <2>6 DEF Expire, TypeOK, capacity_
  <2>7. ASSUME NEW c \in Consumers, SpuriousWake(c)
        PROVE  TypeOK'
    BY <2>7 DEF SpuriousWake, TypeOK, capacity_
  <2>8. ASSUME NEW c \in Consumers, Resume(c)
        PROVE  TypeOK'
    BY <2>3, <2>8 DEF Resume, TypeOK, capacity_
  <2>9. CASE UNCHANGED vars
    BY <2>9 DEF vars, TypeOK, capacity_
  <2> QED
    BY <2>1, <2>2, <2>4, <2>5, <2>6, <2>7, <2>8, <2>9 DEF Next
<1> QED
  BY <1>1, <1>2, PTL DEF Spec

-------------------------------------------------------------------------------
(* What becomes of the items.                                              *)

\* What the deque holds and what the consumers got, relative to the numbers of
\* the items pushed.  Inductive together with TypeOK: QueueIsLatest says which
\* number a take or an overflow removes, and the others follow from it.
ItemsInv == QueueIsLatest /\ DeliveredInOrder /\ Accounting /\ LostOnlyWhenFull

\* Handing the front of the deque to a consumer keeps the items in order.
LEMMA TakeFrontKeepsItems ==
    ASSUME TypeOK, ItemsInv, queue_ # <<>>, TakeFront,
           UNCHANGED <<sent, dropped_count_>>
    PROVE  ItemsInv'
<1> DEFINE h == Head(queue_)
<1>1. /\ queue_' \in Seq(Nat)
      /\ Len(queue_) \in Nat \ {0}
      /\ Len(queue_') = Len(queue_) - 1
      /\ \A i \in 1 .. Len(queue_) - 1 : queue_'[i] = queue_[i + 1]
      /\ h = queue_[1] /\ h \in Nat
  BY TailOfNats DEF TypeOK, TakeFront
<1>2. /\ Len(delivered) \in Nat
      /\ Len(delivered') = Len(delivered) + 1
      /\ \A i \in 1 .. Len(delivered) : delivered'[i] = delivered[i]
      /\ delivered'[Len(delivered) + 1] = h
  <2>1. h \in Nat /\ delivered \in Seq(Nat) /\ delivered' = Append(delivered, h)
    BY <1>1 DEF TypeOK, TakeFront
  <2> HIDE DEF h
  <2> QED
    BY <2>1, AppendToNats
<1>3. h = sent - Len(queue_) + 1
  BY <1>1 DEF ItemsInv, QueueIsLatest
<1>4. sent' = sent /\ sent \in Nat /\ capacity_' = capacity_ /\ capacity_ \in Nat
  BY CapacityPositive DEF TypeOK, capacity_
<1>5. \A i \in 1 .. Len(delivered) : delivered[i] \in Nat
  BY <1>2, ElementOfSeq DEF TypeOK
<1> HIDE DEF h
<1>6. QueueIsLatest'
  BY <1>1, <1>4 DEF ItemsInv, QueueIsLatest
<1>7. DeliveredInOrder'
  <2>1. \A i \in 1 .. Len(delivered) : delivered[i] < h
    BY <1>1, <1>3, <1>4, <1>5 DEF ItemsInv, DeliveredInOrder
  <2>2. ASSUME NEW i \in 1 .. Len(delivered'), NEW j \in 1 .. Len(delivered'), i < j
        PROVE  delivered'[i] < delivered'[j]
    <3>1. CASE j = Len(delivered) + 1
      BY <3>1, <2>1, <2>2, <1>2
    <3>2. CASE j # Len(delivered) + 1
      BY <3>2, <2>2, <1>2 DEF ItemsInv, DeliveredInOrder
    <3> QED
      BY <3>1, <3>2
  <2>3. ASSUME NEW i \in 1 .. Len(delivered')
        PROVE  delivered'[i] <= sent' - Len(queue_')
    <3>1. sent' - Len(queue_') = h
      BY <1>1, <1>3, <1>4
    <3>2. CASE i = Len(delivered) + 1
      BY <3>1, <3>2, <1>1, <1>2
    <3>3. CASE i # Len(delivered) + 1
      BY <3>1, <3>3, <2>1, <1>1, <1>2, <1>5
    <3> QED
      BY <3>2, <3>3
  <2> QED
    BY <2>2, <2>3 DEF DeliveredInOrder
<1>8. Accounting'
  BY <1>1, <1>2, <1>4 DEF ItemsInv, Accounting, TypeOK
<1>9. LostOnlyWhenFull'
  <2> SUFFICES ASSUME NEW n \in 1 .. sent,
                      ~ (n <= sent - capacity_)
               PROVE  \/ \E i \in 1 .. Len(delivered') : n = delivered'[i]
                      \/ \E i \in 1 .. Len(queue_') : n = queue_'[i]
    BY <1>4 DEF LostOnlyWhenFull
  <2>1. CASE \E i \in 1 .. Len(delivered) : n = delivered[i]
    BY <2>1, <1>2
  <2>2. CASE \E i \in 1 .. Len(queue_) : n = queue_[i]
    <3>1. PICK i \in 1 .. Len(queue_) : n = queue_[i]
      BY <2>2
    <3>2. CASE i = 1
      BY <3>1, <3>2, <1>1, <1>2
    <3>3. CASE i # 1
      <4>1. i - 1 \in 1 .. Len(queue_') /\ queue_'[i - 1] = n
        BY <3>1, <3>3, <1>1
      <4> QED
        BY <4>1
    <3> QED
      BY <3>2, <3>3
  <2> QED
    BY <2>1, <2>2 DEF ItemsInv, LostOnlyWhenFull
<1> QED
  BY <1>6, <1>7, <1>8, <1>9 DEF ItemsInv

\* A push, with or without overflow, keeps the items in order, and the item it
\* overwrites is old enough to be lost.
LEMMA PushKeepsItems ==
    ASSUME TypeOK, ItemsInv, Push
    PROVE  ItemsInv'
<1> DEFINE base == IF Full THEN Tail(queue_) ELSE queue_
           gone == IF Full THEN 1 ELSE 0
<1> USE CapacityPositive
<1>1. /\ Len(queue_) \in Nat
      /\ base \in Seq(Nat)
      /\ gone \in 0 .. 1
      /\ Len(base) = Len(queue_) - gone
      /\ \A i \in 1 .. Len(base) : base[i] = queue_[i + gone]
  <2>1. CASE Full
    <3>1. queue_ # <<>>
      BY <2>1, EmptySeq DEF Full, TypeOK
    <3> QED
      BY <3>1, <2>1, TailOfNats DEF TypeOK
  <2>2. CASE ~Full
    BY <2>2, LenProperties DEF TypeOK
  <2> QED
    BY <2>1, <2>2
<1>2. gone = 1 => Len(queue_) = capacity_
  BY <1>1 DEF Full, TypeOK
<1>3. /\ sent \in Nat /\ sent' = sent + 1
      /\ dropped_count_' = dropped_count_ + gone
      /\ delivered' = delivered
      /\ queue_' = Append(base, sent + 1)
      /\ capacity_' = capacity_
  BY DEF Push, TypeOK, capacity_
<1> HIDE DEF base, gone
<1>4. /\ Len(base) \in Nat /\ Len(delivered) \in Nat
      /\ Len(queue_') = Len(base) + 1
      /\ \A i \in 1 .. Len(base) : queue_'[i] = base[i]
      /\ queue_'[Len(base) + 1] = sent + 1
  BY <1>1, <1>3, AppendToNats, LenProperties DEF TypeOK
<1>5. \A i \in 1 .. Len(queue_') : queue_'[i] = sent' - Len(queue_') + i
  <2> SUFFICES ASSUME NEW i \in 1 .. Len(queue_')
               PROVE  queue_'[i] = sent' - Len(queue_') + i
    OBVIOUS
  <2> DEFINE k == Len(base)
  <2>0. /\ k \in Nat /\ Len(queue_') = k + 1 /\ Len(queue_) = k + gone
        /\ gone \in 0 .. 1
    BY <1>1, <1>4
  <2>1. CASE i = k + 1
    <3>1. queue_'[i] = sent + 1
      BY <2>1, <1>4
    <3> HIDE DEF k
    <3> QED
      BY <3>1, <2>0, <2>1, <1>3
  <2>2. CASE i # k + 1
    <3>1. i \in 1 .. Len(base) /\ i + gone \in 1 .. Len(queue_)
      BY <2>2, <1>1, <1>4
    <3>2. queue_'[i] = sent - Len(queue_) + (i + gone)
      BY <3>1, <1>1, <1>4 DEF ItemsInv, QueueIsLatest
    <3> HIDE DEF k
    <3> QED
      BY <3>2, <2>0, <1>3
  <2> QED
    BY <2>1, <2>2
<1>6. DeliveredInOrder'
  <2>1. \A i \in 1 .. Len(delivered) : delivered[i] \in Nat
    BY LenProperties, ElementOfSeq DEF TypeOK
  <2> QED
    BY <2>1, <1>1, <1>3, <1>4 DEF ItemsInv, DeliveredInOrder
<1>7. Accounting'
  <2>1. Len(delivered') = Len(delivered)
    BY <1>3
  <2> QED
    BY <2>1, <1>1, <1>3, <1>4 DEF ItemsInv, Accounting, TypeOK
<1>8. LostOnlyWhenFull'
  <2>6. sent \in Nat /\ sent' = sent + 1 /\ delivered' = delivered
    BY <1>3
  <2> SUFFICES ASSUME NEW n \in 1 .. sent',
                      ~ (n <= sent' - capacity_)
               PROVE  \/ n \in {delivered'[i] : i \in 1 .. Len(delivered')}
                      \/ n \in {queue_'[i] : i \in 1 .. Len(queue_')}
    BY DEF LostOnlyWhenFull, capacity_
  <2>5. n \in 1 .. sent + 1 /\ ~ (n <= sent + 1 - capacity_)
    BY <2>6
  <2> SUFFICES \/ \E i \in 1 .. Len(delivered) : n = delivered[i]
               \/ \E i \in 1 .. Len(queue_') : n = queue_'[i]
    BY <2>6
  <2>1. CASE n = sent + 1
    BY <2>1, <1>1, <1>4
  <2>2. CASE \E i \in 1 .. Len(delivered) : n = delivered[i]
    BY <2>2
  <2>3. CASE \E i \in 1 .. Len(queue_) : n = queue_[i]
    <3>1. PICK i \in 1 .. Len(queue_) : n = queue_[i]
      BY <2>3
    <3>2. n = sent - Len(queue_) + i
      BY <3>1 DEF ItemsInv, QueueIsLatest
    <3>3. i - gone \in 1 .. Len(base)
      BY <3>2, <2>5, <1>1, <1>2, <1>3
    <3>4. queue_'[i - gone] = n
      BY <3>3, <3>1, <1>1, <1>4
    <3> QED
      BY <3>3, <3>4, <1>1, <1>4
  <2>4. \/ n = sent + 1
        \/ n \in 1 .. sent /\ ~ (n <= sent - capacity_)
    BY <2>5, <1>3
  <2> QED
    BY <2>1, <2>2, <2>3, <2>4 DEF ItemsInv, LostOnlyWhenFull
<1> QED
  BY <1>5, <1>6, <1>7, <1>8 DEF ItemsInv, QueueIsLatest

\* ItemsInv is an invariant: no interleaving of producers and consumers
\* reorders, duplicates or miscounts an item, or loses one too early.
THEOREM ItemsCorrect == Spec => []ItemsInv
<1>1. Init => ItemsInv
  <2> SUFFICES ASSUME Init
               PROVE  ItemsInv
    OBVIOUS
  <2>1. Len(queue_) = 0 /\ Len(delivered) = 0 /\ sent = 0 /\ dropped_count_ = 0
    BY EmptySeq DEF Init
  <2> QED
    BY <2>1 DEF ItemsInv, QueueIsLatest, DeliveredInOrder, Accounting, LostOnlyWhenFull
<1>2. TypeOK /\ ItemsInv /\ [Next]_vars => ItemsInv'
  <2> SUFFICES ASSUME TypeOK, ItemsInv, [Next]_vars
               PROVE  ItemsInv'
    OBVIOUS
  <2>1. CASE Push
    BY <2>1, PushKeepsItems
  <2>2. ASSUME UNCHANGED <<queue_, delivered, sent, dropped_count_>>
        PROVE  ItemsInv'
    BY <2>2 DEF ItemsInv, QueueIsLatest, DeliveredInOrder, Accounting, LostOnlyWhenFull,
                capacity_
  <2>3. ASSUME NEW c \in Consumers, Pop(c)
        PROVE  ItemsInv'
    BY <2>3, TakeFrontKeepsItems DEF Pop
  <2>4. ASSUME NEW c \in Consumers, WaitAndPop(c)
        PROVE  ItemsInv'
    BY <2>4, <2>2, TakeFrontKeepsItems DEF WaitAndPop
  <2>5. ASSUME NEW c \in Consumers, Resume(c)
        PROVE  ItemsInv'
    BY <2>5, <2>2, TakeFrontKeepsItems DEF Resume
  <2>6. ASSUME Shutdown \/ (\E c \in Consumers : Expire(c) \/ SpuriousWake(c))
        PROVE  ItemsInv'
    BY <2>6, <2>2 DEF Shutdown, Expire, SpuriousWake
  <2>7. CASE UNCHANGED vars
    BY <2>7, <2>2 DEF vars
  <2> QED
    BY <2>1, <2>3, <2>4, <2>5, <2>6, <2>7 DEF Next
<1> QED
  BY <1>1, <1>2, TypeCorrect, PTL DEF Spec

\* Delivery is in the order of the pushes, at most once each.
THEOREM OrderCorrect == Spec => []DeliveredInOrder
BY ItemsCorrect, PTL DEF ItemsInv

\* Every item pushed was delivered, is queued or was counted as dropped.
THEOREM AccountingCorrect == Spec => []Accounting
BY ItemsCorrect, PTL DEF ItemsInv

\* Nothing is lost before capacity_ newer items have been pushed.
THEOREM LossCorrect == Spec => []LostOnlyWhenFull
BY ItemsCorrect, PTL DEF ItemsInv

-------------------------------------------------------------------------------
(* Nobody sleeps next to an item, nor after shutdown.                      *)

\* Inductive together with TypeOK.
WakeInv == NoLostWakeup /\ NobodySleepsAfterShutdown

\* The consumers woken but not running yet are finitely many.
LEMMA WokenFinite == IsFiniteSet(Woken) /\ Cardinality(Woken) \in Nat
<1>1. Woken \subseteq Consumers
  BY DEF Woken
<1> QED
  BY <1>1, ConstAssumption, FS_Subset, FS_CardinalityType

\* Every item pushed while a consumer sleeps comes with a wake-up; a wake-up is
\* spent only by a consumer that takes an item or finds none; a consumer goes to
\* sleep only next to an empty deque and before shutdown.
THEOREM WakeupsCorrect == Spec => [](NoLostWakeup /\ NobodySleepsAfterShutdown)
<1>1. Init => WakeInv
  BY DEF Init, WakeInv, NoLostWakeup, NobodySleepsAfterShutdown, Waiting
<1>2. TypeOK /\ WakeInv /\ [Next]_vars => WakeInv'
  <2> SUFFICES ASSUME TypeOK, WakeInv, [Next]_vars
               PROVE  WakeInv'
    OBVIOUS
  <2> USE WokenFinite
  <2>0. Len(queue_) \in Nat
    BY LenProperties DEF TypeOK
  <2>1. CASE Push
    <3>1. Len(queue_') \in Nat /\ Len(queue_') <= Len(queue_) + 1
      <4> DEFINE base == IF Full THEN Tail(queue_) ELSE queue_
      <4>1. base \in Seq(Nat) /\ Len(base) \in Nat /\ Len(base) <= Len(queue_)
        <5>1. CASE Full
          <6>1. queue_ # <<>>
            BY <5>1, CapacityPositive, EmptySeq DEF Full, TypeOK
          <6> QED
            BY <6>1, <5>1, TailOfNats DEF TypeOK
        <5> QED
          BY <5>1, <2>0 DEF TypeOK
      <4>2. queue_' = Append(base, sent + 1) /\ sent + 1 \in Nat
        BY <2>1 DEF Push, TypeOK
      <4> HIDE DEF base
      <4> QED
        BY <4>1, <4>2, <2>0, AppendToNats
    <3>2. CASE Waiting = {}
      <4>1. Waiting' = {}
        BY <2>1, <3>2 DEF Push, NotifyOne, Waiting
      <4> QED
        BY <4>1 DEF WakeInv, NoLostWakeup, NobodySleepsAfterShutdown
    <3>3. CASE Waiting # {}
      <4>1. PICK c \in Waiting : pc' = [pc EXCEPT ![c] = "woken"]
        BY <2>1, <3>3 DEF Push, NotifyOne
      <4>2. c \notin Woken /\ Woken' = Woken \cup {c}
        BY <4>1 DEF Woken, Waiting, TypeOK
      <4>3. Cardinality(Woken') = Cardinality(Woken) + 1
        BY <4>2, FS_AddElement
      <4>4. Len(queue_) <= Cardinality(Woken) /\ ~shutdown_ /\ ~shutdown_'
        BY <3>3, <2>1 DEF WakeInv, NoLostWakeup, NobodySleepsAfterShutdown, Push, TypeOK
      <4> QED
        BY <4>3, <4>4, <3>1, <2>0 DEF WakeInv, NoLostWakeup, NobodySleepsAfterShutdown
    <3> QED
      BY <3>2, <3>3
  <2>2. CASE Shutdown
    <3>1. Waiting' = {}
      BY <2>2 DEF Shutdown, NotifyAll, Waiting, TypeOK
    <3> QED
      BY <3>1 DEF WakeInv, NoLostWakeup, NobodySleepsAfterShutdown
  <2>3. ASSUME queue_ # <<>>, TakeFront
        PROVE  Len(queue_') = Len(queue_) - 1
    BY <2>3, TailOfNats DEF TakeFront, TypeOK
  <2>4. ASSUME queue_ # <<>>, TakeFront, UNCHANGED <<pc, shutdown_>>
        PROVE  WakeInv'
    <3>1. Woken' = Woken /\ Waiting' = Waiting /\ shutdown_' = shutdown_
      BY <2>4 DEF Woken, Waiting
    <3> QED
      BY <3>1, <2>0, <2>3, <2>4 DEF WakeInv, NoLostWakeup, NobodySleepsAfterShutdown
  <2>5. ASSUME queue_' = <<>>, shutdown_' => Waiting' = {}
        PROVE  WakeInv'
    <3>1. Len(queue_') = 0
      BY <2>5
    <3>2. Cardinality(Woken') \in Nat
      <4>1. Woken' \subseteq Consumers
        BY DEF Woken
      <4> QED
        BY <4>1, ConstAssumption, FS_Subset, FS_CardinalityType
    <3> QED
      BY <3>1, <3>2, <2>5 DEF WakeInv, NoLostWakeup, NobodySleepsAfterShutdown
  <2>6. ASSUME NEW c \in Consumers, Pop(c)
        PROVE  WakeInv'
    BY <2>6, <2>4 DEF Pop
  <2>7. ASSUME NEW c \in Consumers, WaitAndPop(c)
        PROVE  WakeInv'
    <3>1. CASE queue_ # <<>> /\ TakeFront /\ UNCHANGED <<pc, expired>>
      BY <3>1, <2>7, <2>4 DEF WaitAndPop
    <3>2. CASE ~WakeCondition /\ UNCHANGED <<queue_, delivered>>
      BY <3>2, <2>7, <2>5 DEF WaitAndPop, WakeCondition
    <3> QED
      BY <3>1, <3>2, <2>7 DEF WaitAndPop
  <2>8. ASSUME NEW c \in Consumers,
               UNCHANGED <<queue_, shutdown_>>,
               pc' = [pc EXCEPT ![c] = "woken"]
        PROVE  WakeInv'
    <3>1. Waiting' \subseteq Waiting /\ Woken' = Woken \cup {c}
      BY <2>8 DEF Waiting, Woken, TypeOK
    <3>2. Cardinality(Woken') \in Nat /\ Cardinality(Woken) <= Cardinality(Woken')
      BY <3>1, FS_AddElement
    <3> QED
      BY <3>1, <3>2, <2>0, <2>8 DEF WakeInv, NoLostWakeup, NobodySleepsAfterShutdown
  <2>9. ASSUME NEW c \in Consumers, Expire(c) \/ SpuriousWake(c)
        PROVE  WakeInv'
    BY <2>9, <2>8 DEF Expire, SpuriousWake
  <2>10. ASSUME NEW c \in Consumers, Resume(c)
         PROVE  WakeInv'
    <3>1. CASE queue_ # <<>> /\ TakeFront /\ pc' = [pc EXCEPT ![c] = "idle"]
      <4>1. c \in Woken /\ Waiting' = Waiting /\ Woken' = Woken \ {c} /\ shutdown_' = shutdown_
        BY <3>1, <2>10 DEF Resume, Woken, Waiting, TypeOK
      <4>2. Cardinality(Woken') = Cardinality(Woken) - 1
        BY <4>1, FS_RemoveElement
      <4> QED
        BY <4>1, <4>2, <3>1, <2>0, <2>3 DEF WakeInv, NoLostWakeup, NobodySleepsAfterShutdown
    <3>2. CASE /\ queue_ = <<>> /\ UNCHANGED <<queue_, delivered>>
               /\ pc' = [pc EXCEPT ![c] = "idle"]
      <4>1. Waiting' \subseteq Waiting /\ shutdown_' = shutdown_
        BY <3>2, <2>10 DEF Resume, Waiting, TypeOK
      <4> QED
        BY <4>1, <3>2, <2>5 DEF WakeInv, NobodySleepsAfterShutdown
    <3>3. CASE ~WakeCondition /\ UNCHANGED <<queue_, delivered>>
      BY <3>3, <2>10, <2>5 DEF Resume, WakeCondition
    <3> QED
      BY <3>1, <3>2, <3>3, <2>10 DEF Resume
  <2>11. CASE UNCHANGED vars
    BY <2>11 DEF vars, WakeInv, NoLostWakeup, NobodySleepsAfterShutdown, Waiting, Woken
  <2> QED
    BY <2>1, <2>2, <2>6, <2>7, <2>9, <2>10, <2>11 DEF Next
<1> QED
  BY <1>1, <1>2, TypeCorrect, PTL DEF Spec, WakeInv

-------------------------------------------------------------------------------
(* The queue implements the channel.                                       *)

\* A push is a Send of the abstract channel, each of the three ways of taking
\* an item is a Deliver, and every other step of the queue is invisible to its
\* users: sleeping, waking, timeouts and shutdown neither lose nor reorder.
THEOREM QueueImplementsChannel == Spec => ImplementsChannel
<1>1. Init => Chan!ChanInit
  <2> SUFFICES ASSUME Init
               PROVE  Chan!ChanInit
    OBVIOUS
  <2>1. Len(queue_) = 0 /\ sent = 0
    BY EmptySeq DEF Init
  <2> QED
    BY <2>1 DEF Init, Chan!ChanInit
<1>2. TypeOK /\ QueueIsLatest /\ [Next]_vars => [Chan!ChanNext]_(Chan!chanVars)
  <2> SUFFICES ASSUME TypeOK, QueueIsLatest, [Next]_vars
               PROVE  [Chan!ChanNext]_(Chan!chanVars)
    OBVIOUS
  <2>1. CASE Push
    <3> DEFINE base == IF Full THEN Tail(queue_) ELSE queue_
    <3>1. /\ base \in Seq(Nat) /\ Len(queue_) \in Nat
          /\ Len(base) = IF Len(queue_) < capacity_ THEN Len(queue_) ELSE Len(queue_) - 1
      <4>1. CASE Full
        <5>1. queue_ # <<>>
          BY <4>1, CapacityPositive, EmptySeq DEF Full, TypeOK
        <5> QED
          BY <5>1, <4>1, TailOfNats, CapacityPositive DEF Full, TypeOK
      <4>2. CASE ~Full
        BY <4>2, CapacityPositive, LenProperties DEF Full, TypeOK
      <4> QED
        BY <4>1, <4>2
    <3>2. /\ sent \in Nat /\ sent' = sent + 1 /\ delivered' = delivered
          /\ queue_' = Append(base, sent + 1)
      BY <2>1 DEF Push, TypeOK
    <3> HIDE DEF base
    <3>3. Len(queue_') = Len(base) + 1
      BY <3>1, <3>2, AppendToNats
    <3>4. sent + 1 - (sent - Len(queue_) + 1) = Len(queue_)
      BY <3>1, <3>2
    <3>5. sent' - Len(queue_') + 1 = IF Len(queue_) < capacity_
                                     THEN sent - Len(queue_) + 1
                                     ELSE sent - Len(queue_) + 1 + 1
      <4>1. CASE Len(queue_) < capacity_
        <5>1. Len(queue_') = Len(queue_) + 1
          BY <4>1, <3>1, <3>3
        <5> QED
          BY <4>1, <5>1, <3>1, <3>2
      <4>2. CASE ~(Len(queue_) < capacity_)
        <5>1. Len(queue_') = Len(queue_)
          BY <4>2, <3>1, <3>3
        <5> QED
          BY <4>2, <5>1, <3>1, <3>2
      <4> QED
        BY <4>1, <4>2
    <3> QED
      BY <3>2, <3>4, <3>5 DEF Chan!ChanNext, Chan!Send
  <2>2. ASSUME queue_ # <<>>, TakeFront, UNCHANGED sent
        PROVE  Chan!Deliver
    <3>1. /\ Len(queue_) \in Nat \ {0}
          /\ Len(queue_') = Len(queue_) - 1
          /\ Head(queue_) = queue_[1]
      BY <2>2, TailOfNats DEF TakeFront, TypeOK
    <3>2. Head(queue_) = sent - Len(queue_) + 1
      BY <3>1 DEF QueueIsLatest
    <3>3. /\ delivered' = Append(delivered, sent - Len(queue_) + 1)
          /\ sent - Len(queue_) + 1 <= sent
          /\ sent' - Len(queue_') + 1 = sent - Len(queue_) + 1 + 1
          /\ sent' = sent
      BY <2>2, <3>1, <3>2 DEF TakeFront, TypeOK
    <3> QED
      BY <3>3 DEF Chan!Deliver
  <2>3. ASSUME UNCHANGED <<queue_, sent, delivered>>
        PROVE  UNCHANGED Chan!chanVars
    BY <2>3 DEF Chan!chanVars
  <2>4. ASSUME NEW c \in Consumers, Pop(c) \/ WaitAndPop(c) \/ Resume(c)
        PROVE  Chan!Deliver \/ UNCHANGED Chan!chanVars
    BY <2>4, <2>2, <2>3 DEF Pop, WaitAndPop, Resume
  <2>5. ASSUME Shutdown \/ (\E c \in Consumers : Expire(c) \/ SpuriousWake(c))
        PROVE  UNCHANGED Chan!chanVars
    BY <2>5, <2>3 DEF Shutdown, Expire, SpuriousWake
  <2>6. CASE UNCHANGED vars
    BY <2>6, <2>3 DEF vars
  <2> QED
    BY <2>1, <2>4, <2>5, <2>6 DEF Next, Chan!ChanNext
<1>3. Spec => []QueueIsLatest
  BY ItemsCorrect, PTL DEF ItemsInv
<1> QED
  BY <1>1, <1>2, <1>3, TypeCorrect, PTL DEF Spec, ImplementsChannel, Chan!ChanSpec
===============================================================================
