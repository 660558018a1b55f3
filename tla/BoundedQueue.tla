----------------------------- MODULE BoundedQueue -----------------------------
(***************************************************************************)
(* sysscope::telemetry::BoundedQueue<T>                                    *)
(* (src/include/sysscope/telemetry/queue.hpp).                             *)
(*                                                                         *)
(* The queue is one mutex, one condition variable and a deque.  Every      *)
(* critical section is one action: push, pop and shutdown are a single     *)
(* one; wait_and_pop is one when its predicate holds at once, and          *)
(* otherwise releases the mutex inside cv_.wait_for and continues in       *)
(* Resume.  An item is its sequence number: the n-th push pushes n.        *)
(*                                                                         *)
(* wait_for(lock, timeout, pred) fixes its deadline on entry and, each     *)
(* time it is woken, re-acquires the mutex and evaluates pred; when pred   *)
(* is false it gives up if the deadline has passed and blocks again        *)
(* otherwise.  A thread leaves the wait set by a notification, by its      *)
(* deadline or spuriously, and does not run until it holds the mutex       *)
(* again: in between, anybody may take the item it was woken for.          *)
(***************************************************************************)
EXTENDS Naturals, Sequences, FiniteSets

CONSTANTS Consumers,          \* threads that call pop and wait_and_pop
          RequestedCapacity,  \* the constructor's argument
          DefaultCapacity,    \* what a capacity of 0 stands for (8192)
          MaxPush             \* bound of the model: pushes in a behaviour

ASSUME ConstAssumption == /\ IsFiniteSet(Consumers)
                          /\ RequestedCapacity \in Nat
                          /\ DefaultCapacity \in Nat \ {0}
                          /\ MaxPush \in Nat

VARIABLES queue_,         \* the deque
          shutdown_,
          dropped_count_,
          pc,             \* where each consumer is (see TypeOK)
          expired,        \* has the deadline of its wait_for passed?
          sent,           \* history: number of pushes so far
          delivered       \* history: items handed to consumers, in order

vars == <<queue_, shutdown_, dropped_count_, pc, expired, sent, delivered>>

-------------------------------------------------------------------------------
capacity_ == IF RequestedCapacity > 0 THEN RequestedCapacity ELSE DefaultCapacity

Full == Len(queue_) >= capacity_

\* The predicate wait_and_pop waits for.
WakeCondition == queue_ # <<>> \/ shutdown_

Waiting == {c \in Consumers : pc[c] = "waiting"}
Woken   == {c \in Consumers : pc[c] = "woken"}

\* A slip of push: notify only when the queue goes from empty to non-empty.
NotifyOneWhenEmpty ==
    IF Waiting = {} \/ queue_ # <<>>
    THEN UNCHANGED pc
    ELSE \E c \in Waiting : pc' = [pc EXCEPT ![c] = "woken"]

\* notify_one wakes one thread of the wait set, if there is one.
NotifyOne == IF Waiting = {}
             THEN UNCHANGED pc
             ELSE \E c \in Waiting : pc' = [pc EXCEPT ![c] = "woken"]

\* A slip of shutdown: notify_one where every waiter must be told.
NotifyAllButOne == IF Waiting = {}
                   THEN UNCHANGED pc
                   ELSE \E c \in Waiting : pc' = [pc EXCEPT ![c] = "woken"]

NotifyAll == pc' = [c \in Consumers |-> IF pc[c] = "waiting" THEN "woken" ELSE pc[c]]

\* A slip: the newest item instead of the oldest.
TakeBack == /\ queue_' = SubSeq(queue_, 1, Len(queue_) - 1)
            /\ delivered' = Append(delivered, queue_[Len(queue_)])

\* Move the front item out of the deque and hand it to the caller.
TakeFront == /\ queue_' = Tail(queue_)
             /\ delivered' = Append(delivered, Head(queue_))

-------------------------------------------------------------------------------
Init == /\ queue_ = <<>>
        /\ shutdown_ = FALSE
        /\ dropped_count_ = 0
        /\ pc = [c \in Consumers |-> "idle"]
        /\ expired = [c \in Consumers |-> FALSE]
        /\ sent = 0
        /\ delivered = <<>>

\* A slip of push: the overwritten item is not counted.
PushUncounted == /\ sent < MaxPush
                 /\ sent' = sent + 1
                 /\ queue_' = Append(IF Full THEN Tail(queue_) ELSE queue_, sent + 1)
                 /\ NotifyOne
                 /\ UNCHANGED <<shutdown_, dropped_count_, expired, delivered>>

\* push: never blocks and never refuses, not even after shutdown.
Push == /\ sent < MaxPush
        /\ sent' = sent + 1
        /\ queue_' = Append(IF Full THEN Tail(queue_) ELSE queue_, sent + 1)
        /\ dropped_count_' = IF Full THEN dropped_count_ + 1 ELSE dropped_count_
        /\ NotifyOne
        /\ UNCHANGED <<shutdown_, expired, delivered>>

\* pop of a queue that holds something; on an empty one it returns nullopt
\* and changes nothing.
Pop(c) == /\ pc[c] = "idle"
          /\ queue_ # <<>>
          /\ TakeFront
          /\ UNCHANGED <<shutdown_, dropped_count_, pc, expired, sent>>

\* wait_and_pop up to its return, or up to the release of the mutex.
WaitAndPop(c) ==
    /\ pc[c] = "idle"
    /\ \/ /\ queue_ # <<>>
          /\ TakeFront
          /\ UNCHANGED <<pc, expired>>
       \/ /\ ~WakeCondition
          /\ pc' = [pc EXCEPT ![c] = "waiting"]
          /\ expired' = [expired EXCEPT ![c] = FALSE]
          /\ UNCHANGED <<queue_, delivered>>
    /\ UNCHANGED <<shutdown_, dropped_count_, sent>>

\* The deadline passes; a thread still in the wait set leaves it.
Expire(c) == /\ pc[c] # "idle"
             /\ ~expired[c]
             /\ expired' = [expired EXCEPT ![c] = TRUE]
             /\ pc' = [pc EXCEPT ![c] = "woken"]
             /\ UNCHANGED <<queue_, shutdown_, dropped_count_, sent, delivered>>

\* A condition variable may wake a thread for no reason.
SpuriousWake(c) ==
    /\ pc[c] = "waiting"
    /\ pc' = [pc EXCEPT ![c] = "woken"]
    /\ UNCHANGED <<queue_, shutdown_, dropped_count_, expired, sent, delivered>>

\* A slip of wait_and_pop: each wake-up restarts the timeout.
ResumeAnew(c) ==
    /\ pc[c] = "woken"
    /\ \/ /\ queue_ # <<>>
          /\ TakeFront
          /\ pc' = [pc EXCEPT ![c] = "idle"]
          /\ UNCHANGED expired
       \/ /\ ~WakeCondition
          /\ pc' = [pc EXCEPT ![c] = "waiting"]
          /\ expired' = [expired EXCEPT ![c] = FALSE]
          /\ UNCHANGED <<queue_, delivered>>
       \/ /\ queue_ = <<>>
          /\ shutdown_
          /\ pc' = [pc EXCEPT ![c] = "idle"]
          /\ UNCHANGED <<queue_, delivered, expired>>
    /\ UNCHANGED <<shutdown_, dropped_count_, sent>>

\* The awakened thread holds the mutex again and evaluates the predicate.
Resume(c) ==
    /\ pc[c] = "woken"
    /\ \/ /\ queue_ # <<>>
          /\ TakeFront
          /\ pc' = [pc EXCEPT ![c] = "idle"]
       \/ /\ queue_ = <<>>
          /\ shutdown_ \/ expired[c]
          /\ pc' = [pc EXCEPT ![c] = "idle"]
          /\ UNCHANGED <<queue_, delivered>>
       \/ /\ ~WakeCondition
          /\ ~expired[c]
          /\ pc' = [pc EXCEPT ![c] = "waiting"]
          /\ UNCHANGED <<queue_, delivered>>
    /\ UNCHANGED <<shutdown_, dropped_count_, expired, sent>>

Shutdown == /\ shutdown_' = TRUE
            /\ NotifyAll
            /\ UNCHANGED <<queue_, dropped_count_, expired, sent, delivered>>

Next == \/ Push
        \/ Shutdown
        \/ \E c \in Consumers : \/ Pop(c) \/ WaitAndPop(c) \/ Expire(c)
                                \/ SpuriousWake(c) \/ Resume(c)

Spec == Init /\ [][Next]_vars

\* A runnable thread eventually gets the mutex.  Nobody is obliged to push, pop
\* or shut down, and time need not pass.
FairSpec == Spec /\ \A c \in Consumers : WF_vars(Resume(c))

-------------------------------------------------------------------------------
\* Every variable has its type, and the deque never holds more than capacity_
\* items, whatever producers and consumers do (queue.hpp:20-24).
TypeOK == /\ queue_ \in Seq(Nat)
          /\ Len(queue_) <= capacity_
          /\ shutdown_ \in BOOLEAN
          /\ dropped_count_ \in Nat
          /\ pc \in [Consumers -> {"idle", "waiting", "woken"}]
          /\ expired \in [Consumers -> BOOLEAN]
          /\ sent \in Nat
          /\ delivered \in Seq(Nat)

\* The deque always holds the most recent pushes, without a gap and oldest
\* first: dropping at the front and appending at the back never reorders.
QueueIsLatest ==
    \A i \in 1 .. Len(queue_) : queue_[i] = sent - Len(queue_) + i

\* Consumers, taken together, see the items in the order they were pushed and
\* never twice, whether by pop or by wait_and_pop, and none that is still in
\* the deque.
DeliveredInOrder ==
    /\ \A i, j \in 1 .. Len(delivered) : i < j => delivered[i] < delivered[j]
    /\ \A i \in 1 .. Len(delivered) : delivered[i] <= sent - Len(queue_)

\* dropped_count tells the truth: every item ever pushed was delivered, is in
\* the deque, or was counted as dropped.
Accounting == sent = Len(delivered) + Len(queue_) + dropped_count_

\* An item that nobody received is lost only under pressure: at least
\* capacity_ newer items have been pushed.
LostOnlyWhenFull ==
    \A n \in 1 .. sent :
        \/ n \in {delivered[i] : i \in 1 .. Len(delivered)}
        \/ n \in {queue_[i] : i \in 1 .. Len(queue_)}
        \/ n <= sent - capacity_

\* No lost wake-up: while a consumer sleeps in wait_and_pop, every item in the
\* deque has a consumer that has already been woken and will find it.  It
\* relies on push notifying for every item, not only on empty to non-empty,
\* and on a stolen item taking the wake-up with it.
NoLostWakeup == Waiting # {} => Len(queue_) <= Cardinality(Woken)

\* After shutdown nobody sleeps: neither those who slept at that moment nor
\* those who call wait_and_pop later.
NobodySleepsAfterShutdown == shutdown_ => Waiting = {}

\* shutdown releases every consumer inside wait_and_pop, without the help of
\* any timeout.
ShutdownReleases ==
    \A c \in Consumers : (shutdown_ /\ pc[c] # "idle") ~> (pc[c] = "idle")

\* An item does not lie in the deque next to a sleeping consumer: either
\* somebody takes all there is or the sleeper is woken, without the help of
\* any timeout.
SleeperOrItemGoes ==
    \A c \in Consumers :
        (pc[c] = "waiting" /\ queue_ # <<>>) ~> (pc[c] # "waiting" \/ queue_ = <<>>)

\* If time passes, wait_and_pop returns in the end: being woken for an item that
\* somebody else takes does not restart its timeout.
TimePasses == \A c \in Consumers : WF_vars(Expire(c))
TimedCallsReturn == TimePasses => \A c \in Consumers : (pc[c] # "idle") ~> (pc[c] = "idle")

\* The queue implements the channel that keeps the latest capacity_ items.
Chan == INSTANCE SlidingWindowChannel
            WITH Window <- capacity_, next <- sent - Len(queue_) + 1
ImplementsChannel == Chan!ChanSpec
===============================================================================
