-------------------------- MODULE TelemetryScheduler --------------------------
(***************************************************************************)
(* sysscope::telemetry::TelemetryScheduler                                 *)
(* (src/src/telemetry/scheduler.cpp).                                      *)
(*                                                                         *)
(* One worker thread runs the callbacks of all tasks; clients call         *)
(* add_task, start and stop.  The worker holds the mutex while it is in    *)
(* pc "scan"; it has released it in "idle" (wait_for of an empty           *)
(* scheduler), in "sleeping" (wait_until the nearest deadline) and in      *)
(* "callback".  Every other critical section is one action.  running_ is   *)
(* atomic and is also read outside the mutex, at the head of the loop.     *)
(*                                                                         *)
(* Time is a counter of ticks; it may pass between any two steps.          *)
(*                                                                         *)
(* tasks_ is a std::vector.  push_back moves its elements when they fill   *)
(* the allocated storage.  The worker keeps references into the vector     *)
(* across two points where the mutex is free - the deadline given to       *)
(* wait_until and the range-for over a callback - so "stale" records that  *)
(* the elements moved meanwhile, and what the worker then reads or writes  *)
(* is undefined: a wrong deadline, a write lost in freed memory with the   *)
(* rest of the pass skipped (the elements left behind are moved-from), or  *)
(* the end of the process.                                                 *)
(***************************************************************************)
EXTENDS Integers, Sequences, FiniteSets

CONSTANTS Clients,    \* threads that call the scheduler's methods
          TaskKinds,  \* the tasks add_task may be given: an interval, and
                      \* whether the std::function holds a callback
          IdlePoll,   \* the 100 ms wait of a scheduler without tasks
          MaxTasks,   \* bound of the model: calls of add_task
          MaxClock    \* bound of the model: ticks

ASSUME ConstAssumption ==
    /\ TaskKinds \subseteq [interval : Nat \ {0}, callback : BOOLEAN]
    /\ IdlePoll \in Nat \ {0}
    /\ MaxTasks \in Nat
    /\ MaxClock \in Nat

VARIABLES tasks_,       \* the vector of SamplingTask, with history (Task)
          storage,      \* number of elements the vector has storage for
          stale,        \* the elements moved since the worker refers to them
          running_,
          joinable,     \* worker_thread_.joinable()
          pc,           \* the worker's position
          wakeAt,       \* when its timed wait ends
          signalled,    \* it has been woken before that
          cur,          \* the element its range-for is at
          passEnd,      \* the last element of its range-for
          now,          \* its local variable now
          cpc,          \* each client's position inside stop()
          clock,        \* std::chrono::steady_clock
          terminated    \* std::terminate or a crash ended the process

workerVars == <<pc, wakeAt, signalled, cur, passEnd, now, stale>>
vars == <<tasks_, storage, running_, joinable, workerVars, cpc, clock, terminated>>

-------------------------------------------------------------------------------
\* A SamplingTask, and as history: when it was added and whether a worker was
\* there then, how many runs of it the worker has begun, and whether the catch-up
\* branch was ever taken for it.
Task == [interval : Nat \ {0}, callback : BOOLEAN, next_deadline : Nat,
         added : Nat, late : BOOLEAN, runs : Nat, caughtUp : BOOLEAN]

Positions == {"off", "check", "enter", "idle", "sleeping", "scan", "callback", "exited"}

\* The worker holds the mutex between the steps of this model.
Locked == pc = "scan"

\* The worker holds references into the vector with the mutex released.
RefersToElements == pc \in {"sleeping", "callback"}

Live == ~terminated

\* The element with the nearest deadline.
Nearest(i) == \A j \in 1 .. Len(tasks_) :
                  tasks_[i].next_deadline <= tasks_[j].next_deadline

Due(t) == t.next_deadline <= now

\* The history counts the run that begins.
Run(t) == [t EXCEPT !.runs = @ + 1]

\* Slips of the rescheduling arithmetic: the phase drifts with the pass; a
\* delayed task keeps its backlog.
RescheduleDrifting(t) ==
    [t EXCEPT !.next_deadline = now + t.interval]
RescheduleBacklog(t) ==
    [t EXCEPT !.next_deadline = t.next_deadline + t.interval]

\* The previous deadline plus the interval, unless that is already in the past
\* of the pass: then the interval from the pass on.
Reschedule(t) ==
    LET d == t.next_deadline + t.interval
    IN  [t EXCEPT !.next_deadline = IF d < now THEN now + t.interval ELSE d,
                  !.caughtUp = t.caughtUp \/ d < now]

-------------------------------------------------------------------------------
Init == /\ tasks_ = <<>>
        /\ storage = 0
        /\ running_ = FALSE /\ joinable = FALSE
        /\ pc = "off"
        /\ wakeAt = 0 /\ signalled = FALSE
        /\ cur = 1 /\ passEnd = 0 /\ now = 0 /\ stale = FALSE
        /\ cpc = [c \in Clients |-> "idle"]
        /\ clock = 0
        /\ terminated = FALSE

Tick == /\ Live /\ clock < MaxClock
        /\ clock' = clock + 1
        /\ UNCHANGED <<tasks_, storage, running_, joinable, workerVars, cpc, terminated>>

(* The clients' methods.                                                   *)

\* add_task; it notifies nobody.
AddTask(c, k) ==
    /\ Live /\ ~Locked /\ cpc[c] = "idle"
    /\ Len(tasks_) < MaxTasks
    /\ tasks_' = Append(tasks_, [interval |-> k.interval, callback |-> k.callback,
                                 next_deadline |-> clock + k.interval,
                                 added |-> clock, late |-> pc # "off",
                                 runs |-> 0, caughtUp |-> FALSE])
    /\ IF Len(tasks_) < storage
       THEN UNCHANGED <<storage, stale>>
       ELSE /\ storage' = IF storage = 0 THEN 1 ELSE 2 * storage
            /\ stale' = (stale \/ RefersToElements)
    /\ UNCHANGED <<running_, joinable, pc, wakeAt, signalled, cur, passEnd, now,
                   cpc, clock, terminated>>

\* start of a scheduler that is not running.  Assigning a std::thread to one
\* that is still joinable terminates the process.
Start(c) ==
    /\ Live /\ ~Locked /\ cpc[c] = "idle"
    /\ ~running_
    /\ running_' = TRUE
    /\ IF joinable
       THEN terminated' = TRUE /\ UNCHANGED <<joinable, pc>>
       ELSE joinable' = TRUE /\ pc' = "check" /\ UNCHANGED terminated
    /\ UNCHANGED <<tasks_, storage, wakeAt, signalled, cur, passEnd, now, stale, cpc, clock>>

\* The critical section of stop; a caller that finds running_ false returns.
Stop(c) == /\ Live /\ ~Locked /\ cpc[c] = "idle"
           /\ running_
           /\ running_' = FALSE
           /\ cpc' = [cpc EXCEPT ![c] = "notify"]
           /\ UNCHANGED <<tasks_, storage, joinable, workerVars, clock, terminated>>

\* A slip of stop: nobody is told.
StopNotifyNobody(c) ==
    /\ Live /\ cpc[c] = "notify"
    /\ cpc' = [cpc EXCEPT ![c] = "join"]
    /\ UNCHANGED <<tasks_, storage, running_, joinable, workerVars, clock, terminated>>

\* notify_all, without the mutex.
StopNotify(c) ==
    /\ Live /\ cpc[c] = "notify"
    /\ cpc' = [cpc EXCEPT ![c] = "join"]
    /\ signalled' = (signalled \/ pc \in {"idle", "sleeping"})
    /\ UNCHANGED <<tasks_, storage, running_, joinable, pc, wakeAt, cur, passEnd, now,
                   stale, clock, terminated>>

\* A slip of stop: it does not wait for the worker.
StopWithoutJoin(c) ==
    /\ Live /\ cpc[c] = "join"
    /\ cpc' = [cpc EXCEPT ![c] = "idle"]
    /\ UNCHANGED <<tasks_, storage, running_, joinable, workerVars, clock, terminated>>

\* join, once the worker has left run_loop.
StopJoin(c) ==
    /\ Live /\ cpc[c] = "join"
    /\ joinable => pc = "exited"
    /\ cpc' = [cpc EXCEPT ![c] = "idle"]
    /\ joinable' = FALSE
    /\ pc' = "off"
    /\ UNCHANGED <<tasks_, storage, running_, wakeAt, signalled, cur, passEnd, now,
                   stale, clock, terminated>>

(* The worker's run_loop.                                                  *)

\* The loop's condition.
LoopHead ==
    /\ Live /\ pc = "check"
    /\ pc' = IF running_ THEN "enter" ELSE "exited"
    /\ UNCHANGED <<tasks_, storage, running_, joinable, wakeAt, signalled, cur, passEnd,
                   now, stale, cpc, clock, terminated>>

\* A slip of the range-for: it ends one element early.
BeginPassShort == /\ pc' = "scan"
                  /\ now' = clock
                  /\ cur' = 1
                  /\ passEnd' = IF tasks_ = <<>> THEN 0 ELSE Len(tasks_) - 1
                  /\ stale' = FALSE
                  /\ UNCHANGED <<wakeAt, signalled>>

\* Begin the range-for over tasks_ with the time of the pass.
BeginPass == /\ pc' = "scan"
             /\ now' = clock
             /\ cur' = 1
             /\ passEnd' = Len(tasks_)
             /\ stale' = FALSE
             /\ UNCHANGED <<wakeAt, signalled>>

Sleep(where, until) == /\ pc' = where
                       /\ wakeAt' = until
                       /\ signalled' = FALSE
                       /\ UNCHANGED <<cur, passEnd, now, stale>>

\* Elsewhere in the loop; the references into the vector go out of scope.
Goto(where) == /\ pc' = where
               /\ stale' = FALSE
               /\ UNCHANGED <<wakeAt, signalled, cur, passEnd, now>>

\* The mutex is taken.  Both waits evaluate their predicate - stop was called -
\* before they block.
EnterEmpty ==
    /\ Live /\ pc = "enter"
    /\ tasks_ = <<>>
    /\ IF running_ THEN Sleep("idle", clock + IdlePoll) ELSE Goto("check")
    /\ UNCHANGED <<tasks_, storage, running_, joinable, cpc, clock, terminated>>

EnterTasks ==
    /\ Live /\ pc = "enter"
    /\ \E i \in 1 .. Len(tasks_) :
          /\ Nearest(i)
          /\ IF tasks_[i].next_deadline <= clock
             THEN BeginPass
             ELSE IF running_ THEN Sleep("sleeping", tasks_[i].next_deadline)
                              ELSE Goto("exited")
    /\ UNCHANGED <<tasks_, storage, running_, joinable, cpc, clock, terminated>>

\* The timed wait of an empty scheduler ends, or goes on after a wake-up that
\* found the predicate false.
WakeIdle ==
    /\ Live /\ pc = "idle"
    /\ signalled \/ clock >= wakeAt
    /\ IF ~running_ \/ clock >= wakeAt THEN Goto("check") ELSE Sleep("idle", wakeAt)
    /\ UNCHANGED <<tasks_, storage, running_, joinable, cpc, clock, terminated>>

\* The sleep until the nearest deadline ends, or goes on.  Its deadline is read
\* again, by reference, after each wake-up: any instant if the elements moved.
WakeSleeping ==
    /\ Live /\ pc = "sleeping"
    /\ signalled \/ clock >= wakeAt
    /\ \/ ~running_ /\ Goto("exited")
       \/ /\ running_
          /\ \E d \in IF stale THEN 0 .. MaxClock + 1 ELSE {wakeAt} :
                IF clock >= d THEN BeginPass ELSE Sleep("sleeping", d)
    /\ UNCHANGED <<tasks_, storage, running_, joinable, cpc, clock, terminated>>

SpuriousWake ==
    /\ Live /\ pc \in {"idle", "sleeping"}
    /\ ~signalled
    /\ signalled' = TRUE
    /\ UNCHANGED <<tasks_, storage, running_, joinable, pc, wakeAt, cur, passEnd, now,
                   stale, cpc, clock, terminated>>

\* One iteration of the range-for with the mutex held: a task that is not due
\* is passed over, a task without a callback is only rescheduled, and for the
\* others the mutex is released around the callback.
Scan ==
    /\ Live /\ pc = "scan"
    /\ cur <= passEnd
    /\ \/ /\ ~Due(tasks_[cur])
          /\ cur' = cur + 1
          /\ UNCHANGED <<tasks_, pc>>
       \/ /\ Due(tasks_[cur]) /\ ~tasks_[cur].callback
          /\ tasks_' = [tasks_ EXCEPT ![cur] = Reschedule(Run(@))]
          /\ cur' = cur + 1
          /\ UNCHANGED pc
       \/ /\ Due(tasks_[cur]) /\ tasks_[cur].callback
          /\ tasks_' = [tasks_ EXCEPT ![cur] = Run(@)]
          /\ pc' = "callback"
          /\ UNCHANGED cur
    /\ UNCHANGED <<storage, running_, joinable, wakeAt, signalled, passEnd, now, stale,
                   cpc, clock, terminated>>

EndPass ==
    /\ Live /\ pc = "scan"
    /\ cur > passEnd
    /\ Goto("check")
    /\ UNCHANGED <<tasks_, storage, running_, joinable, cpc, clock, terminated>>

\* The callback has returned and the mutex is taken again.
CallbackReturn ==
    /\ Live /\ pc = "callback"
    /\ ~stale
    /\ tasks_' = [tasks_ EXCEPT ![cur] = Reschedule(@)]
    /\ cur' = cur + 1
    /\ pc' = "scan"
    /\ UNCHANGED <<storage, running_, joinable, wakeAt, signalled, passEnd, now, stale,
                   cpc, clock, terminated>>

\* The same when the vector moved during the callback.
CallbackReturnStale ==
    /\ Live /\ pc = "callback"
    /\ stale
    /\ \/ Goto("check") /\ UNCHANGED terminated
       \/ terminated' = TRUE /\ UNCHANGED workerVars
    /\ UNCHANGED <<tasks_, storage, running_, joinable, cpc, clock>>

-------------------------------------------------------------------------------
Terminated == terminated /\ UNCHANGED vars

Worker == \/ LoopHead \/ EnterEmpty \/ EnterTasks \/ WakeIdle \/ WakeSleeping
          \/ Scan \/ EndPass \/ CallbackReturn \/ CallbackReturnStale

Next == \/ Tick
        \/ \E c \in Clients : \/ \E k \in TaskKinds : AddTask(c, k)
                              \/ Start(c) \/ Stop(c) \/ StopNotify(c) \/ StopJoin(c)
        \/ Worker
        \/ SpuriousWake
        \/ Terminated

Spec == Init /\ [][Next]_vars

\* The worker thread is scheduled and its callbacks return; a client that is
\* inside stop goes on.  Nobody is obliged to call, and time need not pass.
FairSpec == /\ Spec
            /\ WF_vars(Worker)
            /\ \A c \in Clients : WF_vars(StopNotify(c)) /\ WF_vars(StopJoin(c))
-------------------------------------------------------------------------------
\* Every variable has its type, and the range-for stays inside the vector.
TypeOK == /\ tasks_ \in Seq(Task)
          /\ storage \in Nat
          /\ stale \in BOOLEAN
          /\ running_ \in BOOLEAN
          /\ joinable \in BOOLEAN
          /\ pc \in Positions
          /\ wakeAt \in Nat
          /\ signalled \in BOOLEAN
          /\ cur \in Nat \ {0}
          /\ passEnd \in 0 .. Len(tasks_)
          /\ pc = "callback" => cur <= passEnd
          /\ now \in Nat
          /\ cpc \in [Clients -> {"idle", "notify", "join"}]
          /\ clock \in Nat
          /\ terminated \in BOOLEAN

\* Every task was added while there was no worker, the only way the
\* repository's test uses add_task (telemetry_test.cpp:31).
OnTime == \A i \in 1 .. Len(tasks_) : ~tasks_[i].late

\* The runs of a task whose callback has returned.
RunsDone(i) == tasks_[i].runs - IF pc = "callback" /\ cur = i THEN 1 ELSE 0

\* Deadline-based scheduling: next_deadline = previous_deadline + interval
\* (scheduler.cpp:72).  A task keeps the phase it was added with unless it was
\* delayed past the catch-up branch, and then it only ever falls behind.
NoDrift ==
    \A i \in 1 .. Len(tasks_) :
        LET t == tasks_[i]
            phase == t.added + (RunsDone(i) + 1) * t.interval
        IN  t.next_deadline >= phase /\ (~t.caughtUp => t.next_deadline = phase)

\* Tasks that were all added before the worker started keep their phase.
PhaseKept == OnTime => NoDrift

\* A task is not run more often than its interval allows: the runs begun so far
\* fit into the time since it was added, delays and catch-ups included.
NeverTooOften ==
    \A i \in 1 .. Len(tasks_) :
        tasks_[i].runs * tasks_[i].interval <= clock - tasks_[i].added

\* A pass leaves no backlog behind: the deadline of every task it has gone over
\* is not before the pass, however long the worker was delayed before it.
NoBacklog == \A i \in 1 .. Len(tasks_) : i < cur => tasks_[i].next_deadline >= now

\* When the call of stop that stopped the scheduler has returned, the worker is
\* gone and has been joined: no callback runs any more, and start will work.
AtRestAfterStop ==
    (Live /\ ~running_ /\ \A c \in Clients : cpc[c] = "idle") => (pc = "off" /\ ~joinable)

\* The only way clients can bring the process down, as long as they add no tasks to
\* a scheduler that runs, is to call start while another is still inside stop.
TerminatesOnlyOnOverlap == (OnTime /\ terminated) => \E c \in Clients : cpc[c] # "idle"

\* stop returns: its notification reaches a sleeping worker however far the
\* deadline, and it waits for one callback per task at most.
StopReturns == \A c \in Clients : (cpc[c] # "idle") ~> (cpc[c] = "idle" \/ terminated)

\* Task i waits for a run after n runs; it has had one.
DueAfter(i, n) == /\ i <= Len(tasks_) /\ tasks_[i].runs = n
                  /\ tasks_[i].next_deadline <= clock
                  /\ ~(pc = "callback" /\ cur = i)
RanAgain(i, n) == i <= Len(tasks_) /\ tasks_[i].runs > n

\* A task that is due is served, or the scheduler is stopped first: the other
\* tasks cannot starve it.  A task added late may wait out a sleep that began
\* before it.
DueTaskIsServed ==
    \A i \in 1 .. MaxTasks, n \in 0 .. MaxClock :
        (OnTime /\ running_ /\ DueAfter(i, n))
            ~> (~OnTime \/ ~running_ \/ terminated \/ RanAgain(i, n))
===============================================================================
