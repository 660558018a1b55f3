----------------------- MODULE TelemetryScheduler_proofs -----------------------
(***************************************************************************)
(* Proofs about TelemetryScheduler for any clients, intervals and number   *)
(* of tasks.  The theorems about deadlines hold as long as no task has     *)
(* been added while the scheduler runs (OnTime): it does not keep them     *)
(* afterwards.                                                             *)
(***************************************************************************)
EXTENDS TelemetryScheduler, SequenceTheorems, TLAPS

-------------------------------------------------------------------------------
(* Lemmas about the operators.                                             *)

\* Serving a task keeps it a task, moves its deadline as the comment of
\* scheduler.cpp:72 says, and never to before the pass.
LEMMA RescheduleLemma ==
    ASSUME NEW t \in Task, now \in Nat
    PROVE  /\ Reschedule(t) \in Task
           /\ Run(t) \in Task
           /\ Reschedule(t).interval = t.interval /\ Run(t).interval = t.interval
           /\ Reschedule(t).callback = t.callback /\ Run(t).callback = t.callback
           /\ Reschedule(t).added = t.added /\ Run(t).added = t.added
           /\ Reschedule(t).late = t.late /\ Run(t).late = t.late
           /\ Reschedule(t).runs = t.runs /\ Run(t).runs = t.runs + 1
           /\ Reschedule(t).next_deadline >= t.next_deadline + t.interval
           /\ Reschedule(t).next_deadline >= now
           /\ Run(t).next_deadline = t.next_deadline
           /\ Run(t).caughtUp = t.caughtUp
           /\ ~Reschedule(t).caughtUp
                => ~t.caughtUp /\ Reschedule(t).next_deadline = t.next_deadline + t.interval
<1>1. /\ t.interval \in Nat \ {0} /\ t.callback \in BOOLEAN /\ t.next_deadline \in Nat
      /\ t.added \in Nat /\ t.late \in BOOLEAN /\ t.runs \in Nat /\ t.caughtUp \in BOOLEAN
  BY DEF Task
<1>2. /\ Run(t) \in Task
      /\ Run(t).interval = t.interval /\ Run(t).callback = t.callback
      /\ Run(t).added = t.added /\ Run(t).runs = t.runs + 1
      /\ Run(t).next_deadline = t.next_deadline /\ Run(t).caughtUp = t.caughtUp
      /\ Run(t).late = t.late
  BY <1>1 DEF Run, Task
<1>3. ASSUME NEW d \in Nat, NEW b \in BOOLEAN,
             Reschedule(t) = [t EXCEPT !.next_deadline = d, !.caughtUp = b]
      PROVE  /\ Reschedule(t) \in Task
             /\ Reschedule(t).interval = t.interval /\ Reschedule(t).callback = t.callback
             /\ Reschedule(t).added = t.added /\ Reschedule(t).runs = t.runs
             /\ Reschedule(t).late = t.late
             /\ Reschedule(t).next_deadline = d /\ Reschedule(t).caughtUp = b
  BY <1>1, <1>3 DEF Task
<1>4. CASE t.next_deadline + t.interval < now
  <2> DEFINE d == now + t.interval
  <2>1. Reschedule(t) = [t EXCEPT !.next_deadline = d, !.caughtUp = TRUE]
    BY <1>1, <1>4 DEF Reschedule
  <2>2. d \in Nat /\ d >= now /\ d >= t.next_deadline + t.interval
    BY <1>1, <1>4
  <2> HIDE DEF d
  <2> QED
    BY <1>2, <1>3, <2>1, <2>2
<1>5. CASE ~(t.next_deadline + t.interval < now)
  <2> DEFINE d == t.next_deadline + t.interval
             b == t.caughtUp
  <2>1. Reschedule(t) = [t EXCEPT !.next_deadline = d, !.caughtUp = b]
    BY <1>1, <1>5 DEF Reschedule
  <2>2. d \in Nat /\ d >= now /\ d >= t.next_deadline + t.interval /\ b \in BOOLEAN
    BY <1>1, <1>5
  <2>3. d = t.next_deadline + t.interval /\ b = t.caughtUp
    OBVIOUS
  <2> HIDE DEF d, b
  <2> QED
    BY <1>2, <1>3, <2>1, <2>2, <2>3
<1> QED
  BY <1>4, <1>5

\* Replacing an element of a sequence of tasks.
LEMMA ReplaceLemma ==
    ASSUME NEW s \in Seq(Task), NEW i \in 1 .. Len(s), NEW t \in Task
    PROVE  /\ [s EXCEPT ![i] = t] \in Seq(Task)
           /\ Len([s EXCEPT ![i] = t]) = Len(s)
           /\ [s EXCEPT ![i] = t][i] = t
           /\ \A j \in 1 .. Len(s) : j # i => [s EXCEPT ![i] = t][j] = s[j]
BY ExceptSeq

-------------------------------------------------------------------------------
(* Type correctness.                                                       *)

\* Every variable keeps its type, also when tasks are added while the worker
\* runs: the range-for never leaves the vector it began with.
THEOREM TypeCorrect == Spec => []TypeOK
<1>1. Init => TypeOK
  <2> SUFFICES ASSUME Init
               PROVE  TypeOK
    OBVIOUS
  <2>1. tasks_ \in Seq(Task) /\ Len(tasks_) = 0
    BY EmptySeq DEF Init
  <2> QED
    <3>1. 0 \in 0 .. Len(tasks_)
      BY <2>1
    <3>2. passEnd \in 0 .. Len(tasks_)
      BY <3>1 DEF Init
    <3>3. pc = "callback" => cur <= passEnd
      BY DEF Init
    <3>4. cpc \in [Clients -> {"idle", "notify", "join"}]
      BY DEF Init
    <3>5. pc \in Positions /\ cur \in Nat \ {0} /\ now \in Nat /\ clock \in Nat /\ wakeAt \in Nat
      BY DEF Init, Positions
    <3>6. stale \in BOOLEAN /\ running_ \in BOOLEAN /\ joinable \in BOOLEAN
          /\ signalled \in BOOLEAN /\ terminated \in BOOLEAN /\ storage \in Nat
      BY DEF Init
    <3> QED
      BY <2>1, <3>2, <3>3, <3>4, <3>5, <3>6 DEF TypeOK
<1>2. TypeOK /\ [Next]_vars => TypeOK'
  <2> SUFFICES ASSUME TypeOK, [Next]_vars
               PROVE  TypeOK'
    OBVIOUS
  <2> USE ConstAssumption DEF TypeOK
  <2>0. Len(tasks_) \in Nat /\ \A i \in 1 .. Len(tasks_) : tasks_[i] \in Task
    BY LenProperties, ElementOfSeq
  \* The ways the worker goes on from the head of its loop and from its waits.
  <2>a. ASSUME BeginPass, UNCHANGED <<tasks_, storage, running_, joinable, cpc, clock,
                                      terminated>>
        PROVE  TypeOK'
    <3>1. passEnd' \in 0 .. Len(tasks_')
      BY <2>0, <2>a DEF BeginPass
    <3>2. pc' = "scan" /\ cur' = 1 /\ now' = clock /\ stale' = FALSE
      BY <2>a DEF BeginPass
    <3>3. tasks_' \in Seq(Task) /\ storage' \in Nat /\ clock' \in Nat /\ now' \in Nat /\ wakeAt' \in Nat
      BY <2>a DEF BeginPass
    <3>4. stale' \in BOOLEAN /\ running_' \in BOOLEAN /\ joinable' \in BOOLEAN
          /\ signalled' \in BOOLEAN /\ terminated' \in BOOLEAN
      BY <2>a DEF BeginPass
    <3>5. pc' \in Positions /\ cur' \in Nat \ {0} /\ (pc' = "callback" => cur' <= passEnd')
      BY <3>2 DEF Positions
    <3>6. cpc' \in [Clients -> {"idle", "notify", "join"}]
      BY <2>a
    <3> QED
      BY <3>1, <3>3, <3>4, <3>5, <3>6
  <2>b. ASSUME NEW p \in {"idle", "sleeping"}, NEW d \in Nat, Sleep(p, d),
               UNCHANGED <<tasks_, storage, running_, joinable, cpc, clock, terminated>>
        PROVE  TypeOK'
    BY <2>b DEF Sleep, Positions
  <2>c. ASSUME NEW p \in {"check", "exited"}, Goto(p),
               UNCHANGED <<tasks_, storage, running_, joinable, cpc, clock>>,
               terminated' \in BOOLEAN
        PROVE  TypeOK'
    BY <2>c DEF Goto, Positions
  <2>1. CASE Tick
    BY <2>1 DEF Tick, workerVars
  <2>2. ASSUME NEW c \in Clients, NEW k \in TaskKinds, AddTask(c, k)
        PROVE  TypeOK'
    <3> DEFINE t == [interval |-> k.interval, callback |-> k.callback,
                     next_deadline |-> clock + k.interval,
                     added |-> clock, late |-> pc # "off",
                     runs |-> 0, caughtUp |-> FALSE]
    <3>1. k.interval \in Nat \ {0} /\ k.callback \in BOOLEAN
      OBVIOUS
    <3>2. t \in Task
      BY <3>1 DEF Task
    <3>3. tasks_' = Append(tasks_, t)
      BY <2>2 DEF AddTask
    <3> HIDE DEF t
    <3>4. tasks_' \in Seq(Task) /\ Len(tasks_') = Len(tasks_) + 1
      BY <3>2, <3>3, AppendProperties
    <3>5. storage' \in Nat /\ stale' \in BOOLEAN
      <4>1. CASE Len(tasks_) < storage
        BY <2>2, <4>1 DEF AddTask
      <4>2. CASE ~(Len(tasks_) < storage)
        <5>1. storage' \in Nat
          BY <2>2, <4>2 DEF AddTask
        <5>2. stale' = (stale \/ RefersToElements)
          BY <2>2, <4>2 DEF AddTask
        <5> QED
          BY <5>1, <5>2
      <4> QED
        BY <4>1, <4>2
    <3>6. passEnd' \in 0 .. Len(tasks_')
      BY <2>0, <2>2, <3>4 DEF AddTask
    <3> QED
      BY <2>2, <3>4, <3>5, <3>6 DEF AddTask
  <2>3. ASSUME NEW c \in Clients, Start(c)
        PROVE  TypeOK'
    BY <2>3 DEF Start, Positions
  <2>4. ASSUME NEW c \in Clients, Stop(c)
        PROVE  TypeOK'
    BY <2>4 DEF Stop, workerVars
  <2>5. ASSUME NEW c \in Clients, StopNotify(c)
        PROVE  TypeOK'
    BY <2>5 DEF StopNotify
  <2>6. ASSUME NEW c \in Clients, StopJoin(c)
        PROVE  TypeOK'
    BY <2>6 DEF StopJoin, Positions
  <2>7. CASE LoopHead
    BY <2>7 DEF LoopHead, Positions
  <2>8. CASE EnterEmpty
    <3>1. clock + IdlePoll \in Nat
      OBVIOUS
    <3> QED
      BY <2>8, <2>b, <2>c, <3>1 DEF EnterEmpty
  <2>9. CASE EnterTasks
    <3>1. PICK i \in 1 .. Len(tasks_) :
                 IF tasks_[i].next_deadline <= clock
                 THEN BeginPass
                 ELSE IF running_ THEN Sleep("sleeping", tasks_[i].next_deadline)
                                  ELSE Goto("exited")
      BY <2>9 DEF EnterTasks
    <3>2. tasks_[i].next_deadline \in Nat
      BY <2>0 DEF Task
    <3>3. UNCHANGED <<tasks_, storage, running_, joinable, cpc, clock, terminated>>
      BY <2>9 DEF EnterTasks
    <3> QED
      BY <2>a, <2>b, <2>c, <3>1, <3>2, <3>3
  <2>10. CASE WakeIdle
    BY <2>10, <2>b, <2>c DEF WakeIdle
  <2>11. CASE WakeSleeping
    <3>1. UNCHANGED <<tasks_, storage, running_, joinable, cpc, clock, terminated>>
      BY <2>11 DEF WakeSleeping
    <3>2. CASE Goto("exited")
      BY <3>1, <3>2, <2>c
    <3>3. CASE \E d \in IF stale THEN 0 .. MaxClock + 1 ELSE {wakeAt} :
                  IF clock >= d THEN BeginPass ELSE Sleep("sleeping", d)
      <4>1. PICK d \in Nat : IF clock >= d THEN BeginPass ELSE Sleep("sleeping", d)
        BY <3>3
      <4> QED
        BY <3>1, <4>1, <2>a, <2>b
    <3> QED
      BY <2>11, <3>2, <3>3 DEF WakeSleeping
  <2>12. CASE SpuriousWake
    BY <2>12 DEF SpuriousWake
  <2>13. CASE Scan
    <3>1. cur \in 1 .. Len(tasks_) /\ tasks_[cur] \in Task
      BY <2>0, <2>13 DEF Scan
    <3>2. Run(tasks_[cur]) \in Task /\ Reschedule(Run(tasks_[cur])) \in Task
      BY <3>1, RescheduleLemma
    <3>3. tasks_' \in Seq(Task) /\ Len(tasks_') = Len(tasks_)
      BY <2>13, <3>1, <3>2, ReplaceLemma DEF Scan
    <3> QED
      BY <2>13, <3>3 DEF Scan, Positions
  <2>14. CASE EndPass
    BY <2>14, <2>c DEF EndPass
  <2>15. CASE CallbackReturn
    <3>1. cur \in 1 .. Len(tasks_) /\ tasks_[cur] \in Task
      BY <2>0, <2>15 DEF CallbackReturn
    <3>2. Reschedule(tasks_[cur]) \in Task
      BY <3>1, RescheduleLemma
    <3>3. tasks_' \in Seq(Task) /\ Len(tasks_') = Len(tasks_)
      BY <2>15, <3>1, <3>2, ReplaceLemma DEF CallbackReturn
    <3> QED
      BY <2>15, <3>3 DEF CallbackReturn, Positions
  <2>16. CASE CallbackReturnStale
    BY <2>16 DEF CallbackReturnStale, Goto, Positions, workerVars
  <2>17. CASE UNCHANGED vars
    BY <2>17 DEF vars, workerVars
  <2> QED
    BY <2>1, <2>2, <2>3, <2>4, <2>5, <2>6, <2>7, <2>8, <2>9, <2>10, <2>11, <2>12,
       <2>13, <2>14, <2>15, <2>16, <2>17 DEF Next, Worker, Terminated
<1> QED
  BY <1>1, <1>2, PTL DEF Spec

-------------------------------------------------------------------------------
(* Starting and stopping.                                                  *)

\* Who is inside stop, relative to running_ and to the worker.  AtRestAfterStop
\* is not inductive: it needs that at most one client is inside stop, that the
\* client is there as long as a stopped worker has not been joined, and that the
\* scheduler of a live process is not running meanwhile.
LifeInv == /\ joinable <=> pc # "off"
           /\ running_ => joinable
           /\ (Live /\ running_) => \A c \in Clients : cpc[c] = "idle"
           /\ (~running_ /\ joinable) => \E c \in Clients : cpc[c] # "idle"
           /\ \A c \in Clients : cpc[c] # "idle" => joinable
           /\ \A c, d \in Clients : (cpc[c] # "idle" /\ cpc[d] # "idle") => c = d

\* What the worker leaves alone.
LEMMA WorkerStep ==
    ASSUME Worker
    PROVE  /\ Live /\ pc # "off" /\ pc' # "off"
           /\ UNCHANGED <<running_, joinable, cpc, clock>>
BY DEF Worker, LoopHead, EnterEmpty, EnterTasks, WakeIdle, WakeSleeping, Scan, EndPass,
       CallbackReturn, CallbackReturnStale, Sleep, Goto, BeginPass, workerVars

\* LifeInv is an invariant, whatever tasks are added when.
THEOREM LifeCorrect == Spec => []LifeInv
<1>1. Init => LifeInv
  BY DEF Init, LifeInv
<1>2. TypeOK /\ LifeInv /\ [Next]_vars => LifeInv'
  <2> SUFFICES ASSUME TypeOK, LifeInv, [Next]_vars
               PROVE  LifeInv'
    OBVIOUS
  <2>0. cpc \in [Clients -> {"idle", "notify", "join"}]
    BY DEF TypeOK
  <2>1. ASSUME UNCHANGED <<running_, joinable, pc, cpc, terminated>>
        PROVE  LifeInv'
    BY <2>1 DEF LifeInv, Live
  <2>2. CASE Tick \/ SpuriousWake \/ Terminated \/ UNCHANGED vars
    BY <2>1, <2>2 DEF Tick, SpuriousWake, Terminated, vars, workerVars
  <2>3. ASSUME NEW c \in Clients, NEW k \in TaskKinds, AddTask(c, k)
        PROVE  LifeInv'
    BY <2>1, <2>3 DEF AddTask
  <2>4. ASSUME NEW c \in Clients, Start(c)
        PROVE  LifeInv'
    BY <2>4 DEF Start, LifeInv, Live
  <2>5. ASSUME NEW c \in Clients, Stop(c)
        PROVE  LifeInv'
    BY <2>0, <2>5 DEF Stop, LifeInv, Live, workerVars
  <2>6. ASSUME NEW c \in Clients, StopNotify(c)
        PROVE  LifeInv'
    BY <2>0, <2>6 DEF StopNotify, LifeInv, Live
  <2>7. ASSUME NEW c \in Clients, StopJoin(c)
        PROVE  LifeInv'
    <3>1. \A d \in Clients : cpc'[d] = "idle"
      BY <2>0, <2>7 DEF StopJoin, LifeInv
    <3>2. ~running_' /\ ~joinable' /\ pc' = "off"
      BY <2>7 DEF StopJoin, LifeInv
    <3> QED
      BY <3>1, <3>2 DEF LifeInv
  <2>8. CASE Worker
    BY <2>8, WorkerStep DEF LifeInv, Live
  <2> QED
    BY <2>2, <2>3, <2>4, <2>5, <2>6, <2>7, <2>8 DEF Next
<1> QED
  BY <1>1, <1>2, TypeCorrect, PTL DEF Spec

\* When stop has returned the worker is gone, for any number of clients that
\* start and stop concurrently.
THEOREM StopLeavesNoWorker == Spec => []AtRestAfterStop
<1>1. LifeInv => AtRestAfterStop
  BY DEF LifeInv, AtRestAfterStop
<1> QED
  BY <1>1, LifeCorrect, PTL

\* No step makes a late task one that was added in time, and a step after which
\* all were adds none beside a worker.
LEMMA OnTimeStep ==
    ASSUME TypeOK, [Next]_vars, OnTime'
    PROVE  /\ OnTime
           /\ \A c \in Clients, k \in TaskKinds : AddTask(c, k) => pc = "off"
<1>0. Len(tasks_) \in Nat /\ \A i \in 1 .. Len(tasks_) : tasks_[i] \in Task
  BY LenProperties, ElementOfSeq DEF TypeOK
<1>1. ASSUME UNCHANGED tasks_
      PROVE  OnTime
  BY <1>1 DEF OnTime
<1>2. ASSUME NEW c \in Clients, NEW k \in TaskKinds, AddTask(c, k)
      PROVE  OnTime /\ pc = "off"
  <2> DEFINE t == [interval |-> k.interval, callback |-> k.callback,
                   next_deadline |-> clock + k.interval,
                   added |-> clock, late |-> pc # "off",
                   runs |-> 0, caughtUp |-> FALSE]
  <2>1. k.interval \in Nat \ {0} /\ k.callback \in BOOLEAN /\ clock \in Nat
    BY ConstAssumption DEF TypeOK
  <2>2. t \in Task /\ t.late = (pc # "off")
    BY <2>1 DEF Task
  <2>3. tasks_' = Append(tasks_, t)
    BY <1>2 DEF AddTask
  <2> HIDE DEF t
  <2>4. /\ Len(tasks_') = Len(tasks_) + 1
        /\ tasks_'[Len(tasks_) + 1] = t
        /\ \A i \in 1 .. Len(tasks_) : tasks_'[i] = tasks_[i]
    BY <2>2, <2>3, AppendProperties DEF TypeOK
  <2>5. \A i \in 1 .. Len(tasks_) : i \in 1 .. Len(tasks_') /\ ~tasks_[i].late
    BY <1>0, <2>4 DEF OnTime
  <2>6. Len(tasks_) + 1 \in 1 .. Len(tasks_')
    BY <1>0, <2>4
  <2>7. ~t.late
    BY <2>4, <2>6 DEF OnTime
  <2> QED
    BY <2>2, <2>5, <2>7 DEF OnTime
<1>3. ASSUME NEW r \in Task, cur \in 1 .. Len(tasks_), r.late = tasks_[cur].late,
             tasks_' = [tasks_ EXCEPT ![cur] = r]
      PROVE  OnTime
  <2>1. /\ Len(tasks_') = Len(tasks_) /\ tasks_'[cur] = r
        /\ \A j \in 1 .. Len(tasks_) : j # cur => tasks_'[j] = tasks_[j]
    BY <1>3, ReplaceLemma DEF TypeOK
  <2> QED
    BY <1>3, <2>1 DEF OnTime
<1>4. ASSUME Scan \/ CallbackReturn
      PROVE  OnTime
  <2>1. cur \in 1 .. Len(tasks_) /\ now \in Nat
    BY <1>0, <1>4 DEF Scan, CallbackReturn, TypeOK
  <2> DEFINE t == tasks_[cur]
  <2>2. t \in Task
    BY <1>0, <2>1
  <2>3. /\ Run(t) \in Task /\ Run(t).late = t.late
        /\ Reschedule(t) \in Task /\ Reschedule(t).late = t.late
    BY <2>1, <2>2, RescheduleLemma
  <2>4. Reschedule(Run(t)) \in Task /\ Reschedule(Run(t)).late = t.late
    BY <2>1, <2>3, RescheduleLemma
  <2>5. \/ tasks_' = tasks_
        \/ tasks_' = [tasks_ EXCEPT ![cur] = Run(t)]
        \/ tasks_' = [tasks_ EXCEPT ![cur] = Reschedule(t)]
        \/ tasks_' = [tasks_ EXCEPT ![cur] = Reschedule(Run(t))]
    BY <1>4 DEF Scan, CallbackReturn
  <2> QED
    BY <1>1, <1>3, <2>1, <2>3, <2>4, <2>5
<1>5. ASSUME \/ Tick \/ SpuriousWake \/ Terminated \/ UNCHANGED vars
             \/ LoopHead \/ EnterEmpty \/ EnterTasks \/ WakeIdle \/ WakeSleeping \/ EndPass
             \/ CallbackReturnStale
             \/ \E c \in Clients : Start(c) \/ Stop(c) \/ StopNotify(c) \/ StopJoin(c)
      PROVE  OnTime
  BY <1>1, <1>5 DEF Tick, SpuriousWake, Terminated, vars, LoopHead, EnterEmpty, EnterTasks,
                    WakeIdle, WakeSleeping, EndPass, CallbackReturnStale, Start, Stop,
                    StopNotify, StopJoin
<1>6. OnTime
  BY <1>2, <1>4, <1>5 DEF Next, Worker
<1> QED
  BY <1>2, <1>6

\* The vector does not move under the worker when no task is added while it runs.
LEMMA NeverStale == Spec => [](OnTime => ~stale)
<1>1. Init => (OnTime => ~stale)
  BY DEF Init
<1>2. TypeOK /\ (OnTime => ~stale) /\ [Next]_vars => (OnTime => ~stale)'
  <2> SUFFICES ASSUME TypeOK, OnTime => ~stale, [Next]_vars, OnTime'
               PROVE  ~stale'
    OBVIOUS
  <2>0. ~stale /\ \A c \in Clients, k \in TaskKinds : AddTask(c, k) => pc = "off"
    BY OnTimeStep
  <2>1. ASSUME NEW c \in Clients, NEW k \in TaskKinds, AddTask(c, k)
        PROVE  ~stale'
    BY <2>0, <2>1 DEF AddTask, RefersToElements
  <2>2. CASE Worker
    BY <2>0, <2>2 DEF Worker, LoopHead, EnterEmpty, EnterTasks, WakeIdle, WakeSleeping, Scan,
                EndPass, CallbackReturn, CallbackReturnStale, Sleep, Goto, BeginPass,
                workerVars
  <2>3. CASE Tick \/ SpuriousWake \/ Terminated \/ UNCHANGED vars
    BY <2>0, <2>3 DEF Tick, SpuriousWake, Terminated, vars, workerVars
  <2>4. ASSUME NEW c \in Clients, Start(c) \/ Stop(c) \/ StopNotify(c) \/ StopJoin(c)
        PROVE  ~stale'
    BY <2>0, <2>4 DEF Start, Stop, StopNotify, StopJoin, workerVars
  <2> QED
    BY <2>1, <2>2, <2>3, <2>4 DEF Next
<1> QED
  BY <1>1, <1>2, TypeCorrect, PTL DEF Spec

\* As long as no task is added beside a worker, a client can bring the process
\* down only by calling start while another one has not returned from stop.
THEOREM TerminationNeedsOverlap == Spec => []TerminatesOnlyOnOverlap
<1>1. Init => TerminatesOnlyOnOverlap
  BY DEF Init, TerminatesOnlyOnOverlap
<1>2. TypeOK /\ LifeInv /\ (OnTime => ~stale) /\ TerminatesOnlyOnOverlap /\ [Next]_vars
        => TerminatesOnlyOnOverlap'
  <2> SUFFICES ASSUME TypeOK, LifeInv, OnTime => ~stale, TerminatesOnlyOnOverlap,
                      [Next]_vars, OnTime'
               PROVE  TerminatesOnlyOnOverlap'
    BY DEF TerminatesOnlyOnOverlap
  <2>0. OnTime /\ ~stale
    BY OnTimeStep
  <2>1. ASSUME terminated' = terminated, Live
        PROVE  TerminatesOnlyOnOverlap'
    BY <2>1 DEF Live, TerminatesOnlyOnOverlap
  <2>2. CASE Tick \/ SpuriousWake
    BY <2>1, <2>2 DEF Tick, SpuriousWake
  <2>3. ASSUME NEW c \in Clients,
               Stop(c) \/ StopNotify(c) \/ StopJoin(c) \/ (\E k \in TaskKinds : AddTask(c, k))
        PROVE  TerminatesOnlyOnOverlap'
    BY <2>1, <2>3 DEF Stop, StopNotify, StopJoin, AddTask
  <2>4. ASSUME NEW c \in Clients, Start(c)
        PROVE  TerminatesOnlyOnOverlap'
    BY <2>0, <2>1, <2>4 DEF Start, LifeInv, Live, TerminatesOnlyOnOverlap
  <2>5. CASE Worker
    <3>1. terminated' = terminated
      BY <2>0, <2>5 DEF Worker, LoopHead, EnterEmpty, EnterTasks, WakeIdle, WakeSleeping,
                        Scan, EndPass, CallbackReturn, CallbackReturnStale
    <3> QED
      BY <2>1, <2>5, <3>1, WorkerStep
  <2>6. CASE Terminated \/ UNCHANGED vars
    BY <2>0, <2>6 DEF Terminated, vars, TerminatesOnlyOnOverlap
  <2> QED
    BY <2>2, <2>3, <2>4, <2>5, <2>6 DEF Next
<1> QED
  BY <1>1, <1>2, TypeCorrect, LifeCorrect, NeverStale, PTL DEF Spec

-------------------------------------------------------------------------------
(* Deadlines.                                                              *)

\* The phase of a task of which "done" runs are complete, and its rate.
PhaseOK(t, done) == /\ t.next_deadline >= t.added + (done + 1) * t.interval
                    /\ ~t.caughtUp => t.next_deadline = t.added + (done + 1) * t.interval
RateOK(t, time) == t.runs * t.interval <= time - t.added

\* Serving a task completes a run and advances its phase by one interval at least.
LEMMA ServeKeepsPhase ==
    ASSUME NEW t \in Task, NEW done \in Nat, now \in Nat, PhaseOK(t, done)
    PROVE  PhaseOK(Reschedule(t), done + 1)
<1> DEFINE r == Reschedule(t)
<1>1. /\ r.interval = t.interval /\ r.added = t.added
      /\ r.next_deadline >= t.next_deadline + t.interval
      /\ ~r.caughtUp => ~t.caughtUp /\ r.next_deadline = t.next_deadline + t.interval
      /\ r.next_deadline \in Nat
  BY RescheduleLemma DEF Task
<1>2. t.interval \in Nat /\ t.added \in Nat /\ t.next_deadline \in Nat
  BY DEF Task
<1>3. (done + 1 + 1) * t.interval = (done + 1) * t.interval + t.interval
  BY <1>2
<1>4. (done + 1) * t.interval \in Nat
  BY <1>2
<1> HIDE DEF r
<1>5. PhaseOK(r, done + 1)
  BY <1>1, <1>2, <1>3, <1>4 DEF PhaseOK
<1> QED
  BY <1>5 DEF r

\* A run that begins when the task is due keeps the rate.
LEMMA RunKeepsRate ==
    ASSUME NEW t \in Task, now \in Nat, clock \in Nat, now <= clock,
           PhaseOK(t, t.runs), t.next_deadline <= now
    PROVE  RateOK(Run(t), clock)
<1>1. Run(t).runs = t.runs + 1 /\ Run(t).interval = t.interval /\ Run(t).added = t.added
  BY RescheduleLemma
<1>2. t.interval \in Nat /\ t.added \in Nat /\ t.next_deadline \in Nat /\ t.runs \in Nat
  BY DEF Task
<1>3. (t.runs + 1) * t.interval \in Nat
  BY <1>2
<1>4. (t.runs + 1) * t.interval <= clock - t.added
  BY <1>2, <1>3 DEF PhaseOK
<1> QED
  BY <1>1, <1>4 DEF RateOK

\* What holds of each task ...
TaskInv(i) == /\ PhaseOK(tasks_[i], RunsDone(i))
              /\ RateOK(tasks_[i], clock)
              /\ tasks_[i].added <= clock
              /\ i < cur => tasks_[i].next_deadline >= now

\* ... and of the worker's pass over them.
PassInv == /\ now <= clock
           /\ cur <= passEnd + 1
           /\ pc = "callback" => /\ tasks_[cur].next_deadline <= now
                                 /\ tasks_[cur].runs >= 1

DeadlineInv == /\ \A i \in 1 .. Len(tasks_) : TaskInv(i)
               /\ PassInv

\* The invariant says what the properties say.
LEMMA DeadlineInvImplies == DeadlineInv => NoDrift /\ NeverTooOften
BY DEF DeadlineInv, TaskInv, PhaseOK, RateOK, NoDrift, NeverTooOften

\* A step that replaces the element under the range-for by t and leaves the
\* others alone, and either enters its callback or goes on to the next element.
LEMMA ReplaceKeepsTasks ==
    ASSUME TypeOK, DeadlineInv, NEW t \in Task,
           cur \in 1 .. Len(tasks_),
           tasks_' = [tasks_ EXCEPT ![cur] = t],
           UNCHANGED <<now, clock>>,
           pc \in {"scan", "callback"},
           \/ /\ pc = "scan" /\ pc' = "callback" /\ cur' = cur
              /\ t.runs >= 1 /\ PhaseOK(t, t.runs - 1)
           \/ /\ pc' = "scan" /\ cur' = cur + 1
              /\ PhaseOK(t, t.runs) /\ t.next_deadline >= now,
           RateOK(t, clock),
           t.added <= clock
    PROVE  \A i \in 1 .. Len(tasks_') : TaskInv(i)'
<1>1. Len(tasks_') = Len(tasks_) /\ Len(tasks_) \in Nat
  BY ReplaceLemma, LenProperties DEF TypeOK
<1>2. tasks_'[cur] = t /\ \A i \in 1 .. Len(tasks_) : i # cur => tasks_'[i] = tasks_[i]
  BY ReplaceLemma DEF TypeOK
<1>3. cur \in Nat /\ t.runs \in Nat /\ now' = now /\ clock' = clock
  BY DEF TypeOK, Task
<1> SUFFICES ASSUME NEW i \in 1 .. Len(tasks_)
             PROVE  TaskInv(i)'
  BY <1>1
<1>4. CASE i = cur
  <2>1. CASE pc' = "callback"
    <3>1. RunsDone(i)' = t.runs - 1 /\ ~(i < cur')
      BY <1>2, <1>3, <1>4, <2>1 DEF RunsDone
    <3> QED
      BY <1>2, <1>3, <1>4, <2>1, <3>1 DEF TaskInv
  <2>2. CASE pc' = "scan"
    <3>1. RunsDone(i)' = t.runs
      BY <1>2, <1>3, <1>4, <2>2 DEF RunsDone
    <3> QED
      BY <1>2, <1>3, <1>4, <2>2, <3>1 DEF TaskInv
  <2> QED
    BY <2>1, <2>2
<1>5. CASE i # cur
  <2>1. tasks_'[i] = tasks_[i] /\ RunsDone(i)' = RunsDone(i)
    BY <1>2, <1>3, <1>5 DEF RunsDone
  <2>2. i < cur' => i < cur
    BY <1>3, <1>5
  <2>3. TaskInv(i)
    BY DEF DeadlineInv
  <2> QED
    BY <1>3, <2>1, <2>2, <2>3 DEF TaskInv
<1> QED
  BY <1>4, <1>5

\* A step that changes no task and moves no further in the pass, while time may go on.
LEMMA QuietKeepsTasks ==
    ASSUME TypeOK, DeadlineInv,
           UNCHANGED tasks_,
           clock' \in Nat, clock <= clock',
           \/ UNCHANGED <<cur, now>>
           \/ cur' = 1,
           (pc = "callback" \/ pc' = "callback") => UNCHANGED <<pc, cur>>
    PROVE  \A i \in 1 .. Len(tasks_') : TaskInv(i)'
<1> SUFFICES ASSUME NEW i \in 1 .. Len(tasks_)
             PROVE  TaskInv(i)'
  OBVIOUS
<1>1. TaskInv(i) /\ tasks_[i] \in Task
  BY ElementOfSeq DEF DeadlineInv, TypeOK
<1>2. RunsDone(i)' = RunsDone(i)
  BY DEF RunsDone
<1>3. PhaseOK(tasks_'[i], RunsDone(i)')
  BY <1>1, <1>2 DEF TaskInv
<1>4. RateOK(tasks_'[i], clock') /\ tasks_'[i].added <= clock'
  <2>1. /\ tasks_[i].runs * tasks_[i].interval \in Nat
        /\ tasks_[i].added \in Nat /\ clock \in Nat
    BY <1>1 DEF Task, TypeOK
  <2> QED
    BY <1>1, <2>1 DEF TaskInv, RateOK
<1>5. i < cur' => tasks_'[i].next_deadline >= now'
  BY <1>1 DEF TaskInv
<1> QED
  BY <1>3, <1>4, <1>5 DEF TaskInv

\* One iteration of the range-for, or the end of a callback.
LEMMA ServeKeepsDeadlines ==
    ASSUME TypeOK, DeadlineInv, Scan \/ CallbackReturn
    PROVE  DeadlineInv'
<1> DEFINE t == tasks_[cur]
<1>0. /\ cur \in 1 .. Len(tasks_) /\ cur <= passEnd /\ t \in Task
      /\ now \in Nat /\ clock \in Nat /\ passEnd \in Nat
  BY LenProperties, ElementOfSeq DEF TypeOK, Scan, CallbackReturn
<1>1. TaskInv(cur) /\ now <= clock
  BY <1>0 DEF DeadlineInv, PassInv
<1>2. t.runs \in Nat /\ t.interval \in Nat \ {0} /\ t.next_deadline \in Nat
  BY <1>0 DEF Task
<1>3. UNCHANGED <<now, clock, passEnd, wakeAt>>
  BY DEF Scan, CallbackReturn
<1>4. CASE Scan /\ ~Due(t)
  <2>1. pc = "scan" /\ pc' = "scan" /\ cur' = cur + 1 /\ tasks_' = tasks_
    BY <1>4 DEF Scan
  <2>2. \A i \in 1 .. Len(tasks_') : TaskInv(i)'
    <3> SUFFICES ASSUME NEW i \in 1 .. Len(tasks_)
                 PROVE  TaskInv(i)'
      BY <2>1
    <3>1. TaskInv(i) /\ RunsDone(i)' = RunsDone(i)
      BY <2>1 DEF DeadlineInv, RunsDone
    <3>2. i < cur' => tasks_[i].next_deadline >= now
      BY <1>0, <1>2, <1>4, <2>1, <3>1 DEF Due, TaskInv
    <3> QED
      BY <1>3, <2>1, <3>1, <3>2 DEF TaskInv
  <2>3. PassInv'
    BY <1>0, <1>1, <1>3, <2>1 DEF PassInv
  <2> QED
    BY <2>1, <2>2, <2>3 DEF DeadlineInv
<1>5. CASE Scan /\ Due(t)
  <2>1. pc = "scan" /\ PhaseOK(t, t.runs) /\ t.next_deadline <= now
    BY <1>1, <1>2, <1>5 DEF Scan, TaskInv, RunsDone, Due
  <2>2. /\ Run(t) \in Task /\ Run(t).runs = t.runs + 1 /\ Run(t).added <= clock
        /\ Run(t).next_deadline = t.next_deadline
        /\ RateOK(Run(t), clock) /\ PhaseOK(Run(t), t.runs)
    <3>1. RateOK(Run(t), clock)
      BY <1>0, <1>1, <2>1, RunKeepsRate
    <3> QED
      BY <1>0, <1>1, <2>1, <3>1, RescheduleLemma DEF PhaseOK, TaskInv
  <2>3. CASE ~t.callback
    <3> DEFINE r == Reschedule(Run(t))
    <3>1. tasks_' = [tasks_ EXCEPT ![cur] = r] /\ cur' = cur + 1 /\ pc' = "scan"
      BY <1>5, <2>3 DEF Scan
    <3>2. /\ r \in Task /\ r.runs = t.runs + 1 /\ r.added <= clock
          /\ r.next_deadline >= now /\ RateOK(r, clock)
      BY <1>0, <2>2, RescheduleLemma DEF RateOK
    <3>3. PhaseOK(r, t.runs + 1)
      BY <1>0, <1>2, <2>2, ServeKeepsPhase
    <3> HIDE DEF r
    <3>4. \A i \in 1 .. Len(tasks_') : TaskInv(i)'
      BY <1>0, <1>3, <2>1, <3>1, <3>2, <3>3, ReplaceKeepsTasks
    <3>5. PassInv'
      BY <1>0, <1>1, <1>3, <3>1 DEF PassInv
    <3> QED
      BY <3>1, <3>4, <3>5 DEF DeadlineInv
  <2>4. CASE t.callback
    <3> DEFINE r == Run(t)
    <3>1. tasks_' = [tasks_ EXCEPT ![cur] = r] /\ cur' = cur /\ pc' = "callback"
      BY <1>5, <2>4 DEF Scan
    <3>2. /\ r \in Task /\ r.runs >= 1 /\ PhaseOK(r, r.runs - 1) /\ RateOK(r, clock)
          /\ r.added <= clock /\ r.next_deadline <= now
      <4>1. r.runs - 1 = t.runs
        BY <1>2, <2>2
      <4> QED
        BY <1>2, <2>1, <2>2, <4>1
    <3> HIDE DEF r
    <3>3. \A i \in 1 .. Len(tasks_') : TaskInv(i)'
      BY <1>0, <1>3, <2>1, <3>1, <3>2, ReplaceKeepsTasks
    <3>4. tasks_'[cur'] = r
      BY <1>0, <3>1, <3>2, ReplaceLemma DEF TypeOK
    <3>5. PassInv'
      BY <1>0, <1>1, <1>3, <3>1, <3>2, <3>4 DEF PassInv
    <3> QED
      BY <3>1, <3>3, <3>5 DEF DeadlineInv
  <2> QED
    BY <2>3, <2>4
<1>6. CASE CallbackReturn
  <2> DEFINE r == Reschedule(t)
  <2>1. /\ pc = "callback" /\ pc' = "scan" /\ cur' = cur + 1
        /\ tasks_' = [tasks_ EXCEPT ![cur] = r]
    BY <1>6 DEF CallbackReturn
  <2>2. t.runs >= 1 /\ PhaseOK(t, t.runs - 1)
    BY <1>1, <2>1 DEF DeadlineInv, PassInv, TaskInv, RunsDone
  <2>3. PhaseOK(r, t.runs)
    <3>1. t.runs - 1 \in Nat /\ t.runs - 1 + 1 = t.runs
      BY <1>2, <2>2
    <3>2. PhaseOK(r, t.runs - 1 + 1)
      BY <1>0, <2>2, <3>1, ServeKeepsPhase
    <3> QED
      BY <3>1, <3>2
  <2>4. r \in Task /\ r.runs = t.runs /\ r.added <= clock /\ r.next_deadline >= now
        /\ RateOK(r, clock)
    BY <1>0, <1>1, RescheduleLemma DEF RateOK, TaskInv
  <2> HIDE DEF r
  <2>5. \A i \in 1 .. Len(tasks_') : TaskInv(i)'
    BY <1>0, <1>3, <2>1, <2>3, <2>4, ReplaceKeepsTasks
  <2>6. PassInv'
    BY <1>0, <1>1, <1>3, <2>1 DEF PassInv
  <2> QED
    BY <2>1, <2>5, <2>6 DEF DeadlineInv
<1> QED
  BY <1>4, <1>5, <1>6

\* Adding a task while there is no worker.
LEMMA AddKeepsDeadlines ==
    ASSUME TypeOK, DeadlineInv, pc = "off",
           NEW c \in Clients, NEW k \in TaskKinds, AddTask(c, k)
    PROVE  DeadlineInv'
<1> DEFINE t == [interval |-> k.interval, callback |-> k.callback,
                 next_deadline |-> clock + k.interval,
                 added |-> clock, late |-> pc # "off",
                 runs |-> 0, caughtUp |-> FALSE]
<1>1. k.interval \in Nat \ {0} /\ k.callback \in BOOLEAN /\ clock \in Nat /\ passEnd \in Nat
  BY ConstAssumption, LenProperties DEF TypeOK
<1>2. t \in Task /\ t.runs = 0 /\ t.added = clock
  BY <1>1 DEF Task
<1>3. PhaseOK(t, 0) /\ RateOK(t, clock)
  BY <1>1 DEF PhaseOK, RateOK
<1>4. /\ tasks_' = Append(tasks_, t)
      /\ UNCHANGED <<pc, cur, passEnd, now, clock, wakeAt>>
  BY DEF AddTask
<1> HIDE DEF t
<1>5. /\ Len(tasks_) \in Nat /\ Len(tasks_') = Len(tasks_) + 1
      /\ tasks_'[Len(tasks_) + 1] = t
      /\ \A i \in 1 .. Len(tasks_) : tasks_'[i] = tasks_[i]
  BY <1>2, <1>4, AppendProperties, LenProperties DEF TypeOK
<1>6. ASSUME NEW i \in 1 .. Len(tasks_')
      PROVE  TaskInv(i)'
  <2>1. CASE i = Len(tasks_) + 1
    <3>1. RunsDone(i)' = 0
      BY <1>2, <1>4, <1>5, <2>1 DEF RunsDone
    <3>2. ~(i < cur')
      BY <1>1, <1>4, <1>5, <2>1 DEF DeadlineInv, PassInv, TypeOK
    <3> QED
      BY <1>1, <1>2, <1>3, <1>4, <1>5, <2>1, <3>1, <3>2 DEF TaskInv
  <2>2. CASE i # Len(tasks_) + 1
    <3>1. i \in 1 .. Len(tasks_) /\ tasks_'[i] = tasks_[i] /\ RunsDone(i)' = RunsDone(i)
      BY <1>4, <1>5, <2>2 DEF RunsDone
    <3> QED
      BY <1>4, <3>1 DEF DeadlineInv, TaskInv
  <2> QED
    BY <2>1, <2>2
<1>7. PassInv'
  BY <1>4 DEF DeadlineInv, PassInv
<1> QED
  BY <1>4, <1>6, <1>7 DEF DeadlineInv

\* DeadlineInv is an invariant of a scheduler as long as its tasks are added while
\* it is stopped.
THEOREM DeadlinesCorrect == Spec => [](OnTime => DeadlineInv)
<1>1. Init => (OnTime => DeadlineInv)
  <2> SUFFICES ASSUME Init
               PROVE  DeadlineInv
    OBVIOUS
  <2>1. Len(tasks_) = 0
    BY EmptySeq DEF Init
  <2> QED
    BY <2>1 DEF Init, DeadlineInv, PassInv
<1>2. TypeOK /\ LifeInv /\ (OnTime => ~stale) /\ (OnTime => DeadlineInv) /\ [Next]_vars
        => (OnTime => DeadlineInv)'
  <2> SUFFICES ASSUME TypeOK, LifeInv, OnTime => ~stale, OnTime => DeadlineInv,
                      [Next]_vars, OnTime'
               PROVE  DeadlineInv'
    OBVIOUS
  <2>on. /\ DeadlineInv /\ ~stale
         /\ \A c \in Clients, k \in TaskKinds : AddTask(c, k) => pc = "off"
    BY OnTimeStep
  <2>0. /\ clock \in Nat /\ now \in Nat /\ cur \in Nat \ {0} /\ passEnd \in Nat
        /\ Len(tasks_) \in Nat
    BY LenProperties DEF TypeOK
  <2>1. CASE Tick
    <3>1. clock' = clock + 1 /\ UNCHANGED <<tasks_, workerVars>>
      BY <2>1 DEF Tick
    <3>2. \A i \in 1 .. Len(tasks_') : TaskInv(i)'
      BY <2>0, <3>1, <2>on, QuietKeepsTasks DEF workerVars
    <3>3. PassInv'
      BY <2>on, <2>0, <3>1 DEF DeadlineInv, PassInv, workerVars
    <3> QED
      BY <3>2, <3>3 DEF DeadlineInv
  \* The worker moves outside its callbacks and its passes ...
  <2>2. ASSUME UNCHANGED <<tasks_, clock, cur, now, passEnd, wakeAt>>,
               pc' = pc \/ (pc # "callback" /\ pc' \notin {"callback", "sleeping"})
        PROVE  DeadlineInv'
    <3>1. \A i \in 1 .. Len(tasks_') : TaskInv(i)'
      BY <2>0, <2>2, <2>on, QuietKeepsTasks
    <3>2. PassInv'
      BY <2>on, <2>2 DEF DeadlineInv, PassInv
    <3> QED
      BY <3>1, <3>2 DEF DeadlineInv
  \* ... begins a pass ...
  <2>3. ASSUME BeginPass, UNCHANGED <<tasks_, clock>>, pc \in {"enter", "sleeping"}
        PROVE  DeadlineInv'
    <3>1. \A i \in 1 .. Len(tasks_') : TaskInv(i)'
      BY <2>0, <2>3, <2>on, QuietKeepsTasks DEF BeginPass
    <3>2. PassInv'
      BY <2>0, <2>3 DEF BeginPass, PassInv
    <3> QED
      BY <3>1, <3>2 DEF DeadlineInv
  \* ... or blocks.
  <2>4. ASSUME NEW p \in {"idle", "sleeping"}, NEW d, Sleep(p, d),
               UNCHANGED <<tasks_, clock>>, pc # "callback"
        PROVE  DeadlineInv'
    <3>1. \A i \in 1 .. Len(tasks_') : TaskInv(i)'
      BY <2>0, <2>4, <2>on, QuietKeepsTasks DEF Sleep
    <3>2. PassInv'
      BY <2>on, <2>4 DEF Sleep, DeadlineInv, PassInv
    <3> QED
      BY <3>1, <3>2 DEF DeadlineInv
  <2>5. ASSUME NEW c \in Clients, NEW k \in TaskKinds, AddTask(c, k)
        PROVE  DeadlineInv'
    BY <2>on, <2>5, AddKeepsDeadlines
  <2>6. ASSUME NEW c \in Clients, Start(c)
        PROVE  DeadlineInv'
    BY <2>2, <2>6 DEF Start, LifeInv
  <2>7. ASSUME NEW c \in Clients, Stop(c) \/ StopNotify(c)
        PROVE  DeadlineInv'
    BY <2>2, <2>7 DEF Stop, StopNotify, workerVars
  <2>8. ASSUME NEW c \in Clients, StopJoin(c)
        PROVE  DeadlineInv'
    BY <2>2, <2>8 DEF StopJoin, LifeInv
  <2>9. CASE LoopHead \/ EndPass \/ SpuriousWake
    BY <2>2, <2>9 DEF LoopHead, EndPass, SpuriousWake, Goto
  <2>10. CASE EnterEmpty
    BY <2>2, <2>4, <2>10 DEF EnterEmpty, Goto
  <2>11. CASE EnterTasks
    <3>1. PICK i \in 1 .. Len(tasks_) :
                 /\ Nearest(i)
                 /\ IF tasks_[i].next_deadline <= clock
                    THEN BeginPass
                    ELSE IF running_ THEN Sleep("sleeping", tasks_[i].next_deadline)
                                     ELSE Goto("exited")
      BY <2>11 DEF EnterTasks
    <3>2. pc = "enter" /\ UNCHANGED <<tasks_, clock>>
      BY <2>11 DEF EnterTasks
    <3>3. CASE BeginPass
      BY <2>3, <3>2, <3>3
    <3>4. CASE Sleep("sleeping", tasks_[i].next_deadline)
      BY <2>4, <3>2, <3>4
    <3>5. CASE Goto("exited")
      BY <2>2, <3>2, <3>5 DEF Goto
    <3> QED
      BY <3>1, <3>3, <3>4, <3>5
  <2>12. CASE WakeIdle
    BY <2>2, <2>4, <2>12 DEF WakeIdle, Goto
  <2>13. CASE WakeSleeping
    <3>1. pc = "sleeping" /\ UNCHANGED <<tasks_, clock>>
      BY <2>13 DEF WakeSleeping
    <3>2. Goto("exited") \/ BeginPass \/ Sleep("sleeping", wakeAt)
      BY <2>on, <2>13 DEF WakeSleeping
    <3>3. CASE Goto("exited")
      BY <2>2, <3>1, <3>3 DEF Goto
    <3>4. CASE BeginPass
      BY <2>3, <3>1, <3>4
    <3>5. CASE Sleep("sleeping", wakeAt)
      BY <2>4, <3>1, <3>5
    <3> QED
      BY <3>2, <3>3, <3>4, <3>5
  <2>14. CASE Scan \/ CallbackReturn
    BY <2>on, <2>14, ServeKeepsDeadlines
  <2>15. CASE CallbackReturnStale
    BY <2>on, <2>15 DEF CallbackReturnStale
  <2>16. CASE Terminated \/ UNCHANGED vars
    BY <2>2, <2>16 DEF Terminated, vars, workerVars
  <2> QED
    BY <2>1, <2>5, <2>6, <2>7, <2>8, <2>9, <2>10, <2>11, <2>12, <2>13, <2>14, <2>15, <2>16
       DEF Next, Worker
<1> QED
  BY <1>1, <1>2, TypeCorrect, NeverStale, LifeCorrect, PTL DEF Spec

\* Tasks keep their phase.
THEOREM PhaseCorrect == Spec => []PhaseKept
<1>1. (OnTime => DeadlineInv) => PhaseKept
  BY DeadlineInvImplies DEF PhaseKept
<1> QED
  BY <1>1, DeadlinesCorrect, PTL

\* No task runs more often than its interval allows.
THEOREM RateCorrect == Spec => [](OnTime => NeverTooOften)
BY DeadlinesCorrect, DeadlineInvImplies, PTL

\* A pass leaves no backlog, whatever is added when: what is appended lies behind the
\* end of the pass.
THEOREM NoBacklogCorrect == Spec => []NoBacklog
<1> DEFINE Behind == cur <= passEnd + 1
<1>1. Init => NoBacklog /\ Behind
  <2> SUFFICES ASSUME Init
               PROVE  NoBacklog /\ Behind
    OBVIOUS
  <2>1. cur = 1 /\ passEnd = 0 /\ Len(tasks_) = 0
    BY EmptySeq DEF Init
  <2> QED
    BY <2>1 DEF NoBacklog
<1>2. TypeOK /\ NoBacklog /\ Behind /\ [Next]_vars => (NoBacklog /\ Behind)'
  <2> SUFFICES ASSUME TypeOK, NoBacklog, Behind, [Next]_vars
               PROVE  NoBacklog' /\ Behind'
    OBVIOUS
  <2>0. /\ Len(tasks_) \in Nat /\ \A i \in 1 .. Len(tasks_) : tasks_[i] \in Task
        /\ cur \in Nat \ {0} /\ passEnd \in 0 .. Len(tasks_) /\ now \in Nat
    BY LenProperties, ElementOfSeq DEF TypeOK
  <2>1. ASSUME UNCHANGED <<tasks_, cur, passEnd, now>>
        PROVE  NoBacklog' /\ Behind'
    BY <2>1 DEF NoBacklog
  <2>2. ASSUME BeginPass, UNCHANGED tasks_
        PROVE  NoBacklog' /\ Behind'
    <3>1. cur' = 1 /\ passEnd' = Len(tasks_)
      BY <2>2 DEF BeginPass
    <3>2. Behind'
      BY <2>0, <3>1
    <3> QED
      BY <3>1, <3>2 DEF NoBacklog
  <2>3. ASSUME NEW c \in Clients, NEW k \in TaskKinds, AddTask(c, k)
        PROVE  NoBacklog' /\ Behind'
    <3> DEFINE t == [interval |-> k.interval, callback |-> k.callback,
                     next_deadline |-> clock + k.interval,
                     added |-> clock, late |-> pc # "off",
                     runs |-> 0, caughtUp |-> FALSE]
    <3>1. k.interval \in Nat \ {0} /\ k.callback \in BOOLEAN /\ clock \in Nat
      BY ConstAssumption DEF TypeOK
    <3>2. t \in Task
      BY <3>1 DEF Task
    <3>3. tasks_' = Append(tasks_, t) /\ UNCHANGED <<cur, passEnd, now>>
      BY <2>3 DEF AddTask
    <3> HIDE DEF t
    <3>4. \A i \in 1 .. Len(tasks_) : tasks_'[i] = tasks_[i]
      BY <3>2, <3>3, AppendProperties DEF TypeOK
    <3>5. Len(tasks_') = Len(tasks_) + 1
      BY <3>2, <3>3, AppendProperties DEF TypeOK
    <3>6. \A i \in 1 .. Len(tasks_') : i < cur' => i \in 1 .. Len(tasks_)
      BY <2>0, <3>3, <3>5
    <3> QED
      BY <3>3, <3>4, <3>6 DEF NoBacklog
  <2>4. ASSUME NEW r \in Task, cur \in 1 .. Len(tasks_), cur <= passEnd,
               tasks_' = [tasks_ EXCEPT ![cur] = r], UNCHANGED <<passEnd, now>>,
               cur' = cur \/ (cur' = cur + 1 /\ r.next_deadline >= now)
        PROVE  NoBacklog' /\ Behind'
    <3>1. /\ Len(tasks_') = Len(tasks_) /\ tasks_'[cur] = r
          /\ \A j \in 1 .. Len(tasks_) : j # cur => tasks_'[j] = tasks_[j]
      BY <2>4, ReplaceLemma DEF TypeOK
    <3>2. Behind'
      BY <2>0, <2>4
    <3>3. ASSUME NEW i \in 1 .. Len(tasks_), i < cur'
          PROVE  tasks_'[i].next_deadline >= now'
      <4>1. CASE i = cur
        BY <2>0, <2>4, <3>1, <3>3, <4>1
      <4>2. CASE i # cur
        <5>1. i < cur
          BY <2>0, <2>4, <3>3, <4>2
        <5> QED
          BY <2>4, <3>1, <4>2, <5>1 DEF NoBacklog
      <4> QED
        BY <4>1, <4>2
    <3> QED
      BY <3>1, <3>2, <3>3 DEF NoBacklog
  <2>5. CASE Scan \/ CallbackReturn
    <3> DEFINE t == tasks_[cur]
    <3>1. cur \in 1 .. Len(tasks_) /\ cur <= passEnd /\ t \in Task
      BY <2>0, <2>5 DEF Scan, CallbackReturn, TypeOK
    <3>2. UNCHANGED <<passEnd, now>>
      BY <2>5 DEF Scan, CallbackReturn
    <3>3. /\ Run(t) \in Task /\ Reschedule(t) \in Task /\ Reschedule(t).next_deadline >= now
      BY <2>0, <3>1, RescheduleLemma
    <3>4. Reschedule(Run(t)) \in Task /\ Reschedule(Run(t)).next_deadline >= now
      BY <2>0, <3>3, RescheduleLemma
    <3>5. CASE Scan /\ ~Due(t)
      <4>1. tasks_' = tasks_ /\ cur' = cur + 1
        BY <3>5 DEF Scan
      <4>2. t.next_deadline \in Nat /\ t.next_deadline > now
        BY <2>0, <3>1, <3>5 DEF Due, Task
      <4>3. Behind'
        BY <2>0, <3>1, <3>2, <4>1
      <4>4. ASSUME NEW i \in 1 .. Len(tasks_), i < cur'
            PROVE  tasks_'[i].next_deadline >= now'
        <5>1. i < cur \/ i = cur
          BY <2>0, <4>1, <4>4
        <5> QED
          BY <2>0, <3>2, <4>1, <4>2, <5>1 DEF NoBacklog
      <4> QED
        BY <4>1, <4>3, <4>4 DEF NoBacklog
    <3>6. CASE Scan /\ Due(t) /\ ~t.callback
      <4>1. tasks_' = [tasks_ EXCEPT ![cur] = Reschedule(Run(t))] /\ cur' = cur + 1
        BY <3>6 DEF Scan
      <4> QED
        BY <2>4, <3>1, <3>2, <3>4, <4>1
    <3>7. CASE Scan /\ Due(t) /\ t.callback
      <4>1. tasks_' = [tasks_ EXCEPT ![cur] = Run(t)] /\ cur' = cur
        BY <3>7 DEF Scan
      <4> QED
        BY <2>4, <3>1, <3>2, <3>3, <4>1
    <3>8. CASE CallbackReturn
      <4>1. tasks_' = [tasks_ EXCEPT ![cur] = Reschedule(t)] /\ cur' = cur + 1
        BY <3>8 DEF CallbackReturn
      <4> QED
        BY <2>4, <3>1, <3>2, <3>3, <4>1
    <3> QED
      BY <2>5, <3>5, <3>6, <3>7, <3>8
  <2>6. CASE EnterEmpty \/ WakeIdle \/ LoopHead \/ EndPass \/ CallbackReturnStale
    BY <2>1, <2>6 DEF EnterEmpty, WakeIdle, LoopHead, EndPass, CallbackReturnStale, Sleep,
                      Goto, workerVars
  <2>7. CASE EnterTasks \/ WakeSleeping
    <3>1. UNCHANGED tasks_ /\ (BeginPass \/ UNCHANGED <<cur, passEnd, now>>)
      BY <2>7 DEF EnterTasks, WakeSleeping, Sleep, Goto
    <3> QED
      BY <2>1, <2>2, <3>1
  <2>8. CASE Tick \/ SpuriousWake \/ Terminated \/ UNCHANGED vars
    BY <2>1, <2>8 DEF Tick, SpuriousWake, Terminated, vars, workerVars
  <2>9. ASSUME NEW c \in Clients, Start(c) \/ Stop(c) \/ StopNotify(c) \/ StopJoin(c)
        PROVE  NoBacklog' /\ Behind'
    BY <2>1, <2>9 DEF Start, Stop, StopNotify, StopJoin, workerVars
  <2> QED
    BY <2>3, <2>5, <2>6, <2>7, <2>8, <2>9 DEF Next, Worker
<1> HIDE DEF Behind
<1> QED
  BY <1>1, <1>2, TypeCorrect, PTL DEF Spec
===============================================================================
