----------------------- MODULE ProcessCollector_proofs ------------------------
(***************************************************************************)
(* Proofs about ProcessCollector for any process ids, any number of forks  *)
(* and any interleaving of the kernel with the reads of collect.           *)
(***************************************************************************)
EXTENDS ProcessCollector, SequenceTheorems, FiniteSetTheorems, TLAPS

\* Appending to a sequence keeps its elements and adds one.
LEMMA AppendInfo ==
    ASSUME NEW s \in Seq(Info), NEW e \in Info
    PROVE  /\ Append(s, e) \in Seq(Info)
           /\ Len(s) \in Nat
           /\ Len(Append(s, e)) = Len(s) + 1
           /\ \A i \in 1 .. Len(s) : Append(s, e)[i] = s[i] /\ s[i] \in Info
           /\ Append(s, e)[Len(s) + 1] = e
  BY ElementOfSeq, LenProperties

-------------------------------------------------------------------------------
(* Types, and the bound below which the arithmetic is exact.                   *)

\* Nothing has used more time than the system has run.
BoundInv == /\ total \in Nat \ {0} /\ total <= MaxTicks + 1
            /\ \A p \in Pids : procs[p].time < total
            /\ \A p \in DOMAIN previous_process_states_ :
                  previous_process_states_[p].total_process_cpu_time < total
            /\ \A p \in DOMAIN current_process_states :
                  current_process_states[p].total_process_cpu_time < total
            /\ current_total_system_time <= total
            /\ previous_total_system_time_ <= total

RangeInv == TypeOK /\ BoundInv

\* A usage is a pair of numbers; of the same process it is what it used.
LEMMA UsageType ==
    ASSUME RangeInv, HasSystemDelta, NEW p \in DOMAIN previous_process_states_
    PROVE  /\ Usage(p).part \in Nat
           /\ Usage(p).whole = current_total_system_time - previous_total_system_time_
           /\ Usage(p).whole \in Nat \ {0}
           /\ \A n \in Nat :
                 procs[p].time = previous_process_states_[p].total_process_cpu_time + n
                    => Usage(p).part = Least(n, ticks_per_sec_ * Usage(p).whole)
<1> DEFINE whole == current_total_system_time - previous_total_system_time_
           now == procs[p].time
           before == previous_process_states_[p].total_process_cpu_time
           cap == ticks_per_sec_ * whole
<1>1. whole \in Nat \ {0}
  BY DEF HasSystemDelta, RangeInv, TypeOK
<1>2. cap \in Nat
  BY <1>1, ConstAssumption
<1>3. p \in Pids /\ now \in Nat /\ before \in Nat /\ now < total /\ before < total
  BY DEF RangeInv, TypeOK, BoundInv, MapsTo, Process, Baseline
<1>4. total <= Modulus
  BY ConstAssumption DEF RangeInv, TypeOK, BoundInv
<1>5. Usage(p) = [part |-> Least(Minus(now, before), cap), whole |-> whole]
  BY DEF Usage
<1> HIDE DEF whole, now, before, cap
<1>6. Minus(now, before) \in Nat
  BY <1>3, <1>4, ConstAssumption DEF Minus, RangeInv, BoundInv
<1>7. \A n \in Nat : now = before + n => Minus(now, before) = n
  BY <1>3 DEF Minus
<1>8. Usage(p).part \in Nat /\ Usage(p).whole = whole
  BY <1>2, <1>5, <1>6 DEF Least
<1>9. \A n \in Nat : now = before + n => Usage(p).part = Least(n, cap)
  BY <1>5, <1>7
<1> QED
  BY <1>1, <1>8, <1>9 DEF whole, now, before, cap

\* What collect records of a live process.
LEMMA InfoType ==
    ASSUME RangeInv, NEW p \in Pids
    PROVE  /\ InfoOf(p) \in Info
           /\ InfoOf(p).pid = p
           /\ InfoOf(p).ppid = procs[p].ppid
           /\ InfoOf(p).born = procs[p].born
           /\ InfoOf(p).used = since[p]
           /\ ShowsUsage(p) => /\ InfoOf(p).base = previous_process_states_[p].born
                               /\ InfoOf(p).part = Usage(p).part
                               /\ InfoOf(p).whole = Usage(p).whole
           /\ ~ShowsUsage(p) => InfoOf(p).whole = 0
<1>1. p \in Nat /\ procs[p] \in Process /\ since[p] \in Nat
  BY ConstAssumption DEF RangeInv, TypeOK
<1>2. CASE ShowsUsage(p)
  <2>1. HasSystemDelta /\ p \in DOMAIN previous_process_states_
    BY <1>2 DEF ShowsUsage
  <2>2. Usage(p).part \in Nat /\ Usage(p).whole \in Nat
    BY <2>1, UsageType
  <2>3. previous_process_states_[p].born \in Nat
    BY <2>1 DEF RangeInv, TypeOK, MapsTo, Baseline
  <2> QED
    BY <1>1, <1>2, <2>2, <2>3 DEF InfoOf, Info, Process
<1>3. CASE ~ShowsUsage(p)
  BY <1>1, <1>3 DEF InfoOf, Info, Process, NoUsage
<1> QED
  BY <1>2, <1>3

\* Reading a process adds its entry and its baseline.
LEMMA ReadType ==
    ASSUME RangeInv, NEW p \in Pids, ReadProcess(p)
    PROVE  /\ process_list' \in Seq(Info)
           /\ Len(process_list) \in Nat
           /\ Len(process_list') = Len(process_list) + 1
           /\ \A i \in 1 .. Len(process_list) : /\ process_list'[i] = process_list[i]
                                                /\ process_list[i] \in Info
           /\ process_list'[Len(process_list) + 1] = InfoOf(p)
           /\ MapsTo(current_process_states, Baseline)'
           /\ DOMAIN current_process_states' = DOMAIN current_process_states \cup {p}
           /\ \A q \in DOMAIN current_process_states' :
                 current_process_states'[q] =
                    IF q = p
                    THEN [total_process_cpu_time |-> procs[p].time, born |-> procs[p].born]
                    ELSE current_process_states[q]
<1>1. InfoOf(p) \in Info
  BY InfoType
<1>2. process_list \in Seq(Info) /\ process_list' = Append(process_list, InfoOf(p))
  BY DEF ReadProcess, RangeInv, TypeOK
<1>3. /\ DOMAIN current_process_states' = DOMAIN current_process_states \cup {p}
      /\ \A q \in DOMAIN current_process_states' :
            current_process_states'[q] =
               IF q = p
               THEN [total_process_cpu_time |-> procs[p].time, born |-> procs[p].born]
               ELSE current_process_states[q]
  BY DEF ReadProcess
<1>4. [total_process_cpu_time |-> procs[p].time, born |-> procs[p].born] \in Baseline
  BY DEF RangeInv, TypeOK, Process, Baseline
<1>5. MapsTo(current_process_states, Baseline)'
  BY <1>3, <1>4 DEF MapsTo, RangeInv, TypeOK
<1> QED
  BY <1>1, <1>2, <1>3, <1>5, AppendInfo

\* Types, and that nothing has used more time than the system has run: the differences
\* of process.cpp:107 are exact.
THEOREM RangeCorrect == Spec => []RangeInv
<1>1. Init => RangeInv
  <2> SUFFICES ASSUME Init
               PROVE  RangeInv
    OBVIOUS
  <2>1. /\ <<>> \in Seq(Info) /\ DOMAIN <<>> = {}
        /\ MapsTo(<<>>, Baseline)
    BY EmptySeq DEF MapsTo
  <2>2. TypeOK
    <3>1. procs \in [Pids -> Process]
      BY DEF Init, Process, Free
    <3>2. total \in Nat /\ total <= MaxTicks + 1
      BY ConstAssumption DEF Init
    <3> QED
      BY <2>1, <3>1, <3>2, ConstAssumption DEF Init, TypeOK
  <2>3. BoundInv
    <3>1. \A p \in Pids : procs[p].time = 0
      BY DEF Init, Free
    <3>2. total = 1 /\ total <= MaxTicks + 1
      BY ConstAssumption DEF Init
    <3> QED
      BY <2>1, <3>1, <3>2 DEF Init, BoundInv
  <2> QED
    BY <2>2, <2>3 DEF RangeInv
<1>2. RangeInv /\ [Next]_vars => RangeInv'
  <2> SUFFICES ASSUME RangeInv, [Next]_vars
               PROVE  RangeInv'
    OBVIOUS
  <2> USE DEF RangeInv
  <2>1. CASE Idle
    <3>1. TypeOK'
      BY <2>1, ConstAssumption DEF Idle, TypeOK, MapsTo, baseline, locals, history
    <3>2. BoundInv'
      BY <2>1, ConstAssumption DEF Idle, TypeOK, BoundInv, MapsTo, Process, Baseline,
                                   baseline, locals, history
    <3> QED
      BY <3>1, <3>2
  <2>2. ASSUME NEW p \in Pids, Run(p)
        PROVE  RangeInv'
    <3>1. /\ procs' = [procs EXCEPT ![p].time = @ + 1]
          /\ procs[p].time \in Nat /\ procs[p].time < total
          /\ total' = total + 1
      BY <2>2 DEF Run, TypeOK, BoundInv, Process
    <3>2. \A q \in Pids : procs'[q] = IF q = p THEN [procs[p] EXCEPT !.time = @ + 1]
                                              ELSE procs[q]
      BY <3>1 DEF TypeOK
    <3>3. procs' \in [Pids -> Process]
      <4>1. [procs[p] EXCEPT !.time = @ + 1] \in Process
        <5>1. procs[p] \in Process
          BY DEF TypeOK
        <5> QED
          BY <5>1 DEF Process
      <4> QED
        BY <3>1, <4>1 DEF TypeOK
    <3>4. \A q \in Pids : procs'[q].time < total'
      BY <3>1, <3>2 DEF TypeOK, BoundInv, Process
    <3>5. /\ since' \in [Pids -> Nat]
          /\ total' \in Nat \ {0} /\ total' <= MaxTicks + 1 /\ total < total'
      <4>1. since' = [since EXCEPT ![p] = @ + 1] /\ total < MaxTicks
        BY <2>2 DEF Run
      <4>2. since \in [Pids -> Nat] /\ total \in Nat
        BY DEF TypeOK
      <4>3. since' \in [Pids -> Nat]
        BY <4>1, <4>2
      <4> QED
        BY <4>1, <4>2, <4>3, <3>1, ConstAssumption
    <3>6. TypeOK'
      BY <2>2, <3>3, <3>5 DEF Run, TypeOK, MapsTo, baseline, locals
    <3>7. UNCHANGED <<previous_process_states_, current_process_states,
                      current_total_system_time, previous_total_system_time_>>
      BY <2>2 DEF Run, baseline, locals
    <3>8. /\ \A q \in DOMAIN previous_process_states_ :
                previous_process_states_[q].total_process_cpu_time < total'
          /\ \A q \in DOMAIN current_process_states :
                current_process_states[q].total_process_cpu_time < total'
          /\ current_total_system_time <= total'
          /\ previous_total_system_time_ <= total'
      BY <3>1 DEF TypeOK, BoundInv, MapsTo, Baseline
    <3>9. BoundInv'
      BY <3>4, <3>5, <3>7, <3>8 DEF BoundInv
    <3> QED
      BY <3>6, <3>9
  <2>3. ASSUME NEW p \in Pids, Exit(p)
        PROVE  RangeInv'
    <3>1. /\ procs' \in [Pids -> Process]
          /\ \A q \in Pids : procs'[q].time < total
      <4>1. \A q \in Pids :
                /\ procs[q] \in Process
                /\ procs'[q] = IF q = p THEN Free
                               ELSE [procs[q] EXCEPT !.ppid = IF @ = p THEN 1 ELSE @]
        BY <2>3 DEF Exit, TypeOK
      <4>2. Free \in Process /\ Free.time = 0
        BY DEF Free, Process
      <4> DEFINE Adopted(q) == [procs[q] EXCEPT !.ppid = IF @ = p THEN 1 ELSE @]
      <4>3. \A q \in Pids : Adopted(q) \in Process /\ Adopted(q).time = procs[q].time
        BY <4>1 DEF Process
      <4>4. \A q \in Pids : procs'[q] \in Process /\ procs'[q].time < total
        <5> SUFFICES ASSUME NEW q \in Pids
                     PROVE  procs'[q] \in Process /\ procs'[q].time < total
          OBVIOUS
        <5>1. total \in Nat \ {0} /\ procs[q].time < total
          BY DEF BoundInv
        <5>2. CASE q = p
          <6>1. procs'[q] = Free
            BY <5>2, <4>1
          <6>2. 0 < total
            BY <5>1
          <6> QED
            BY <6>1, <6>2, <4>2
        <5>3. CASE q # p
          <6>1. procs'[q] = Adopted(q)
            BY <5>3, <4>1
          <6>2. Adopted(q) \in Process /\ Adopted(q).time = procs[q].time
            BY <4>3
          <6> HIDE DEF Adopted
          <6> QED
            BY <5>1, <6>1, <6>2
        <5> QED
          BY <5>2, <5>3
      <4>5. DOMAIN procs' = Pids /\ procs' = [q \in DOMAIN procs' |-> procs'[q]]
        BY <2>3 DEF Exit
      <4> QED
        BY <4>4, <4>5
    <3> QED
      BY <2>3, <3>1 DEF Exit, TypeOK, BoundInv, MapsTo, baseline, locals, history
  <2>4. ASSUME NEW p \in Pids, NEW parent \in Pids, Fork(parent, p)
        PROVE  RangeInv'
    <3>1. /\ procs' \in [Pids -> Process]
          /\ \A q \in Pids : procs'[q].time < total
      <4>1. procs' = [procs EXCEPT ![p] =
                         [born |-> births + 1, ppid |-> parent, time |-> 0]]
        BY <2>4 DEF Fork
      <4>2. [born |-> births + 1, ppid |-> parent, time |-> 0] \in Process
        BY ConstAssumption DEF TypeOK, Process
      <4>3. \A q \in Pids : procs'[q].time = IF q = p THEN 0 ELSE procs[q].time
        BY <4>1 DEF TypeOK
      <4> QED
        BY <4>1, <4>2, <4>3 DEF TypeOK, BoundInv
    <3> QED
      BY <2>4, <3>1 DEF Fork, TypeOK, BoundInv, MapsTo, baseline, locals
  <2>5. CASE List
    <3>1. /\ <<>> \in Seq(Info) /\ DOMAIN <<>> = {}
          /\ MapsTo(<<>>, Baseline)
      BY EmptySeq DEF MapsTo
    <3> QED
      BY <2>5, <3>1 DEF List, TypeOK, BoundInv, MapsTo, kernel, baseline, history
  <2>6. CASE ReadSystemTime
    BY <2>6 DEF ReadSystemTime, TypeOK, BoundInv, MapsTo, kernel, baseline
  <2>7. ASSUME NEW p \in Pids, SkipProcess(p)
        PROVE  RangeInv'
    BY <2>7 DEF SkipProcess, TypeOK, BoundInv, MapsTo, kernel, baseline, history
  <2>8. ASSUME NEW p \in Pids, ReadProcess(p)
        PROVE  RangeInv'
    <3>1. TypeOK'
      BY <2>8, ReadType DEF ReadProcess, TypeOK, MapsTo, kernel, baseline
    <3>2. BoundInv'
      BY <2>8, ReadType DEF ReadProcess, TypeOK, BoundInv, kernel, baseline
    <3> QED
      BY <3>1, <3>2
  <2>9. CASE Finish
    BY <2>9 DEF Finish, TypeOK, BoundInv, MapsTo, kernel, locals, history
  <2>10. CASE UNCHANGED vars
    BY <2>10 DEF vars, TypeOK, BoundInv, MapsTo, kernel, baseline, locals, history
  <2> QED
    BY <2>1, <2>2, <2>3, <2>4, <2>5, <2>6, <2>7, <2>8, <2>9, <2>10 DEF Next
<1> QED
  BY <1>1, <1>2, PTL DEF Spec

\* Every variable has its type.
THEOREM TypeCorrect == Spec => []TypeOK
BY RangeCorrect, PTL DEF RangeInv

-------------------------------------------------------------------------------
(* A snapshot shows what happened in the interval.                             *)

\* While a process lives, a baseline of it and the ticks since then add up to its
\* time; births tell processes with the same id apart.
BaseInv == /\ \A p \in Pids : procs[p].born <= births
           /\ \A p \in DOMAIN current_process_states :
                 /\ current_process_states[p].born \in 1 .. births
                 /\ current_process_states[p].born = procs[p].born =>
                       procs[p].time = current_process_states[p].total_process_cpu_time
                                          + since[p]
           /\ \A p \in DOMAIN previous_process_states_ :
                 /\ previous_process_states_[p].born \in 1 .. births
                 /\ (/\ previous_process_states_[p].born = procs[p].born
                     /\ pc = "processes" => p \in entries)
                    => procs[p].time = previous_process_states_[p].total_process_cpu_time
                                          + since[p]

\* The two system times are those of the last two visits to /proc/stat, or 0.
IntervalInv ==
    /\ previous_total_system_time_
           \in {0, IF pc = "processes" THEN previousStatAt ELSE statAt}
    /\ pc = "processes" => current_total_system_time \in {0, statAt}
    /\ pc = "stat" => process_list = <<>>

\* The processes read in this collection are those of the list.
ListInv == DOMAIN current_process_states = Listed /\ BaselinesAreListed

SnapshotInv == UsageIsTrue /\ WholeIsInterval

TruthInv == BaseInv /\ IntervalInv /\ ListInv /\ SnapshotInv

\* The entry of a process that is being read is true.
LEMMA InfoIsTrue ==
    ASSUME RangeInv, BaseInv, IntervalInv, NEW p \in Pids, ReadProcess(p),
           InfoOf(p).whole # 0
    PROVE  /\ InfoOf(p).whole = statAt - previousStatAt
           /\ InfoOf(p).base = InfoOf(p).born =>
                 InfoOf(p).part = Least(InfoOf(p).used, ticks_per_sec_ * InfoOf(p).whole)
<1>1. ShowsUsage(p)
  BY InfoType
<1>2. HasSystemDelta /\ p \in DOMAIN previous_process_states_
  BY <1>1 DEF ShowsUsage
<1>3. pc = "processes" /\ p \in entries /\ since[p] \in Nat
  BY DEF ReadProcess, RangeInv, TypeOK
<1>4. current_total_system_time = statAt /\ previous_total_system_time_ = previousStatAt
  BY <1>2, <1>3 DEF IntervalInv, HasSystemDelta, RangeInv, TypeOK
<1>5. InfoOf(p).whole = statAt - previousStatAt
  BY <1>1, <1>2, <1>4, InfoType, UsageType
<1>6. ASSUME InfoOf(p).base = InfoOf(p).born
      PROVE  InfoOf(p).part = Least(InfoOf(p).used, ticks_per_sec_ * InfoOf(p).whole)
  <2>1. previous_process_states_[p].born = procs[p].born
    BY <1>1, <1>6, InfoType
  <2>2. procs[p].time = previous_process_states_[p].total_process_cpu_time + since[p]
    BY <1>2, <1>3, <2>1 DEF BaseInv
  <2>3. Usage(p).part = Least(since[p], ticks_per_sec_ * Usage(p).whole)
    BY <1>2, <1>3, <2>2, UsageType
  <2> QED
    BY <1>1, <2>3, InfoType
<1> QED
  BY <1>5, <1>6

\* Steps that leave the list and the two times alone leave the snapshot true.
LEMMA SnapshotStays ==
    ASSUME SnapshotInv, UNCHANGED <<process_list, statAt, previousStatAt>>
    PROVE  SnapshotInv'
BY DEF SnapshotInv, UsageIsTrue, WholeIsInterval, Shown

\* An empty list is a true snapshot.
LEMMA EmptySnapshot ==
    ASSUME process_list' = <<>>
    PROVE  SnapshotInv' /\ Listed' = {}
BY EmptySeq DEF SnapshotInv, UsageIsTrue, WholeIsInterval, Listed

\* Baselines and kernel stay in step.
LEMMA StepKeepsBase ==
    ASSUME RangeInv, BaseInv, [Next]_vars
    PROVE  BaseInv'
<1> USE DEF RangeInv
<1>1. CASE Idle
  BY <1>1 DEF Idle, BaseInv, baseline, locals, history
<1>2. ASSUME NEW p \in Pids, Run(p)
      PROVE  BaseInv'
  <2>1. /\ procs' = [procs EXCEPT ![p].time = @ + 1] /\ since' = [since EXCEPT ![p] = @ + 1]
        /\ UNCHANGED <<births, current_process_states, previous_process_states_, pc, entries>>
    BY <1>2 DEF Run, baseline, locals
  <2>2. \A q \in Pids :
            /\ procs'[q].born = procs[q].born
            /\ procs'[q].time = procs[q].time + IF q = p THEN 1 ELSE 0
            /\ since'[q] = since[q] + IF q = p THEN 1 ELSE 0
            /\ procs[q].time \in Nat /\ since[q] \in Nat
    BY <2>1 DEF TypeOK, Process
  <2>3. /\ \A q \in DOMAIN current_process_states :
              q \in Pids /\ current_process_states[q].total_process_cpu_time \in Nat
        /\ \A q \in DOMAIN previous_process_states_ :
              q \in Pids /\ previous_process_states_[q].total_process_cpu_time \in Nat
    BY DEF TypeOK, MapsTo, Baseline
  <2> QED
    BY <2>1, <2>2, <2>3 DEF BaseInv
<1>3. ASSUME NEW p \in Pids, Exit(p)
      PROVE  BaseInv'
  <2>1. \A q \in Pids : procs'[q].born = (IF q = p THEN 0 ELSE procs[q].born)
                        /\ (q # p => procs'[q].time = procs[q].time)
    BY <1>3 DEF Exit, TypeOK, Process, Free
  <2>2. UNCHANGED <<births, current_process_states, previous_process_states_, pc, entries, since>>
    BY <1>3 DEF Exit, baseline, locals, history
  <2>3. /\ DOMAIN current_process_states \subseteq Pids
        /\ DOMAIN previous_process_states_ \subseteq Pids
        /\ births \in Nat
    BY DEF TypeOK, MapsTo
  <2>4. \A q \in Pids : procs'[q].born <= births
    BY <2>1, <2>3 DEF BaseInv
  <2> QED
    BY <2>1, <2>2, <2>3, <2>4 DEF BaseInv
<1>4. ASSUME NEW p \in Pids, NEW parent \in Pids, Fork(parent, p)
      PROVE  BaseInv'
  <2>1. \A q \in Pids : /\ procs'[q].born = (IF q = p THEN births + 1 ELSE procs[q].born)
                        /\ q # p => procs'[q].time = procs[q].time /\ since'[q] = since[q]
    BY <1>4 DEF Fork, TypeOK
  <2>2. /\ UNCHANGED <<current_process_states, previous_process_states_, pc, entries>>
        /\ births' = births + 1
    BY <1>4 DEF Fork, baseline, locals
  <2>3. /\ DOMAIN current_process_states \subseteq Pids
        /\ DOMAIN previous_process_states_ \subseteq Pids
        /\ births \in Nat /\ \A q \in Pids : procs[q].born \in Nat
    BY DEF TypeOK, MapsTo, Process
  <2>4. \A q \in Pids : procs'[q].born <= births + 1
    BY <2>1, <2>3 DEF BaseInv
  <2>5. \A n \in 1 .. births : n \in 1 .. births + 1 /\ n # births + 1
    BY <2>3
  <2> QED
    BY <2>1, <2>2, <2>3, <2>4, <2>5 DEF BaseInv
<1>5. CASE List
  <2>1. DOMAIN current_process_states' = {}
    BY <1>5 DEF List
  <2> QED
    BY <1>5, <2>1 DEF List, BaseInv, kernel, baseline, history
<1>6. CASE ReadSystemTime
  BY <1>6 DEF ReadSystemTime, BaseInv, kernel, baseline
<1>7. ASSUME NEW p \in Pids, SkipProcess(p)
      PROVE  BaseInv'
  BY <1>7 DEF SkipProcess, BaseInv, kernel, baseline, history
<1>8. ASSUME NEW p \in Pids, ReadProcess(p)
      PROVE  BaseInv'
  <2>1. /\ DOMAIN current_process_states' = DOMAIN current_process_states \cup {p}
        /\ \A q \in DOMAIN current_process_states' :
              current_process_states'[q] =
                 IF q = p
                 THEN [total_process_cpu_time |-> procs[p].time, born |-> procs[p].born]
                 ELSE current_process_states[q]
    BY <1>8, ReadType
  <2>2. /\ UNCHANGED <<procs, births, previous_process_states_, pc>>
        /\ entries' = entries \ {p} /\ pc = "processes"
        /\ \A q \in Pids : since'[q] = IF q = p THEN 0 ELSE since[q]
    BY <1>8 DEF ReadProcess, kernel, baseline, TypeOK
  <2>3. procs[p].born \in 1 .. births /\ procs[p].time = procs[p].time + 0
    BY <1>8 DEF ReadProcess, Alive, BaseInv, TypeOK, Process
  <2>4. /\ DOMAIN current_process_states \subseteq Pids
        /\ DOMAIN previous_process_states_ \subseteq Pids
    BY DEF TypeOK, MapsTo
  <2>5. \A q \in DOMAIN current_process_states' :
            /\ current_process_states'[q].born \in 1 .. births
            /\ current_process_states'[q].born = procs[q].born =>
                  procs[q].time = current_process_states'[q].total_process_cpu_time + since'[q]
    BY <2>1, <2>2, <2>3, <2>4 DEF BaseInv
  <2>6. \A q \in DOMAIN previous_process_states_ : q \in entries' =>
            since'[q] = since[q] /\ q \in entries
    BY <2>2, <2>4
  <2> QED
    BY <2>2, <2>5, <2>6 DEF BaseInv
<1>9. CASE Finish
  BY <1>9 DEF Finish, BaseInv, kernel, locals, history
<1>10. CASE UNCHANGED vars
  BY <1>10 DEF vars, BaseInv, kernel, baseline, locals, history
<1> QED
  BY <1>1, <1>2, <1>3, <1>4, <1>5, <1>6, <1>7, <1>8, <1>9, <1>10 DEF Next

\* The two times are those of the last two visits to /proc/stat.
LEMMA StepKeepsInterval ==
    ASSUME RangeInv, IntervalInv, [Next]_vars
    PROVE  IntervalInv'
<1>1. CASE Idle \/ UNCHANGED vars
  BY <1>1 DEF Idle, vars, IntervalInv, baseline, locals, history
<1>2. CASE \E p \in Pids : Run(p) \/ Exit(p) \/ \E parent \in Pids : Fork(parent, p)
  BY <1>2 DEF Run, Exit, Fork, IntervalInv, baseline, locals, history
<1>3. CASE List
  BY <1>3 DEF List, IntervalInv, baseline, history
<1>4. CASE ReadSystemTime
  BY <1>4 DEF ReadSystemTime, IntervalInv, baseline
<1>5. CASE \E p \in Pids : SkipProcess(p) \/ ReadProcess(p)
  BY <1>5 DEF SkipProcess, ReadProcess, IntervalInv, baseline, history
<1>6. CASE Finish
  BY <1>6 DEF Finish, IntervalInv, locals, history
<1> QED
  BY <1>1, <1>2, <1>3, <1>4, <1>5, <1>6 DEF Next

\* Reading a process adds it to the list and to the baselines of this collection.
LEMMA ReadKeepsTruth ==
    ASSUME RangeInv, TruthInv, NEW p \in Pids, ReadProcess(p)
    PROVE  ListInv' /\ SnapshotInv'
<1> DEFINE n == Len(process_list)
<1>1. /\ n \in Nat /\ Len(process_list') = n + 1
      /\ \A i \in 1 .. n : process_list'[i] = process_list[i]
      /\ process_list'[n + 1] = InfoOf(p)
      /\ DOMAIN current_process_states' = DOMAIN current_process_states \cup {p}
  BY ReadType
<1>2. /\ pc = "processes" /\ pc' = pc
      /\ UNCHANGED <<statAt, previousStatAt>>
  BY DEF ReadProcess
<1> HIDE DEF n
<1>3. Listed' = Listed \cup {p}
  <2>1. Listed = {process_list[i].pid : i \in 1 .. n}
    BY DEF Listed, n
  <2>2. Listed' = {process_list'[i].pid : i \in 1 .. n + 1}
    BY <1>1 DEF Listed
  <2>3. \A i \in 1 .. n + 1 : i \in 1 .. n \/ i = n + 1
    BY <1>1
  <2>4. n + 1 \in 1 .. n + 1 /\ \A i \in 1 .. n : i \in 1 .. n + 1
    BY <1>1
  <2>5. process_list'[n + 1].pid = p
    BY <1>1, InfoType
  <2> QED
    BY <2>1, <2>2, <2>3, <2>4, <2>5, <1>1
<1>4. ListInv'
  BY <1>1, <1>2, <1>3 DEF TruthInv, ListInv, BaselinesAreListed
<1>5. ASSUME NEW i \in 1 .. n + 1
      PROVE  /\ Shown(i)' => process_list'[i].whole = statAt - previousStatAt
             /\ (Shown(i)' /\ process_list'[i].base = process_list'[i].born) =>
                   process_list'[i].part = Least(process_list'[i].used,
                                                 ticks_per_sec_ * process_list'[i].whole)
  <2>1. CASE i \in 1 .. n
    <3>1. process_list'[i] = process_list[i] /\ i \in 1 .. Len(process_list)
      BY <1>1, <2>1 DEF n
    <3> QED
      BY <3>1 DEF TruthInv, SnapshotInv, UsageIsTrue, WholeIsInterval, Shown
  <2>2. CASE i = n + 1
    <3>1. process_list'[i] = InfoOf(p)
      BY <1>1, <2>2
    <3> QED
      BY <3>1, InfoIsTrue DEF TruthInv, Shown
  <2> QED
    BY <1>1, <2>1, <2>2
<1>6. SnapshotInv'
  BY <1>1, <1>2, <1>5 DEF SnapshotInv, UsageIsTrue, WholeIsInterval
<1> QED
  BY <1>4, <1>6

\* TruthInv is an invariant, given the types and bounds.
THEOREM TruthCorrect == Spec => []TruthInv
<1>1. Init => TruthInv
  <2> SUFFICES ASSUME Init
               PROVE  TruthInv
    OBVIOUS
  <2>1. \A p \in Pids : procs[p].born <= births
    <3>1. \A p \in Pids : procs[p].born = 1 \/ procs[p].born = 0
      BY DEF Init, Free
    <3>2. births = 1
      BY DEF Init
    <3>3. ASSUME NEW p \in Pids
          PROVE  procs[p].born <= births
      <4>1. CASE procs[p].born = 1
        BY <4>1, <3>2
      <4>2. CASE procs[p].born = 0
        BY <4>2, <3>2
      <4> QED
        BY <3>1, <4>1, <4>2
    <3> QED
      BY <3>3
  <2>2. BaseInv
    BY <2>1 DEF Init, BaseInv
  <2>3. Listed = {} /\ SnapshotInv
    BY EmptySeq DEF Init, Listed, SnapshotInv, UsageIsTrue, WholeIsInterval
  <2> QED
    BY <2>2, <2>3 DEF Init, TruthInv, IntervalInv, ListInv, BaselinesAreListed
<1>2. RangeInv /\ TruthInv /\ [Next]_vars => TruthInv'
  <2> SUFFICES ASSUME RangeInv, TruthInv, [Next]_vars
               PROVE  ListInv' /\ SnapshotInv'
    BY StepKeepsBase, StepKeepsInterval DEF TruthInv
  <2>1. CASE \/ Idle \/ UNCHANGED vars
             \/ \E p \in Pids : Run(p) \/ Exit(p) \/ \E parent \in Pids : Fork(parent, p)
             \/ \E p \in Pids : SkipProcess(p)
    <3>1. UNCHANGED <<process_list, statAt, previousStatAt, pc, current_process_states,
                      previous_process_states_>>
      BY <2>1 DEF Idle, Run, Exit, Fork, SkipProcess, vars, baseline, locals, history
    <3>2. SnapshotInv'
      BY <3>1, SnapshotStays DEF TruthInv
    <3>3. ListInv'
      BY <3>1 DEF TruthInv, ListInv, Listed, BaselinesAreListed
    <3> QED
      BY <3>2, <3>3
  <2>2. CASE List
    <3>1. process_list' = <<>> /\ DOMAIN current_process_states' = {} /\ pc' = "stat"
      BY <2>2 DEF List
    <3> QED
      BY <3>1, EmptySnapshot DEF ListInv, BaselinesAreListed
  <2>3. CASE ReadSystemTime
    <3>1. process_list' = <<>>
      BY <2>3 DEF ReadSystemTime, TruthInv, IntervalInv
    <3>2. process_list = <<>>
      BY <2>3 DEF ReadSystemTime, TruthInv, IntervalInv
    <3>3. pc' = "processes" /\ UNCHANGED current_process_states
      BY <2>3 DEF ReadSystemTime
    <3>4. Listed' = Listed
      BY <3>1, <3>2 DEF Listed
    <3> QED
      BY <3>1, <3>3, <3>4, EmptySnapshot DEF TruthInv, ListInv, BaselinesAreListed
  <2>4. ASSUME NEW p \in Pids, ReadProcess(p)
        PROVE  ListInv' /\ SnapshotInv'
    BY <2>4, ReadKeepsTruth
  <2>5. CASE Finish
    <3>1. /\ UNCHANGED <<process_list, statAt, previousStatAt, current_process_states>>
          /\ previous_process_states_' = current_process_states
      BY <2>5 DEF Finish, locals, history
    <3>2. SnapshotInv'
      BY <3>1, SnapshotStays DEF TruthInv
    <3> QED
      BY <3>1, <3>2 DEF TruthInv, ListInv, Listed, BaselinesAreListed
  <2> QED
    BY <2>1, <2>2, <2>3, <2>4, <2>5 DEF Next
<1> QED
  BY <1>1, <1>2, RangeCorrect, PTL DEF Spec

\* A percentage is the usage of the interval of the process it is shown for.
THEOREM UsageCorrect == Spec => []UsageIsTrue
BY TruthCorrect, PTL DEF TruthInv, SnapshotInv

\* It is set against the time between two consecutive visits to /proc/stat.
THEOREM WholeCorrect == Spec => []WholeIsInterval
BY TruthCorrect, PTL DEF TruthInv, SnapshotInv

\* Baselines are kept for the processes of the last snapshot only.
THEOREM BaselinesCorrect == Spec => []BaselinesAreListed
BY TruthCorrect, PTL DEF TruthInv, ListInv

-------------------------------------------------------------------------------
(* The tree, until a process id is given out twice.                            *)

\* Every process is younger than its parent; processes 2, 3, ... are children of
\* somebody alive; an id once given out stays with its process.
KernelInv ==
    /\ procs[1].born = 1 /\ procs[1].ppid = 0 /\ births >= 1
    /\ \A p \in Pids : Alive(p) => /\ p \in used
                                   /\ p # 1 => /\ procs[p].born > 1
                                               /\ procs[p].ppid \in Pids
                                               /\ Alive(procs[p].ppid)
                                               /\ procs[procs[p].ppid].born < procs[p].born

\* What an entry of the list says of its process and of the parent still holds of
\* those alive.
EntryHolds(info) ==
    /\ info.pid \in used /\ info.pid \in Pids
    /\ Alive(info.pid) => procs[info.pid].born = info.born
    /\ info.pid = 1 => info.ppid = 0
    /\ info.pid # 1 => /\ info.ppid \in used /\ info.ppid \in Pids
                       /\ Alive(info.ppid) => procs[info.ppid].born < info.born

EntriesInv == \A i \in 1 .. Len(process_list) : EntryHolds(process_list[i])

TreeInv == KernelInv /\ (~reused => EntriesInv /\ OlderThanChildren)

\* Forks, exits and adoptions keep the family in order.
LEMMA StepKeepsKernel ==
    ASSUME TypeOK, BaseInv, KernelInv, [Next]_vars
    PROVE  KernelInv'
<1>1. ASSUME UNCHANGED <<procs, births, used>>
      PROVE  KernelInv'
  BY <1>1 DEF KernelInv, Alive
<1>2. CASE \/ Idle \/ List \/ ReadSystemTime \/ Finish \/ UNCHANGED vars
           \/ \E p \in Pids : SkipProcess(p) \/ ReadProcess(p)
  BY <1>2, <1>1 DEF Idle, List, ReadSystemTime, Finish, SkipProcess, ReadProcess, vars, kernel
<1>3. ASSUME NEW p \in Pids, Run(p)
      PROVE  KernelInv'
  <2>1. \A q \in Pids : procs'[q].born = procs[q].born /\ procs'[q].ppid = procs[q].ppid
    BY <1>3 DEF Run, TypeOK, Process
  <2>2. UNCHANGED <<births, used>> /\ 1 \in Pids
    BY <1>3, ConstAssumption DEF Run
  <2> QED
    BY <2>1, <2>2 DEF KernelInv, Alive
<1>4. ASSUME NEW p \in Pids, Exit(p)
      PROVE  KernelInv'
  <2>1. \A q \in Pids :
            /\ q = p => procs'[q].born = 0
            /\ q # p => /\ procs'[q].born = procs[q].born
                        /\ procs'[q].ppid = IF procs[q].ppid = p THEN 1 ELSE procs[q].ppid
    BY <1>4 DEF Exit, TypeOK, Process, Free
  <2>2. UNCHANGED <<births, used>> /\ 1 \in Pids /\ p # 1 /\ p # 0
    BY <1>4, ConstAssumption DEF Exit
  <2>3. procs'[1].born = 1 /\ procs'[1].ppid = 0
    BY <2>1, <2>2 DEF KernelInv
  <2>4. ASSUME NEW q \in Pids, Alive(q)'
        PROVE  /\ q \in used
               /\ q # 1 => /\ procs'[q].born > 1
                           /\ procs'[q].ppid \in Pids
                           /\ Alive(procs[q].ppid)'
                           /\ procs'[procs'[q].ppid].born < procs'[q].born
    <3>1. q # p /\ Alive(q)
      BY <2>1, <2>4 DEF Alive
    <3>2. CASE q # 1 /\ procs[q].ppid = p
      <4>1. procs'[q].ppid = 1 /\ procs'[q].born = procs[q].born /\ procs[q].born \in Nat
        BY <2>1, <3>1, <3>2 DEF TypeOK, Process
      <4> QED
        BY <2>2, <2>3, <3>1, <3>2, <4>1 DEF KernelInv, Alive
    <3>3. CASE q # 1 /\ procs[q].ppid # p
      BY <2>1, <3>1, <3>3 DEF KernelInv, Alive
    <3> QED
      BY <3>1, <3>2, <3>3 DEF KernelInv
  <2> QED
    BY <2>2, <2>3, <2>4 DEF KernelInv
<1>5. ASSUME NEW p \in Pids, NEW parent \in Pids, Fork(parent, p)
      PROVE  KernelInv'
  <2>1. /\ procs'[p] = [born |-> births + 1, ppid |-> parent, time |-> 0]
        /\ \A q \in Pids : q # p => procs'[q] = procs[q]
        /\ births' = births + 1 /\ used' = used \cup {p}
        /\ Alive(parent) /\ ~Alive(p)
    BY <1>5 DEF Fork, TypeOK
  <2>2. 1 \in Pids /\ Alive(1) /\ p # 1 /\ p # parent /\ births \in Nat
    BY <2>1, ConstAssumption DEF KernelInv, Alive, TypeOK
  <2>3. procs[parent].born \in Nat /\ procs[parent].born <= births
    <3>1. procs[parent] \in Process
      BY DEF TypeOK
    <3> QED
      BY <3>1 DEF Process, BaseInv
  <2> QED
    BY <2>1, <2>2, <2>3 DEF KernelInv, Alive
<1> QED
  BY <1>2, <1>3, <1>4, <1>5 DEF Next

\* Steps of the kernel leave true what an entry says.
LEMMA KernelKeepsEntry ==
    ASSUME TypeOK, ~reused', NEW info \in Info, EntryHolds(info),
           \/ \E p \in Pids : Run(p) \/ Exit(p)
           \/ \E parent, p \in Pids : Fork(parent, p)
    PROVE  EntryHolds(info)'
<1>1. CASE \E p \in Pids : Run(p)
  <2> PICK p \in Pids : Run(p)
    BY <1>1
  <2>1. \A q \in Pids : procs'[q].born = procs[q].born
    BY DEF Run, TypeOK, Process
  <2>2. UNCHANGED used
    BY DEF Run
  <2> QED
    BY <2>1, <2>2 DEF EntryHolds, Alive
<1>2. CASE \E p \in Pids : Exit(p)
  <2> PICK p \in Pids : Exit(p)
    BY <1>2
  <2>1. \A q \in Pids : procs'[q].born = IF q = p THEN 0 ELSE procs[q].born
    BY DEF Exit, TypeOK, Process, Free
  <2>2. UNCHANGED used
    BY DEF Exit
  <2> QED
    BY <2>1, <2>2 DEF EntryHolds, Alive
<1>3. CASE \E parent, p \in Pids : Fork(parent, p)
  <2> PICK parent \in Pids, p \in Pids : Fork(parent, p)
    BY <1>3
  <2>1. /\ \A q \in Pids : q # p => procs'[q] = procs[q]
        /\ p \notin used /\ used' = used \cup {p}
    BY DEF Fork, TypeOK
  <2> QED
    BY <2>1 DEF EntryHolds, Alive
<1> QED
  BY <1>1, <1>2, <1>3

\* What collect records of a live process holds, and puts it in order with the
\* processes that are listed already.
LEMMA ReadKeepsTree ==
    ASSUME RangeInv, TreeInv, ~reused, NEW p \in Pids, ReadProcess(p)
    PROVE  EntriesInv' /\ OlderThanChildren'
<1> DEFINE n == Len(process_list)
<1>1. /\ n \in Nat /\ Len(process_list') = n + 1
      /\ \A i \in 1 .. n : process_list'[i] = process_list[i]
      /\ process_list'[n + 1] = InfoOf(p)
  BY ReadType
<1>2. /\ InfoOf(p).pid = p /\ InfoOf(p).ppid = procs[p].ppid
      /\ InfoOf(p).born = procs[p].born
  BY InfoType
<1>3. Alive(p) /\ UNCHANGED <<procs, used>>
  BY DEF ReadProcess, kernel
<1>4. p # 0 /\ \A q \in Pids : procs[q].born \in Nat
  BY ConstAssumption DEF RangeInv, TypeOK, Process
<1>5. \A i \in 1 .. n : EntryHolds(process_list[i])
  BY DEF TreeInv, EntriesInv
<1> HIDE DEF n
<1>6. EntryHolds(InfoOf(p))
  BY <1>2, <1>3, <1>4 DEF TreeInv, KernelInv, EntryHolds
<1>7. \A i \in 1 .. n + 1 : (i \in 1 .. n \/ i = n + 1)
  BY <1>1
<1>8. EntriesInv'
  <2>1. ASSUME NEW i \in 1 .. n + 1
        PROVE  EntryHolds(process_list'[i])
    BY <1>1, <1>5, <1>6, <1>7
  <2> QED
    BY <1>1, <1>3, <2>1 DEF EntriesInv, EntryHolds, Alive
<1>9. ASSUME NEW i \in 1 .. n + 1, NEW j \in 1 .. n + 1,
             process_list'[i].ppid = process_list'[j].pid
      PROVE  process_list'[j].born < process_list'[i].born
  <2>1. CASE i \in 1 .. n /\ j \in 1 .. n
    BY <1>1, <1>9, <2>1 DEF TreeInv, OlderThanChildren, n
  <2>2. CASE i \in 1 .. n /\ j = n + 1
    <3>1. EntryHolds(process_list[i]) /\ process_list[i].ppid = p
      BY <1>1, <1>2, <1>5, <1>9, <2>2
    <3>2. procs[p].born < process_list[i].born
      BY <3>1, <1>3, <1>4 DEF EntryHolds
    <3> QED
      BY <1>1, <1>2, <2>2, <3>2
  <2>3. CASE i = n + 1 /\ j \in 1 .. n
    <3>1. EntryHolds(process_list[j]) /\ procs[p].ppid = process_list[j].pid
      BY <1>1, <1>2, <1>5, <1>9, <2>3
    <3>2. p # 1
      BY <3>1, ConstAssumption DEF EntryHolds, TreeInv, KernelInv
    <3>3. Alive(procs[p].ppid) /\ procs[procs[p].ppid].born < procs[p].born
      BY <1>3, <3>2 DEF TreeInv, KernelInv
    <3>4. procs[process_list[j].pid].born = process_list[j].born
      BY <3>1, <3>3 DEF EntryHolds
    <3> QED
      BY <1>1, <1>2, <2>3, <3>1, <3>3, <3>4
  <2>4. CASE i = n + 1 /\ j = n + 1
    <3>1. procs[p].ppid = p
      BY <1>1, <1>2, <1>9, <2>4
    <3>2. p # 1
      BY <1>4, <3>1 DEF TreeInv, KernelInv
    <3>3. procs[p].born < procs[p].born
      BY <1>3, <3>1, <3>2 DEF TreeInv, KernelInv
    <3> QED
      BY <1>4, <3>3
  <2> QED
    BY <1>7, <2>1, <2>2, <2>3, <2>4
<1> QED
  BY <1>1, <1>8, <1>9 DEF OlderThanChildren

\* While no id has been given out twice, a parent in the list is older than its
\* children, for any order of the reads and whatever the kernel does between them.
THEOREM TreeCorrect == Spec => []ParentsAreOlder
<1>1. Init => TreeInv
  <2> SUFFICES ASSUME Init
               PROVE  TreeInv
    OBVIOUS
  <2>1. EntriesInv /\ OlderThanChildren
    BY EmptySeq DEF Init, EntriesInv, OlderThanChildren
  <2>2. KernelInv
    BY ConstAssumption DEF Init, KernelInv, Alive, Free
  <2> QED
    BY <2>1, <2>2 DEF TreeInv
<1>2. RangeInv /\ TruthInv /\ TreeInv /\ [Next]_vars => TreeInv'
  <2> SUFFICES ASSUME RangeInv, TruthInv, TreeInv, [Next]_vars, ~reused'
               PROVE  EntriesInv' /\ OlderThanChildren'
    BY StepKeepsKernel DEF TreeInv, RangeInv, TruthInv
  <2>0. ~reused
    BY DEF Next, Idle, Run, Exit, Fork, List, ReadSystemTime, SkipProcess, ReadProcess,
           Finish, vars, kernel
  <2>1. ASSUME UNCHANGED <<procs, used, process_list>>
        PROVE  EntriesInv' /\ OlderThanChildren'
    BY <2>0, <2>1 DEF TreeInv, EntriesInv, EntryHolds, Alive, OlderThanChildren
  <2>2. CASE \/ Idle \/ ReadSystemTime \/ Finish \/ UNCHANGED vars
             \/ \E p \in Pids : SkipProcess(p)
    BY <2>1, <2>2 DEF Idle, ReadSystemTime, Finish, SkipProcess, vars, kernel, locals
  <2>3. CASE \/ \E p \in Pids : Run(p) \/ Exit(p)
             \/ \E parent, p \in Pids : Fork(parent, p)
    <3>1. UNCHANGED process_list
      BY <2>3 DEF Run, Exit, Fork, locals
    <3>2. \A i \in 1 .. Len(process_list) : process_list[i] \in Info
      BY ElementOfSeq DEF RangeInv, TypeOK
    <3>3. ASSUME NEW i \in 1 .. Len(process_list)
          PROVE  EntryHolds(process_list[i])'
      <4> DEFINE info == process_list[i]
      <4>1. info \in Info /\ EntryHolds(info) /\ info' = info
        BY <2>0, <3>1, <3>2 DEF TreeInv, EntriesInv
      <4> QED
        BY <2>3, <4>1, <3>1, KernelKeepsEntry DEF RangeInv
    <3> QED
      BY <2>0, <3>1, <3>3 DEF EntriesInv, TreeInv, OlderThanChildren
  <2>4. CASE List
    <3>1. process_list' = <<>>
      BY <2>4 DEF List
    <3> QED
      BY <3>1, EmptySeq DEF EntriesInv, OlderThanChildren
  <2>5. ASSUME NEW p \in Pids, ReadProcess(p)
        PROVE  EntriesInv' /\ OlderThanChildren'
    BY <2>0, <2>5, ReadKeepsTree
  <2> QED
    BY <2>2, <2>3, <2>4, <2>5 DEF Next
<1>3. TreeInv => ParentsAreOlder
  BY DEF TreeInv, ParentsAreOlder
<1> QED
  BY <1>1, <1>2, <1>3, RangeCorrect, TruthCorrect, PTL DEF Spec
-------------------------------------------------------------------------------
(* The tree.                                                               *)

\* Induction over the numbers as a statement about sets.
LEMMA SetInduction ==
    ASSUME NEW S, 0 \in S, \A n \in Nat : n \in S => n + 1 \in S
    PROVE  Nat \subseteq S
<1> SUFFICES ASSUME Nat \ S # {}
             PROVE  FALSE
  OBVIOUS
<1> DEFINE R == OpToRel(<, Nat)
<1>1. \A y, x \in Nat : y < x => <<y, x>> \in R
  BY DEF OpToRel
<1>2. IsWellFoundedOn(R, Nat)
  BY NatLessThanWellFounded
<1> HIDE DEF R
<1>3. PICK x \in Nat \ S : \A y \in Nat \ S : <<y, x>> \notin R
  <2>1. Nat \ S \subseteq Nat
    OBVIOUS
  <2> QED
    BY <1>2, <2>1, WFMin
<1>4. x - 1 \in Nat \ S
  <2>1. x - 1 \in Nat /\ x = (x - 1) + 1
    BY <1>3
  <2> QED
    BY <1>3, <2>1
<1>5. <<x - 1, x>> \in R
  BY <1>1, <1>3, <1>4
<1> QED
  BY <1>3, <1>4, <1>5

\* The values a loop of n steps goes through.
Traces(T, base, n, step) ==
    {g \in [0 .. n -> T] : g[0] = base /\ \A i \in 1 .. n : g[i] = step[i][g[i - 1]]}

\* There are such values.
LEMMA Iteration ==
    ASSUME NEW T, NEW base \in T, NEW n \in Nat, NEW step \in [1 .. n -> [T -> T]]
    PROVE  Traces(T, base, n, step) # {}
<1> DEFINE Good(m, g) == g[0] = base /\ \A i \in 1 .. m : g[i] = step[i][g[i - 1]]
           S == {m \in Nat : m <= n => \E g \in [0 .. m -> T] : Good(m, g)}
<1>1. 0 \in S
  <2> DEFINE g == [i \in 0 .. 0 |-> base]
  <2>1. g \in [0 .. 0 -> T] /\ Good(0, g)
    OBVIOUS
  <2> QED
    BY <2>1
<1>2. ASSUME NEW m \in Nat, m \in S
      PROVE  m + 1 \in S
  <2> SUFFICES ASSUME m + 1 <= n
               PROVE  \E g \in [0 .. m + 1 -> T] : Good(m + 1, g)
    OBVIOUS
  <2>1. PICK g \in [0 .. m -> T] : Good(m, g)
    BY <1>2
  <2>2. m + 1 \in 1 .. n /\ m \in 0 .. m
    OBVIOUS
  <2>3. step[m + 1][g[m]] \in T
    BY <2>2
  <2> DEFINE h == [i \in 0 .. m + 1 |-> IF i = m + 1 THEN step[m + 1][g[m]] ELSE g[i]]
  <2>4. h \in [0 .. m + 1 -> T]
    BY <2>3
  <2>5. \A i \in 0 .. m : h[i] = g[i]
    OBVIOUS
  <2>6. h[m + 1] = step[m + 1][g[m]]
    OBVIOUS
  <2> HIDE DEF h
  <2>7. ASSUME NEW i \in 1 .. m + 1
        PROVE  h[i] = step[i][h[i - 1]]
    <3>1. CASE i = m + 1
      BY <2>5, <2>6, <3>1
    <3>2. CASE i \in 1 .. m
      <4>1. i - 1 \in 0 .. m /\ i \in 0 .. m
        BY <3>2
      <4> QED
        BY <2>1, <2>5, <3>2, <4>1
    <3> QED
      BY <3>1, <3>2
  <2> QED
    BY <2>1, <2>4, <2>5, <2>7
<1> HIDE DEF S
<1>3. Nat \subseteq S
  BY <1>1, <1>2, SetInduction
<1> QED
  BY <1>3 DEF S, Traces

\* The rows of processes older than that of row i.
Older(i) == {j \in 1 .. Len(process_list) : process_list[j].born < process_list[i].born}

\* A row has fewer older ones than there are rows, and more than its parent has.
LEMMA OlderRows ==
    ASSUME TypeOK, OlderThanChildren, NEW i \in 1 .. Len(process_list)
    PROVE  /\ Cardinality(Older(i)) \in Nat
           /\ Cardinality(Older(i)) <= Len(process_list)
           /\ \A k \in 1 .. Len(process_list) :
                 process_list[i].ppid = process_list[k].pid
                    => Cardinality(Older(k)) < Cardinality(Older(i))
<1> DEFINE N == Len(process_list)
<1>1. /\ N \in Nat
      /\ \A j \in 1 .. N : process_list[j].born \in Nat
  <2>1. \A j \in 1 .. N : process_list[j] \in Info
    BY ElementOfSeq DEF TypeOK
  <2> QED
    BY <2>1, LenProperties DEF TypeOK, Info
<1>2. IsFiniteSet(1 .. N) /\ Cardinality(1 .. N) = N
  BY <1>1, FS_Interval
<1>3. \A j \in 1 .. N : Older(j) \subseteq 1 .. N
  BY DEF Older
<1>4. \A j \in 1 .. N : /\ IsFiniteSet(Older(j)) /\ Cardinality(Older(j)) <= N
                        /\ Cardinality(Older(j)) \in Nat
  BY <1>2, <1>3, FS_Subset, FS_CardinalityType
<1>5. ASSUME NEW k \in 1 .. N, process_list[i].ppid = process_list[k].pid
      PROVE  Cardinality(Older(k)) < Cardinality(Older(i))
  <2>1. process_list[k].born < process_list[i].born
    BY <1>5 DEF OlderThanChildren
  <2>2. k \in Older(i) /\ k \notin Older(k)
    BY <1>1, <2>1 DEF Older
  <2>3. Older(k) \subseteq Older(i)
    BY <1>1, <2>1 DEF Older
  <2>4. Cardinality(Older(k)) <= Cardinality(Older(i)) /\ Cardinality(Older(k)) # Cardinality(Older(i))
    BY <1>4, <2>2, <2>3, FS_Subset
  <2> QED
    BY <1>4, <2>4
<1> QED
  BY <1>4, <1>5

\* The levels of the tree, from the roots down.
Levels(reach) == reach = [n \in 0 .. Len(process_list) |->
                            IF n = 0 THEN Roots
                            ELSE reach[n - 1] \cup UNION {Children(p) : p \in reach[n - 1]}]

\* There are as many levels as Reachable asks for.
LEMMA ReachableIsLevel ==
    ASSUME TypeOK
    PROVE  \E reach : Levels(reach) /\ Reachable = reach[Len(process_list)]
<1> DEFINE N == Len(process_list)
           T == SUBSET Listed
           below(X) == X \cup UNION {Children(p) : p \in X}
           step == [i \in 1 .. N |-> [X \in T |-> below(X)]]
           f == CHOOSE reach : Levels(reach)
<1>1. N \in Nat
  BY LenProperties DEF TypeOK
<1>2. Roots \in T
  BY DEF Roots, Listed
<1>3. \A p : Children(p) \subseteq Listed
  BY DEF Children, Listed
<1>4. \A X \in T : below(X) \in T
  BY <1>3
<1> HIDE DEF T, below
<1>5. step \in [1 .. N -> [T -> T]]
  BY <1>4
<1>6. \A i \in 1 .. N : \A X \in T : step[i][X] = below(X)
  OBVIOUS
<1> HIDE DEF step, N
<1>7. Traces(T, Roots, N, step) # {}
  BY <1>1, <1>2, <1>5, Iteration, Zenon
<1>8. PICK g \in [0 .. N -> T] : g[0] = Roots /\ \A i \in 1 .. N : g[i] = step[i][g[i - 1]]
  BY <1>7 DEF Traces
<1>9. \A n \in 0 .. N : g[n] = IF n = 0 THEN Roots ELSE below(g[n - 1])
  <2> SUFFICES ASSUME NEW n \in 0 .. N, n # 0
               PROVE  g[n] = below(g[n - 1])
    BY <1>8
  <2>1. n \in 1 .. N /\ n - 1 \in 0 .. N
    BY <1>1
  <2> QED
    BY <1>6, <1>8, <2>1
<1>10. g = [n \in 0 .. N |-> IF n = 0 THEN Roots ELSE below(g[n - 1])]
  BY <1>8, <1>9
<1>11. Levels(g)
  BY <1>10 DEF Levels, below, N
<1>12. Levels(f)
  BY <1>11
<1>13. Reachable = f[Len(process_list)]
  BY DEF Reachable, Levels
<1> QED
  BY <1>12, <1>13

\* Where every parent is older, a row with n older ones is at most n levels down.
LEMMA OlderParentsMakeForest ==
    ASSUME TypeOK, OlderThanChildren
    PROVE  Listed \subseteq Reachable
<1> DEFINE N == Len(process_list)
           pid(i) == process_list[i].pid
<1>1. N \in Nat
  BY LenProperties DEF TypeOK
<1>2. PICK reach : Levels(reach) /\ Reachable = reach[N]
  BY ReachableIsLevel
<1>3. /\ reach[0] = Roots
      /\ \A n \in 1 .. N : reach[n] = reach[n - 1] \cup UNION {Children(p) : p \in reach[n - 1]}
  <2> DEFINE level(n) == IF n = 0 THEN Roots
                         ELSE reach[n - 1] \cup UNION {Children(p) : p \in reach[n - 1]}
  <2>1. reach = [n \in 0 .. N |-> level(n)]
    BY <1>2 DEF Levels
  <2> HIDE DEF N, level
  <2>2. \A n \in 0 .. N : reach[n] = level(n)
    BY <2>1
  <2>3. 0 \in 0 .. N /\ \A n \in 1 .. N : n \in 0 .. N /\ n # 0
    BY <1>1
  <2> QED
    BY <2>2, <2>3 DEF level
<1> DEFINE Near(n) == /\ Roots \subseteq reach[n]
                      /\ \A i \in 1 .. N : Cardinality(Older(i)) <= n => pid(i) \in reach[n]
           S == {n \in Nat : n <= N => Near(n)}
<1>4. \A i \in 1 .. N : pid(i) \in Roots \/ \E k \in 1 .. N : process_list[i].ppid = pid(k)
  BY DEF Roots, Listed
<1>5. 0 \in S
  <2>1. ASSUME NEW i \in 1 .. N, Cardinality(Older(i)) <= 0
        PROVE  pid(i) \in Roots
    <3>1. \A k \in 1 .. N : process_list[i].ppid # pid(k)
      BY <2>1, OlderRows
    <3> QED
      BY <1>4, <3>1
  <2> QED
    BY <1>3, <2>1
<1>6. ASSUME NEW n \in Nat, n \in S
      PROVE  n + 1 \in S
  <2> SUFFICES ASSUME n + 1 <= N
               PROVE  Near(n + 1)
    OBVIOUS
  <2>1. Near(n)
    BY <1>1, <1>6
  <2>2. reach[n + 1] = reach[n] \cup UNION {Children(p) : p \in reach[n]}
    BY <1>1, <1>3
  <2>3. ASSUME NEW i \in 1 .. N, Cardinality(Older(i)) <= n + 1
        PROVE  pid(i) \in reach[n + 1]
    <3>1. CASE pid(i) \in Roots
      BY <2>1, <2>2, <3>1
    <3>2. CASE \E k \in 1 .. N : process_list[i].ppid = pid(k)
      <4>1. PICK k \in 1 .. N : process_list[i].ppid = pid(k)
        BY <3>2
      <4>2. Cardinality(Older(k)) < Cardinality(Older(i)) /\ Cardinality(Older(k)) \in Nat
            /\ Cardinality(Older(i)) \in Nat
        BY <4>1, OlderRows
      <4>3. pid(k) \in reach[n]
        BY <2>1, <2>3, <4>2
      <4>4. pid(i) \in Children(pid(k))
        BY <4>1 DEF Children
      <4> QED
        BY <2>2, <4>3, <4>4
    <3> QED
      BY <1>4, <3>1, <3>2
  <2> QED
    BY <2>1, <2>2, <2>3
<1> HIDE DEF S
<1>7. Nat \subseteq S
  BY <1>5, <1>6, SetInduction
<1>8. Near(N)
  BY <1>1, <1>7 DEF S
<1>9. \A i \in 1 .. N : pid(i) \in reach[N]
  BY <1>8, OlderRows
<1> QED
  BY <1>2, <1>9 DEF Listed

\* While no id has been given out twice, the tree of a snapshot holds every process,
\* for any order of the reads and whatever the kernel does between them.
THEOREM ForestCorrect == Spec => []TreeIsForest
<1>1. TypeOK /\ ParentsAreOlder => TreeIsForest
  BY OlderParentsMakeForest DEF ParentsAreOlder, TreeIsForest
<1> QED
  BY <1>1, TypeCorrect, TreeCorrect, PTL
===============================================================================
