------------------------- MODULE CpuCollector_proofs --------------------------
(***************************************************************************)
(* Proofs about CpuCollector for every set of CPUs, every family of        *)
(* topologies and any word width that the counters fit into.               *)
(***************************************************************************)
EXTENDS CpuCollector, SequenceTheorems, TLAPS

\* A counter record is its three counters, each of them a number.
LEMMA CountersLemma ==
    ASSUME NEW c \in CpuCounters
    PROVE  /\ c["user"] \in Nat /\ c["idle"] \in Nat /\ c["iowait"] \in Nat
           /\ total(c) \in Nat /\ idle_time(c) \in Nat
           /\ total(c) = idle_time(c) + c["user"]
BY DEF CpuCounters, Kinds, total, idle_time

\* Unsigned subtraction of numbers is a number.
LEMMA MinusType ==
    ASSUME NEW a \in Nat, NEW b \in Nat, a < Modulus, b < Modulus
    PROVE  Minus(a, b) \in Nat /\ Minus(a, b) < Modulus
BY ConstAssumption DEF Minus

\* Counters that have grown by d yield exactly the shares of d.
LEMMA DeltaIsTrue ==
    ASSUME NEW cur \in CpuCounters, NEW prev \in CpuCounters, NEW d \in CpuCounters,
           \A k \in Kinds : cur[k] = prev[k] + d[k]
    PROVE  DeltaShare(cur, prev) = TrueShare(d)
<1>1. /\ cur["user"] = prev["user"] + d["user"]
      /\ cur["idle"] = prev["idle"] + d["idle"]
      /\ cur["iowait"] = prev["iowait"] + d["iowait"]
  BY DEF Kinds
<1>2. /\ cur["user"] \in Nat /\ cur["idle"] \in Nat /\ cur["iowait"] \in Nat
      /\ prev["user"] \in Nat /\ prev["idle"] \in Nat /\ prev["iowait"] \in Nat
      /\ d["user"] \in Nat /\ d["idle"] \in Nat /\ d["iowait"] \in Nat
  BY CountersLemma
<1>3. /\ Minus(total(cur), total(prev)) = d["user"] + d["idle"] + d["iowait"]
      /\ Minus(idle_time(cur), idle_time(prev)) = d["idle"] + d["iowait"]
      /\ Minus(cur["user"], prev["user"]) = d["user"]
      /\ Minus(cur["iowait"], prev["iowait"]) = d["iowait"]
      /\ Minus(d["user"] + d["idle"] + d["iowait"], d["idle"] + d["iowait"]) = d["user"]
  BY <1>1, <1>2 DEF Minus, total, idle_time
<1>4. CASE d["user"] + d["idle"] + d["iowait"] = 0
  <2>1. d["user"] = 0 /\ d["iowait"] = 0
    BY <1>4, <1>2
  <2> QED
    BY <2>1, <1>3, <1>4 DEF DeltaShare, TrueShare, NoShare
<1>5. CASE d["user"] + d["idle"] + d["iowait"] # 0
  <2>1. Least(d["user"] + d["idle"] + d["iowait"], d["user"]) = d["user"]
    BY <1>2 DEF Least
  <2> QED
    BY <2>1, <1>3, <1>5 DEF DeltaShare, TrueShare
<1> QED
  BY <1>4, <1>5

-------------------------------------------------------------------------------
(* The counters, and what the collector keeps of them, stay below the word     *)
(* width.                                                                      *)

\* A counter record that is nowhere above the sums of the kernel.
Within(c) == \A k \in Kinds : c[k] <= sums[k]

BoundInv == /\ \A c \in Cpus : Within(ticks[c])
            /\ Within(previous_aggregate_)
            /\ \A i \in 1 .. Len(previous_cores_) : Within(previous_cores_[i])

\* What is within the sums fits into a word, in parts and in total.
LEMMA WithinFits ==
    ASSUME TypeOK, NEW c \in CpuCounters, Within(c)
    PROVE  /\ total(c) < Modulus /\ idle_time(c) < Modulus
           /\ c["user"] < Modulus /\ c["iowait"] < Modulus
<1>1. /\ c["user"] \in Nat /\ c["idle"] \in Nat /\ c["iowait"] \in Nat
      /\ sums["user"] \in Nat /\ sums["idle"] \in Nat /\ sums["iowait"] \in Nat
  BY CountersLemma DEF TypeOK
<1>2. c["user"] <= sums["user"] /\ c["idle"] <= sums["idle"] /\ c["iowait"] <= sums["iowait"]
  BY DEF Within, Kinds
<1>3. sums["user"] + sums["idle"] + sums["iowait"] < Modulus
  BY <1>1, ConstAssumption DEF TypeOK, total
<1> QED
  <2> DEFINE u == c["user"]
             i == c["idle"]
             w == c["iowait"]
  <2>1. u + i + w < Modulus /\ i + w < Modulus /\ u < Modulus /\ w < Modulus
    <3> HIDE DEF u, i, w
    <3>1. u \in Nat /\ i \in Nat /\ w \in Nat
      BY <1>1 DEF u, i, w
    <3>2. u <= sums["user"] /\ i <= sums["idle"] /\ w <= sums["iowait"]
      BY <1>2 DEF u, i, w
    <3> QED
      BY <3>1, <3>2, <1>1, <1>3, ConstAssumption
  <2> QED
    BY <2>1 DEF total, idle_time

\* A delta of two such records is a share, and none of it is above the whole.
LEMMA DeltaShareType ==
    ASSUME TypeOK, NEW cur \in CpuCounters, NEW prev \in CpuCounters,
           Within(cur), Within(prev)
    PROVE  /\ DeltaShare(cur, prev) \in Share
           /\ DeltaShare(cur, prev).used <= DeltaShare(cur, prev).whole
<1> DEFINE whole == Minus(total(cur), total(prev))
           idle == Minus(idle_time(cur), idle_time(prev))
           used == Least(whole, Minus(whole, idle))
<1>1. /\ total(cur) \in Nat /\ total(prev) \in Nat
      /\ idle_time(cur) \in Nat /\ idle_time(prev) \in Nat
      /\ cur["user"] \in Nat /\ prev["user"] \in Nat
      /\ cur["iowait"] \in Nat /\ prev["iowait"] \in Nat
  BY CountersLemma
<1>2. /\ total(cur) < Modulus /\ total(prev) < Modulus
      /\ idle_time(cur) < Modulus /\ idle_time(prev) < Modulus
      /\ cur["user"] < Modulus /\ prev["user"] < Modulus
      /\ cur["iowait"] < Modulus /\ prev["iowait"] < Modulus
  BY WithinFits
<1>3. /\ whole \in Nat /\ idle \in Nat /\ whole < Modulus /\ idle < Modulus
      /\ Minus(cur["user"], prev["user"]) \in Nat
      /\ Minus(cur["iowait"], prev["iowait"]) \in Nat
  BY <1>1, <1>2, MinusType
<1> HIDE DEF whole, idle
<1>4. used \in Nat /\ used <= whole
  <2>1. Minus(whole, idle) \in Nat
    BY <1>3, MinusType
  <2> QED
    BY <2>1, <1>3 DEF Least
<1> HIDE DEF used
<1>5. CASE whole = 0
  BY <1>5 DEF DeltaShare, NoShare, Share, whole
<1>6. CASE whole # 0
  <2>1. DeltaShare(cur, prev) = [whole |-> whole, used |-> used,
                                 user |-> Minus(cur["user"], prev["user"]),
                                 iowait |-> Minus(cur["iowait"], prev["iowait"])]
    BY <1>6 DEF DeltaShare, whole, idle, used
  <2> QED
    BY <2>1, <1>3, <1>4 DEF Share
<1> QED
  BY <1>5, <1>6

\* Ticks that have passed are a share.
LEMMA TrueShareType ==
    ASSUME NEW c \in CpuCounters
    PROVE  TrueShare(c) \in Share
BY CountersLemma DEF TrueShare, Share

\* A tick leaves counter records what they are.
LEMMA IncType ==
    ASSUME NEW c \in CpuCounters, NEW k \in Kinds
    PROVE  /\ [c EXCEPT ![k] = @ + 1] \in CpuCounters
           /\ \A j \in Kinds : /\ c[j] <= [c EXCEPT ![k] = @ + 1][j]
                               /\ [c EXCEPT ![k] = @ + 1][j] = c[j] + IF j = k THEN 1 ELSE 0
           /\ total([c EXCEPT ![k] = @ + 1]) = total(c) + 1
<1>1. [c EXCEPT ![k] = @ + 1] \in CpuCounters
  BY DEF CpuCounters
<1>2. \A j \in Kinds : c[j] \in Nat
  BY DEF CpuCounters
<1>3. \A j \in Kinds : [c EXCEPT ![k] = @ + 1][j] = IF j = k THEN c[j] + 1 ELSE c[j]
  BY DEF CpuCounters
<1>4. k = "user" \/ k = "idle" \/ k = "iowait"
  BY DEF Kinds
<1>5. "user" \in Kinds /\ "idle" \in Kinds /\ "iowait" \in Kinds
  BY DEF Kinds
<1>6. total([c EXCEPT ![k] = @ + 1]) = total(c) + 1
  BY <1>2, <1>3, <1>4, <1>5 DEF total
<1> QED
  BY <1>1, <1>2, <1>3, <1>6

\* A function on 1 .. n is a sequence of length n.
LEMMA FunctionIsSeq ==
    ASSUME NEW S, NEW n \in Nat, NEW f \in [1 .. n -> S]
    PROVE  f \in Seq(S) /\ Len(f) = n
OBVIOUS

-------------------------------------------------------------------------------
\* The lines of the file, and a snapshot taken from them, have their types.
LEMMA LinesType ==
    ASSUME TypeOK, BoundInv
    PROVE  /\ Len(online) \in Nat
           /\ \A i \in 1 .. Len(online) : online[i] \in Cpus
           /\ CoreLines \in Seq(CpuCounters)
           /\ Len(CoreLines) = Len(online)
           /\ \A i \in 1 .. Len(online) : /\ CoreLines[i] = ticks[online[i]]
                                          /\ CoreLines[i] \in CpuCounters
                                          /\ Within(CoreLines[i])
<1>1. online \in Seq(Cpus)
  BY ConstAssumption DEF TypeOK
<1>2. Len(online) \in Nat /\ \A i \in 1 .. Len(online) : online[i] \in Cpus
  BY <1>1, LenProperties, ElementOfSeq
<1>3. CoreLines \in [1 .. Len(online) -> CpuCounters]
  BY <1>2 DEF CoreLines, TypeOK
<1>4. CoreLines \in Seq(CpuCounters) /\ Len(CoreLines) = Len(online)
  BY <1>2, <1>3, FunctionIsSeq
<1>5. \A i \in 1 .. Len(online) : /\ CoreLines[i] = ticks[online[i]]
                                  /\ CoreLines[i] \in CpuCounters
                                  /\ Within(CoreLines[i])
  BY <1>2 DEF CoreLines, TypeOK, BoundInv
<1> QED
  BY <1>2, <1>4, <1>5

\* The snapshot of a read after the first one has its type.
LEMMA SnapshotType ==
    ASSUME TypeOK, BoundInv, CollectNext
    PROVE  /\ snapshot' \in [status : {"none", "error", "first", "ok"},
                             aggregate : Share, per_core : Seq(Share)]
           /\ snapshot'.aggregate.used <= snapshot'.aggregate.whole
           /\ Len(snapshot'.per_core) = Len(online)
           /\ \A i \in 1 .. Len(online) :
                 /\ snapshot'.per_core[i].used <= snapshot'.per_core[i].whole
                 /\ i <= Len(previous_cores_) =>
                       snapshot'.per_core[i] = DeltaShare(CoreLines[i], previous_cores_[i])
<1> DEFINE cores == [i \in 1 .. Len(online) |->
                        IF i <= Len(previous_cores_)
                        THEN DeltaShare(CoreLines[i], previous_cores_[i])
                        ELSE NoShare]
<1>1. snapshot' = [status |-> "ok", aggregate |-> DeltaShare(sums, previous_aggregate_),
                   per_core |-> cores]
  BY DEF CollectNext
<1>2. /\ DeltaShare(sums, previous_aggregate_) \in Share
      /\ DeltaShare(sums, previous_aggregate_).used <= DeltaShare(sums, previous_aggregate_).whole
  <2>1. \A k \in Kinds : sums[k] \in Nat
    BY DEF TypeOK, CpuCounters
  <2>2. Within(sums)
    BY <2>1 DEF Within
  <2> QED
    BY <2>2, DeltaShareType DEF TypeOK, BoundInv
<1>3. \A i \in 1 .. Len(online) : cores[i] \in Share /\ cores[i].used <= cores[i].whole
  <2> SUFFICES ASSUME NEW i \in 1 .. Len(online)
               PROVE  cores[i] \in Share /\ cores[i].used <= cores[i].whole
    OBVIOUS
  <2>1. CASE i <= Len(previous_cores_)
    <3>1. i \in 1 .. Len(previous_cores_)
      BY <2>1, LenProperties, LinesType DEF TypeOK
    <3>2. previous_cores_[i] \in CpuCounters /\ Within(previous_cores_[i])
      BY <3>1, ElementOfSeq DEF TypeOK, BoundInv
    <3>3. CoreLines[i] \in CpuCounters /\ Within(CoreLines[i])
      BY LinesType
    <3> QED
      BY <2>1, <3>2, <3>3, DeltaShareType
  <2>2. CASE ~ (i <= Len(previous_cores_))
    BY <2>2 DEF NoShare, Share
  <2> QED
    BY <2>1, <2>2
<1>4. cores \in Seq(Share) /\ Len(cores) = Len(online)
  <2>1. cores \in [1 .. Len(online) -> Share]
    BY <1>3
  <2> HIDE DEF cores
  <2> QED
    BY <2>1, LinesType, FunctionIsSeq
<1>5. \A i \in 1 .. Len(online) : i <= Len(previous_cores_) =>
          cores[i] = DeltaShare(CoreLines[i], previous_cores_[i])
  OBVIOUS
<1> HIDE DEF cores
<1> QED
  BY <1>1, <1>2, <1>3, <1>4, <1>5

\* The history records what a read should show, in the right types.
LEMMA TruthType ==
    ASSUME TypeOK, BoundInv, RecordTruth
    PROVE  truth' \in [aggregate : Share, per_core : Seq(Share)]
<1>1. sumsSince \in CpuCounters
  BY DEF TypeOK
<1>2. TrueShare(sumsSince) \in Share
  BY <1>1, TrueShareType
<1>3. truth'.per_core \in Seq(Share)
  <2>1. CASE previousOnline = online
    <3> DEFINE f == [i \in 1 .. Len(online) |-> TrueShare(since[online[i]])]
    <3>1. \A i \in 1 .. Len(online) : since[online[i]] \in CpuCounters
      BY LinesType DEF TypeOK
    <3>2. \A i \in 1 .. Len(online) : TrueShare(since[online[i]]) \in Share
      BY <3>1, TrueShareType
    <3>3. f \in [1 .. Len(online) -> Share]
      BY <3>2
    <3>4. truth'.per_core = f
      BY <2>1 DEF RecordTruth
    <3> HIDE DEF f
    <3> QED
      BY <3>3, <3>4, LinesType, FunctionIsSeq
  <2>2. CASE previousOnline # online
    <3>1. truth'.per_core = <<>>
      BY <2>2 DEF RecordTruth
    <3> QED
      BY <3>1, EmptySeq
  <2> QED
    BY <2>1, <2>2
<1>4. truth' = [aggregate |-> TrueShare(sumsSince), per_core |-> truth'.per_core]
  BY DEF RecordTruth
<1> QED
  BY <1>2, <1>3, <1>4

-------------------------------------------------------------------------------
(* Type correctness, with the bounds it needs, and the cap of 100 %.           *)

RangeInv == TypeOK /\ BoundInv /\ NeverAboveWhole

\* A tick keeps the kernel's counters within their sums.
LEMMA TickKeepsRange ==
    ASSUME RangeInv, NEW c \in Cpus, NEW k \in Kinds, Tick(c, k)
    PROVE  RangeInv'
<1> USE DEF RangeInv
<1>1. /\ ticks' \in [Cpus -> CpuCounters]
      /\ \A d \in Cpus : ticks'[d] = IF d = c THEN [ticks[c] EXCEPT ![k] = @ + 1] ELSE ticks[d]
      /\ since' \in [Cpus -> CpuCounters]
  BY IncType DEF Tick, TypeOK
<1>2. /\ sums' = [sums EXCEPT ![k] = @ + 1] /\ sums' \in CpuCounters
      /\ sumsSince' \in CpuCounters
      /\ total(sums') = total(sums) + 1
      /\ \A j \in Kinds : sums'[j] = sums[j] + IF j = k THEN 1 ELSE 0
  <2>1. sums' = [sums EXCEPT ![k] = @ + 1] /\ sumsSince' = [sumsSince EXCEPT ![k] = @ + 1]
    BY DEF Tick
  <2>2. sums \in CpuCounters /\ sumsSince \in CpuCounters
    BY DEF TypeOK
  <2> QED
    BY <2>1, <2>2, IncType
<1>3. total(sums') <= MaxTicks
  <2>1. total(sums) \in Nat
    BY CountersLemma DEF TypeOK
  <2>2. total(sums) < MaxTicks
    BY DEF Tick
  <2> QED
    BY <2>1, <2>2, <1>2, ConstAssumption
<1>4. TypeOK'
  BY <1>1, <1>2, <1>3 DEF Tick, TypeOK, baseline
<1>5. \A j \in Kinds : sums[j] \in Nat
  BY DEF TypeOK, CpuCounters
<1>6. ASSUME NEW x \in CpuCounters, Within(x)
      PROVE  \A j \in Kinds : x[j] <= sums'[j] /\ x[j] + (IF j = k THEN 1 ELSE 0) <= sums'[j]
  BY <1>2, <1>5, <1>6 DEF Within, CpuCounters
<1>7. \A d \in Cpus : Within(ticks[d])
  BY DEF BoundInv
<1>8. ASSUME NEW d \in Cpus
      PROVE  Within(ticks[d])'
  <2>1. ticks[d] \in CpuCounters
    BY DEF TypeOK
  <2>2. CASE d = c
    <3>1. \A j \in Kinds : ticks'[d][j] = ticks[d][j] + IF j = k THEN 1 ELSE 0
      <4>1. \A x \in CpuCounters : \A j \in Kinds :
                [x EXCEPT ![k] = @ + 1][j] = x[j] + IF j = k THEN 1 ELSE 0
        BY IncType
      <4>2. ticks'[d] = [ticks[d] EXCEPT ![k] = @ + 1]
        BY <2>2, <1>1
      <4> QED
        BY <4>1, <4>2, <2>1
    <3>2. \A j \in Kinds : ticks[d][j] + (IF j = k THEN 1 ELSE 0) <= sums'[j]
      BY <2>1, <1>6, <1>7
    <3> QED
      BY <3>1, <3>2 DEF Within
  <2>3. CASE d # c
    BY <2>1, <2>3, <1>1, <1>6, <1>7 DEF Within
  <2> QED
    BY <2>2, <2>3
<1>9. BoundInv'
  <2>1. previous_aggregate_' = previous_aggregate_ /\ previous_cores_' = previous_cores_
    BY DEF Tick, baseline
  <2>2. Within(previous_aggregate_)'
    BY <2>1, <1>6 DEF TypeOK, BoundInv, Within
  <2>3. \A i \in 1 .. Len(previous_cores_) : Within(previous_cores_[i])'
    <3> SUFFICES ASSUME NEW i \in 1 .. Len(previous_cores_)
                 PROVE  Within(previous_cores_[i])'
      OBVIOUS
    <3>1. previous_cores_[i] \in CpuCounters /\ Within(previous_cores_[i])
      BY ElementOfSeq DEF TypeOK, BoundInv
    <3> QED
      BY <2>1, <3>1, <1>6 DEF Within
  <2> QED
    BY <2>1, <2>2, <2>3, <1>8 DEF BoundInv
<1>10. NeverAboveWhole'
  BY DEF Tick, NeverAboveWhole
<1> QED
  BY <1>4, <1>9, <1>10

\* A successful read takes its baseline from the kernel's counters.
LEMMA BaselineType ==
    ASSUME TypeOK, BoundInv, UpdateBaseline, UNCHANGED kernel
    PROVE  /\ previous_aggregate_' \in CpuCounters
           /\ previous_cores_' \in Seq(CpuCounters)
           /\ has_previous_state_' \in BOOLEAN
           /\ BoundInv'
<1>1. /\ previous_aggregate_' = sums /\ previous_cores_' = CoreLines
      /\ has_previous_state_' = TRUE /\ sums' = sums /\ ticks' = ticks
  BY DEF UpdateBaseline, kernel
<1>2. \A j \in Kinds : sums[j] \in Nat
  BY DEF TypeOK, CpuCounters
<1>3. Within(previous_aggregate_)'
  BY <1>1, <1>2 DEF Within
<1>4. \A i \in 1 .. Len(CoreLines) : Within(CoreLines[i])
  BY LinesType
<1>5. BoundInv'
  BY <1>1, <1>3, <1>4 DEF BoundInv, Within
<1> QED
  BY <1>1, <1>5, LinesType DEF TypeOK

\* A read clears the history of the interval it closes.
LEMMA HistoryType ==
    ASSUME TypeOK, BoundInv, RecordTruth
    PROVE  /\ since' \in [Cpus -> CpuCounters] /\ sumsSince' \in CpuCounters
           /\ previousOnline' \in Seq(Cpus)
           /\ truth' \in [aggregate : Share, per_core : Seq(Share)]
<1>1. Zero \in CpuCounters
  BY DEF Zero, CpuCounters
<1>2. online \in Seq(Cpus)
  BY ConstAssumption DEF TypeOK
<1> QED
  BY <1>1, <1>2, TruthType DEF RecordTruth

\* All counters stay below the word width, so that no true difference of cpu.cpp wraps.
THEOREM RangeCorrect == Spec => []RangeInv
<1>1. Init => RangeInv
  <2> SUFFICES ASSUME Init
               PROVE  RangeInv
    OBVIOUS
  <2>1. Zero \in CpuCounters /\ total(Zero) = 0 /\ \A k \in Kinds : Zero[k] = 0
    BY DEF Zero, CpuCounters, Kinds, total
  <2>2. NoShare \in Share /\ NoShare.used <= NoShare.whole
    BY DEF NoShare, Share
  <2>3. \A S : <<>> \in Seq(S) /\ Len(<<>>) = 0
    BY EmptySeq
  <2>4. TypeOK
    <3>1. truth \in [aggregate : Share, per_core : Seq(Share)]
      BY <2>2, <2>3 DEF Init
    <3>2. snapshot \in [status : {"none", "error", "first", "ok"},
                        aggregate : Share, per_core : Seq(Share)]
      BY <2>2, <2>3 DEF Init, NoSnapshot
    <3>3. total(sums) <= MaxTicks
      BY <2>1, ConstAssumption DEF Init
    <3>4. ticks \in [Cpus -> CpuCounters] /\ since \in [Cpus -> CpuCounters]
      BY <2>1 DEF Init
    <3> QED
      BY <2>1, <2>3, <3>1, <3>2, <3>3, <3>4 DEF Init, TypeOK
  <2>5. BoundInv
    BY <2>1, <2>3 DEF Init, BoundInv, Within
  <2>6. NeverAboveWhole
    BY <2>2, <2>3 DEF Init, NeverAboveWhole, NoSnapshot
  <2> QED
    BY <2>4, <2>5, <2>6 DEF RangeInv
<1>2. RangeInv /\ [Next]_vars => RangeInv'
  <2> SUFFICES ASSUME RangeInv, [Next]_vars
               PROVE  RangeInv'
    OBVIOUS
  <2> USE DEF RangeInv
  <2>1. ASSUME NEW c \in Cpus, NEW k \in Kinds, Tick(c, k)
        PROVE  RangeInv'
    BY <2>1, TickKeepsRange
  <2>2. CASE HotPlug
    <3>1. TypeOK'
      BY <2>2 DEF HotPlug, baseline, history, TypeOK
    <3>2. BoundInv' /\ NeverAboveWhole'
      BY <2>2 DEF HotPlug, baseline, history, BoundInv, Within, NeverAboveWhole
    <3> QED
      BY <3>1, <3>2
  <2>3. CASE CollectFails
    <3>1. /\ snapshot'.aggregate = NoShare /\ snapshot'.per_core = <<>>
          /\ snapshot' = [status |-> "error", aggregate |-> NoShare, per_core |-> <<>>]
      BY <2>3 DEF CollectFails, NoSnapshot
    <3>2. NoShare \in Share /\ NoShare.used <= NoShare.whole
      BY DEF NoShare, Share
    <3>3. <<>> \in Seq(Share) /\ Len(<<>>) = 0
      BY EmptySeq
    <3>4. TypeOK'
      BY <2>3, <3>1, <3>2, <3>3 DEF CollectFails, kernel, baseline, history, TypeOK
    <3>5. BoundInv'
      BY <2>3 DEF CollectFails, kernel, baseline, BoundInv, Within
    <3>6. NeverAboveWhole'
      BY <3>1, <3>2, <3>3 DEF NeverAboveWhole
    <3> QED
      BY <3>4, <3>5, <3>6
  <2>4. CASE CollectFirst
    <3> DEFINE cores == [i \in 1 .. Len(online) |-> NoShare]
    <3>1. UpdateBaseline /\ RecordTruth /\ UNCHANGED kernel
      BY <2>4 DEF CollectFirst
    <3>2. NoShare \in Share /\ NoShare.used <= NoShare.whole
      BY DEF NoShare, Share
    <3>3. /\ cores \in Seq(Share) /\ Len(cores) = Len(online)
          /\ \A i \in 1 .. Len(online) : cores[i] = NoShare
      <4>1. cores \in [1 .. Len(online) -> Share]
        BY <3>2
      <4> QED
        BY <4>1, LinesType, FunctionIsSeq
    <3>4. snapshot' = [status |-> "first", aggregate |-> NoShare, per_core |-> cores]
      BY <2>4 DEF CollectFirst
    <3> HIDE DEF cores
    <3>5. TypeOK'
      BY <3>1, <3>2, <3>3, <3>4, BaselineType, HistoryType DEF TypeOK, kernel
    <3>6. NeverAboveWhole'
      BY <3>2, <3>3, <3>4 DEF NeverAboveWhole
    <3> QED
      BY <3>1, <3>5, <3>6, BaselineType
  <2>5. CASE CollectNext
    <3>1. UpdateBaseline /\ RecordTruth /\ UNCHANGED kernel
      BY <2>5 DEF CollectNext
    <3>2. TypeOK'
      BY <3>1, <2>5, SnapshotType, BaselineType, HistoryType DEF TypeOK, kernel
    <3>3. NeverAboveWhole'
      BY <2>5, SnapshotType DEF NeverAboveWhole
    <3> QED
      BY <3>1, <3>2, <3>3, BaselineType
  <2>6. CASE UNCHANGED vars
    BY <2>6 DEF vars, kernel, baseline, history, TypeOK, BoundInv, Within, NeverAboveWhole
  <2> QED
    BY <2>1, <2>2, <2>3, <2>4, <2>5, <2>6 DEF Next
<1> QED
  BY <1>1, <1>2, PTL DEF Spec

\* The types, and the lines of baseline and snapshot.
THEOREM TypeCorrect == Spec => []TypeOK
BY RangeCorrect, PTL DEF RangeInv

\* No utilization beyond 100 % is ever reported, whatever is plugged.
THEOREM CapCorrect == Spec => []NeverAboveWhole
BY RangeCorrect, PTL DEF RangeInv

-------------------------------------------------------------------------------
(* What a snapshot shows is what happened: the kernel's counters are the       *)
(* baseline plus the ticks since the last successful read.                     *)

BaseInv == has_previous_state_ =>
    /\ \A k \in Kinds : sums[k] = previous_aggregate_[k] + sumsSince[k]
    /\ Len(previous_cores_) = Len(previousOnline)
    /\ \A i \in 1 .. Len(previousOnline), k \in Kinds :
          ticks[previousOnline[i]][k] = previous_cores_[i][k] + since[previousOnline[i]][k]

TruthInv == BaseInv /\ AggregateIsTrue /\ CoresAreTrue

\* A tick moves the counters and the history together.
LEMMA TickKeepsBase ==
    ASSUME TypeOK, BaseInv, NEW c \in Cpus, NEW k \in Kinds, Tick(c, k)
    PROVE  BaseInv'
<1>1. \A x \in CpuCounters : \A j \in Kinds :
          /\ x[j] \in Nat
          /\ [x EXCEPT ![k] = @ + 1][j] = x[j] + IF j = k THEN 1 ELSE 0
  BY IncType DEF CpuCounters
<1>2. \A j \in Kinds : /\ sums'[j] = sums[j] + IF j = k THEN 1 ELSE 0
                       /\ sumsSince'[j] = sumsSince[j] + IF j = k THEN 1 ELSE 0
                       /\ sums[j] \in Nat /\ sumsSince[j] \in Nat
                       /\ previous_aggregate_[j] \in Nat
  <2>1. sums' = [sums EXCEPT ![k] = @ + 1] /\ sumsSince' = [sumsSince EXCEPT ![k] = @ + 1]
    BY DEF Tick
  <2>2. sums \in CpuCounters /\ sumsSince \in CpuCounters /\ previous_aggregate_ \in CpuCounters
    BY DEF TypeOK
  <2> QED
    BY <2>1, <2>2, <1>1
<1>3. \A d \in Cpus, j \in Kinds :
          /\ ticks'[d][j] = ticks[d][j] + IF d = c /\ j = k THEN 1 ELSE 0
          /\ since'[d][j] = since[d][j] + IF d = c /\ j = k THEN 1 ELSE 0
          /\ ticks[d][j] \in Nat /\ since[d][j] \in Nat
  <2> SUFFICES ASSUME NEW d \in Cpus, NEW j \in Kinds
               PROVE  /\ ticks'[d][j] = ticks[d][j] + IF d = c /\ j = k THEN 1 ELSE 0
                      /\ since'[d][j] = since[d][j] + IF d = c /\ j = k THEN 1 ELSE 0
                      /\ ticks[d][j] \in Nat /\ since[d][j] \in Nat
    OBVIOUS
  <2>1. ticks[d] \in CpuCounters /\ since[d] \in CpuCounters
    BY DEF TypeOK
  <2>2. /\ ticks'[d] = IF d = c THEN [ticks[d] EXCEPT ![k] = @ + 1] ELSE ticks[d]
        /\ since'[d] = IF d = c THEN [since[d] EXCEPT ![k] = @ + 1] ELSE since[d]
    BY DEF Tick, TypeOK
  <2>3. CASE d = c
    BY <2>1, <2>2, <2>3, <1>1
  <2>4. CASE d # c
    BY <2>1, <2>2, <2>4, <1>1
  <2> QED
    BY <2>3, <2>4
<1>4. /\ UNCHANGED <<has_previous_state_, previous_aggregate_, previous_cores_, previousOnline>>
      /\ \A i \in 1 .. Len(previousOnline) : previousOnline[i] \in Cpus
  BY ElementOfSeq DEF Tick, baseline, TypeOK
<1> SUFFICES ASSUME has_previous_state_
             PROVE  /\ \A j \in Kinds : sums'[j] = previous_aggregate_[j] + sumsSince'[j]
                    /\ \A i \in 1 .. Len(previousOnline), j \in Kinds :
                          ticks'[previousOnline[i]][j]
                              = previous_cores_[i][j] + since'[previousOnline[i]][j]
  BY <1>4 DEF BaseInv
<1>5. \A j \in Kinds : sums'[j] = previous_aggregate_[j] + sumsSince'[j]
  BY <1>2 DEF BaseInv
<1>6. ASSUME NEW i \in 1 .. Len(previousOnline), NEW j \in Kinds
      PROVE  ticks'[previousOnline[i]][j]
                 = previous_cores_[i][j] + since'[previousOnline[i]][j]
  <2> DEFINE d == previousOnline[i]
  <2>1. d \in Cpus
    BY <1>4
  <2>2. ticks[d][j] = previous_cores_[i][j] + since[d][j]
    BY DEF BaseInv
  <2>3. previous_cores_[i][j] \in Nat
    <3>1. i \in 1 .. Len(previous_cores_)
      BY DEF BaseInv
    <3>2. previous_cores_[i] \in CpuCounters
      BY <3>1, ElementOfSeq DEF TypeOK
    <3> QED
      BY <3>2 DEF CpuCounters
  <2> HIDE DEF d
  <2>4. ticks'[d][j] = previous_cores_[i][j] + since'[d][j]
    BY <2>1, <2>2, <2>3, <1>3
  <2> QED
    BY <2>4 DEF d
<1> QED
  BY <1>5, <1>6

\* A successful read starts the next interval at the counters it has seen.
LEMMA ReadSetsBase ==
    ASSUME TypeOK, BoundInv, UpdateBaseline, RecordTruth, UNCHANGED kernel
    PROVE  BaseInv'
<1>1. /\ sums' = sums /\ ticks' = ticks /\ previous_aggregate_' = sums
      /\ previous_cores_' = CoreLines /\ previousOnline' = online
      /\ since' = [d \in Cpus |-> Zero] /\ sumsSince' = Zero
  BY DEF UpdateBaseline, RecordTruth, kernel
<1>2. \A k \in Kinds : Zero[k] = 0 /\ sums[k] \in Nat
  BY DEF Zero, TypeOK, CpuCounters
<1>3. \A i \in 1 .. Len(online), k \in Kinds :
          ticks[online[i]][k] = CoreLines[i][k] + Zero[k]
  BY <1>2, LinesType DEF CpuCounters
<1>4. \A i \in 1 .. Len(online) : since'[online[i]] = Zero
  BY <1>1, LinesType
<1> QED
  BY <1>1, <1>2, <1>3, <1>4, LinesType DEF BaseInv

\* The snapshot of such a read shows the interval as it was.
LEMMA SnapshotIsTrue ==
    ASSUME TypeOK, BoundInv, BaseInv, CollectNext
    PROVE  AggregateIsTrue' /\ CoresAreTrue'
<1>1. has_previous_state_ /\ RecordTruth
  BY DEF CollectNext
<1>2. AggregateIsTrue'
  <2>1. snapshot'.aggregate = DeltaShare(sums, previous_aggregate_)
    BY DEF CollectNext
  <2>2. truth'.aggregate = TrueShare(sumsSince)
    BY <1>1 DEF RecordTruth
  <2>3. DeltaShare(sums, previous_aggregate_) = TrueShare(sumsSince)
    BY <1>1, DeltaIsTrue DEF BaseInv, TypeOK
  <2> QED
    BY <2>1, <2>2, <2>3 DEF AggregateIsTrue
<1>3. CoresAreTrue'
  <2>1. CASE previousOnline = online
    <3> DEFINE true == [i \in 1 .. Len(online) |-> TrueShare(since[online[i]])]
    <3>1. truth'.per_core = true
      BY <1>1, <2>1 DEF RecordTruth
    <3>2. true \in Seq(Share) /\ Len(true) = Len(online)
      <4>1. \A i \in 1 .. Len(online) : since[online[i]] \in CpuCounters
        BY LinesType DEF TypeOK
      <4>2. true \in [1 .. Len(online) -> Share]
        BY <4>1, TrueShareType
      <4> QED
        BY <4>2, LinesType, FunctionIsSeq
    <3>3. \A i \in 1 .. Len(online) : snapshot'.per_core[i] = true[i]
      <4> SUFFICES ASSUME NEW i \in 1 .. Len(online)
                   PROVE  snapshot'.per_core[i] = TrueShare(since[online[i]])
        OBVIOUS
      <4>1. Len(previous_cores_) = Len(online)
        BY <1>1, <2>1 DEF BaseInv
      <4>2. snapshot'.per_core[i] = DeltaShare(CoreLines[i], previous_cores_[i])
        BY <4>1, SnapshotType, LinesType
      <4>3. previous_cores_[i] \in CpuCounters
        BY <4>1, ElementOfSeq DEF TypeOK
      <4>4. /\ CoreLines[i] \in CpuCounters /\ CoreLines[i] = ticks[online[i]]
            /\ since[online[i]] \in CpuCounters
        BY LinesType DEF TypeOK
      <4>5. \A k \in Kinds : CoreLines[i][k] = previous_cores_[i][k] + since[online[i]][k]
        BY <4>4, <1>1, <2>1 DEF BaseInv
      <4> QED
        BY <4>2, <4>3, <4>4, <4>5, DeltaIsTrue
    <3>4. snapshot'.per_core \in Seq(Share) /\ Len(snapshot'.per_core) = Len(online)
      BY SnapshotType
    <3> HIDE DEF true
    <3>5. snapshot'.per_core = true
      BY <3>2, <3>3, <3>4, SeqEqual
    <3> QED
      BY <3>1, <3>5 DEF CoresAreTrue
  <2>2. CASE previousOnline # online
    BY <1>1, <2>2 DEF RecordTruth, CoresAreTrue
  <2> QED
    BY <2>1, <2>2
<1> QED
  BY <1>2, <1>3

\* TruthInv is an invariant, given the types and bounds.
THEOREM TruthCorrect == Spec => []TruthInv
<1>1. Init => TruthInv
  BY DEF Init, TruthInv, BaseInv, AggregateIsTrue, CoresAreTrue, NoSnapshot
<1>2. RangeInv /\ TruthInv /\ [Next]_vars => TruthInv'
  <2> SUFFICES ASSUME TypeOK, BoundInv, TruthInv, [Next]_vars
               PROVE  TruthInv'
    BY DEF RangeInv
  <2>1. ASSUME NEW c \in Cpus, NEW k \in Kinds, Tick(c, k)
        PROVE  TruthInv'
    <3>1. BaseInv'
      BY <2>1, TickKeepsBase DEF TruthInv
    <3> QED
      BY <2>1, <3>1 DEF Tick, TruthInv, AggregateIsTrue, CoresAreTrue
  <2>2. CASE HotPlug
    BY <2>2 DEF HotPlug, baseline, history, TruthInv, BaseInv, AggregateIsTrue, CoresAreTrue
  <2>3. CASE CollectFails
    BY <2>3 DEF CollectFails, NoSnapshot, kernel, baseline, history, TruthInv, BaseInv,
                AggregateIsTrue, CoresAreTrue
  <2>4. CASE CollectFirst
    <3>1. BaseInv'
      BY <2>4, ReadSetsBase DEF CollectFirst
    <3>2. snapshot'.status = "first"
      BY <2>4 DEF CollectFirst
    <3> QED
      BY <3>1, <3>2 DEF TruthInv, AggregateIsTrue, CoresAreTrue
  <2>5. CASE CollectNext
    <3>1. BaseInv'
      BY <2>5, ReadSetsBase DEF CollectNext
    <3> QED
      BY <2>5, <3>1, SnapshotIsTrue DEF TruthInv
  <2>6. CASE UNCHANGED vars
    BY <2>6 DEF vars, kernel, baseline, history, TruthInv, BaseInv, AggregateIsTrue, CoresAreTrue
  <2> QED
    BY <2>1, <2>2, <2>3, <2>4, <2>5, <2>6 DEF Next
<1> QED
  BY <1>1, <1>2, RangeCorrect, PTL DEF Spec

\* The total is the load of the interval since the last successful read.
THEOREM AggregateCorrect == Spec => []AggregateIsTrue
BY TruthCorrect, PTL DEF TruthInv

\* So is every line, when the same CPUs have lines as at that read.
THEOREM CoresCorrect == Spec => []CoresAreTrue
BY TruthCorrect, PTL DEF TruthInv
===============================================================================
