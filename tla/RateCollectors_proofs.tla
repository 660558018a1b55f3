------------------------- MODULE RateCollectors_proofs -------------------------
(***************************************************************************)
(* Proofs about RateCollectors for any devices, any counts and clock       *)
(* values that fit into a word.                                            *)
(***************************************************************************)
EXTENDS RateCollectors, TLAPS

\* The counter of a device is the kept one plus the work since, and the clock the
\* kept stamp plus the time since, unless there was a reset or the clock was set.
Adds(c, from, s) == s.reset \/ c = from + s.work
Elapses(t, from, i) == i.set \/ t = from + i.time

\* Where the devices stand: those handled by this collection against what it keeps
\* of them, the others against the last one.
DeviceInv ==
    /\ \A d \in DOMAIN current_states : Adds(count[d], current_states[d].count, since[d])
    /\ \A d \in DOMAIN lines :
          /\ Adds(count[d], lines[d].count, since[d])
          /\ d \in DOMAIN previous_states_ =>
                Adds(lines[d].count, previous_states_[d].count, lines[d].since)
    /\ \A d \in DOMAIN previous_states_ :
          d \in DOMAIN current_states \/ d \in DOMAIN lines
             \/ Adds(count[d], previous_states_[d].count, since[d])

\* All baselines of a collection carry its stamp.
StampInv ==
    /\ \A d \in DOMAIN current_states : current_states[d].timestamp_ns = now_ns
    /\ \A d, e \in DOMAIN previous_states_ :
          previous_states_[d].timestamp_ns = previous_states_[e].timestamp_ns

\* Where the clock stands.
ClockInv ==
    IF pc = "reading"
    THEN /\ Elapses(clock, now_ns, sinceStamp)
         /\ \A d \in DOMAIN previous_states_ :
               Elapses(now_ns, previous_states_[d].timestamp_ns, interval)
    ELSE \A d \in DOMAIN previous_states_ :
               Elapses(clock, previous_states_[d].timestamp_ns, sinceStamp)

\* A snapshot exists while devices are read; what it shows comes from baselines.
SnapshotInv ==
    /\ pc # "reading" => (current_states = Empty /\ snapshot = Empty)
    /\ pc = "idle" => lines = Empty /\ entries = {}
    /\ ~one_file => lines = Empty
    /\ \A d \in DOMAIN current_states : d \notin entries
    /\ \A d \in DOMAIN snapshot :
          snapshot[d].shown => /\ d \in DOMAIN previous_states_
                               /\ snapshot[d].elapsed =
                                     Minus(now_ns, previous_states_[d].timestamp_ns)

Truth == DeviceInv /\ StampInv /\ ClockInv /\ SnapshotInv /\ RateIsTrue

-------------------------------------------------------------------------------
(* Operators.                                                                  *)

\* Unsigned subtraction undoes an addition, and yields a number.
LEMMA MinusLemma ==
  ASSUME NEW a \in Nat, NEW b \in Nat, b < Modulus
  PROVE  Minus(a, b) \in Nat /\ \A n \in Nat : a = b + n => Minus(a, b) = n
BY ConstAssumption DEF Minus

\* A function from some devices may be extended at a device.
LEMMA WithLemma ==
  ASSUME NEW T, NEW f, IsPartial(f, T), NEW d \in Devices, NEW x \in T
  PROVE  /\ IsPartial(With(f, d, x), T)
         /\ DOMAIN With(f, d, x) = DOMAIN f \union {d}
         /\ With(f, d, x)[d] = x
         /\ \A e \in DOMAIN f : e # d => With(f, d, x)[e] = f[e]
<1>1. \A e \in DOMAIN f : f[e] \in T
  BY DEF IsPartial
<1> QED
  BY <1>1 DEF With, IsPartial

\* The empty one.
LEMMA EmptyLemma ==
  ASSUME NEW T
  PROVE  IsPartial(Empty, T) /\ DOMAIN Empty = {}
BY DEF Empty, IsPartial

\* What a snapshot shows has its type.
LEMMA InfoType ==
  ASSUME TypeOK, NEW d \in Devices, NEW r \in Reading
  PROVE  InfoOf(d, r) \in Info
<1>1. r.count \in Nat /\ r.since.work \in Nat /\ r.since.reset \in BOOLEAN
  BY ConstAssumption DEF Reading, Since
<1>2. /\ interval.time \in Nat /\ interval.set \in BOOLEAN
      /\ now_ns \in Nat
  BY ConstAssumption DEF TypeOK, Interval
<1>3. ShowsRate(d) \in BOOLEAN
  BY DEF ShowsRate
<1> DEFINE b == r.since.reset \/ interval.set
<1>6. b \in BOOLEAN
  OBVIOUS
<1> HIDE DEF b
<1>4. CASE ShowsRate(d)
  <2> DEFINE p == previous_states_[d]
  <2>1. p \in State
    BY <1>4 DEF ShowsRate, TypeOK, IsPartial
  <2>2. /\ p.count \in Nat /\ p.timestamp_ns \in Nat
        /\ p.count < Modulus /\ p.timestamp_ns < Modulus
    BY <2>1, ConstAssumption DEF State
  <2>3. Minus(r.count, p.count) \in Nat /\ Minus(now_ns, p.timestamp_ns) \in Nat
    BY <2>2, <1>1, <1>2, MinusLemma
  <2> DEFINE o == Minus(r.count, p.count)
             e == Minus(now_ns, p.timestamp_ns)
  <2>4. InfoOf(d, r) = [shown |-> TRUE, ops |-> o, elapsed |-> e, trueOps |-> r.since.work,
                        trueElapsed |-> interval.time, disturbed |-> b]
    BY <1>4 DEF InfoOf, b
  <2> HIDE DEF o, e
  <2>5. o \in Nat /\ e \in Nat
    BY <2>3 DEF o, e
  <2> QED
    BY <2>4, <2>5, <1>1, <1>2, <1>6 DEF Info
<1>5. CASE ~ShowsRate(d)
  <2>0. ShowsRate(d) = FALSE
    BY <1>5, <1>3
  <2>1. InfoOf(d, r) = [shown |-> FALSE, ops |-> 0, elapsed |-> 0, trueOps |-> r.since.work,
                        trueElapsed |-> interval.time, disturbed |-> b]
    BY <2>0 DEF InfoOf, b
  <2> QED
    BY <2>1, <1>1, <1>2, <1>6 DEF Info
<1> QED
  BY <1>3, <1>4, <1>5

-------------------------------------------------------------------------------
(* Types.                                                                      *)

\* Adding a device to the snapshot keeps the types.
LEMMA HandleType ==
  ASSUME TypeOK, NEW d \in Devices, NEW r \in Reading, Handle(d, r),
         since' \in [Devices -> Since]
  PROVE  TypeOK'
<1>1. [count |-> r.count, timestamp_ns |-> now_ns] \in State
  BY DEF Reading, State, TypeOK
<1>2. InfoOf(d, r) \in Info
  BY InfoType
<1>3. SUFFICES ASSUME NEW x \in State, NEW i \in Info,
                      current_states' = With(current_states, d, x),
                      snapshot' = With(snapshot, d, i)
               PROVE  TypeOK'
  BY <1>1, <1>2 DEF Handle
<1>4. /\ IsPartial(With(current_states, d, x), State)
      /\ DOMAIN With(current_states, d, x) = DOMAIN current_states \union {d}
  <2>1. IsPartial(current_states, State)
    BY DEF TypeOK
  <2> QED
    BY <2>1, WithLemma
<1>5. /\ IsPartial(With(snapshot, d, i), Info)
      /\ DOMAIN With(snapshot, d, i) = DOMAIN snapshot \union {d}
  <2>1. IsPartial(snapshot, Info)
    BY DEF TypeOK
  <2> QED
    BY <2>1, WithLemma
<1> QED
  BY <1>3, <1>4, <1>5 DEF Handle, TypeOK, kernel, baseline, stamps, IsPartial

\* Every step keeps the types.
LEMMA TypeStep ==
  ASSUME TypeOK, [Next]_vars
  PROVE  TypeOK'
<1> USE DEF TypeOK, baseline, locals, stamps, kernel
<1>0. Nothing \in Since /\ NoTime \in Interval
  BY DEF Nothing, Since, NoTime, Interval
<1>1. ASSUME NEW d \in Devices, Work(d) PROVE TypeOK'
  <2>1. since[d] \in Since
    OBVIOUS
  <2>2. [since[d] EXCEPT !.work = @ + 1] \in Since
    BY <2>1 DEF Since
  <2>3. since' \in [Devices -> Since]
    BY <1>1, <2>2 DEF Work
  <2>4. count' \in [Devices -> 0 .. MaxWork]
    <3>1. count[d] \in 0 .. MaxWork /\ count[d] < MaxWork
      BY <1>1 DEF Work
    <3>2. count[d] + 1 \in 0 .. MaxWork
      BY <3>1, ConstAssumption
    <3> QED
      BY <3>2, <1>1 DEF Work
  <2> QED
    BY <1>1, <2>3, <2>4 DEF Work, IsPartial
<1>2. ASSUME NEW d \in Devices, Unplug(d) PROVE TypeOK'
  <2>1. [work |-> 0, reset |-> TRUE] \in Since
    BY DEF Since
  <2>2. since' \in [Devices -> Since] /\ count' \in [Devices -> 0 .. MaxWork]
    BY <1>2, <2>1, ConstAssumption DEF Unplug
  <2> QED
    BY <1>2, <2>2 DEF Unplug, IsPartial
<1>3. ASSUME NEW d \in Devices, Plug(d) PROVE TypeOK'
  BY <1>3 DEF Plug, IsPartial
<1>4. CASE Pass
  <2>1. clock' \in 0 .. MaxTime
    BY <1>4, ConstAssumption DEF Pass
  <2>2. sinceStamp' \in Interval
    BY <1>4 DEF Pass, Interval
  <2> QED
    BY <1>4, <2>1, <2>2 DEF Pass, IsPartial
<1>5. CASE SetClock
  <2>1. sinceStamp' \in Interval
    BY <1>5 DEF SetClock, Interval
  <2> QED
    BY <1>5, <2>1 DEF SetClock, IsPartial
<1>6. CASE List
  <2>1. \A d \in Devices : ReadingOf(d) \in Reading
    BY DEF ReadingOf, Reading
  <2>2. IsPartial(lines', Reading)
    BY <1>6, <2>1 DEF List, IsPartial
  <2>3. since' \in [Devices -> Since]
    BY <1>6, <1>0 DEF List
  <2> QED
    BY <1>6, <2>2, <2>3 DEF List, IsPartial
<1>7. CASE Stamp
  BY <1>7, <1>0 DEF Stamp, IsPartial
<1>8. ASSUME NEW d \in Devices, ReadFile(d) PROVE TypeOK'
  <2>1. ReadingOf(d) \in Reading
    BY DEF ReadingOf, Reading
  <2>2. since' \in [Devices -> Since]
    BY <1>8, <1>0 DEF ReadFile
  <2> QED
    BY <1>8, <2>1, <2>2, HandleType DEF ReadFile
<1>9. ASSUME NEW d \in Devices, SkipFile(d) PROVE TypeOK'
  BY <1>9 DEF SkipFile, IsPartial
<1>10. ASSUME NEW d \in Devices, ParseLine(d) PROVE TypeOK'
  <2>1. lines[d] \in Reading
    BY <1>10 DEF ParseLine, IsPartial
  <2> QED
    BY <1>10, <2>1, HandleType DEF ParseLine
<1>11. CASE Finish
  <2>1. /\ IsPartial(Empty, Reading) /\ IsPartial(Empty, State) /\ IsPartial(Empty, Info)
        /\ 0 \in 0 .. MaxTime
    BY EmptyLemma, ConstAssumption
  <2> QED
    BY <1>11, <2>1, <1>0 DEF Finish, ClearLocals, IsPartial
<1>12. CASE UNCHANGED vars
  BY <1>12 DEF vars, IsPartial
<1> QED
  BY <1>1, <1>2, <1>3, <1>4, <1>5, <1>6, <1>7, <1>8, <1>9, <1>10, <1>11, <1>12 DEF Next

-------------------------------------------------------------------------------
(* The truth of rates.                                                         *)

\* What the invariants read off the types.
LEMMA TypeFacts ==
  ASSUME TypeOK
  PROVE  /\ \A d \in Devices : /\ count[d] \in Nat /\ since[d] \in Since
                                /\ since[d].work \in Nat /\ since[d].reset \in BOOLEAN
         /\ DOMAIN current_states \subseteq Devices
         /\ DOMAIN previous_states_ \subseteq Devices
         /\ DOMAIN lines \subseteq Devices
         /\ DOMAIN snapshot = DOMAIN current_states
         /\ \A d \in DOMAIN current_states : /\ current_states[d].count \in Nat
                                              /\ current_states[d].timestamp_ns \in Nat
         /\ \A d \in DOMAIN previous_states_ : /\ previous_states_[d].count \in Nat
                                                /\ previous_states_[d].count < Modulus
                                                /\ previous_states_[d].timestamp_ns \in Nat
                                                /\ previous_states_[d].timestamp_ns < Modulus
         /\ \A d \in DOMAIN lines : /\ lines[d] \in Reading /\ lines[d].count \in Nat
                                     /\ lines[d].since.work \in Nat
                                     /\ lines[d].since.reset \in BOOLEAN
         /\ clock \in Nat /\ now_ns \in Nat
         /\ sinceStamp \in Interval /\ interval \in Interval
         /\ sinceStamp.time \in Nat /\ interval.time \in Nat
         /\ sinceStamp.set \in BOOLEAN /\ interval.set \in BOOLEAN
<1> USE ConstAssumption
<1>1. \A d \in Devices : count[d] \in Nat /\ since[d] \in Since
  BY DEF TypeOK
<1>2. \A d \in DOMAIN current_states : current_states[d] \in State
  BY DEF TypeOK, IsPartial
<1>3. \A d \in DOMAIN previous_states_ : previous_states_[d] \in State
  BY DEF TypeOK, IsPartial
<1>4. \A d \in DOMAIN lines : lines[d] \in Reading
  BY DEF TypeOK, IsPartial
<1>5. \A s \in State : /\ s.count \in Nat /\ s.count < Modulus
                       /\ s.timestamp_ns \in Nat /\ s.timestamp_ns < Modulus
  BY DEF State
<1>6. \A s \in Since : s.work \in Nat /\ s.reset \in BOOLEAN
  BY DEF Since
<1>7. \A r \in Reading : r.count \in Nat /\ r.since \in Since
  BY DEF Reading
<1>8. \A i \in Interval : i.time \in Nat /\ i.set \in BOOLEAN
  BY DEF Interval
<1>9. /\ DOMAIN current_states \subseteq Devices
      /\ DOMAIN previous_states_ \subseteq Devices
      /\ DOMAIN lines \subseteq Devices
      /\ DOMAIN snapshot = DOMAIN current_states
      /\ clock \in Nat /\ now_ns \in Nat
      /\ sinceStamp \in Interval /\ interval \in Interval
  BY DEF TypeOK, IsPartial
<1> QED
  BY <1>1, <1>2, <1>3, <1>4, <1>5, <1>6, <1>7, <1>8, <1>9

\* A reading that adds up with the baseline gives a true rate.
LEMMA InfoIsTrue ==
  ASSUME TypeOK, NEW d \in Devices, NEW r \in Reading,
         d \in DOMAIN previous_states_ =>
            /\ Adds(r.count, previous_states_[d].count, r.since)
            /\ Elapses(now_ns, previous_states_[d].timestamp_ns, interval),
         NEW i, i = InfoOf(d, r)
  PROVE  /\ (i.shown /\ ~i.disturbed) => (i.ops = i.trueOps /\ i.elapsed = i.trueElapsed)
         /\ i.shown => /\ d \in DOMAIN previous_states_
                       /\ i.elapsed = Minus(now_ns, previous_states_[d].timestamp_ns)
<1>1. CASE ~ShowsRate(d)
  BY <1>1 DEF InfoOf
<1>2. CASE ShowsRate(d)
  <2> DEFINE p == previous_states_[d]
  <2>1. d \in DOMAIN previous_states_
    BY <1>2 DEF ShowsRate
  <2>2. /\ i.ops = Minus(r.count, p.count) /\ i.elapsed = Minus(now_ns, p.timestamp_ns)
        /\ i.trueOps = r.since.work /\ i.trueElapsed = interval.time
        /\ i.disturbed = (r.since.reset \/ interval.set)
    BY <1>2 DEF InfoOf
  <2>3. CASE r.since.reset \/ interval.set
    BY <2>1, <2>2, <2>3
  <2>4. CASE ~(r.since.reset \/ interval.set)
    <3>1. r.count = p.count + r.since.work /\ now_ns = p.timestamp_ns + interval.time
      BY <2>1, <2>4 DEF Adds, Elapses
    <3>2. /\ r.count \in Nat /\ r.since.work \in Nat
          /\ interval.time \in Nat /\ now_ns \in Nat
          /\ p.count \in Nat /\ p.count < Modulus
          /\ p.timestamp_ns \in Nat /\ p.timestamp_ns < Modulus
      BY <2>1, TypeFacts, ConstAssumption DEF Reading, Since
    <3>3. /\ Minus(r.count, p.count) = r.since.work
          /\ Minus(now_ns, p.timestamp_ns) = interval.time
      BY <3>1, <3>2, MinusLemma
    <3> QED
      BY <2>1, <2>2, <3>3
  <2> QED
    BY <2>3, <2>4
<1> QED
  BY <1>1, <1>2

\* What is added to a snapshot and to what is kept changes nothing else of them.
LEMMA Extended ==
  ASSUME TypeOK, NEW d \in Devices, NEW x \in State, NEW i \in Info
  PROVE  /\ DOMAIN With(current_states, d, x) = DOMAIN current_states \union {d}
         /\ With(current_states, d, x)[d] = x
         /\ \A e \in DOMAIN current_states :
               e # d => With(current_states, d, x)[e] = current_states[e]
         /\ DOMAIN With(snapshot, d, i) = DOMAIN snapshot \union {d}
         /\ With(snapshot, d, i)[d] = i
         /\ \A e \in DOMAIN snapshot : e # d => With(snapshot, d, i)[e] = snapshot[e]
BY DEF With

\* Handling a listed device keeps the truth.
LEMMA HandleTruth ==
  ASSUME TypeOK, Truth, NEW d \in Devices, NEW r \in Reading,
         pc = "reading", d \in entries, Handle(d, r),
         d \in DOMAIN previous_states_ => Adds(r.count, previous_states_[d].count, r.since),
         Adds(count[d], r.count, since'[d]),
         \A e \in Devices : e # d => since'[e] = since[e],
         one_file => since' = since
  PROVE  Truth'
<1>1. SUFFICES ASSUME NEW x \in State, NEW i \in Info,
                      x.count = r.count, x.timestamp_ns = now_ns, i = InfoOf(d, r),
                      current_states' = With(current_states, d, x),
                      snapshot' = With(snapshot, d, i)
               PROVE  Truth'
  <2>1. [count |-> r.count, timestamp_ns |-> now_ns] \in State
    BY DEF Reading, State, TypeOK
  <2>2. InfoOf(d, r) \in Info
    BY InfoType
  <2> QED
    BY <2>1, <2>2 DEF Handle
<1>2. /\ entries' = entries \ {d} /\ count' = count /\ clock' = clock
      /\ one_file' = one_file /\ previous_states_' = previous_states_
      /\ pc' = pc /\ lines' = lines /\ now_ns' = now_ns
      /\ sinceStamp' = sinceStamp /\ interval' = interval
  BY DEF Handle, kernel, baseline, stamps
<1>3. /\ DOMAIN With(current_states, d, x) = DOMAIN current_states \union {d}
      /\ With(current_states, d, x)[d] = x
      /\ \A e \in DOMAIN current_states :
            e # d => With(current_states, d, x)[e] = current_states[e]
  BY Extended
<1>4. /\ DOMAIN With(snapshot, d, i) = DOMAIN snapshot \union {d}
      /\ With(snapshot, d, i)[d] = i
      /\ \A e \in DOMAIN snapshot : e # d => With(snapshot, d, i)[e] = snapshot[e]
  BY Extended
<1> USE TypeFacts
<1>5. d \notin DOMAIN current_states
  BY DEF Truth, SnapshotInv
<1>6. /\ (i.shown /\ ~i.disturbed) => (i.ops = i.trueOps /\ i.elapsed = i.trueElapsed)
      /\ i.shown => /\ d \in DOMAIN previous_states_
                    /\ i.elapsed = Minus(now_ns, previous_states_[d].timestamp_ns)
  BY <1>1, InfoIsTrue DEF Truth, ClockInv
<1>7. DeviceInv'
  <2>1. \A e \in DOMAIN current_states' : Adds(count'[e], current_states'[e].count, since'[e])
    BY <1>1, <1>2, <1>3, <1>5 DEF Truth, DeviceInv
  <2>2. CASE one_file
    BY <1>1, <1>2, <1>3, <2>1, <2>2 DEF Truth, DeviceInv
  <2>3. CASE ~one_file
    <3>1. lines' = Empty /\ lines = Empty
      BY <1>2, <2>3 DEF Truth, SnapshotInv
    <3> QED
      BY <1>1, <1>2, <1>3, <2>1, <3>1, EmptyLemma DEF Truth, DeviceInv
  <2> QED
    BY <2>2, <2>3
<1>8. StampInv'
  BY <1>1, <1>2, <1>3 DEF Truth, StampInv
<1>9. ClockInv'
  BY <1>2 DEF Truth, ClockInv
<1>10. SnapshotInv'
  <2>1. \A e \in DOMAIN snapshot' :
           snapshot'[e].shown => /\ e \in DOMAIN previous_states_
                                 /\ snapshot'[e].elapsed =
                                       Minus(now_ns, previous_states_[e].timestamp_ns)
    BY <1>1, <1>4, <1>6 DEF Truth, SnapshotInv
  <2>2. \A e \in DOMAIN current_states' : e \notin entries'
    BY <1>1, <1>2, <1>3 DEF Truth, SnapshotInv
  <2> QED
    BY <1>2, <2>1, <2>2 DEF Truth, SnapshotInv, Minus
<1>11. RateIsTrue'
  BY <1>1, <1>4, <1>6 DEF Truth, RateIsTrue
<1> QED
  BY <1>7, <1>8, <1>9, <1>10, <1>11 DEF Truth

\* Every step keeps the truth.
LEMMA TruthStep ==
  ASSUME TypeOK, TypeOK', Truth, [Next]_vars
  PROVE  Truth'
<1> USE TypeFacts DEF baseline, locals, stamps, kernel
<1>1. ASSUME NEW d \in Devices, Work(d) PROVE Truth'
  <2>1. /\ \A e \in Devices : e # d => (count'[e] = count[e] /\ since'[e] = since[e])
        /\ count'[d] = count[d] + 1
        /\ since'[d].work = since[d].work + 1 /\ since'[d].reset = since[d].reset
    <3>1. /\ count' = [count EXCEPT ![d] = @ + 1] /\ count \in [Devices -> 0 .. MaxWork]
          /\ since' = [since EXCEPT ![d].work = @ + 1] /\ since \in [Devices -> Since]
      BY <1>1 DEF Work, TypeOK
    <3>2. /\ [since[d] EXCEPT !.work = @ + 1].work = since[d].work + 1
          /\ [since[d] EXCEPT !.work = @ + 1].reset = since[d].reset
      BY DEF Since
    <3> QED
      BY <3>1, <3>2
  <2>2. \A e \in Devices, f \in Nat :
           Adds(count[e], f, since[e]) => Adds(count'[e], f, since'[e])
    BY <2>1 DEF Adds
  <2>3. DeviceInv'
    BY <1>1, <2>2 DEF Work, Truth, DeviceInv
  <2> QED
    BY <1>1, <2>3 DEF Work, Truth, StampInv, ClockInv, SnapshotInv, RateIsTrue, Minus
<1>2. ASSUME NEW d \in Devices, Unplug(d) PROVE Truth'
  <2>1. \A e \in Devices : \/ since'[e].reset
                           \/ count'[e] = count[e] /\ since'[e] = since[e]
    <3>1. /\ count' = [count EXCEPT ![d] = 0] /\ count \in [Devices -> 0 .. MaxWork]
          /\ since' = [since EXCEPT ![d] = [work |-> 0, reset |-> TRUE]]
          /\ since \in [Devices -> Since]
      BY <1>2 DEF Unplug, TypeOK
    <3> QED
      BY <3>1
  <2>2. \A e \in Devices, f \in Nat :
           Adds(count[e], f, since[e]) => Adds(count'[e], f, since'[e])
    BY <2>1 DEF Adds
  <2>3. DeviceInv'
    BY <1>2, <2>2 DEF Unplug, Truth, DeviceInv
  <2> QED
    BY <1>2, <2>3 DEF Unplug, Truth, StampInv, ClockInv, SnapshotInv, RateIsTrue, Minus
<1>3. ASSUME NEW d \in Devices, Plug(d) PROVE Truth'
  BY <1>3 DEF Plug, Truth, DeviceInv, StampInv, ClockInv, SnapshotInv, RateIsTrue, Minus
<1>4. CASE Pass
  <2>1. \A t \in Nat : Elapses(clock, t, sinceStamp) => Elapses(clock', t, sinceStamp')
    BY <1>4 DEF Pass, Elapses, Interval
  <2>2. ClockInv'
    BY <1>4, <2>1 DEF Pass, Truth, ClockInv
  <2> QED
    BY <1>4, <2>2 DEF Pass, Truth, DeviceInv, StampInv, SnapshotInv, RateIsTrue, Minus
<1>5. CASE SetClock
  <2>1. \A t \in Nat : Elapses(clock', t, sinceStamp')
    BY <1>5 DEF SetClock, Elapses, Interval
  <2>2. ClockInv'
    BY <1>5, <2>1 DEF SetClock, Truth, ClockInv
  <2> QED
    BY <1>5, <2>2 DEF SetClock, Truth, DeviceInv, StampInv, SnapshotInv, RateIsTrue, Minus
<1>6. CASE List
  <2>1. /\ current_states = Empty /\ lines = Empty /\ snapshot = Empty
        /\ current_states' = Empty /\ snapshot' = Empty
        /\ DOMAIN Empty = {}
    BY <1>6, EmptyLemma DEF List, Truth, SnapshotInv
  <2>2. CASE one_file
    <3>1. /\ DOMAIN lines' = present /\ present \subseteq Devices
          /\ \A d \in present : /\ lines'[d].count = count[d] /\ lines'[d].since = since[d]
                                 /\ since'[d] = Nothing
          /\ \A d \in Devices \ present : since'[d] = since[d]
      BY <1>6, <2>2 DEF List, ReadingOf, TypeOK
    <3>2. \A d \in Devices : Adds(count[d], count[d], Nothing)
      BY DEF Adds, Nothing
    <3>3. \A d \in DOMAIN previous_states_ :
             Adds(count[d], previous_states_[d].count, since[d])
      BY <2>1 DEF Truth, DeviceInv
    <3>4. DeviceInv'
      BY <1>6, <2>1, <3>1, <3>2, <3>3 DEF List, DeviceInv
    <3>5. SnapshotInv'
      BY <1>6, <2>1, <2>2, <3>1 DEF List, SnapshotInv
    <3> QED
      BY <1>6, <2>1, <3>4, <3>5 DEF List, Truth, StampInv, ClockInv, RateIsTrue
  <2>3. CASE ~one_file
    <3>1. DeviceInv'
      BY <1>6, <2>1, <2>3 DEF List, Truth, DeviceInv
    <3>2. SnapshotInv'
      BY <1>6, <2>1, <2>3 DEF List, SnapshotInv
    <3> QED
      BY <1>6, <2>1, <3>1, <3>2 DEF List, Truth, StampInv, ClockInv, RateIsTrue
  <2> QED
    BY <2>2, <2>3
<1>7. CASE Stamp
  <2>1. /\ current_states = Empty /\ snapshot = Empty /\ DOMAIN Empty = {}
        /\ current_states' = Empty /\ snapshot' = Empty
    BY <1>7, EmptyLemma DEF Stamp, Truth, SnapshotInv
  <2>2. ClockInv'
    <3>1. Elapses(clock, clock, NoTime)
      BY DEF Elapses, NoTime
    <3>2. \A d \in DOMAIN previous_states_ :
             Elapses(clock, previous_states_[d].timestamp_ns, sinceStamp)
      BY <1>7 DEF Stamp, Truth, ClockInv
    <3> QED
      BY <1>7, <3>1, <3>2 DEF Stamp, ClockInv
  <2>3. SnapshotInv'
    BY <1>7, <2>1 DEF Stamp, Truth, SnapshotInv
  <2> QED
    BY <1>7, <2>1, <2>2, <2>3 DEF Stamp, Truth, DeviceInv, StampInv, RateIsTrue
<1>8. ASSUME NEW d \in Devices, ReadFile(d) PROVE Truth'
  <2>1. /\ pc = "reading" /\ d \in entries /\ ~one_file
        /\ Handle(d, ReadingOf(d)) /\ since' = [since EXCEPT ![d] = Nothing]
    BY <1>8 DEF ReadFile
  <2>2. /\ ReadingOf(d) \in Reading
        /\ ReadingOf(d).count = count[d] /\ ReadingOf(d).since = since[d]
    BY DEF ReadingOf, Reading, TypeOK
  <2>3. d \notin DOMAIN current_states /\ d \notin DOMAIN lines
    BY <2>1, EmptyLemma DEF Truth, SnapshotInv
  <2>4. d \in DOMAIN previous_states_ =>
           Adds(ReadingOf(d).count, previous_states_[d].count, ReadingOf(d).since)
    BY <2>2, <2>3 DEF Truth, DeviceInv
  <2>5. since'[d] = Nothing /\ \A e \in Devices : e # d => since'[e] = since[e]
    BY <2>1 DEF TypeOK
  <2>6. Adds(count[d], ReadingOf(d).count, since'[d])
    BY <2>2, <2>5 DEF Adds, Nothing
  <2> HIDE DEF baseline, locals, stamps, kernel
  <2> QED
    BY <2>1, <2>2, <2>4, <2>5, <2>6, HandleTruth
<1>9. ASSUME NEW d \in Devices, SkipFile(d) PROVE Truth'
  BY <1>9 DEF SkipFile, Truth, DeviceInv, StampInv, ClockInv, SnapshotInv, RateIsTrue, Minus
<1>10. ASSUME NEW d \in Devices, ParseLine(d) PROVE Truth'
  <2>1. /\ pc = "reading" /\ d \in entries /\ one_file /\ d \in DOMAIN lines
        /\ Handle(d, lines[d]) /\ since' = since
    BY <1>10 DEF ParseLine, TypeOK
  <2>2. /\ lines[d] \in Reading
        /\ d \in DOMAIN previous_states_ =>
              Adds(lines[d].count, previous_states_[d].count, lines[d].since)
        /\ Adds(count[d], lines[d].count, since'[d])
    BY <2>1 DEF Truth, DeviceInv
  <2> QED
    BY <2>1, <2>2, HandleTruth
<1>11. CASE Finish
  <2>1. /\ lines' = Empty /\ current_states' = Empty /\ snapshot' = Empty
        /\ entries' = {} /\ DOMAIN Empty = {}
    BY <1>11, EmptyLemma DEF Finish, ClearLocals
  <2>2. DeviceInv'
    BY <1>11, <2>1 DEF Finish, Truth, DeviceInv
  <2>3. StampInv'
    BY <1>11, <2>1 DEF Finish, Truth, StampInv
  <2>4. ClockInv'
    BY <1>11 DEF Finish, Truth, ClockInv, StampInv
  <2>5. SnapshotInv' /\ RateIsTrue'
    BY <1>11, <2>1 DEF Finish, SnapshotInv, RateIsTrue
  <2> QED
    BY <2>2, <2>3, <2>4, <2>5 DEF Truth
<1>12. CASE UNCHANGED vars
  BY <1>12 DEF vars, Truth, DeviceInv, StampInv, ClockInv, SnapshotInv, RateIsTrue, Minus
<1> QED
  BY <1>1, <1>2, <1>3, <1>4, <1>5, <1>6, <1>7, <1>8, <1>9, <1>10, <1>11, <1>12 DEF Next

-------------------------------------------------------------------------------
(* Theorems.                                                                   *)

\* Initially both hold.
LEMMA InitLemma == Init => TypeOK /\ Truth
<1> SUFFICES ASSUME Init PROVE TypeOK /\ Truth
  OBVIOUS
<1>1. /\ IsPartial(Empty, State) /\ IsPartial(Empty, Reading) /\ IsPartial(Empty, Info)
      /\ DOMAIN Empty = {}
  BY EmptyLemma
<1>2. Nothing \in Since /\ NoTime \in Interval /\ 0 \in 0 .. MaxTime /\ 0 \in 0 .. MaxWork
  BY ConstAssumption DEF Nothing, Since, NoTime, Interval
<1>3. TypeOK
  BY <1>1, <1>2 DEF Init, TypeOK
<1>4. Truth
  BY <1>1 DEF Init, Truth, DeviceInv, StampInv, ClockInv, SnapshotInv, RateIsTrue
<1> QED
  BY <1>3, <1>4

\* Every variable keeps its type.
THEOREM TypeCorrect == Spec => []TypeOK
<1>1. Init => TypeOK
  BY InitLemma
<1>2. TypeOK /\ [Next]_vars => TypeOK'
  BY TypeStep
<1> QED
  BY <1>1, <1>2, PTL DEF Spec

\* The invariant holds always.
LEMMA TruthCorrect == Spec => []Truth
<1>1. Init => Truth
  BY InitLemma
<1>2. TypeOK /\ TypeOK' /\ Truth /\ [Next]_vars => Truth'
  BY TruthStep
<1> QED
  BY <1>1, <1>2, TypeCorrect, PTL DEF Spec

\* A rate is that of the device and of the interval, unless the device was reset or
\* the clock set.
THEOREM RateCorrect == Spec => []RateIsTrue
<1>1. Truth => RateIsTrue
  BY DEF Truth
<1> QED
  BY <1>1, TruthCorrect, PTL

\* All rates of a snapshot are over one interval.
THEOREM OneIntervalCorrect == Spec => []OneInterval
<1>1. Truth => OneInterval
  BY DEF Truth, SnapshotInv, StampInv, OneInterval
<1> QED
  BY <1>1, TruthCorrect, PTL
===============================================================================
