------------------------ MODULE TerminalDashboard_proofs ------------------------
(***************************************************************************)
(* Proofs about TerminalDashboard for any machines, any lengths of the     *)
(* lists and of the log, and any number of slices, failed readings and     *)
(* keys.                                                                   *)
(***************************************************************************)
EXTENDS TerminalDashboard, SequenceTheorems, FiniteSetTheorems, TLAPS

-------------------------------------------------------------------------------
(* Sequences and loops.                                                    *)

\* A function on an interval from 1 is a sequence.
LEMMA FunctionIsSeq ==
    ASSUME NEW S, NEW n \in Nat, NEW f \in [1 .. n -> S]
    PROVE  f \in Seq(S) /\ Len(f) = n
OBVIOUS

\* Induction over the numbers as a statement about sets.
LEMMA SetInduction ==
    ASSUME NEW S, 0 \in S, \A n \in Nat : n \in S => n + 1 \in S
    PROVE  Nat \subseteq S
<1> SUFFICES ASSUME Nat \ S # {}
             PROVE  FALSE
  OBVIOUS
<1> DEFINE R == OpToRel(<, Nat)
<1>1. \A y, x \in Nat : y < x => <<y, x>> \in R
  BY DEF OpToRel
<1>2. IsWellFoundedOn(R, Nat)
  BY NatLessThanWellFounded
<1> HIDE DEF R
<1>3. PICK x \in Nat \ S : \A y \in Nat \ S : <<y, x>> \notin R
  <2>1. Nat \ S \subseteq Nat
    OBVIOUS
  <2> QED
    BY <1>2, <2>1, WFMin
<1>4. x - 1 \in Nat \ S
  <2>1. x - 1 \in Nat /\ x = (x - 1) + 1
    BY <1>3
  <2> QED
    BY <1>3, <2>1
<1>5. <<x - 1, x>> \in R
  BY <1>1, <1>3, <1>4
<1> QED
  BY <1>3, <1>4, <1>5

\* The values a loop of n steps goes through.
Traces(T, base, n, step) ==
    {g \in [0 .. n -> T] : g[0] = base /\ \A i \in 1 .. n : g[i] = step[i][g[i - 1]]}

\* There are such values.
LEMMA Iteration ==
    ASSUME NEW T, NEW base \in T, NEW n \in Nat, NEW step \in [1 .. n -> [T -> T]]
    PROVE  Traces(T, base, n, step) # {}
<1> DEFINE Good(m, g) == g[0] = base /\ \A i \in 1 .. m : g[i] = step[i][g[i - 1]]
           S == {m \in Nat : m <= n => \E g \in [0 .. m -> T] : Good(m, g)}
<1>1. 0 \in S
  <2> DEFINE g == [i \in 0 .. 0 |-> base]
  <2>1. g \in [0 .. 0 -> T] /\ Good(0, g)
    OBVIOUS
  <2> QED
    BY <2>1
<1>2. ASSUME NEW m \in Nat, m \in S
      PROVE  m + 1 \in S
  <2> SUFFICES ASSUME m + 1 <= n
               PROVE  \E g \in [0 .. m + 1 -> T] : Good(m + 1, g)
    OBVIOUS
  <2>1. PICK g \in [0 .. m -> T] : Good(m, g)
    BY <1>2
  <2>2. m + 1 \in 1 .. n /\ m \in 0 .. m
    OBVIOUS
  <2>3. step[m + 1][g[m]] \in T
    BY <2>2
  <2> DEFINE h == [i \in 0 .. m + 1 |-> IF i = m + 1 THEN step[m + 1][g[m]] ELSE g[i]]
  <2>4. h \in [0 .. m + 1 -> T]
    BY <2>3
  <2>5. \A i \in 0 .. m : h[i] = g[i]
    OBVIOUS
  <2>6. h[m + 1] = step[m + 1][g[m]]
    OBVIOUS
  <2> HIDE DEF h
  <2>7. ASSUME NEW i \in 1 .. m + 1
        PROVE  h[i] = step[i][h[i - 1]]
    <3>1. CASE i = m + 1
      BY <2>5, <2>6, <3>1
    <3>2. CASE i \in 1 .. m
      <4>1. i - 1 \in 0 .. m /\ i \in 0 .. m
        BY <3>2
      <4> QED
        BY <2>1, <2>5, <3>2, <4>1
    <3> QED
      BY <3>1, <3>2
  <2> QED
    BY <2>1, <2>4, <2>5, <2>7
<1> HIDE DEF S
<1>3. Nat \subseteq S
  BY <1>1, <1>2, SetInduction
<1> QED
  BY <1>3 DEF S, Traces

-------------------------------------------------------------------------------
(* The event log.                                                          *)

\* Of all events that there were, the latest ones.
IsLatest(log, all, n, S) ==
    /\ log \in Seq(S)
    /\ Len(log) = Least(HISTORY, n)
    /\ \A k \in 1 .. Len(log) : log[Len(log) + 1 - k] = all[n + 1 - k]

\* A push keeps the latest events.
LEMMA PushKeepsLatest ==
    ASSUME NEW S, NEW all, NEW n \in Nat, NEW log, IsLatest(log, all, n, S), all[n + 1] \in S
    PROVE  IsLatest(PushCapped(log, all[n + 1]), all, n + 1, S)
<1> DEFINE L == Len(log)
           x == all[n + 1]
           longer == Append(log, x)
           pushed == PushCapped(log, x)
<1>1. HISTORY \in Nat \ {0}
  BY DashboardAssumption
<1>2. /\ log \in Seq(S) /\ L \in Nat /\ L = Least(HISTORY, n) /\ L <= HISTORY
      /\ \A k \in 1 .. L : log[L + 1 - k] = all[n + 1 - k]
  BY <1>1, LenProperties DEF IsLatest, Least
<1>3. /\ longer \in Seq(S) /\ Len(longer) = L + 1
      /\ \A i \in 1 .. L : longer[i] = log[i]
      /\ longer[L + 1] = x
  BY <1>2, AppendProperties
<1>4. pushed = IF L + 1 > HISTORY THEN Tail(longer) ELSE longer
  BY DEF PushCapped
<1> HIDE DEF L, longer, pushed
<1>5. CASE L + 1 > HISTORY
  <2>1. L = HISTORY /\ Least(HISTORY, n + 1) = L
    BY <1>1, <1>2, <1>5 DEF Least
  <2>2. /\ pushed \in Seq(S) /\ Len(pushed) = L
        /\ \A i \in 1 .. L : pushed[i] = longer[i + 1]
    BY <1>1, <1>2, <1>3, <1>4, <1>5, <2>1, HeadTailProperties, EmptySeq
  <2>3. ASSUME NEW k \in 1 .. L
        PROVE  pushed[L + 1 - k] = all[n + 1 + 1 - k]
    <3>1. pushed[L + 1 - k] = longer[L + 1 - k + 1]
      <4>1. L + 1 - k \in 1 .. L
        BY <1>2
      <4> QED
        BY <2>2, <4>1
    <3>2. CASE k = 1
      <4>1. L + 1 - k + 1 = L + 1 /\ n + 1 + 1 - k = n + 1
        BY <1>2, <3>2
      <4> QED
        BY <1>3, <3>1, <4>1 DEF x
    <3>3. CASE k # 1
      <4>1. /\ L + 1 - k + 1 \in 1 .. L /\ L + 1 - k + 1 = L + 1 - (k - 1)
            /\ k - 1 \in 1 .. L /\ n + 1 - (k - 1) = n + 1 + 1 - k
        BY <1>2, <3>3
      <4> QED
        BY <1>2, <1>3, <3>1, <4>1
    <3> QED
      BY <3>2, <3>3
  <2> QED
    BY <2>1, <2>2, <2>3 DEF pushed, IsLatest
<1>6. CASE ~(L + 1 > HISTORY)
  <2>1. L = n /\ Least(HISTORY, n + 1) = L + 1 /\ pushed = longer
    BY <1>1, <1>2, <1>4, <1>6 DEF Least
  <2>2. ASSUME NEW k \in 1 .. L + 1
        PROVE  longer[L + 1 + 1 - k] = all[n + 1 + 1 - k]
    <3>1. CASE k = 1
      <4>1. L + 1 + 1 - k = L + 1 /\ n + 1 + 1 - k = n + 1
        BY <1>2, <3>1
      <4> QED
        BY <1>3, <4>1 DEF x
    <3>2. CASE k # 1
      <4>1. /\ L + 1 + 1 - k \in 1 .. L /\ L + 1 + 1 - k = L + 1 - (k - 1)
            /\ k - 1 \in 1 .. L /\ n + 1 - (k - 1) = n + 1 + 1 - k
        BY <1>2, <3>2
      <4> QED
        BY <1>2, <1>3, <4>1
    <3> QED
      BY <3>1, <3>2
  <2> QED
    BY <1>3, <2>1, <2>2 DEF pushed, IsLatest
<1> QED
  BY <1>5, <1>6

\* The recursive function of the loop has the values it is defined by.
IsRecording(log, events, new) ==
    /\ log[0] = events
    /\ \A n \in 1 .. Len(new) : log[n] = PushCapped(log[n - 1], new[n])

\* Events that are pushed stay among the events that there may be.
LEMMA PushTyped ==
    ASSUME NEW S, NEW log \in Seq(S), NEW x \in S
    PROVE  PushCapped(log, x) \in Seq(S)
<1> DEFINE longer == Append(log, x)
<1>1. longer \in Seq(S) /\ Len(longer) = Len(log) + 1 /\ Len(log) \in Nat
  BY AppendProperties, LenProperties
<1>2. PushCapped(log, x) = IF Len(log) + 1 > HISTORY THEN Tail(longer) ELSE longer
  BY DEF PushCapped
<1> HIDE DEF longer
<1>3. longer # <<>>
  BY <1>1, EmptySeq
<1>4. Tail(longer) \in Seq(S)
  BY <1>1, <1>3, HeadTailProperties
<1> QED
  BY <1>1, <1>2, <1>4

\* What Record returns is the last value of such a function.
LEMMA RecordIsLoop ==
    ASSUME NEW S, NEW events \in Seq(S), NEW new \in Seq(S)
    PROVE  \E log : IsRecording(log, events, new) /\ Record(events, new) = log[Len(new)]
<1> DEFINE N == Len(new)
           Is(g) == g = [n \in 0 .. N |-> IF n = 0 THEN events
                                          ELSE PushCapped(g[n - 1], new[n])]
           f == CHOOSE g : Is(g)
<1>1. Record(events, new) = f[N]
  BY DEF Record
<1>2. N \in Nat /\ \A i \in 1 .. N : new[i] \in S
  BY ElementOfSeq, LenProperties
<1>3. ASSUME NEW T, T = Seq(S),
             NEW step, step = [n \in 1 .. N |-> [t \in T |-> PushCapped(t, new[n])]]
      PROVE  \E g : Is(g)
  <2>1. step \in [1 .. N -> [T -> T]]
    BY <1>2, <1>3, PushTyped
  <2>2. PICK g : g \in Traces(T, events, N, step)
    <3>1. N \in Nat
      BY <1>2
    <3>2. events \in T
      BY <1>3
    <3>3. Traces(T, events, N, step) # {}
      <4> HIDE DEF N
      <4> QED
        BY <3>1, <3>2, <2>1, Iteration, Zenon
    <3> QED
      BY <3>3
  <2>3. ASSUME NEW n \in 0 .. N
        PROVE  g[n] = IF n = 0 THEN events ELSE PushCapped(g[n - 1], new[n])
    <3>1. CASE n = 0
      BY <2>2, <3>1 DEF Traces
    <3>2. CASE n # 0
      <4>1. n \in 1 .. N /\ n - 1 \in 0 .. N
        BY <1>2, <3>2
      <4>2. g[n] = step[n][g[n - 1]] /\ g[n - 1] \in T
        BY <2>2, <4>1 DEF Traces
      <4> QED
        BY <1>3, <3>2, <4>1, <4>2
    <3> QED
      BY <3>1, <3>2
  <2>4. g \in [0 .. N -> T]
    BY <2>2 DEF Traces
  <2>5. Is(g)
    <3> HIDE DEF N
    <3> QED
      BY <2>3, <2>4
  <2> QED
    BY <2>5
<1>4. Is(f)
  <2>1. \E g : Is(g)
    <3> HIDE DEF Is
    <3> QED
      BY <1>3
  <2> HIDE DEF Is
  <2> QED
    BY <2>1
<1> HIDE DEF f
<1>5. IsRecording(f, events, new)
  <2>1. f[0] = events
    BY <1>2, <1>4
  <2>2. ASSUME NEW n \in 1 .. N
        PROVE  f[n] = PushCapped(f[n - 1], new[n])
    <3>1. n \in 0 .. N /\ n # 0
      BY <1>2
    <3> QED
      BY <1>4, <3>1
  <2> HIDE DEF Is
  <2> QED
    BY <2>1, <2>2 DEF IsRecording
<1> QED
  BY <1>1, <1>5

\* After the loop the log has the latest of the events it had and the new ones.
LEMMA RecordKeepsLatest ==
    ASSUME NEW S, NEW events \in Seq(S), NEW new \in Seq(S), Len(events) <= HISTORY
    PROVE  IsLatest(Record(events, new), events \o new, Len(events) + Len(new), S)
<1> DEFINE E == Len(events)
           N == Len(new)
           all == events \o new
<1>1. E \in Nat /\ N \in Nat /\ HISTORY \in Nat \ {0}
  BY LenProperties, DashboardAssumption
<1>2. /\ all \in Seq(S) /\ Len(all) = E + N
      /\ \A i \in 1 .. E : all[i] = events[i]
      /\ \A n \in 1 .. N : all[E + n] = new[n]
  <2>1. /\ all \in Seq(S) /\ Len(all) = E + N
        /\ \A i \in 1 .. E + N : all[i] = IF i <= E THEN events[i] ELSE new[i - E]
    BY ConcatProperties
  <2>2. \A i \in 1 .. E : i \in 1 .. E + N /\ i <= E
    BY <1>1
  <2>3. \A n \in 1 .. N : E + n \in 1 .. E + N /\ ~(E + n <= E) /\ E + n - E = n
    BY <1>1
  <2> HIDE DEF E, N, all
  <2>4. \A i \in 1 .. E : all[i] = events[i]
    BY <2>1, <2>2
  <2>5. \A n \in 1 .. N : all[E + n] = new[n]
    <3> SUFFICES ASSUME NEW n \in 1 .. N
                 PROVE  all[E + n] = new[n]
      OBVIOUS
    <3>1. all[E + n] = IF E + n <= E THEN events[E + n] ELSE new[E + n - E]
      <4>1. E + n \in 1 .. E + N
        BY <1>1
      <4> QED
        BY <1>1, <2>1, <4>1
    <3> QED
      BY <2>3, <3>1
  <2> QED
    BY <2>1, <2>4, <2>5
<1>3. PICK log : IsRecording(log, events, new) /\ Record(events, new) = log[N]
  BY RecordIsLoop
<1> DEFINE Good(n) == IsLatest(log[n], all, E + n, S)
           Reached == {n \in Nat : n <= N => Good(n)}
<1>4. 0 \in Reached
  <2>1. log[0] = events /\ Least(HISTORY, E + 0) = E /\ E + 0 = E
    BY <1>1, <1>3 DEF IsRecording, Least
  <2>2. ASSUME NEW k \in 1 .. E
        PROVE  events[E + 1 - k] = all[E + 1 - k]
    <3>1. E + 1 - k \in 1 .. E
      BY <1>1
    <3> QED
      BY <1>2, <3>1
  <2>3. IsLatest(events, all, E, S)
    BY <2>1, <2>2 DEF IsLatest
  <2> QED
    BY <2>1, <2>3
<1>5. ASSUME NEW n \in Nat, n \in Reached
      PROVE  n + 1 \in Reached
  <2> SUFFICES ASSUME n + 1 <= N
               PROVE  Good(n + 1)
    <3> HIDE DEF Good
    <3> QED
      OBVIOUS
  <2>1. n + 1 \in 1 .. N /\ n <= N /\ (n + 1) - 1 = n
    BY <1>1
  <2>2. Good(n)
    <3> HIDE DEF Good
    <3> QED
      BY <1>5, <2>1
  <2>3. log[n + 1] = PushCapped(log[n], new[n + 1])
    BY <1>3, <2>1 DEF IsRecording
  <2>4. /\ E + n \in Nat /\ E + n + 1 = E + (n + 1)
        /\ all[E + n + 1] = new[n + 1] /\ all[E + n + 1] \in S
    <3>1. E + n \in Nat /\ E + n + 1 = E + (n + 1)
      BY <1>1
    <3>2. all[E + (n + 1)] = new[n + 1]
      BY <1>2, <2>1
    <3>3. new[n + 1] \in S
      BY <2>1, ElementOfSeq
    <3> QED
      BY <3>1, <3>2, <3>3
  <2> HIDE DEF E, N, all
  <2>5. IsLatest(PushCapped(log[n], all[E + n + 1]), all, E + n + 1, S)
    BY <2>2, <2>4, PushKeepsLatest
  <2> QED
    BY <2>3, <2>4, <2>5
<1> HIDE DEF Reached, Good
<1>6. N \in Reached
  BY <1>1, <1>4, <1>5, SetInduction
<1>7. Good(N)
  BY <1>1, <1>6 DEF Reached
<1> QED
  BY <1>3, <1>7 DEF Good
\* A rule adds one diagnosis or none.
LEMMA RuleAddsOneOrNone ==
    ASSUME NEW condition, NEW required, NEW further
    PROVE  LET added == Rule(condition, required, further)
           IN  added = <<>> \/ \E d : added = <<d>>
BY DEF Rule

\* Such a list is a sequence of anything that has its element.
LEMMA OneOrNone ==
    ASSUME NEW S, NEW list, list = <<>> \/ \E d : list = <<d>>, list[1] \in S
    PROVE  list \in Seq(S)
<1>1. CASE list = <<>>
  BY <1>1, EmptySeq
<1>2. ASSUME NEW d, list = <<d>>
      PROVE  list \in Seq(S)
  <2>1. list[1] = d
    BY <1>2
  <2> QED
    BY <1>2, <2>1
<1> QED
  BY <1>1, <1>2

\* The diagnoses of a snapshot are a sequence.
LEMMA DiagnosesAreSeq ==
    ASSUME NEW s
    PROVE  \E S : analyze(s) \in Seq(S)
<1> DEFINE a == ThermalThrottling(s)
           b == MemoryContention(s)
           c == IoBottleneck(s)
           d == CpuContention(s)
           S == {a[1], b[1], c[1], d[1]}
<1>1. a = <<>> \/ \E x : a = <<x>>
  BY RuleAddsOneOrNone, Zenon DEF ThermalThrottling
<1>2. b = <<>> \/ \E x : b = <<x>>
  BY RuleAddsOneOrNone, Zenon DEF MemoryContention
<1>3. c = <<>> \/ \E x : c = <<x>>
  BY RuleAddsOneOrNone, Zenon DEF IoBottleneck
<1>4. d = <<>> \/ \E x : d = <<x>>
  BY RuleAddsOneOrNone, Zenon DEF CpuContention
<1>5. analyze(s) = ((a \o b) \o c) \o d
  BY DEF analyze
<1> HIDE DEF a, b, c, d
<1>6. a \in Seq(S) /\ b \in Seq(S) /\ c \in Seq(S) /\ d \in Seq(S)
  BY <1>1, <1>2, <1>3, <1>4, OneOrNone
<1> HIDE DEF S
<1>7. ((a \o b) \o c) \o d \in Seq(S)
  BY <1>6, ConcatProperties
<1> QED
  BY <1>5, <1>7

\* A sequence over a set is one over any larger set.
LEMMA SeqOfLarger ==
    ASSUME NEW S, NEW T, NEW s \in Seq(S)
    PROVE  s \in Seq(S \union T) /\ s \in Seq(T \union S)
<1>1. Len(s) \in Nat /\ \A i \in 1 .. Len(s) : s[i] \in S
  BY LenProperties, ElementOfSeq
<1>2. s = [i \in 1 .. Len(s) |-> s[i]]
  BY LenProperties
<1>3. s \in [1 .. Len(s) -> S \union T] /\ s \in [1 .. Len(s) -> T \union S]
  BY <1>1, <1>2
<1> QED
  BY <1>1, <1>3, FunctionIsSeq

\* The log is a sequence, no longer than its cap.
LogBounded == /\ \E S : diagnostic_history_ \in Seq(S)
              /\ Len(diagnostic_history_) <= HISTORY

\* A frame adds its diagnoses to a log that keeps the latest events.
LEMMA RenderRecords ==
    ASSUME LogBounded, Render
    PROVE  LET all == diagnostic_history_ \o diagnoses'
           IN  \E S : /\ all \in Seq(S)
                      /\ IsLatest(diagnostic_history_', all, Len(all), S)
<1>1. PICK S : diagnostic_history_ \in Seq(S)
  BY DEF LogBounded
<1>2. PICK T : diagnoses' \in Seq(T)
  BY DiagnosesAreSeq DEF Render
<1> DEFINE old == diagnostic_history_
           new == diagnoses'
           U == S \union T
<1>3. old \in Seq(U) /\ new \in Seq(U)
  BY <1>1, <1>2, SeqOfLarger
<1>4. Len(old) <= HISTORY /\ diagnostic_history_' = Record(old, new)
  BY DEF LogBounded, Render
<1> HIDE DEF old, new, U
<1>5. IsLatest(Record(old, new), old \o new, Len(old) + Len(new), U)
  BY <1>3, <1>4, RecordKeepsLatest
<1>6. old \o new \in Seq(U) /\ Len(old \o new) = Len(old) + Len(new)
  BY <1>3, ConcatProperties
<1> QED
  BY <1>4, <1>5, <1>6 DEF old, new

\* The screen shows the latest events, newest first.
LEMMA ReversedIsNewestFirst ==
    ASSUME NEW S, NEW all \in Seq(S), NEW log, IsLatest(log, all, Len(all), S)
    PROVE  /\ Reverse(log) = SubSeq(Reverse(all), 1, Least(HISTORY, Len(all)))
           /\ log = <<>> => all = <<>>
<1> DEFINE N == Len(all)
           L == Len(log)
           r == Reverse(all)
           shown == Reverse(log)
           cut == SubSeq(r, 1, L)
<1>1. N \in Nat /\ HISTORY \in Nat \ {0}
  BY LenProperties, DashboardAssumption
<1>2. /\ log \in Seq(S) /\ L \in Nat /\ L = Least(HISTORY, N) /\ L <= N
      /\ \A k \in 1 .. L : log[L + 1 - k] = all[N + 1 - k]
  BY <1>1, LenProperties DEF IsLatest, Least
<1>3. \A i \in 1 .. N : N - i + 1 \in 1 .. N /\ N - i + 1 = N + 1 - i
  BY <1>1
<1>4. \A i \in 1 .. L : L - i + 1 \in 1 .. L /\ L - i + 1 = L + 1 - i /\ i \in 1 .. N
  BY <1>1, <1>2
<1>5. /\ r \in Seq(S) /\ Len(r) = N
      /\ \A i \in 1 .. N : r[i] = all[N + 1 - i]
  <2>1. r = [i \in 1 .. N |-> all[N - i + 1]]
    BY DEF Reverse
  <2>2. \A i \in 1 .. N : all[N - i + 1] \in S
    BY <1>3, ElementOfSeq
  <2> HIDE DEF r, N
  <2>3. r \in [1 .. N -> S]
    BY <2>1, <2>2
  <2>4. \A i \in 1 .. N : r[i] = all[N + 1 - i]
    BY <1>3, <2>1
  <2> QED
    BY <1>1, <2>3, <2>4, FunctionIsSeq
<1>6. /\ shown \in Seq(S) /\ Len(shown) = L
      /\ \A i \in 1 .. L : shown[i] = log[L + 1 - i]
  <2>1. shown = [i \in 1 .. L |-> log[L - i + 1]]
    BY DEF Reverse
  <2>2. \A i \in 1 .. L : log[L - i + 1] \in S
    BY <1>2, <1>4, ElementOfSeq
  <2> HIDE DEF shown, L
  <2>3. shown \in [1 .. L -> S]
    BY <2>1, <2>2
  <2>4. \A i \in 1 .. L : shown[i] = log[L + 1 - i]
    BY <1>4, <2>1
  <2> QED
    BY <1>2, <2>3, <2>4, FunctionIsSeq
<1> HIDE DEF r, shown
<1>7. /\ cut \in Seq(S) /\ Len(cut) = L
      /\ \A i \in 1 .. L : cut[i] = r[i]
  <2>1. /\ 1 \in 1 .. Len(r) + 1 /\ L \in 1 - 1 .. Len(r) /\ L - 1 + 1 = L
        /\ \A i \in 1 .. L : 1 + i - 1 = i
    BY <1>1, <1>2, <1>5
  <2> HIDE DEF L
  <2>2. /\ cut \in Seq(S) /\ Len(cut) = L - 1 + 1
        /\ \A i \in 1 .. L - 1 + 1 : cut[i] = r[1 + i - 1]
    BY <1>5, <2>1, SubSeqProperties
  <2> QED
    BY <2>1, <2>2
<1> HIDE DEF cut, L, N
<1>8. shown = cut
  <2>1. ASSUME NEW i \in 1 .. L
        PROVE  shown[i] = cut[i]
    <3>1. shown[i] = log[L + 1 - i] /\ log[L + 1 - i] = all[N + 1 - i]
      BY <1>2, <1>6
    <3>2. cut[i] = r[i] /\ r[i] = all[N + 1 - i]
      BY <1>4, <1>5, <1>7
    <3> QED
      BY <3>1, <3>2
  <2> QED
    BY <1>6, <1>7, <2>1, SeqEqual
<1>9. log = <<>> => all = <<>>
  <2> SUFFICES ASSUME log = <<>>
               PROVE  all = <<>>
    OBVIOUS
  <2>1. L = 0
    BY EmptySeq DEF L
  <2>2. N = 0
    BY <1>1, <1>2, <2>1 DEF Least
  <2> QED
    BY <2>2, EmptySeq DEF N
<1> QED
  BY <1>2, <1>8, <1>9 DEF shown, cut, r, N

\* Only drawing changes the log.
LEMMA OnlyRenderRecords ==
    ASSUME [Next]_vars
    PROVE  Render \/ UNCHANGED diagnostic_history_
BY DEF Next, vars, history, EndSlice, Type, Loop, Start, ReadKey, Quit, Baseline, Collect,
       Ended

\* Whatever the cap and however many diagnoses a frame has: the log shows the
\* latest events, newest first, and an event goes only when it is the oldest of
\* more than the cap (dashboard.cpp:313).
THEOREM LogCorrect == Spec => LogKeepsLatest
<1>1. Init => LogBounded
  <2> SUFFICES ASSUME Init
               PROVE  LogBounded
    OBVIOUS
  <2>1. diagnostic_history_ = <<>> /\ <<>> \in Seq({}) /\ Len(<<>>) = 0
    BY EmptySeq DEF Init
  <2>2. HISTORY \in Nat
    BY DashboardAssumption
  <2> QED
    BY <2>1, <2>2 DEF LogBounded
<1>2. LogBounded /\ [Next]_vars => LogBounded'
  <2> SUFFICES ASSUME LogBounded, [Next]_vars
               PROVE  LogBounded'
    OBVIOUS
  <2>1. CASE Render
    <3>1. PICK S : /\ diagnostic_history_ \o diagnoses' \in Seq(S)
                   /\ IsLatest(diagnostic_history_', diagnostic_history_ \o diagnoses',
                               Len(diagnostic_history_ \o diagnoses'), S)
      BY <2>1, RenderRecords
    <3>2. Len(diagnostic_history_ \o diagnoses') \in Nat /\ HISTORY \in Nat
      BY <3>1, LenProperties, DashboardAssumption
    <3> QED
      BY <3>1, <3>2 DEF LogBounded, IsLatest, Least
  <2>2. CASE UNCHANGED diagnostic_history_
    BY <2>2 DEF LogBounded
  <2> QED
    BY <2>1, <2>2, OnlyRenderRecords
<1>3. LogBounded /\ [Next]_vars =>
         [ \/ UNCHANGED diagnostic_history_
           \/ LET all == diagnostic_history_ \o diagnoses'
              IN  /\ render_diagnostics'.log
                        = SubSeq(Reverse(all), 1, Least(HISTORY, Len(all)))
                  /\ render_diagnostics'.healthy => all = <<>> ]_vars
  <2> SUFFICES ASSUME LogBounded, Render
               PROVE  LET all == diagnostic_history_ \o diagnoses'
                      IN  /\ render_diagnostics'.log
                                = SubSeq(Reverse(all), 1, Least(HISTORY, Len(all)))
                          /\ render_diagnostics'.healthy => all = <<>>
    BY OnlyRenderRecords
  <2> DEFINE all == diagnostic_history_ \o diagnoses'
  <2>1. PICK S : /\ all \in Seq(S)
                 /\ IsLatest(diagnostic_history_', all, Len(all), S)
    BY RenderRecords
  <2> HIDE DEF all
  <2>2. /\ Reverse(diagnostic_history_') = SubSeq(Reverse(all), 1, Least(HISTORY, Len(all)))
        /\ diagnostic_history_' = <<>> => all = <<>>
    BY <2>1, ReversedIsNewestFirst
  <2>3. /\ render_diagnostics'.log = Reverse(diagnostic_history_')
        /\ render_diagnostics'.healthy <=> diagnostic_history_' = <<>>
    BY DEF render_diagnostics
  <2> QED
    BY <2>2, <2>3 DEF all
<1> QED
  BY <1>1, <1>2, <1>3, PTL DEF Spec, LogKeepsLatest

-------------------------------------------------------------------------------
(* What the collectors and the engine make of a machine.                   *)

\* MemoryCollector reports what is used, with MemAvailable and without it.
LEMMA MemoryIsUsed ==
    ASSUME NEW m \in Machine
    PROVE  /\ MemoryOf(Value(Meminfo(m))).used_bytes = m.used
           /\ MemoryOf(Value(Meminfo(m))).utilization_percent = m.used
<1> DEFINE cached == (100 - m.used) \div 2
           all == {"MemTotal", "MemFree", "Buffers", "Cached", "MemAvailable"}
           fields == [MemTotal |-> 100, MemFree |-> 100 - m.used - cached, Buffers |-> 0,
                      Cached |-> cached, MemAvailable |-> 100 - m.used]
           shown == {f \in DOMAIN fields : m.old => f # "MemAvailable"}
           file == Value(Meminfo(m))
<1>1. m.used \in 0 .. 99 /\ m.old \in BOOLEAN
  BY DEF Machine
<1>2. cached \in Int
  BY <1>1
<1>3. file = [f \in shown |-> fields[f]]
  BY DEF Meminfo, Value, Restrict
<1>4. DOMAIN fields = all
  OBVIOUS
<1>5. /\ fields["MemTotal"] = 100 /\ fields["MemFree"] = 100 - m.used - cached
      /\ fields["Buffers"] = 0 /\ fields["Cached"] = cached
      /\ fields["MemAvailable"] = 100 - m.used
  OBVIOUS
<1> HIDE DEF file, fields, cached
<1>6. /\ \A f \in all \ {"MemAvailable"} : Field(file, f) = fields[f]
      /\ Field(file, "MemAvailable") = IF m.old THEN 0 ELSE fields["MemAvailable"]
  BY <1>1, <1>3, <1>4 DEF Field
<1>7. /\ Field(file, "MemTotal") = 100
      /\ Field(file, "MemFree") = 100 - m.used - cached
      /\ Field(file, "Buffers") = 0
      /\ Field(file, "Cached") = cached
      /\ Field(file, "MemAvailable") = IF m.old THEN 0 ELSE 100 - m.used
  BY <1>5, <1>6
<1>8. Available(file) = 100 - m.used
  BY <1>1, <1>2, <1>7 DEF Available
<1>9. Excess(100, 100 - m.used) = m.used
  BY <1>1 DEF Excess
<1>10. (100 * m.used) \div 100 = m.used /\ Least(100, m.used) = m.used
  BY <1>1 DEF Least
<1>11. /\ MemoryOf(file).used_bytes = Excess(Field(file, "MemTotal"), Available(file))
       /\ MemoryOf(file).utilization_percent
             = IF Field(file, "MemTotal") > 0
               THEN Least(100, (100 * Excess(Field(file, "MemTotal"), Available(file)))
                                  \div Field(file, "MemTotal"))
               ELSE 0
  BY DEF MemoryOf
<1> QED
  BY <1>7, <1>8, <1>9, <1>10, <1>11 DEF file

\* ThermalCollector reports the two zones that can be read.
LEMMA ZonesAreRead ==
    ASSUME NEW m \in Machine
    PROVE  CollectThermal(<<ThermalEntries(m)>>) = <<<<20, m.heat>>>>
<1> DEFINE e == ThermalEntries(m)
           Is(g) == g = [n \in 0 .. Len(e) |->
                           IF n = 0 THEN <<>>
                           ELSE IF Sensor(e[n]) THEN Append(g[n - 1], Celsius(Value(e[n].temp)))
                           ELSE g[n - 1]]
           f == CHOOSE g : Is(g)
<1>1. Temperatures(e) = f[Len(e)]
  BY DEF Temperatures
<1>2. /\ Len(e) = 4
      /\ ~Sensor(e[1]) /\ ~Sensor(e[2]) /\ Sensor(e[3]) /\ Sensor(e[4])
      /\ Value(e[3].temp) = 20000 /\ Value(e[4].temp) = 1000 * m.heat
  BY DEF ThermalEntries, Sensor, Has, Value
<1>3. Celsius(Value(e[3].temp)) = 20 /\ Celsius(Value(e[4].temp)) = m.heat
  <2>1. m.heat \in Nat \ {1}
    BY DEF Machine
  <2>2. m.heat = 0 \/ 1000 * m.heat > 1000
    BY <2>1
  <2>3. (1000 * m.heat) \div 1000 = m.heat /\ (m.heat = 0 => 1000 * m.heat = 0)
    BY <2>1
  <2> QED
    BY <1>2, <2>2, <2>3 DEF Celsius
<1> HIDE DEF e
<1>4. Append(<<>>, 20) = <<20>> /\ Append(<<20>>, m.heat) = <<20, m.heat>>
  <2>1. m.heat \in Nat /\ 20 \in Nat
    BY DEF Machine
  <2>2. Append(<<>>, 20) = <<20>>
    <3>1. /\ Append(<<>>, 20) \in Seq(Nat) /\ Len(Append(<<>>, 20)) = 1
          /\ Append(<<>>, 20)[1] = 20
      BY AppendProperties, EmptySeq
    <3>2. /\ <<20>> \in Seq(Nat) /\ Len(<<20>>) = 1 /\ <<20>>[1] = 20
      OBVIOUS
    <3> QED
      BY <3>1, <3>2, SeqEqual
  <2>3. Append(<<20>>, m.heat) = <<20, m.heat>>
    <3>1. /\ <<20>> \in Seq(Nat) /\ Len(<<20>>) = 1 /\ <<20>>[1] = 20
      OBVIOUS
    <3>2. /\ Append(<<20>>, m.heat) \in Seq(Nat) /\ Len(Append(<<20>>, m.heat)) = 2
          /\ Append(<<20>>, m.heat)[1] = 20 /\ Append(<<20>>, m.heat)[2] = m.heat
      BY <2>1, <3>1, AppendProperties
    <3>3. /\ <<20, m.heat>> \in Seq(Nat) /\ Len(<<20, m.heat>>) = 2
          /\ <<20, m.heat>>[1] = 20 /\ <<20, m.heat>>[2] = m.heat
      BY <2>1
    <3> DEFINE pushed == Append(<<20>>, m.heat)
               pair == <<20, m.heat>>
    <3> HIDE DEF pushed, pair
    <3>4. \A i \in 1 .. 2 : i = 1 \/ i = 2
      OBVIOUS
    <3>5. \A i \in 1 .. 2 : pushed[i] = pair[i]
      BY <3>2, <3>3, <3>4 DEF pushed, pair
    <3>6. pushed = pair
      BY <3>2, <3>3, <3>5, SeqEqual DEF pushed, pair
    <3> QED
      BY <3>6 DEF pushed, pair
  <2> QED
    BY <2>2, <2>3
<1> DEFINE next(g, n) == IF n = 0 THEN <<>>
                         ELSE IF Sensor(e[n]) THEN Append(g[n - 1], Celsius(Value(e[n].temp)))
                         ELSE g[n - 1]
<1>5. \A g : /\ next(g, 0) = <<>> /\ next(g, 1) = g[0] /\ next(g, 2) = g[1]
             /\ next(g, 3) = Append(g[2], 20) /\ next(g, 4) = Append(g[3], m.heat)
  BY <1>2, <1>3
<1>6. \A g : Is(g) <=> g = [n \in 0 .. 4 |-> next(g, n)]
  BY <1>2
<1> HIDE DEF next, Is
<1>7. \E g : Is(g)
  <2> DEFINE trace == [n \in 0 .. 4 |-> IF n \in 0 .. 2 THEN <<>>
                                        ELSE IF n = 3 THEN <<20>> ELSE <<20, m.heat>>]
  <2>1. /\ trace[0] = <<>> /\ trace[1] = <<>> /\ trace[2] = <<>>
        /\ trace[3] = <<20>> /\ trace[4] = <<20, m.heat>>
    OBVIOUS
  <2>2. trace = [n \in 0 .. 4 |-> trace[n]]
    OBVIOUS
  <2> HIDE DEF trace
  <2>3. /\ trace[0] = next(trace, 0) /\ trace[1] = next(trace, 1) /\ trace[2] = next(trace, 2)
        /\ trace[3] = next(trace, 3) /\ trace[4] = next(trace, 4)
    BY <1>4, <1>5, <2>1
  <2>4. \A n \in 0 .. 4 : n = 0 \/ n = 1 \/ n = 2 \/ n = 3 \/ n = 4
    OBVIOUS
  <2>5. \A n \in 0 .. 4 : trace[n] = next(trace, n)
    BY <2>3, <2>4
  <2>6. Is(trace)
    BY <1>6, <2>2, <2>5
  <2> QED
    BY <2>6
<1>8. Is(f)
  BY <1>7
<1> HIDE DEF f
<1>9. f[0] = next(f, 0) /\ f[1] = next(f, 1) /\ f[2] = next(f, 2) /\ f[3] = next(f, 3)
      /\ f[4] = next(f, 4)
  <2>1. f = [n \in 0 .. 4 |-> next(f, n)]
    BY <1>6, <1>8
  <2>2. 0 \in 0 .. 4 /\ 1 \in 0 .. 4 /\ 2 \in 0 .. 4 /\ 3 \in 0 .. 4 /\ 4 \in 0 .. 4
    OBVIOUS
  <2> QED
    BY <2>1, <2>2
<1>10. f[4] = <<20, m.heat>>
  BY <1>4, <1>5, <1>9
<1> QED
  BY <1>1, <1>2, <1>10 DEF CollectThermal, Has, Value, e

\* The highest of three temperatures.
LEMMA HighestAbove ==
    ASSUME NEW heat \in Nat, NEW limit \in Nat, limit > 20
    PROVE  Highest({0} \union {20, heat}) > limit <=> heat > limit
<1> DEFINE S == {0} \union {20, heat}
<1>1. \E x \in S : \A y \in S : y <= x
  <2>1. CASE heat <= 20
    BY <2>1
  <2>2. CASE heat > 20
    BY <2>2
  <2> QED
    BY <2>1, <2>2
<1>2. Highest(S) \in S /\ \A y \in S : y <= Highest(S)
  <2> HIDE DEF S
  <2> QED
    BY <1>1 DEF Highest
<1> QED
  BY <1>2

\* A signal is raised above its threshold only.
LEMMA SignalAboveThreshold ==
    ASSUME NEW metric, NEW observed, NEW threshold, NEW contribution
    PROVE  Signal(metric, observed, threshold, contribution) # <<>> <=> observed > threshold
BY DEF Signal

\* A diagnosis is of the condition of its rule.
LEMMA DiagnosisNamesCondition ==
    ASSUME NEW condition, NEW evidence
    PROVE  Diagnosis(condition, evidence).condition = condition
BY DEF Diagnosis

\* The condition of a rule is reported when all of its required signals are raised.
LEMMA RuleConditions ==
    ASSUME NEW condition, NEW required, NEW further
    PROVE  Conditions(Rule(condition, required, further))
              = IF \A i \in 1 .. Len(required) : required[i] # <<>> THEN {condition} ELSE {}
<1> DEFINE fires == \A i \in 1 .. Len(required) : required[i] # <<>>
           d == Diagnosis(condition, FlattenSeq(required) \o further)
<1>1. Rule(condition, required, further) = IF fires THEN <<d>> ELSE <<>>
  BY DEF Rule
<1>2. d.condition = condition
  BY DiagnosisNamesCondition
<1> HIDE DEF fires, d
<1>3. Conditions(<<d>>) = {condition}
  <2>1. Len(<<d>>) = 1 /\ <<d>>[1] = d /\ 1 .. 1 = {1}
    OBVIOUS
  <2> QED
    BY <1>2, <2>1 DEF Conditions
<1>4. Conditions(<<>>) = {}
  <2>1. 1 .. Len(<<>>) = {}
    BY EmptySeq
  <2> QED
    BY <2>1 DEF Conditions
<1> QED
  BY <1>1, <1>3, <1>4 DEF fires

\* A rule that requires one signal, or two.
LEMMA ShortRules ==
    ASSUME NEW condition, NEW x, NEW y, NEW further
    PROVE  /\ Conditions(Rule(condition, <<x>>, further))
                 = IF x # <<>> THEN {condition} ELSE {}
           /\ Conditions(Rule(condition, <<x, y>>, further))
                 = IF x # <<>> /\ y # <<>> THEN {condition} ELSE {}
<1>1. Len(<<x>>) = 1 /\ <<x>>[1] = x /\ Len(<<x, y>>) = 2 /\ <<x, y>>[1] = x
      /\ <<x, y>>[2] = y /\ 1 .. 1 = {1} /\ 1 .. 2 = {1, 2}
  OBVIOUS
<1>2. (\A i \in 1 .. Len(<<x>>) : <<x>>[i] # <<>>) <=> x # <<>>
  BY <1>1
<1>3. (\A i \in 1 .. Len(<<x, y>>) : <<x, y>>[i] # <<>>) <=> x # <<>> /\ y # <<>>
  BY <1>1
<1>4. Conditions(Rule(condition, <<x>>, further))
         = IF \A i \in 1 .. Len(<<x>>) : <<x>>[i] # <<>> THEN {condition} ELSE {}
  BY RuleConditions, Zenon
<1>5. Conditions(Rule(condition, <<x, y>>, further))
         = IF \A i \in 1 .. Len(<<x, y>>) : <<x, y>>[i] # <<>> THEN {condition} ELSE {}
  BY RuleConditions, Zenon
<1>6. Conditions(Rule(condition, <<x>>, further)) = IF x # <<>> THEN {condition} ELSE {}
  BY <1>2, <1>4, Zenon
<1>7. Conditions(Rule(condition, <<x, y>>, further))
         = IF x # <<>> /\ y # <<>> THEN {condition} ELSE {}
  BY <1>3, <1>5, Zenon
<1> QED
  BY <1>6, <1>7

\* Two lists together have the conditions of both.
LEMMA ConditionsJoined ==
    ASSUME NEW S, NEW a \in Seq(S), NEW b \in Seq(S)
    PROVE  Conditions(a \o b) = Conditions(a) \union Conditions(b)
<1> DEFINE A == Len(a)
           B == Len(b)
           c == a \o b
<1>1. A \in Nat /\ B \in Nat
  BY LenProperties
<1>2. /\ Len(c) = A + B
      /\ \A i \in 1 .. A + B : c[i] = IF i <= A THEN a[i] ELSE b[i - A]
  BY ConcatProperties
<1> HIDE DEF A, B, c
<1>3. ASSUME NEW x \in Conditions(c)
      PROVE  x \in Conditions(a) \union Conditions(b)
  <2>1. PICK i \in 1 .. A + B : x = c[i].condition
    BY <1>2 DEF Conditions
  <2>2. CASE i <= A
    <3>1. i \in 1 .. A /\ c[i] = a[i]
      BY <1>1, <1>2, <2>2
    <3> QED
      BY <2>1, <3>1 DEF Conditions, A
  <2>3. CASE ~(i <= A)
    <3>1. i - A \in 1 .. B /\ c[i] = b[i - A]
      BY <1>1, <1>2, <2>3
    <3> QED
      BY <2>1, <3>1 DEF Conditions, B
  <2> QED
    BY <2>2, <2>3
<1>4. ASSUME NEW x \in Conditions(a)
      PROVE  x \in Conditions(c)
  <2>1. PICK i \in 1 .. A : x = a[i].condition
    BY DEF Conditions, A
  <2>2. i \in 1 .. A + B /\ i <= A
    BY <1>1
  <2>3. c[i] = a[i]
    BY <1>2, <2>2
  <2> QED
    BY <1>2, <2>1, <2>2, <2>3 DEF Conditions
<1>5. ASSUME NEW x \in Conditions(b)
      PROVE  x \in Conditions(c)
  <2>1. PICK i \in 1 .. B : x = b[i].condition
    BY DEF Conditions, B
  <2>2. A + i \in 1 .. A + B /\ ~(A + i <= A) /\ A + i - A = i
    BY <1>1
  <2>3. c[A + i] = b[i]
    BY <1>1, <1>2, <2>2
  <2> QED
    BY <1>2, <2>1, <2>2, <2>3 DEF Conditions
<1> QED
  BY <1>3, <1>4, <1>5 DEF c

\* The conditions of the rules.
Fires(s, condition) ==
    \/ /\ condition = "THERMAL THROTTLING"
       /\ Has(s.gpu) \/ s.cpu.per_core # <<>>
       /\ MaxTemp(s) > 75
    \/ /\ condition = "MEMORY CONTENTION & PRESSURE"
       /\ Pressure(s, "memory_some") > 5 /\ s.memory.utilization_percent > 70
    \/ /\ condition = "I/O BOTTLENECK"
       /\ Pressure(s, "io_some") > 5
    \/ /\ condition = "CPU SCHEDULING CONTENTION"
       /\ Pressure(s, "cpu_some") > 5 /\ s.cpu.total_utilization > 75

\* The engine reports the conditions whose rules fire and no other (correlation.cpp:7),
\* of any snapshot, with or without GPU, zones, cores and pressure.
THEOREM EngineReports ==
    ASSUME NEW s, NEW condition
    PROVE  condition \in Conditions(analyze(s)) <=> Fires(s, condition)
<1> DEFINE a == ThermalThrottling(s)
           b == MemoryContention(s)
           c == IoBottleneck(s)
           d == CpuContention(s)
           S == {a[1], b[1], c[1], d[1]}
<1>2. /\ a = <<>> \/ \E x : a = <<x>>
      /\ Conditions(a) = IF (Has(s.gpu) \/ s.cpu.per_core # <<>>) /\ MaxTemp(s) > 75
                         THEN {"THERMAL THROTTLING"} ELSE {}
  <2> DEFINE further == Signal("CpuUtilization", s.cpu.total_utilization, 80, 25)
                        \o IF Has(s.gpu)
                           THEN Signal("GpuUtilization", Value(s.gpu).utilization_percent,
                                       85, 25)
                           ELSE <<>>
             heat == Signal("Temperature", MaxTemp(s), 75, 40)
             rule == Rule("THERMAL THROTTLING", <<heat>>, further)
  <2>1. a = IF Has(s.gpu) \/ s.cpu.per_core # <<>> THEN rule ELSE <<>>
    BY DEF ThermalThrottling
  <2>2. heat # <<>> <=> MaxTemp(s) > 75
    BY SignalAboveThreshold
  <2> HIDE DEF a, heat, further
  <2>3. Conditions(rule) = IF heat # <<>> THEN {"THERMAL THROTTLING"} ELSE {}
    BY ShortRules
  <2>4. rule = <<>> \/ \E x : rule = <<x>>
    BY RuleAddsOneOrNone, Zenon
  <2>5. Conditions(<<>>) = {}
    BY EmptySeq DEF Conditions
  <2> HIDE DEF rule
  <2> QED
    BY <2>1, <2>2, <2>3, <2>4, <2>5
<1>3. /\ b = <<>> \/ \E x : b = <<x>>
      /\ Conditions(b) = IF /\ Pressure(s, "memory_some") > 5
                            /\ s.memory.utilization_percent > 70
                         THEN {"MEMORY CONTENTION & PRESSURE"} ELSE {}
  <2> DEFINE x == Signal("PsiMemorySome", Pressure(s, "memory_some"), 5, 50)
             y == Signal("MemoryUtilization", s.memory.utilization_percent, 70, 35)
  <2>1. b = Rule("MEMORY CONTENTION & PRESSURE", <<x, y>>, <<>>)
    BY DEF MemoryContention
  <2>2. /\ x # <<>> <=> Pressure(s, "memory_some") > 5
        /\ y # <<>> <=> s.memory.utilization_percent > 70
    BY SignalAboveThreshold
  <2> HIDE DEF b, x, y
  <2>3. b = <<>> \/ \E e : b = <<e>>
    BY <2>1, RuleAddsOneOrNone, Zenon
  <2>4. Conditions(b) = IF x # <<>> /\ y # <<>> THEN {"MEMORY CONTENTION & PRESSURE"} ELSE {}
    BY <2>1, ShortRules, Zenon
  <2> QED
    BY <2>2, <2>3, <2>4
<1>4. /\ c = <<>> \/ \E x : c = <<x>>
      /\ Conditions(c) = IF Pressure(s, "io_some") > 5 THEN {"I/O BOTTLENECK"} ELSE {}
  <2> DEFINE x == Signal("PsiIoSome", Pressure(s, "io_some"), 5, 55)
             further == Signal("CpuUtilization", s.cpu.iowait_percent, 10, 35)
  <2>1. c = Rule("I/O BOTTLENECK", <<x>>, further)
    BY DEF IoBottleneck
  <2>2. x # <<>> <=> Pressure(s, "io_some") > 5
    BY SignalAboveThreshold
  <2> HIDE DEF c, x, further
  <2>3. c = <<>> \/ \E e : c = <<e>>
    BY <2>1, RuleAddsOneOrNone, Zenon
  <2> QED
    BY <2>1, <2>2, <2>3, ShortRules
<1>5. /\ d = <<>> \/ \E x : d = <<x>>
      /\ Conditions(d) = IF Pressure(s, "cpu_some") > 5 /\ s.cpu.total_utilization > 75
                         THEN {"CPU SCHEDULING CONTENTION"} ELSE {}
  <2> DEFINE x == Signal("PsiCpuSome", Pressure(s, "cpu_some"), 5, 50)
             y == Signal("CpuUtilization", s.cpu.total_utilization, 75, 40)
  <2>1. d = Rule("CPU SCHEDULING CONTENTION", <<x, y>>, <<>>)
    BY DEF CpuContention
  <2>2. /\ x # <<>> <=> Pressure(s, "cpu_some") > 5
        /\ y # <<>> <=> s.cpu.total_utilization > 75
    BY SignalAboveThreshold
  <2> HIDE DEF d, x, y
  <2>3. d = <<>> \/ \E e : d = <<e>>
    BY <2>1, RuleAddsOneOrNone, Zenon
  <2>4. Conditions(d) = IF x # <<>> /\ y # <<>> THEN {"CPU SCHEDULING CONTENTION"} ELSE {}
    BY <2>1, ShortRules, Zenon
  <2> QED
    BY <2>2, <2>3, <2>4
<1>6. analyze(s) = ((a \o b) \o c) \o d
  BY DEF analyze
<1> HIDE DEF a, b, c, d
<1>7. a \in Seq(S) /\ b \in Seq(S) /\ c \in Seq(S) /\ d \in Seq(S)
  BY <1>2, <1>3, <1>4, <1>5, OneOrNone
<1> HIDE DEF S
<1>8. Conditions(analyze(s))
         = Conditions(a) \union Conditions(b) \union Conditions(c) \union Conditions(d)
  <2>1. a \o b \in Seq(S) /\ (a \o b) \o c \in Seq(S)
    BY <1>7, ConcatProperties
  <2>2. Conditions(a \o b) = Conditions(a) \union Conditions(b)
    BY <1>7, ConditionsJoined
  <2>3. Conditions((a \o b) \o c) = Conditions(a \o b) \union Conditions(c)
    BY <1>7, <2>1, ConditionsJoined
  <2>4. Conditions(((a \o b) \o c) \o d) = Conditions((a \o b) \o c) \union Conditions(d)
    BY <1>7, <2>1, ConditionsJoined
  <2> QED
    BY <1>6, <2>2, <2>3, <2>4
<1> QED
  BY <1>2, <1>3, <1>4, <1>5, <1>8 DEF Fires

-------------------------------------------------------------------------------
(* Means.                                                                  *)

\* A sum that never grows more than another stays below it.
LEMMA SumsCompared ==
    ASSUME NEW n \in Nat, NEW f \in [0 .. n -> Int], NEW g \in [0 .. n -> Int],
           f[0] <= g[0], \A i \in 1 .. n : f[i] - f[i - 1] <= g[i] - g[i - 1]
    PROVE  f[n] <= g[n]
<1> DEFINE S == {m \in Nat : m <= n => f[m] <= g[m]}
<1>1. 0 \in S
  OBVIOUS
<1>2. ASSUME NEW m \in Nat, m \in S
      PROVE  m + 1 \in S
  <2> SUFFICES ASSUME m + 1 <= n
               PROVE  f[m + 1] <= g[m + 1]
    OBVIOUS
  <2>1. f[m] <= g[m]
    BY <1>2
  <2>2. m + 1 \in 1 .. n /\ (m + 1) - 1 = m /\ m \in 0 .. n /\ m + 1 \in 0 .. n
    OBVIOUS
  <2>3. f[m + 1] - f[m] <= g[m + 1] - g[m]
    BY <2>2
  <2>4. f[m] \in Int /\ g[m] \in Int /\ f[m + 1] \in Int /\ g[m + 1] \in Int
    BY <2>2
  <2> QED
    BY <2>1, <2>3, <2>4
<1> HIDE DEF S
<1>3. Nat \subseteq S
  BY <1>1, <1>2, SetInduction
<1> QED
  BY <1>3 DEF S

\* The sums of the first values, one value after the other.
Sums(values) ==
    {f \in [0 .. Len(values) -> Nat] :
        f[0] = 0 /\ \A i \in 1 .. Len(values) : f[i] = f[i - 1] + values[i]}

\* A mean is such a sum divided by the number of the values.
LEMMA MeanIsQuotient ==
    ASSUME NEW values \in Seq(Nat)
    PROVE  \E f \in Sums(values) : Mean(values) = f[Len(values)] \div Len(values)
<1> DEFINE N == Len(values)
           Is(g) == g = [n \in 0 .. N |-> IF n = 0 THEN 0 ELSE g[n - 1] + values[n]]
           f == CHOOSE g : Is(g)
           step == [i \in 1 .. N |-> [x \in Nat |-> x + values[i]]]
<1>1. Mean(values) = f[N] \div N
  BY DEF Mean
<1>2. N \in Nat /\ \A i \in 1 .. N : values[i] \in Nat
  BY ElementOfSeq, LenProperties
<1>3. step \in [1 .. N -> [Nat -> Nat]]
  BY <1>2
<1>4. Traces(Nat, 0, N, step) # {}
  <2> HIDE DEF N, step
  <2> QED
    BY <1>2, <1>3, Iteration, Zenon
<1>5. PICK h : h \in Traces(Nat, 0, N, step)
  BY <1>4
<1>6. h \in Sums(values)
  <2>1. h \in [0 .. N -> Nat] /\ h[0] = 0
    BY <1>5 DEF Traces
  <2>2. ASSUME NEW i \in 1 .. N
        PROVE  h[i] = h[i - 1] + values[i]
    <3>1. h[i] = step[i][h[i - 1]]
      BY <1>5 DEF Traces
    <3>2. i - 1 \in 0 .. N
      BY <1>2
    <3>3. h[i - 1] \in Nat
      BY <2>1, <3>2
    <3> QED
      BY <3>1, <3>3
  <2> QED
    BY <2>1, <2>2 DEF Sums
<1>7. Is(h)
  <2>1. \A n \in 0 .. N : h[n] = IF n = 0 THEN 0 ELSE h[n - 1] + values[n]
    BY <1>2, <1>6 DEF Sums
  <2>2. h \in [0 .. N -> Nat]
    BY <1>6 DEF Sums
  <2> HIDE DEF N
  <2> QED
    BY <2>1, <2>2
<1>8. Is(f)
  <2> HIDE DEF Is
  <2> QED
    BY <1>7
<1> HIDE DEF f, step
<1>9. f \in Sums(values)
  <2> DEFINE T == {i \in Nat : i <= N => f[i] = h[i]}
  <2>1. 0 \in T
    BY <1>2, <1>6, <1>8 DEF Sums
  <2>2. ASSUME NEW i \in Nat, i \in T
        PROVE  i + 1 \in T
    <3> SUFFICES ASSUME i + 1 <= N
                 PROVE  f[i + 1] = h[i + 1]
      OBVIOUS
    <3>1. f[i] = h[i] /\ i + 1 \in 1 .. N /\ (i + 1) - 1 = i
      BY <1>2, <2>2
    <3>2. f[i + 1] = f[i] + values[i + 1]
      BY <1>8, <3>1
    <3>3. h[i + 1] = h[i] + values[i + 1]
      BY <1>6, <3>1 DEF Sums
    <3> QED
      BY <3>1, <3>2, <3>3
  <2> HIDE DEF T
  <2>3. Nat \subseteq T
    BY <2>1, <2>2, SetInduction
  <2>4. \A i \in 0 .. N : f[i] = h[i]
    BY <1>2, <2>3 DEF T
  <2>5. f = [i \in 0 .. N |-> f[i]] /\ h = [i \in 0 .. N |-> h[i]]
    BY <1>6, <1>8 DEF Sums
  <2>6. f = h
    BY <2>4, <2>5
  <2> QED
    BY <1>6, <2>6
<1> QED
  BY <1>1, <1>9

\* Such a sum grows by one value after the other.
LEMMA SumsGrow ==
    ASSUME NEW values \in Seq(Nat), NEW f \in Sums(values), NEW n, n = Len(values)
    PROVE  /\ n \in Nat /\ f \in [0 .. n -> Int] /\ f[0] = 0 /\ f[n] \in Nat
           /\ \A i \in 1 .. n : /\ values[i] \in Nat /\ f[i] \in Nat /\ f[i - 1] \in Nat
                               /\ f[i] - f[i - 1] = values[i]
<1>1. n \in Nat /\ \A i \in 1 .. n : values[i] \in Nat
  BY ElementOfSeq, LenProperties
<1>2. /\ f \in [0 .. n -> Nat] /\ f[0] = 0
      /\ \A i \in 1 .. n : f[i] = f[i - 1] + values[i]
  BY DEF Sums
<1>3. \A i \in 1 .. n : i \in 0 .. n /\ i - 1 \in 0 .. n
  BY <1>1
<1>4. \A i \in 1 .. n : f[i] \in Nat /\ f[i - 1] \in Nat
  BY <1>2, <1>3
<1>5. ASSUME NEW i \in 1 .. n
      PROVE  f[i] - f[i - 1] = values[i]
  BY <1>1, <1>2, <1>4
<1>6. f \in [0 .. n -> Int] /\ f[n] \in Nat
  BY <1>1, <1>2
<1> QED
  BY <1>1, <1>2, <1>4, <1>5, <1>6

\* Division with a remainder.
LEMMA Quotient ==
    ASSUME NEW a \in Nat, NEW n \in Nat \ {0}
    PROVE  /\ a \div n \in Nat
           /\ n * (a \div n) <= a /\ a < n * (a \div n) + n
OBVIOUS

\* The multiples of a number grow by it.
LEMMA Multiples ==
    ASSUME NEW n \in Nat, NEW b \in Int
    PROVE  /\ [i \in 0 .. n |-> i * b] \in [0 .. n -> Int]
           /\ \A i \in 1 .. n : i * b - (i - 1) * b = b
<1>1. \A i \in Int : i * b \in Int /\ i * b - (i - 1) * b = b
  OBVIOUS
<1> QED
  BY <1>1

\* A mean is not above all values nor below all of them.
LEMMA MeanInBounds ==
    ASSUME NEW values \in Seq(Nat), Len(values) # 0
    PROVE  /\ Mean(values) \in Nat
           /\ \E i \in 1 .. Len(values) : values[i] <= Mean(values)
           /\ \E i \in 1 .. Len(values) : Mean(values) <= values[i]
<1> DEFINE n == Len(values)
           q == Mean(values)
<1>1. n \in Nat \ {0} /\ \A i \in 1 .. n : values[i] \in Nat
  BY ElementOfSeq, LenProperties
<1>2. PICK f \in Sums(values) : q = f[n] \div n
  BY MeanIsQuotient
<1>3. /\ f \in [0 .. n -> Int] /\ f[0] = 0
      /\ \A i \in 1 .. n : f[i] - f[i - 1] = values[i]
  BY <1>2, SumsGrow
<1>4. f[n] \in Nat
  BY <1>2, SumsGrow
<1> HIDE DEF n, q
<1>5. q \in Nat /\ n * q <= f[n] /\ f[n] < n * q + n
  BY <1>1, <1>2, <1>4, Quotient
<1>6. ASSUME \A i \in 1 .. n : ~(values[i] <= q)
      PROVE  FALSE
  <2> DEFINE g == [i \in 0 .. n |-> i * (q + 1)]
  <2>1. /\ g \in [0 .. n -> Int] /\ g[0] = 0 /\ g[n] = n * (q + 1)
        /\ \A i \in 1 .. n : g[i] - g[i - 1] = q + 1
    BY <1>1, <1>5, Multiples
  <2> HIDE DEF g
  <2>2. ASSUME NEW i \in 1 .. n
        PROVE  g[i] - g[i - 1] <= f[i] - f[i - 1]
    <3>1. g[i] - g[i - 1] = q + 1 /\ f[i] - f[i - 1] = values[i] /\ values[i] \in Nat
      BY <1>1, <1>3, <2>1
    <3>2. q + 1 <= values[i]
      BY <1>5, <1>6, <3>1
    <3> QED
      BY <3>1, <3>2
  <2>3. g[n] <= f[n]
    <3>1. n \in Nat /\ g[0] <= f[0]
      BY <1>1, <1>3, <2>1
    <3> QED
      BY <1>3, <2>1, <2>2, <3>1, SumsCompared, Zenon
  <2>4. n * (q + 1) = n * q + n
    BY <1>1, <1>5
  <2> QED
    BY <1>1, <1>4, <1>5, <2>1, <2>3, <2>4
<1>7. ASSUME \A i \in 1 .. n : ~(q <= values[i])
      PROVE  FALSE
  <2> DEFINE g == [i \in 0 .. n |-> i * (q - 1)]
  <2>1. /\ g \in [0 .. n -> Int] /\ g[0] = 0 /\ g[n] = n * (q - 1)
        /\ \A i \in 1 .. n : g[i] - g[i - 1] = q - 1
    BY <1>1, <1>5, Multiples
  <2> HIDE DEF g
  <2>2. ASSUME NEW i \in 1 .. n
        PROVE  f[i] - f[i - 1] <= g[i] - g[i - 1]
    <3>1. g[i] - g[i - 1] = q - 1 /\ f[i] - f[i - 1] = values[i] /\ values[i] \in Nat
      BY <1>1, <1>3, <2>1
    <3>2. values[i] <= q - 1
      BY <1>5, <1>7, <3>1
    <3> QED
      BY <3>1, <3>2
  <2>3. f[n] <= g[n]
    <3>1. n \in Nat /\ f[0] <= g[0]
      BY <1>1, <1>3, <2>1
    <3> QED
      BY <1>3, <2>1, <2>2, <3>1, SumsCompared, Zenon
  <2>4. n * (q - 1) = n * q - n
    BY <1>1, <1>5
  <2> QED
    BY <1>1, <1>4, <1>5, <2>1, <2>3, <2>4
<1> QED
  BY <1>5, <1>6, <1>7 DEF n, q

\* Where one sequence is below another throughout, so is its mean.
LEMMA MeansCompared ==
    ASSUME NEW values \in Seq(Nat), NEW others \in Seq(Nat), Len(values) # 0,
           Len(others) = Len(values),
           \A i \in 1 .. Len(values) : values[i] < others[i]
    PROVE  Mean(values) < Mean(others)
<1> DEFINE n == Len(values)
           p == Mean(values)
           q == Mean(others)
<1>1. /\ n \in Nat \ {0} /\ n = Len(others)
      /\ \A i \in 1 .. n : values[i] \in Nat /\ others[i] \in Nat
  BY ElementOfSeq, LenProperties
<1>2. PICK f \in Sums(values) : p = f[n] \div n
  BY MeanIsQuotient
<1>3. PICK g \in Sums(others) : q = g[n] \div n
  BY MeanIsQuotient
<1>4. /\ f \in [0 .. n -> Int] /\ f[0] = 0 /\ f[n] \in Nat
      /\ \A i \in 1 .. n : /\ f[i] \in Nat /\ f[i - 1] \in Nat
                           /\ f[i] - f[i - 1] = values[i]
  BY <1>2, SumsGrow
<1>5. /\ g \in [0 .. n -> Int] /\ g[0] = 0 /\ g[n] \in Nat
      /\ \A i \in 1 .. n : g[i] - g[i - 1] = others[i]
  BY <1>1, <1>3, SumsGrow
<1>0. \A i \in 1 .. n : values[i] + 1 <= others[i]
  BY <1>1
<1> HIDE DEF n, p, q
<1> DEFINE h == [i \in 0 .. n |-> f[i] + i]
<1>6. /\ h \in [0 .. n -> Int] /\ h[0] = 0 /\ h[n] = f[n] + n
      /\ \A i \in 1 .. n : h[i] - h[i - 1] = values[i] + 1
  <2>1. h \in [0 .. n -> Int]
    BY <1>4
  <2>2. h[0] = 0 /\ h[n] = f[n] + n
    BY <1>1, <1>4
  <2>3. ASSUME NEW i \in 1 .. n
        PROVE  h[i] - h[i - 1] = values[i] + 1
    <3>1. i \in 0 .. n /\ i - 1 \in 0 .. n /\ i \in Int
      BY <1>1
    <3>2. h[i] = f[i] + i /\ h[i - 1] = f[i - 1] + (i - 1)
      BY <3>1
    <3> HIDE DEF h
    <3> QED
      BY <1>1, <1>4, <3>1, <3>2
  <2> QED
    BY <2>1, <2>2, <2>3
<1> HIDE DEF h
<1>7. \A i \in 1 .. n : h[i] - h[i - 1] <= g[i] - g[i - 1]
  BY <1>0, <1>5, <1>6
<1>8. h[n] <= g[n]
  <2>1. n \in Nat /\ h[0] <= g[0]
    BY <1>1, <1>5, <1>6
  <2> QED
    BY <1>5, <1>6, <1>7, <2>1, SumsCompared, Zenon
<1>9. f[n] \in Nat /\ g[n] \in Nat
  BY <1>4, <1>5
<1>10. /\ p \in Nat /\ n * p <= f[n]
       /\ q \in Nat /\ g[n] < n * q + n
  BY <1>1, <1>2, <1>3, <1>9, Quotient
<1>11. n * p < n * q
  BY <1>1, <1>6, <1>8, <1>9, <1>10
<1>12. ASSUME q <= p
       PROVE  n * q <= n * p
  <2> DEFINE v == [i \in 0 .. n |-> i * q]
             w == [i \in 0 .. n |-> i * p]
  <2>1. /\ v \in [0 .. n -> Int] /\ v[0] = 0 /\ v[n] = n * q
        /\ \A i \in 1 .. n : v[i] - v[i - 1] = q
    BY <1>1, <1>10, Multiples
  <2>2. /\ w \in [0 .. n -> Int] /\ w[0] = 0 /\ w[n] = n * p
        /\ \A i \in 1 .. n : w[i] - w[i - 1] = p
    BY <1>1, <1>10, Multiples
  <2> HIDE DEF v, w
  <2>3. n \in Nat /\ v[0] <= w[0] /\ \A i \in 1 .. n : v[i] - v[i - 1] <= w[i] - w[i - 1]
    BY <1>1, <1>12, <2>1, <2>2
  <2>4. v[n] <= w[n]
    BY <2>1, <2>2, <2>3, SumsCompared, Zenon
  <2> QED
    BY <2>1, <2>2, <2>4
<1>13. n * p \in Nat /\ n * q \in Nat
  BY <1>1, <1>10
<1>14. ~(n * q <= n * p)
  BY <1>11, <1>13
<1>15. p < q
  BY <1>10, <1>12, <1>14
<1> QED
  BY <1>15 DEF p, q

-------------------------------------------------------------------------------
(* A frame and the machine.                                                *)

AllReadings == {"cpu", "memory", "processes", "psi", "thermal", "disk"}

\* The readings not made when the loop is at p.
Place == [cpu |-> 1, memory |-> 2, processes |-> 3, psi |-> 4, thermal |-> 5, disk |-> 6,
          render |-> 7]
Left(p) == {r \in AllReadings : Place[r] >= Place[p]}

\* Means over slices in each of which the machine was one of a set.
Means(S) == {MeanRates(w) : w \in Seq(S) \ {<<>>}}

\* What a reading of some time may find there.
Found(r, S) == IF r \in Rates THEN Means(S) ELSE S

\* What a successful reading of a machine, or of its mean, leaves in the snapshot.
Shown(r, m) ==
    CASE r = "cpu"       -> Rate("cpu", m)
      [] r = "memory"    -> MemoryOf(Value(Meminfo(m)))
      [] r = "processes" -> Rate("processes", m)
      [] r = "psi"       -> CollectPsi(PressureFiles(m))
      [] r = "thermal"   -> CollectThermal(<<ThermalEntries(m)>>)
      [] r = "disk"      -> <<Rate("disk", m)>>

\* What a failed one, or one without a baseline, leaves.
NoPressure == CollectPsi([f \in {"cpu", "memory", "io"} |-> <<>>])
Blank(r) ==
    CASE r = "cpu"       -> {NoCpu, Rate("cpu", Still)}
      [] r = "memory"    -> {NoMemory}
      [] r = "processes" -> {<<>>, Rate("processes", Still)}
      [] r = "psi"       -> {NoPressure}
      [] r = "thermal"   -> {<<>>}
      [] r = "disk"      -> {<<>>, <<Rate("disk", Still)>>}

\* The snapshot holds something the machine was in the time of the frame; nothing
\* only when a reading failed.
FromFrame(r) == \/ \E m \in Found(r, seen) : snapshot[r] = Shown(r, m)
                \/ failures > 0 /\ snapshot[r] \in Blank(r)

FrameTyped == /\ machine \in Machines /\ seen \subseteq Machines
              /\ failures \in Nat
              /\ window \in [Rates -> Seq(Machines)]
              /\ pc \in AllReadings \union {"start", "key", "done", "baseline", "render"}
              /\ DOMAIN snapshot = DOMAIN NoSnapshot
              /\ snapshot.gpu = <<>>

\* Within a frame the rates are measured over its time; so far no baseline means
\* that a reading has failed.
WindowsInFrame == /\ machine \in seen
                  /\ \A s \in Rates : /\ window[s] \in Seq(seen)
                                      /\ window[s] = <<>> => failures > 0

\* The readings made are of the frame, the others not there.
SnapshotInFrame == \A r \in AllReadings : IF r \in Left(pc) THEN snapshot[r] = NoSnapshot[r]
                                                            ELSE FromFrame(r)

\* A frame on the screen has all of its readings and what the engine makes of them.
FrameComplete == /\ \A r \in AllReadings : FromFrame(r)
                 /\ diagnoses = analyze(snapshot)

\* The inductive invariant.
FrameInv == /\ FrameTyped
            /\ pc \in {"start", "baseline"} => snapshot = NoSnapshot
            /\ pc = "baseline" => machine \in seen
            /\ pc \in AllReadings \union {"render"} => WindowsInFrame /\ SnapshotInFrame
            /\ pc \in {"key", "done"} => snapshot = NoSnapshot \/ FrameComplete

\* After each reading comes the next, and that one is made.
LEMMA ReadingsInOrder ==
    ASSUME NEW p \in AllReadings
    PROVE  /\ p \in ToSet(Readings)
           /\ After(p) \in AllReadings \union {"render"}
           /\ Left(After(p)) = Left(p) \ {p}
           /\ p \in Left(p)
<1> DEFINE T == <<"cpu", "memory", "processes", "psi", "thermal", "disk">>
<1>1. /\ T[1] = "cpu" /\ T[2] = "memory" /\ T[3] = "processes" /\ T[4] = "psi"
      /\ T[5] = "thermal" /\ T[6] = "disk" /\ Len(T) = 6
  OBVIOUS
<1>2. Readings = T
  BY DEF Readings
<1> HIDE DEF T
<1>3. \A i \in 1 .. 6 : i = 1 \/ i = 2 \/ i = 3 \/ i = 4 \/ i = 5 \/ i = 6
  OBVIOUS
<1>4. PICK i \in 1 .. 6 : T[i] = p
  BY <1>1, <1>3 DEF AllReadings
<1>5. \A j \in 1 .. 6 : T[j] = p <=> j = i
  BY <1>1, <1>3, <1>4
<1> DEFINE k == CHOOSE j \in 1 .. 6 : Readings[j] = p
<1>6. k = i
  BY <1>2, <1>5
<1>7. After(p) = IF i = 6 THEN "render" ELSE T[i + 1]
  <2>1. After(p) = IF k = 6 THEN "render" ELSE Readings[k + 1]
    BY DEF After
  <2> HIDE DEF k
  <2> QED
    BY <1>2, <1>6, <2>1
<1>8. \A j \in 1 .. 6 : Place[T[j]] = j
  BY <1>1, <1>3 DEF Place
<1>9. Place["render"] = 7
  BY DEF Place
<1>10. \A r \in AllReadings : \E j \in 1 .. 6 : r = T[j]
  BY <1>1, <1>3 DEF AllReadings
<1>11. \A j \in 1 .. 6 : T[j] \in AllReadings
  BY <1>1, <1>3 DEF AllReadings
<1>12. After(p) \in AllReadings \union {"render"} /\ Place[After(p)] = i + 1
  BY <1>7, <1>8, <1>9, <1>11
<1>13. \A r \in AllReadings : /\ Place[r] \in Int
                              /\ Place[r] >= i + 1 <=> Place[r] >= i /\ r # p
  <2> SUFFICES ASSUME NEW r \in AllReadings
               PROVE  /\ Place[r] \in Int
                      /\ Place[r] >= i + 1 <=> Place[r] >= i /\ r # p
    OBVIOUS
  <2>1. PICK j \in 1 .. 6 : r = T[j]
    BY <1>10
  <2>2. Place[r] = j /\ (r = p <=> j = i)
    BY <1>5, <1>8, <2>1
  <2> QED
    BY <2>2
<1>14. Place[p] = i
  BY <1>4, <1>8
<1>15. Left(After(p)) = Left(p) \ {p}
  BY <1>12, <1>13, <1>14 DEF Left
<1>16. p \in Left(p)
  BY <1>14 DEF Left
<1>17. p \in ToSet(Readings)
  BY <1>1, <1>2, <1>4 DEF ToSet
<1> QED
  BY <1>12, <1>15, <1>16, <1>17

\* The loop reads what is in AllReadings.
LEMMA ReadingsListed == ToSet(Readings) = AllReadings
<1> DEFINE T == <<"cpu", "memory", "processes", "psi", "thermal", "disk">>
<1>1. /\ T[1] = "cpu" /\ T[2] = "memory" /\ T[3] = "processes" /\ T[4] = "psi"
      /\ T[5] = "thermal" /\ T[6] = "disk" /\ Len(T) = 6
  OBVIOUS
<1>2. Readings = T
  BY DEF Readings
<1> HIDE DEF T
<1>3. \A i \in 1 .. 6 : i = 1 \/ i = 2 \/ i = 3 \/ i = 4 \/ i = 5 \/ i = 6
  OBVIOUS
<1>4. ToSet(Readings) \subseteq AllReadings
  BY <1>1, <1>2, <1>3 DEF ToSet, AllReadings
<1> QED
  BY <1>4, ReadingsInOrder

\* A successful reading finds a machine of the frame, or has no baseline because
\* one failed; a failed reading finds nothing.
LEMMA ReadingsAreOfFrame ==
    ASSUME FrameTyped, WindowsInFrame, NEW r \in AllReadings, NEW readable \in BOOLEAN,
           NEW result, result = Result(r, readable)
    PROVE  IF Has(result)
           THEN \/ \E m \in Found(r, seen) : Stored(r, Value(result)) = Shown(r, m)
                \/ /\ failures > 0 \/ ~readable
                   /\ Stored(r, Value(result)) \in Blank(r)
           ELSE ~readable /\ NoSnapshot[r] \in Blank(r)
<1>1. \A x : Has(<<x>>) /\ Value(<<x>>) = x
  BY DEF Has, Value
<1>2. ~Has(<<>>)
  BY DEF Has
<1>3. /\ NoSnapshot["cpu"] \in Blank("cpu") /\ NoSnapshot["memory"] \in Blank("memory")
      /\ NoSnapshot["processes"] \in Blank("processes")
      /\ NoSnapshot["thermal"] \in Blank("thermal") /\ NoSnapshot["disk"] \in Blank("disk")
  BY DEF NoSnapshot, Blank
<1>4. machine \in seen /\ (r \notin Rates => Found(r, seen) = seen)
  BY DEF WindowsInFrame, Found
<1>5. CASE r \in Rates
  <2>1. /\ \A x : Stored("cpu", x) = x /\ Stored("processes", x) = x
                  /\ Stored("disk", x) = <<x>>
        /\ \A m : Stored(r, Rate(r, m)) = Shown(r, m)
        /\ Stored(r, Rate(r, Still)) \in Blank(r)
    BY <1>5 DEF Rates, Stored, Shown, Blank
  <2>2. CASE ~readable
    <3>1. result = <<>>
      BY <1>5, <2>2 DEF Result, Rates
    <3>2. NoSnapshot[r] \in Blank(r)
      BY <1>3, <1>5 DEF Rates
    <3> QED
      BY <1>2, <2>2, <3>1, <3>2
  <2>3. CASE readable
    <3>1. result = <<Rate(r, Measured(window[r]))>>
      BY <1>5, <2>3 DEF Result, Rates
    <3>2. Has(result) /\ Value(result) = Rate(r, Measured(window[r]))
      BY <1>1, <3>1
    <3>3. CASE window[r] = <<>>
      BY <1>5, <2>1, <3>2, <3>3 DEF WindowsInFrame, Measured
    <3>4. CASE window[r] # <<>>
      <4>1. Measured(window[r]) = MeanRates(window[r])
        BY <3>4 DEF Measured
      <4>2. MeanRates(window[r]) \in Found(r, seen)
        BY <1>5, <3>4 DEF WindowsInFrame, Found, Means
      <4> QED
        BY <2>1, <3>2, <4>1, <4>2
    <3> QED
      BY <3>3, <3>4
  <2> QED
    BY <2>2, <2>3
<1>6. CASE r = "memory"
  <2>1. result = CollectMemory(IF readable THEN Meminfo(machine) ELSE <<>>)
    BY <1>6 DEF Result, Rates
  <2>2. Has(Meminfo(machine))
    BY <1>1 DEF Meminfo
  <2>3. \A x : Stored(r, x) = x
    BY <1>6 DEF Stored
  <2>4. Shown(r, machine) = MemoryOf(Value(Meminfo(machine)))
    BY <1>6 DEF Shown
  <2>5. result = IF readable THEN <<MemoryOf(Value(Meminfo(machine)))>> ELSE <<>>
    BY <1>2, <2>1, <2>2 DEF CollectMemory
  <2>6. r \notin Rates
    BY <1>6 DEF Rates
  <2> QED
    BY <1>1, <1>2, <1>3, <1>4, <1>6, <2>3, <2>4, <2>5, <2>6
<1>7. CASE r = "psi"
  <2>1. result = CollectPsi(IF readable THEN PressureFiles(machine)
                                        ELSE [f \in {"cpu", "memory", "io"} |-> <<>>])
    BY <1>7 DEF Result, Rates
  <2>2. \A files : \E x : CollectPsi(files) = <<x>>
    BY DEF CollectPsi
  <2>3. \A x : Stored(r, x) = <<x>>
    BY <1>7 DEF Stored
  <2>4. Has(result) /\ Stored(r, Value(result)) = result
    BY <1>1, <2>1, <2>2, <2>3
  <2>5. Shown(r, machine) = CollectPsi(PressureFiles(machine)) /\ Blank(r) = {NoPressure}
    BY <1>7 DEF Shown, Blank
  <2>6. r \notin Rates
    BY <1>7 DEF Rates
  <2> QED
    BY <1>4, <2>1, <2>4, <2>5, <2>6 DEF NoPressure
<1>8. CASE r = "thermal"
  <2>1. result = CollectThermal(IF readable THEN <<ThermalEntries(machine)>> ELSE <<>>)
    BY <1>8 DEF Result, Rates
  <2>2. \A x : Stored(r, x) = <<x>>
    BY <1>8 DEF Stored
  <2>3. /\ \A x : \E y : CollectThermal(<<x>>) = <<y>>
        /\ CollectThermal(<<>>) = <<>>
    BY <1>1, <1>2 DEF CollectThermal
  <2>4. Shown(r, machine) = CollectThermal(<<ThermalEntries(machine)>>)
    BY <1>8 DEF Shown
  <2>0. r \notin Rates
    BY <1>8 DEF Rates
  <2>5. CASE readable
    BY <1>1, <1>4, <2>0, <2>1, <2>2, <2>3, <2>4, <2>5
  <2>6. CASE ~readable
    BY <1>2, <1>3, <1>8, <2>1, <2>3, <2>6
  <2> QED
    BY <2>5, <2>6
<1> QED
  BY <1>5, <1>6, <1>7, <1>8 DEF AllReadings, Rates

\* In more machines everything is found that was found in fewer.
LEMMA FoundGrows ==
    ASSUME NEW S, NEW T, S \subseteq T, NEW r
    PROVE  Found(r, S) \subseteq Found(r, T)
<1>1. \A w \in Seq(S) : w \in Seq(S \union T)
  BY SeqOfLarger
<1>2. S \union T = T
  OBVIOUS
<1> QED
  BY <1>1, <1>2 DEF Found, Means

\* A machine more in the frame or a failure more takes nothing back.
LEMMA FrameGrows ==
    ASSUME FrameTyped, FrameTyped', snapshot' = snapshot, seen \subseteq seen',
           failures <= failures', NEW r
    PROVE  FromFrame(r) => FromFrame(r)'
<1>1. Found(r, seen) \subseteq Found(r, seen')
  BY FoundGrows
<1>2. failures > 0 => failures' > 0
  BY DEF FrameTyped
<1> QED
  BY <1>1, <1>2 DEF FromFrame

\* A step of the machine.
LEMMA EndSliceKeepsFrame ==
    ASSUME FrameInv, EndSlice
    PROVE  FrameInv'
<1> USE DEF EndSlice
<1>1. PICK m \in {n \in Machines : n.old = machine.old} :
         /\ machine' = m
         /\ seen' = IF pc = "key" THEN seen ELSE seen \union {m}
         /\ window' = [s \in Rates |-> IF window[s] = <<>> THEN <<>>
                                        ELSE Append(window[s], m)]
  OBVIOUS
<1>2. UNCHANGED <<pc, snapshot, failures, diagnoses>>
  BY DEF history
<1>3. FrameTyped'
  <2>1. machine' \in Machines /\ seen' \subseteq Machines
    BY <1>1 DEF FrameInv, FrameTyped
  <2>2. window' \in [Rates -> Seq(Machines)]
    BY <1>1 DEF FrameInv, FrameTyped
  <2> QED
    BY <1>2, <2>1, <2>2 DEF FrameInv, FrameTyped
<1>4. seen \subseteq seen' /\ failures <= failures'
  BY <1>1, <1>2 DEF FrameInv, FrameTyped
<1>5. \A r : FromFrame(r) => FromFrame(r)'
  BY <1>2, <1>3, <1>4, FrameGrows DEF FrameInv
<1>6. pc \in AllReadings \union {"render"} => WindowsInFrame'
  <2> SUFFICES ASSUME pc \in AllReadings \union {"render"}
               PROVE  WindowsInFrame'
    OBVIOUS
  <2>1. WindowsInFrame /\ pc # "key"
    BY DEF FrameInv, AllReadings
  <2>2. machine' \in seen' /\ seen \subseteq seen' /\ UNCHANGED failures /\ m \in seen'
    BY <1>1, <1>2, <2>1
  <2>3. ASSUME NEW s \in Rates
        PROVE  window'[s] \in Seq(seen') /\ (window'[s] = <<>> => failures' > 0)
    <3>1. window[s] \in Seq(seen) /\ (window[s] = <<>> => failures' > 0)
      BY <2>1, <2>2 DEF WindowsInFrame
    <3>2. window[s] \in Seq(seen')
      <4>1. window[s] \in Seq(seen \union seen')
        BY <3>1, SeqOfLarger
      <4>2. seen \union seen' = seen'
        BY <2>2
      <4> QED
        BY <4>1, <4>2
    <3>3. CASE window[s] = <<>>
      BY <1>1, <3>1, <3>2, <3>3
    <3>4. CASE window[s] # <<>>
      <4>1. window'[s] = Append(window[s], m)
        BY <1>1, <3>4
      <4>2. Append(window[s], m) \in Seq(seen') /\ Append(window[s], m) # <<>>
        <5> DEFINE w == window[s]
                   S == seen'
        <5>1. w \in Seq(S) /\ m \in S
          BY <2>2, <3>2
        <5> HIDE DEF w, S
        <5>2. Append(w, m) \in Seq(S) /\ Append(w, m) # <<>>
          BY <5>1, AppendProperties, EmptySeq
        <5> QED
          BY <5>2 DEF w, S
      <4> QED
        BY <4>1, <4>2
    <3> QED
      BY <3>3, <3>4
  <2> QED
    BY <2>2, <2>3 DEF WindowsInFrame
<1>7. SnapshotInFrame => SnapshotInFrame'
  BY <1>2, <1>5 DEF SnapshotInFrame
<1>8. FrameComplete => FrameComplete'
  BY <1>2, <1>5 DEF FrameComplete
<1>9. pc = "baseline" => machine' \in seen'
  BY <1>1
<1> QED
  BY <1>2, <1>3, <1>6, <1>7, <1>8, <1>9 DEF FrameInv

\* The steps that leave the frame as it is.
LEMMA SameFrame ==
    ASSUME FrameInv, UNCHANGED <<machine, seen, window, pc, snapshot, failures, diagnoses>>
    PROVE  FrameInv'
BY DEF FrameInv, FrameTyped, WindowsInFrame, SnapshotInFrame, FrameComplete, FromFrame

\* At the start there is no frame.
LEMMA StartKeepsFrame ==
    ASSUME FrameInv, Start
    PROVE  FrameInv'
<1>1. PICK failed \in SUBSET Rates : SetBaselines(failed)
  BY DEF Start
<1>2. UNCHANGED <<machine, seen, snapshot, failures, diagnoses>> /\ pc = "start" /\ pc' = "key"
  BY DEF Start, world, history
<1>3. window' \in [Rates -> Seq(Machines)]
  BY <1>1, <1>2 DEF SetBaselines, FrameInv, FrameTyped
<1>4. FrameTyped'
  BY <1>2, <1>3 DEF FrameInv, FrameTyped
<1>5. "key" \notin AllReadings \union {"render", "start", "baseline"}
  BY DEF AllReadings
<1>6. snapshot' = NoSnapshot
  BY <1>2 DEF FrameInv
<1> QED
  BY <1>2, <1>4, <1>5, <1>6 DEF FrameInv

\* A key begins a frame with nothing in it.
LEMMA ReadKeyKeepsFrame ==
    ASSUME FrameInv, ReadKey
    PROVE  FrameInv'
<1>1. /\ UNCHANGED <<machine, window>> /\ pc' = "baseline"
      /\ seen' = {machine} /\ snapshot' = NoSnapshot /\ failures' = 0
  BY DEF ReadKey
<1>2. NoSnapshot.gpu = <<>>
  BY DEF NoSnapshot
<1>3. FrameTyped'
  BY <1>1, <1>2 DEF FrameInv, FrameTyped
<1>4. "baseline" \notin AllReadings \union {"render", "key", "done"}
  BY DEF AllReadings
<1> QED
  BY <1>1, <1>3, <1>4 DEF FrameInv

\* Leaving the loop leaves the last frame as it was.
LEMMA QuitKeepsFrame ==
    ASSUME FrameInv, Quit
    PROVE  FrameInv'
<1>1. /\ UNCHANGED <<machine, seen, window, snapshot, failures, diagnoses>>
      /\ pc = "key" /\ pc' = "done"
  BY DEF Quit, world, history
<1>2. FrameTyped'
  BY <1>1 DEF FrameInv, FrameTyped
<1>3. "done" \notin AllReadings \union {"render", "start", "baseline"}
  BY DEF AllReadings
<1>4. FrameComplete => FrameComplete'
  BY <1>1 DEF FrameComplete, FromFrame
<1> QED
  BY <1>1, <1>2, <1>3, <1>4 DEF FrameInv

\* A sequence is one over any set that has its elements.
LEMMA SeqOfOwn ==
    ASSUME NEW S, NEW T, NEW s \in Seq(S), ToSet(s) \subseteq T
    PROVE  s \in Seq(T)
<1>1. Len(s) \in Nat /\ s = [i \in 1 .. Len(s) |-> s[i]]
  BY LenProperties
<1>2. \A i \in 1 .. Len(s) : s[i] \in T
  BY DEF ToSet
<1>3. s \in [1 .. Len(s) -> T]
  BY <1>1, <1>2
<1> QED
  BY <1>1, <1>3, FunctionIsSeq

\* The baselines are of the frame, or older ones that now belong to its time.
LEMMA BaselineKeepsFrame ==
    ASSUME FrameInv, Baseline
    PROVE  FrameInv'
<1>1. PICK failed \in SUBSET Rates :
         /\ window' = [s \in Rates |-> IF s \in failed THEN window[s] ELSE <<machine>>]
         /\ failures' = Cardinality(failed)
         /\ seen' = {machine} \union UNION {ToSet(window[s]) : s \in failed}
  BY DEF Baseline, SetBaselines
<1>2. UNCHANGED <<machine, snapshot, diagnoses>> /\ pc = "baseline" /\ pc' = "cpu"
  BY DEF Baseline, history
<1>3. Cardinality(failed) \in Nat /\ (failed # {} => Cardinality(failed) > 0)
  <2>1. IsFiniteSet(Rates)
    <3>1. IsFiniteSet({}) /\ \A S, x : IsFiniteSet(S) => IsFiniteSet(S \union {x})
      BY FS_EmptySet, FS_AddElement
    <3>2. Rates = (({} \union {"cpu"}) \union {"processes"}) \union {"disk"}
      BY DEF Rates
    <3> QED
      BY <3>1, <3>2
  <2>2. IsFiniteSet(failed)
    BY <2>1, FS_Subset
  <2> QED
    BY <2>2, FS_CardinalityType, FS_EmptySet
<1>4. FrameTyped'
  <2>1. machine' \in Machines /\ failures' \in Nat
    BY <1>1, <1>2, <1>3 DEF FrameInv, FrameTyped
  <2>2. window' \in [Rates -> Seq(Machines)]
    BY <1>1 DEF FrameInv, FrameTyped
  <2>3. \A s \in failed : ToSet(window[s]) \subseteq Machines
    <3>1. \A s \in failed : window[s] \in Seq(Machines)
      BY DEF FrameInv, FrameTyped
    <3> QED
      BY <3>1, ElementOfSeq DEF ToSet
  <2>4. seen' \subseteq Machines
    BY <1>1, <2>3 DEF FrameInv, FrameTyped
  <2>5. pc' \in AllReadings
    BY <1>2 DEF AllReadings
  <2> QED
    BY <1>2, <2>1, <2>2, <2>4, <2>5 DEF FrameInv, FrameTyped
<1>5. WindowsInFrame'
  <2> SUFFICES ASSUME NEW s \in Rates
               PROVE  window'[s] \in Seq(seen') /\ (window'[s] = <<>> => failures' > 0)
    BY <1>1, <1>2 DEF WindowsInFrame
  <2>1. CASE s \in failed
    <3>1. window'[s] = window[s] /\ failures' > 0 /\ ToSet(window[s]) \subseteq seen'
      BY <1>1, <1>3, <2>1
    <3>2. window[s] \in Seq(Machines)
      BY DEF FrameInv, FrameTyped
    <3>3. window[s] \in Seq(seen')
      BY <3>1, <3>2, SeqOfOwn
    <3> QED
      BY <3>1, <3>3
  <2>2. CASE s \notin failed
    BY <1>1, <2>2
  <2> QED
    BY <2>1, <2>2
<1>6. SnapshotInFrame'
  <2>1. snapshot' = NoSnapshot
    BY <1>2 DEF FrameInv
  <2>2. Left("cpu") = AllReadings
    BY DEF Left, AllReadings, Place
  <2> QED
    BY <1>2, <2>1, <2>2 DEF SnapshotInFrame
<1>7. "cpu" \notin {"start", "baseline", "key", "done"}
  OBVIOUS
<1> QED
  BY <1>2, <1>4, <1>5, <1>6, <1>7 DEF FrameInv

\* A reading fills its own part of the snapshot.
LEMMA CollectKeepsFrame ==
    ASSUME FrameInv, Collect
    PROVE  FrameInv'
<1>1. /\ pc \in AllReadings /\ pc' = After(pc) /\ UNCHANGED <<machine, seen, diagnoses>>
  BY ReadingsListed DEF Collect, world, history
<1>2. PICK readable \in BOOLEAN :
          /\ failures' = failures + IF readable THEN 0 ELSE 1
          /\ LET x == Result(pc, readable)
             IN  snapshot' = IF Has(x) THEN [snapshot EXCEPT ![pc] = Stored(pc, Value(x))]
                             ELSE snapshot
          /\ window' = IF readable /\ pc \in Rates
                       THEN [window EXCEPT ![pc] = <<machine>>] ELSE window
  BY DEF Collect
<1> DEFINE result == Result(pc, readable)
<1>3. /\ failures' = failures + IF readable THEN 0 ELSE 1
      /\ snapshot' = IF Has(result)
                     THEN [snapshot EXCEPT ![pc] = Stored(pc, Value(result))]
                     ELSE snapshot
      /\ window' = IF readable /\ pc \in Rates
                   THEN [window EXCEPT ![pc] = <<machine>>] ELSE window
  BY <1>2
<1>4. FrameTyped /\ WindowsInFrame /\ SnapshotInFrame
  BY <1>1 DEF FrameInv
<1>0. IF Has(result)
      THEN \/ \E m \in Found(pc, seen) : Stored(pc, Value(result)) = Shown(pc, m)
           \/ /\ failures > 0 \/ ~readable
              /\ Stored(pc, Value(result)) \in Blank(pc)
      ELSE ~readable /\ NoSnapshot[pc] \in Blank(pc)
  BY <1>1, <1>4, ReadingsAreOfFrame
<1> HIDE DEF result
<1>5. /\ After(pc) \in AllReadings \union {"render"} /\ Left(After(pc)) = Left(pc) \ {pc}
      /\ pc \in Left(pc)
  BY <1>1, ReadingsInOrder
<1>6. /\ failures' \in Nat /\ failures <= failures' /\ (failures > 0 => failures' > 0)
      /\ (~readable => failures' > 0)
  BY <1>3, <1>4 DEF FrameTyped
<1>7. /\ DOMAIN snapshot = AllReadings \union {"timestamp", "gpu"}
      /\ "gpu" \notin AllReadings
  <2>1. DOMAIN NoSnapshot = AllReadings \union {"timestamp", "gpu"}
    BY DEF NoSnapshot, AllReadings
  <2> QED
    BY <1>4, <2>1 DEF FrameTyped, AllReadings
<1>8. /\ DOMAIN snapshot' = DOMAIN snapshot
      /\ snapshot'["gpu"] = snapshot["gpu"]
      /\ \A r \in AllReadings : r # pc => snapshot'[r] = snapshot[r]
      /\ snapshot'[pc] = IF Has(result) THEN Stored(pc, Value(result)) ELSE snapshot[pc]
  BY <1>1, <1>3, <1>7
<1>9. FrameTyped'
  <2>1. window' \in [Rates -> Seq(Machines)]
    BY <1>3, <1>4 DEF FrameTyped
  <2>2. pc' \in AllReadings \union {"render"}
    BY <1>1, <1>5
  <2> QED
    BY <1>1, <1>4, <1>6, <1>8, <2>1, <2>2 DEF FrameTyped
<1>10. WindowsInFrame'
  <2> SUFFICES ASSUME NEW s \in Rates
               PROVE  window'[s] \in Seq(seen') /\ (window'[s] = <<>> => failures' > 0)
    BY <1>1, <1>4 DEF WindowsInFrame
  <2>1. window[s] \in Seq(seen) /\ (window[s] = <<>> => failures' > 0) /\ machine \in seen
    BY <1>4, <1>6 DEF WindowsInFrame
  <2>2. window'[s] = window[s] \/ window'[s] = <<machine>>
    BY <1>3, <1>4 DEF FrameTyped
  <2>3. <<machine>> \in Seq(seen) /\ <<machine>> # <<>>
    BY <2>1
  <2>4. seen' = seen
    BY <1>1
  <2>5. CASE window'[s] = window[s]
    BY <2>1, <2>4, <2>5
  <2>6. CASE window'[s] = <<machine>>
    BY <2>3, <2>4, <2>6
  <2> QED
    BY <2>2, <2>5, <2>6
<1>11. SnapshotInFrame'
  <2> SUFFICES ASSUME NEW r \in AllReadings
               PROVE  IF r \in Left(pc)' THEN snapshot'[r] = NoSnapshot[r] ELSE FromFrame(r)'
    BY DEF SnapshotInFrame
  <2>0. r \in Left(pc)' <=> r \in Left(pc) /\ r # pc
    BY <1>1, <1>5
  <2>1. CASE r # pc
    <3>1. snapshot'[r] = snapshot[r]
      BY <1>8, <2>1
    <3>2. FromFrame(r) => FromFrame(r)'
      BY <1>1, <1>6, <3>1 DEF FromFrame
    <3> QED
      BY <1>4, <2>0, <2>1, <3>1, <3>2 DEF SnapshotInFrame
  <2>2. CASE r = pc
    <3>1. IF Has(result)
          THEN \/ \E m \in Found(r, seen) : Stored(r, Value(result)) = Shown(r, m)
               \/ /\ failures > 0 \/ ~readable
                  /\ Stored(r, Value(result)) \in Blank(r)
          ELSE ~readable /\ NoSnapshot[r] \in Blank(r)
      BY <1>0, <2>2
    <3>2. CASE Has(result)
      <4>1. snapshot'[r] = Stored(r, Value(result))
        BY <1>8, <2>2, <3>2
      <4> QED
        BY <1>1, <1>6, <2>0, <2>2, <3>1, <3>2, <4>1 DEF FromFrame
    <3>3. CASE ~Has(result)
      <4>1. snapshot'[r] = NoSnapshot[r]
        BY <1>4, <1>5, <1>8, <2>2, <3>3 DEF SnapshotInFrame
      <4> QED
        BY <1>6, <2>0, <2>2, <3>1, <3>3, <4>1 DEF FromFrame
    <3> QED
      BY <3>2, <3>3
  <2> QED
    BY <2>1, <2>2
<1>12. pc' \notin {"start", "baseline", "key", "done"}
  BY <1>1, <1>5 DEF AllReadings
<1> QED
  BY <1>9, <1>10, <1>11, <1>12 DEF FrameInv

\* Drawing has the complete snapshot analysed.
LEMMA RenderKeepsFrame ==
    ASSUME FrameInv, Render
    PROVE  FrameInv'
<1>1. /\ UNCHANGED <<machine, seen, window, snapshot, failures>>
      /\ pc = "render" /\ pc' = "key" /\ diagnoses' = analyze(snapshot')
  BY DEF Render, world
<1>2. FrameTyped'
  BY <1>1 DEF FrameInv, FrameTyped
<1>3. Left("render") = {}
  BY DEF Left, AllReadings, Place
<1>4. FrameComplete'
  BY <1>1, <1>3 DEF FrameInv, FrameComplete, SnapshotInFrame, FromFrame
<1>5. "key" \notin AllReadings \union {"render", "start", "baseline"}
  BY DEF AllReadings
<1> QED
  BY <1>1, <1>2, <1>4, <1>5 DEF FrameInv

\* A frame shows what its readings found.
LEMMA FrameInvariant == Spec => []FrameInv
<1>1. Init => FrameInv
  <2> SUFFICES ASSUME Init
               PROVE  FrameInv
    OBVIOUS
  <2>1. NoSnapshot.gpu = <<>> /\ "start" \notin AllReadings \union {"render", "key", "done"}
    BY DEF NoSnapshot, AllReadings
  <2>2. window \in [Rates -> Seq(Machines)]
    BY DEF Init
  <2>3. FrameTyped
    BY <2>1, <2>2 DEF Init, FrameTyped
  <2> QED
    BY <2>1, <2>3 DEF Init, FrameInv
<1>2. FrameInv /\ [Next]_vars => FrameInv'
  <2> SUFFICES ASSUME FrameInv, [Next]_vars
               PROVE  FrameInv'
    OBVIOUS
  <2>1. CASE EndSlice
    BY <2>1, EndSliceKeepsFrame
  <2>2. CASE Type
    BY <2>2, SameFrame DEF Type, world, history
  <2>3. CASE Loop
    BY <2>3, StartKeepsFrame, ReadKeyKeepsFrame, QuitKeepsFrame, BaselineKeepsFrame,
       CollectKeepsFrame, RenderKeepsFrame DEF Loop
  <2>4. CASE UNCHANGED vars
    BY <2>4, SameFrame DEF vars, world, history
  <2> QED
    BY <2>1, <2>2, <2>3, <2>4 DEF Next, Ended
<1> QED
  BY <1>1, <1>2, PTL DEF Spec

-------------------------------------------------------------------------------
(* What the user sees.                                                     *)

\* The parts of a reading that the rules and the screens look at.
LEMMA ShownParts ==
    ASSUME NEW m \in Machine
    PROVE  /\ Shown("memory", m).used_bytes = m.used
           /\ Shown("memory", m).utilization_percent = m.used
           /\ Has(Shown("psi", m))
           /\ Value(Shown("psi", m)).cpu_some = IF m.old THEN 0 ELSE m.cpu_psi
           /\ Value(Shown("psi", m)).memory_some = IF m.old THEN 0 ELSE m.memory_psi
           /\ Value(Shown("psi", m)).io_some = IF m.old THEN 0 ELSE m.io_psi
           /\ Shown("thermal", m) = <<<<20, m.heat>>>>
<1>2. Shown("memory", m) = MemoryOf(Value(Meminfo(m)))
  BY DEF Shown
<1>3. Shown("psi", m) = CollectPsi(PressureFiles(m))
  BY DEF Shown
<1>4. \A x : Avg10(PressureFile(m, x), "some") = IF m.old THEN 0 ELSE x
  <2> SUFFICES ASSUME NEW x
               PROVE  Avg10(PressureFile(m, x), "some") = IF m.old THEN 0 ELSE x
    OBVIOUS
  <2> DEFINE line == [some |-> x, full |-> 0]
  <2>1. "some" \in DOMAIN line /\ line["some"] = x
    OBVIOUS
  <2> HIDE DEF line
  <2>2. PressureFile(m, x) = IF m.old THEN <<>> ELSE <<line>>
    BY DEF PressureFile, line
  <2> QED
    BY <2>1, <2>2 DEF Avg10, Has, Value, Field
<1>5. /\ PressureFiles(m)["cpu"] = PressureFile(m, m.cpu_psi)
      /\ PressureFiles(m)["memory"] = PressureFile(m, m.memory_psi)
      /\ PressureFiles(m)["io"] = PressureFile(m, m.io_psi)
  BY DEF PressureFiles
<1>6. \A f : /\ Has(CollectPsi(f))
             /\ Value(CollectPsi(f)).cpu_some = Avg10(f["cpu"], "some")
             /\ Value(CollectPsi(f)).memory_some = Avg10(f["memory"], "some")
             /\ Value(CollectPsi(f)).io_some = Avg10(f["io"], "some")
  BY DEF CollectPsi, Has, Value
<1>7. Shown("thermal", m) = <<<<20, m.heat>>>>
  BY ZonesAreRead DEF Shown
<1> QED
  BY <1>2, <1>3, <1>4, <1>5, <1>6, <1>7, MemoryIsUsed

\* The same of the rates, whether of a machine or means.
LEMMA RateParts ==
    ASSUME NEW m
    PROVE  /\ Shown("cpu", m).total_utilization = m.load
           /\ Shown("cpu", m).per_core = <<m.load>>
           /\ Shown("disk", m) = <<<<m.busy>>>>
<1>1. Shown("cpu", m) = [total_utilization |-> m.load, iowait_percent |-> m.iowait,
                         per_core |-> <<m.load>>]
  BY DEF Shown, Rate
<1>2. Shown("disk", m) = <<<<m.busy>>>>
  BY DEF Shown, Rate
<1> QED
  BY <1>1, <1>2

\* Where a rate is a mean, the machine had no higher and no lower one throughout,
\* and what is the busier one in the mean was not the less busy one throughout.
LEMMA MeansOfFrame ==
    ASSUME NEW S, S \subseteq Machine, NEW a \in Means(S)
    PROVE  /\ a.load \in Nat /\ \E low, high \in S : low.load <= a.load /\ a.load <= high.load
           /\ a.busy \in Nat /\ \E low, high \in S : low.busy <= a.busy /\ a.busy <= high.busy
           /\ \A p \in Pids : a.usage[p] \in Nat
           /\ \A p, q \in Pids : a.usage[p] >= a.usage[q]
                                    => \E m \in S : m.usage[p] >= m.usage[q]
<1>0. ASSUME NEW m \in Machine
      PROVE  m.load \in Nat /\ m.busy \in Nat /\ \A p \in Pids : m.usage[p] \in Nat
  <2>1. m.load \in 0 .. 100 /\ m.busy \in 0 .. 100 /\ m.usage \in [Pids -> 0 .. 100]
    BY DEF Machine
  <2> QED
    BY <2>1
<1>1. PICK w \in Seq(S) \ {<<>>} : a = MeanRates(w)
  BY DEF Means
<1> DEFINE n == Len(w)
           load == [i \in 1 .. n |-> w[i].load]
           busy == [i \in 1 .. n |-> w[i].busy]
           usage(p) == [i \in 1 .. n |-> w[i].usage[p]]
<1>2. n \in Nat /\ n # 0 /\ \A i \in 1 .. n : w[i] \in S /\ w[i] \in Machine
  BY ElementOfSeq, LenProperties, EmptySeq
<1>3. /\ a.load = Mean(load) /\ a.busy = Mean(busy)
      /\ \A p \in Pids : a.usage[p] = Mean(usage(p))
  BY <1>1 DEF MeanRates
<1>4. /\ load \in Seq(Nat) /\ Len(load) = n /\ \A i \in 1 .. n : load[i] = w[i].load
      /\ busy \in Seq(Nat) /\ Len(busy) = n /\ \A i \in 1 .. n : busy[i] = w[i].busy
  <2>1. load \in [1 .. n -> Nat] /\ busy \in [1 .. n -> Nat]
    <3>1. \A i \in 1 .. n : w[i].load \in Nat /\ w[i].busy \in Nat
      BY <1>0, <1>2
    <3> HIDE DEF n
    <3> QED
      BY <3>1
  <2>2. \A i \in 1 .. n : load[i] = w[i].load /\ busy[i] = w[i].busy
    OBVIOUS
  <2> HIDE DEF n, load, busy
  <2> QED
    BY <1>2, <2>1, <2>2, FunctionIsSeq
<1>5. ASSUME NEW p \in Pids
      PROVE  /\ usage(p) \in Seq(Nat) /\ Len(usage(p)) = n
             /\ \A i \in 1 .. n : usage(p)[i] = w[i].usage[p]
  <2> DEFINE u == usage(p)
  <2>1. u \in [1 .. n -> Nat] /\ \A i \in 1 .. n : u[i] = w[i].usage[p]
    <3>1. \A i \in 1 .. n : w[i].usage[p] \in Nat
      BY <1>0, <1>2, <1>5
    <3> QED
      BY <3>1
  <2> HIDE DEF n, u
  <2>2. u \in Seq(Nat) /\ Len(u) = n
    BY <1>2, <2>1, FunctionIsSeq
  <2> QED
    BY <2>1, <2>2 DEF u
<1> HIDE DEF n, load, busy, usage
<1>6. a.load \in Nat /\ \E low, high \in S : low.load <= a.load /\ a.load <= high.load
  <2>1. /\ Mean(load) \in Nat /\ \E i \in 1 .. n : load[i] <= Mean(load)
        /\ \E i \in 1 .. n : Mean(load) <= load[i]
    BY <1>2, <1>4, MeanInBounds
  <2> QED
    BY <1>2, <1>3, <1>4, <2>1
<1>7. a.busy \in Nat /\ \E low, high \in S : low.busy <= a.busy /\ a.busy <= high.busy
  <2>1. /\ Mean(busy) \in Nat /\ \E i \in 1 .. n : busy[i] <= Mean(busy)
        /\ \E i \in 1 .. n : Mean(busy) <= busy[i]
    BY <1>2, <1>4, MeanInBounds
  <2> QED
    BY <1>2, <1>3, <1>4, <2>1
<1>8. ASSUME NEW p \in Pids
      PROVE  a.usage[p] \in Nat
  BY <1>2, <1>3, <1>5, MeanInBounds
<1>9. ASSUME NEW p \in Pids, NEW q \in Pids, a.usage[p] >= a.usage[q],
             \A m \in S : ~(m.usage[p] >= m.usage[q])
      PROVE  FALSE
  <2>1. ASSUME NEW i \in 1 .. n
        PROVE  usage(p)[i] < usage(q)[i]
    <3>1. /\ usage(p)[i] = w[i].usage[p] /\ usage(q)[i] = w[i].usage[q]
          /\ ~(w[i].usage[p] >= w[i].usage[q])
      BY <1>2, <1>5, <1>9
    <3>2. w[i].usage[p] \in Nat /\ w[i].usage[q] \in Nat
      BY <1>0, <1>2, <1>9
    <3> QED
      BY <3>1, <3>2
  <2> DEFINE v == usage(p)
             u == usage(q)
  <2>2. v \in Seq(Nat) /\ u \in Seq(Nat) /\ Len(v) = n /\ Len(u) = n
    BY <1>5, <1>9
  <2>3. \A i \in 1 .. n : v[i] < u[i]
    BY <2>1
  <2>4. a.usage[p] = Mean(v) /\ a.usage[q] = Mean(u)
    BY <1>3, <1>9
  <2> HIDE DEF v, u
  <2>5. Mean(v) < Mean(u)
    BY <1>2, <2>2, <2>3, MeansCompared
  <2>6. Mean(v) \in Nat /\ Mean(u) \in Nat
    BY <1>2, <2>2, MeanInBounds
  <2> QED
    BY <1>9, <2>4, <2>5, <2>6
<1> QED
  BY <1>6, <1>7, <1>8, <1>9

\* A blank part raises and shows nothing.
LEMMA BlankParts ==
    /\ \A x \in Blank("cpu") : x.total_utilization = 0 /\ x.per_core \in {<<>>, <<0>>}
    /\ \A x \in Blank("memory") : x.used_bytes = 0 /\ x.utilization_percent = 0
    /\ \A x \in Blank("psi") : /\ Has(x) /\ Value(x).cpu_some = 0
                               /\ Value(x).memory_some = 0 /\ Value(x).io_some = 0
    /\ \A x \in Blank("thermal") : x = <<>>
    /\ \A x \in Blank("disk") : x \in {<<>>, <<<<0>>>>}
<1>1. Still.load = 0 /\ Still.busy = 0
  BY DEF Still
<1>2. Blank("cpu") = {NoCpu, Rate("cpu", Still)}
  BY DEF Blank
<1>3. NoCpu.total_utilization = 0 /\ NoCpu.per_core = <<>>
  BY DEF NoCpu
<1>4. Rate("cpu", Still).total_utilization = 0 /\ Rate("cpu", Still).per_core = <<0>>
  BY <1>1 DEF Rate
<1>5. \A x \in Blank("memory") : x.used_bytes = 0 /\ x.utilization_percent = 0
  BY DEF Blank, NoMemory
<1>6. Blank("psi") = {NoPressure}
  BY DEF Blank
<1>7. /\ Has(NoPressure) /\ Value(NoPressure).cpu_some = 0
      /\ Value(NoPressure).memory_some = 0 /\ Value(NoPressure).io_some = 0
  BY DEF NoPressure, CollectPsi, Avg10, Has, Value
<1>8. Blank("thermal") = {<<>>}
  BY DEF Blank
<1>9. Blank("disk") = {<<>>, <<<<0>>>>}
  <2>1. Rate("disk", Still) = <<0>>
    BY <1>1 DEF Rate
  <2> QED
    BY <2>1 DEF Blank
<1> QED
  BY <1>2, <1>3, <1>4, <1>5, <1>6, <1>7, <1>8, <1>9

\* The highest temperature of a snapshot is above 75 when the machine is hot.
LEMMA HotZone ==
    ASSUME NEW s, s.gpu = <<>>
    PROVE  /\ \A m \in Machine : s.thermal = <<<<20, m.heat>>>> =>
                 (MaxTemp(s) > 75 <=> m.heat > 75)
           /\ s.thermal = <<>> => ~(MaxTemp(s) > 75)
<1>1. ASSUME NEW m \in Machine, s.thermal = <<<<20, m.heat>>>>
      PROVE  MaxTemp(s) > 75 <=> m.heat > 75
  <2> DEFINE zones == <<20, m.heat>>
  <2>1. Len(zones) = 2 /\ zones[1] = 20 /\ zones[2] = m.heat
    OBVIOUS
  <2>2. \A i \in 1 .. 2 : i = 1 \/ i = 2
    OBVIOUS
  <2>3. m.heat \in Nat
    BY DEF Machine
  <2> HIDE DEF zones
  <2>4. {zones[i] : i \in 1 .. Len(zones)} = {20, m.heat}
    BY <2>1, <2>2
  <2>5. Has(s.thermal) /\ Value(s.thermal) = zones /\ ~Has(s.gpu)
    BY <1>1 DEF Has, Value, zones
  <2>6. MaxTemp(s) = Highest({0} \union {} \union {zones[i] : i \in 1 .. Len(zones)})
    BY <2>5 DEF MaxTemp
  <2>7. {0} \union {} \union {zones[i] : i \in 1 .. Len(zones)} = {0} \union {20, m.heat}
    BY <2>4
  <2>8. Highest({0} \union {20, m.heat}) > 75 <=> m.heat > 75
    BY <2>3, HighestAbove
  <2> QED
    BY <2>6, <2>7, <2>8
<1>2. ASSUME s.thermal = <<>>
      PROVE  ~(MaxTemp(s) > 75)
  <2>1. MaxTemp(s) = Highest({0})
    <3>1. ~Has(s.gpu) /\ ~Has(s.thermal)
      BY <1>2 DEF Has
    <3>2. MaxTemp(s) = Highest({0} \union {} \union {})
      BY <3>1 DEF MaxTemp
    <3> QED
      BY <3>2
  <2>2. Highest({0}) = 0
    <3>1. \E x \in {0} : \A y \in {0} : y <= x
      OBVIOUS
    <3> QED
      BY <3>1 DEF Highest
  <2> QED
    BY <2>1, <2>2
<1> QED
  BY <1>1, <1>2

\* The signs of a machine one by one.
LEMMA SignsOne ==
    ASSUME NEW m
    PROVE  /\ "loaded" \in Signs(m) <=> m.load > 75
           /\ "full" \in Signs(m) <=> m.used > 70
           /\ "hot" \in Signs(m) <=> m.heat > 75
           /\ "cpu stall" \in Signs(m) <=> ~m.old /\ m.cpu_psi > 5
           /\ "memory stall" \in Signs(m) <=> ~m.old /\ m.memory_psi > 5
           /\ "io stall" \in Signs(m) <=> ~m.old /\ m.io_psi > 5
BY DEF Signs

\* The conditions and what makes them up.
LEMMA SignsTable ==
    /\ DOMAIN SignsOf = {"THERMAL THROTTLING", "MEMORY CONTENTION & PRESSURE",
                         "I/O BOTTLENECK", "CPU SCHEDULING CONTENTION"}
    /\ SignsOf["THERMAL THROTTLING"] = {"hot"}
    /\ SignsOf["MEMORY CONTENTION & PRESSURE"] = {"full", "memory stall"}
    /\ SignsOf["I/O BOTTLENECK"] = {"io stall"}
    /\ SignsOf["CPU SCHEDULING CONTENTION"] = {"loaded", "cpu stall"}
BY DEF SignsOf

\* What the parts of a frame's snapshot tell.
LEMMA FrameParts ==
    ASSUME FrameTyped, \A r \in AllReadings : FromFrame(r)
    PROVE  /\ \A x \in {"memory", "psi", "thermal"} :
                 \/ \E m \in seen : m \in Machine /\ snapshot[x] = Shown(x, m)
                 \/ failures > 0 /\ snapshot[x] \in Blank(x)
           /\ \A x \in Rates :
                 \/ \E a \in Means(seen) : snapshot[x] = Shown(x, a)
                 \/ failures > 0 /\ snapshot[x] \in Blank(x)
           /\ seen \subseteq Machine
<1>1. seen \subseteq Machine
  BY DashboardAssumption DEF FrameTyped
<1>2. \A r \in AllReadings : \/ \E m \in Found(r, seen) : snapshot[r] = Shown(r, m)
                             \/ failures > 0 /\ snapshot[r] \in Blank(r)
  BY DEF FromFrame
<1>3. {"memory", "psi", "thermal"} \subseteq AllReadings /\ Rates \subseteq AllReadings
  BY DEF AllReadings, Rates
<1>4. /\ \A x \in {"memory", "psi", "thermal"} : Found(x, seen) = seen
      /\ \A x \in Rates : Found(x, seen) = Means(seen)
  BY DEF Found, Rates
<1> QED
  BY <1>1, <1>2, <1>3, <1>4

\* A frame without failed readings in which a condition lasted reports it.
LEMMA LastingIsReported ==
    ASSUME FrameTyped, FrameComplete, ~(failures > 0), NEW c \in DOMAIN SignsOf,
           \A m \in seen : SignsOf[c] \subseteq Signs(m)
    PROVE  c \in Conditions(analyze(snapshot))
<1>1. \A x \in {"memory", "psi", "thermal"} :
         \E m \in seen : m \in Machine /\ snapshot[x] = Shown(x, m)
  BY FrameParts DEF FrameComplete
<1>2. PICK k \in Means(seen) : snapshot["cpu"] = Shown("cpu", k)
  BY FrameParts DEF FrameComplete, Rates
<1>3. PICK e \in seen : e \in Machine /\ snapshot["memory"] = Shown("memory", e)
  BY <1>1
<1>4. PICK p \in seen : p \in Machine /\ snapshot["psi"] = Shown("psi", p)
  BY <1>1
<1>5. PICK t \in seen : t \in Machine /\ snapshot["thermal"] = Shown("thermal", t)
  BY <1>1
<1>6. snapshot.gpu = <<>>
  BY DEF FrameTyped
<1>7. c \in {"THERMAL THROTTLING", "MEMORY CONTENTION & PRESSURE", "I/O BOTTLENECK",
            "CPU SCHEDULING CONTENTION"}
  BY SignsTable
<1>8. Fires(snapshot, c)
  <2>1. CASE c = "THERMAL THROTTLING"
    <3>1. t.heat > 75
      BY <1>5, <2>1, SignsTable, SignsOne
    <3>2. snapshot.thermal = <<<<20, t.heat>>>>
      BY <1>5, ShownParts
    <3>3. MaxTemp(snapshot) > 75
      BY <1>5, <1>6, <3>1, <3>2, HotZone
    <3>4. snapshot.cpu.per_core # <<>>
      <4>1. snapshot.cpu.per_core = <<k.load>>
        BY <1>2, RateParts
      <4> QED
        BY <4>1
    <3> QED
      BY <2>1, <3>3, <3>4 DEF Fires
  <2>2. CASE c = "MEMORY CONTENTION & PRESSURE"
    <3>1. e.used > 70 /\ ~p.old /\ p.memory_psi > 5
      BY <1>3, <1>4, <2>2, SignsTable, SignsOne
    <3>2. snapshot.memory.utilization_percent = e.used
      BY <1>3, ShownParts
    <3>3. Pressure(snapshot, "memory_some") = p.memory_psi
      BY <1>4, <3>1, ShownParts DEF Pressure
    <3> QED
      BY <2>2, <3>1, <3>2, <3>3 DEF Fires
  <2>3. CASE c = "I/O BOTTLENECK"
    <3>1. ~p.old /\ p.io_psi > 5
      BY <1>4, <2>3, SignsTable, SignsOne
    <3>2. Pressure(snapshot, "io_some") = p.io_psi
      BY <1>4, <3>1, ShownParts DEF Pressure
    <3> QED
      BY <2>3, <3>1, <3>2 DEF Fires
  <2>4. CASE c = "CPU SCHEDULING CONTENTION"
    <3>1. k.load > 75 /\ ~p.old /\ p.cpu_psi > 5
      <4>1. seen \subseteq Machine
        BY FrameParts DEF FrameComplete
      <4>2. k.load \in Nat /\ \E low \in seen : low.load <= k.load
        BY <1>2, <4>1, MeansOfFrame
      <4>3. PICK low \in seen : low.load <= k.load
        BY <4>2
      <4>4. low.load > 75 /\ ~p.old /\ p.cpu_psi > 5
        BY <1>4, <2>4, SignsTable, SignsOne
      <4>5. low.load \in Nat
        BY <4>1 DEF Machine
      <4> QED
        BY <4>2, <4>3, <4>4, <4>5
    <3>2. snapshot.cpu.total_utilization = k.load
      BY <1>2, RateParts
    <3>3. Pressure(snapshot, "cpu_some") = p.cpu_psi
      BY <1>4, <3>1, ShownParts DEF Pressure
    <3> QED
      BY <2>4, <3>1, <3>2, <3>3 DEF Fires
  <2> QED
    BY <1>7, <2>1, <2>2, <2>3, <2>4
<1> QED
  BY <1>6, <1>8, EngineReports

\* A reported condition has its signs, each in some machine of the frame.
LEMMA ReportedWasSo ==
    ASSUME FrameTyped, FrameComplete, NEW c \in Conditions(analyze(snapshot)),
           NEW sign \in SignsOf[c]
    PROVE  \E m \in seen : sign \in Signs(m)
<1>1. \A x \in {"memory", "psi", "thermal"} :
         \/ \E m \in seen : m \in Machine /\ snapshot[x] = Shown(x, m)
         \/ snapshot[x] \in Blank(x)
  BY FrameParts DEF FrameComplete
<1>2. snapshot.gpu = <<>>
  BY DEF FrameTyped
<1>3. Fires(snapshot, c)
  BY <1>2, EngineReports
<1>4. snapshot.cpu.total_utilization > 75 => \E m \in seen : "loaded" \in Signs(m)
  <2>1. CASE snapshot["cpu"] \in Blank("cpu")
    <3>1. snapshot.cpu.total_utilization = 0
      BY <2>1, BlankParts
    <3> QED
      BY <3>1
  <2>2. CASE \E a \in Means(seen) : snapshot["cpu"] = Shown("cpu", a)
    <3>1. PICK a \in Means(seen) : snapshot["cpu"] = Shown("cpu", a)
      BY <2>2
    <3>2. snapshot.cpu.total_utilization = a.load
      BY <3>1, RateParts
    <3>3. seen \subseteq Machine
      BY FrameParts DEF FrameComplete
    <3>4. a.load \in Nat /\ \E m \in seen : a.load <= m.load
      BY <3>1, <3>3, MeansOfFrame
    <3>5. PICK m \in seen : a.load <= m.load
      BY <3>4
    <3>6. m.load \in Nat
      BY <3>3 DEF Machine
    <3>7. a.load > 75 => m.load > 75
      BY <3>4, <3>5, <3>6
    <3> QED
      BY <3>2, <3>7, SignsOne
  <2>3. \/ \E a \in Means(seen) : snapshot["cpu"] = Shown("cpu", a)
        \/ snapshot["cpu"] \in Blank("cpu")
    BY FrameParts DEF FrameComplete, Rates
  <2> QED
    BY <2>1, <2>2, <2>3
<1>5. snapshot.memory.utilization_percent > 70 => \E m \in seen : "full" \in Signs(m)
  <2>1. CASE snapshot["memory"] \in Blank("memory")
    <3>1. snapshot.memory.utilization_percent = 0
      BY <2>1, BlankParts
    <3> QED
      BY <3>1
  <2>2. CASE \E m \in seen : m \in Machine /\ snapshot["memory"] = Shown("memory", m)
    <3>1. PICK m \in seen : m \in Machine /\ snapshot["memory"] = Shown("memory", m)
      BY <2>2
    <3>2. snapshot.memory.utilization_percent = m.used
      BY <3>1, ShownParts
    <3> QED
      BY <3>1, <3>2, SignsOne
  <2> QED
    BY <1>1, <2>1, <2>2
<1>6. MaxTemp(snapshot) > 75 => \E m \in seen : "hot" \in Signs(m)
  <2>1. CASE snapshot["thermal"] \in Blank("thermal")
    BY <1>2, <2>1, BlankParts, HotZone
  <2>2. CASE \E m \in seen : m \in Machine /\ snapshot["thermal"] = Shown("thermal", m)
    <3>1. PICK m \in seen : m \in Machine /\ snapshot["thermal"] = Shown("thermal", m)
      BY <2>2
    <3>2. snapshot.thermal = <<<<20, m.heat>>>>
      BY <3>1, ShownParts
    <3>3. MaxTemp(snapshot) > 75 <=> m.heat > 75
      BY <1>2, <3>1, <3>2, HotZone
    <3> QED
      BY <3>1, <3>3, SignsOne
  <2> QED
    BY <1>1, <2>1, <2>2
<1> DEFINE cpu == Pressure(snapshot, "cpu_some")
           memory == Pressure(snapshot, "memory_some")
           io == Pressure(snapshot, "io_some")
<1>7. /\ cpu > 5 => \E m \in seen : "cpu stall" \in Signs(m)
      /\ memory > 5 => \E m \in seen : "memory stall" \in Signs(m)
      /\ io > 5 => \E m \in seen : "io stall" \in Signs(m)
  <2>1. CASE snapshot["psi"] \in Blank("psi")
    <3>1. cpu = 0 /\ memory = 0 /\ io = 0
      BY <2>1, BlankParts DEF Pressure
    <3> HIDE DEF cpu, memory, io
    <3> QED
      BY <3>1
  <2>2. CASE \E m \in seen : m \in Machine /\ snapshot["psi"] = Shown("psi", m)
    <3>1. PICK m \in seen : m \in Machine /\ snapshot["psi"] = Shown("psi", m)
      BY <2>2
    <3>2. /\ cpu = IF m.old THEN 0 ELSE m.cpu_psi
          /\ memory = IF m.old THEN 0 ELSE m.memory_psi
          /\ io = IF m.old THEN 0 ELSE m.io_psi
      BY <3>1, ShownParts DEF Pressure
    <3>3. m.old \in BOOLEAN
      BY <3>1 DEF Machine
    <3> HIDE DEF cpu, memory, io
    <3>4. CASE m.old
      <4>1. cpu = 0 /\ memory = 0 /\ io = 0
        BY <3>2, <3>4
      <4> QED
        BY <4>1
    <3>5. CASE ~m.old
      BY <3>1, <3>2, <3>5, SignsOne
    <3> QED
      BY <3>3, <3>4, <3>5
  <2> QED
    BY <1>1, <2>1, <2>2
<1> QED
  BY <1>3, <1>4, <1>5, <1>6, <1>7, SignsTable DEF Fires

\* The value of a rate of a machine is between those of two machines of the frame.
Between(value, rate) == \E low, high \in seen : low[rate] <= value /\ value <= high[rate]

\* The status line, the memory and the tables show the values of some machine of
\* the frame, the rates a mean; a failed reading leaves 0 or an empty table.
LEMMA NumbersAreTrue ==
    ASSUME FrameTyped, FrameComplete
    PROVE  /\ \/ \E x \in Nat : /\ Between(x, "load")
                               /\ snapshot.cpu.total_utilization = x
                               /\ snapshot.cpu.per_core = <<x>>
              \/ /\ failures > 0 /\ snapshot.cpu.total_utilization = 0
                 /\ snapshot.cpu.per_core \in {<<>>, <<0>>}
           /\ \/ \E m \in seen : /\ Pressure(snapshot, "cpu_some")
                                       = IF m.old THEN 0 ELSE m.cpu_psi
              \/ failures > 0 /\ Pressure(snapshot, "cpu_some") = 0
           /\ \/ \E m \in seen : snapshot.memory.utilization_percent = m.used
              \/ failures > 0 /\ snapshot.memory.utilization_percent = 0
           /\ \/ \E m \in seen : snapshot.memory.used_bytes = m.used
              \/ failures > 0 /\ snapshot.memory.used_bytes = 0
           /\ \/ \E x \in Nat : Between(x, "busy") /\ snapshot.disk = <<<<x>>>>
              \/ failures > 0 /\ snapshot.disk \in {<<>>, <<<<0>>>>}
           /\ \/ \E m \in seen : snapshot.thermal = <<<<20, m.heat>>>>
              \/ failures > 0 /\ snapshot.thermal = <<>>
<1>1. \A x \in {"memory", "psi", "thermal"} :
         \/ \E m \in seen : m \in Machine /\ snapshot[x] = Shown(x, m)
         \/ failures > 0 /\ snapshot[x] \in Blank(x)
  BY FrameParts DEF FrameComplete
<1>2. /\ \A x \in Rates : \/ \E a \in Means(seen) : snapshot[x] = Shown(x, a)
                          \/ failures > 0 /\ snapshot[x] \in Blank(x)
      /\ seen \subseteq Machine
  BY FrameParts DEF FrameComplete
<1>3. ASSUME NEW a \in Means(seen)
      PROVE  a.load \in Nat /\ Between(a.load, "load") /\ a.busy \in Nat /\ Between(a.busy, "busy")
  BY <1>2, <1>3, MeansOfFrame DEF Between
<1>4. \/ \E x \in Nat : /\ Between(x, "load")
                       /\ snapshot.cpu.total_utilization = x
                       /\ snapshot.cpu.per_core = <<x>>
      \/ /\ failures > 0 /\ snapshot.cpu.total_utilization = 0
         /\ snapshot.cpu.per_core \in {<<>>, <<0>>}
  <2>1. CASE \E a \in Means(seen) : snapshot["cpu"] = Shown("cpu", a)
    <3>1. PICK a \in Means(seen) : snapshot["cpu"] = Shown("cpu", a)
      BY <2>1
    <3>2. snapshot.cpu.total_utilization = a.load /\ snapshot.cpu.per_core = <<a.load>>
      BY <3>1, RateParts
    <3> QED
      BY <1>3, <3>1, <3>2
  <2>2. CASE failures > 0 /\ snapshot["cpu"] \in Blank("cpu")
    BY <2>2, BlankParts
  <2> QED
    BY <1>2, <2>1, <2>2 DEF Rates
<1>5. \/ \E x \in Nat : Between(x, "busy") /\ snapshot.disk = <<<<x>>>>
      \/ failures > 0 /\ snapshot.disk \in {<<>>, <<<<0>>>>}
  <2>1. CASE \E a \in Means(seen) : snapshot["disk"] = Shown("disk", a)
    <3>1. PICK a \in Means(seen) : snapshot["disk"] = Shown("disk", a)
      BY <2>1
    <3>2. snapshot.disk = <<<<a.busy>>>>
      BY <3>1, RateParts
    <3> QED
      BY <1>3, <3>1, <3>2
  <2>2. CASE failures > 0 /\ snapshot["disk"] \in Blank("disk")
    BY <2>2, BlankParts
  <2> QED
    BY <1>2, <2>1, <2>2 DEF Rates
<1>6. \/ \E m \in seen : Pressure(snapshot, "cpu_some") = IF m.old THEN 0 ELSE m.cpu_psi
      \/ failures > 0 /\ Pressure(snapshot, "cpu_some") = 0
  BY <1>1, ShownParts, BlankParts DEF Pressure
<1>7. /\ \/ \E m \in seen : snapshot.memory.utilization_percent = m.used
         \/ failures > 0 /\ snapshot.memory.utilization_percent = 0
      /\ \/ \E m \in seen : snapshot.memory.used_bytes = m.used
         \/ failures > 0 /\ snapshot.memory.used_bytes = 0
  BY <1>1, ShownParts, BlankParts
<1>8. \/ \E m \in seen : snapshot.thermal = <<<<20, m.heat>>>>
      \/ failures > 0 /\ snapshot.thermal = <<>>
  BY <1>1, ShownParts, BlankParts
<1> QED
  BY <1>4, <1>5, <1>6, <1>7, <1>8

\* The bars of the cores, and of a memory that could not be read.
LEMMA Bars ==
    /\ \A x : [i \in 1 .. Len(<<x>>) |-> make_progress_bar(<<x>>[i], 20)]
                 = <<make_progress_bar(x, 20)>>
    /\ [i \in 1 .. Len(<<>>) |-> make_progress_bar(<<>>[i], 20)] = <<>>
    /\ make_progress_bar(0, 20) = 0 /\ make_progress_bar(0, 24) = 0
    /\ \A x, y \in Nat : x <= y => make_progress_bar(x, 20) <= make_progress_bar(y, 20)
<1>1. ASSUME NEW x
      PROVE  [i \in 1 .. Len(<<x>>) |-> make_progress_bar(<<x>>[i], 20)]
                 = <<make_progress_bar(x, 20)>>
  <2> DEFINE one == <<x>>
             bar == make_progress_bar(x, 20)
  <2>1. Len(one) = 1 /\ one[1] = x /\ 1 .. 1 = {1}
    OBVIOUS
  <2> HIDE DEF one
  <2>2. [i \in 1 .. Len(one) |-> make_progress_bar(one[i], 20)] = [i \in 1 .. 1 |-> bar]
    BY <2>1
  <2> HIDE DEF bar
  <2>3. [i \in 1 .. 1 |-> bar] = <<bar>>
    <3>1. [i \in 1 .. 1 |-> bar] \in [1 .. 1 -> {bar}]
      OBVIOUS
    <3>2. /\ [i \in 1 .. 1 |-> bar] \in Seq({bar}) /\ Len([i \in 1 .. 1 |-> bar]) = 1
      BY <3>1, FunctionIsSeq
    <3>3. <<bar>> \in Seq({bar}) /\ Len(<<bar>>) = 1 /\ <<bar>>[1] = bar
      OBVIOUS
    <3>4. \A i \in 1 .. 1 : [j \in 1 .. 1 |-> bar][i] = <<bar>>[i]
      BY <3>3
    <3> QED
      BY <3>2, <3>3, <3>4, SeqEqual
  <2> QED
    BY <2>2, <2>3 DEF one, bar
<1>2. [i \in 1 .. Len(<<>>) |-> make_progress_bar(<<>>[i], 20)] = <<>>
  <2> DEFINE bars == [i \in 1 .. Len(<<>>) |-> make_progress_bar(<<>>[i], 20)]
  <2>1. bars \in [1 .. 0 -> {}]
    BY EmptySeq
  <2> HIDE DEF bars
  <2>2. bars \in Seq({}) /\ Len(bars) = 0
    BY <2>1, FunctionIsSeq
  <2> QED
    BY <2>2, EmptySeq DEF bars
<1>3. make_progress_bar(0, 20) = 0 /\ make_progress_bar(0, 24) = 0
  BY DEF make_progress_bar, Least
<1>4. ASSUME NEW x \in Nat, NEW y \in Nat, x <= y
      PROVE  make_progress_bar(x, 20) <= make_progress_bar(y, 20)
  <2>1. /\ Least(100, x) \in Nat /\ Least(100, y) \in Nat
        /\ Least(100, x) <= Least(100, y)
    BY <1>4 DEF Least
  <2>2. \A b, c \in Nat : b <= c => (b * 20) \div 100 <= (c * 20) \div 100
    OBVIOUS
  <2> QED
    BY <2>1, <2>2 DEF make_progress_bar
<1> QED
  BY <1>1, <1>2, <1>3, <1>4

\* A process that the list leaves out was not busier throughout the frame than one
\* it has.
LEMMA TopIsTrue ==
    ASSUME FrameTyped, FrameComplete, NEW count, NEW top \in TopProcesses(count)
    PROVE  \/ \A p \in top, q \in Pids \ top : \E m \in seen : m.usage[p] >= m.usage[q]
           \/ failures > 0 /\ \A i \in top : snapshot.processes[i].cpu_percent = 0
<1> DEFINE list == snapshot.processes
<1>1. PICK S \in SUBSET (1 .. Len(list)) :
         /\ top = {list[i].pid : i \in S}
         /\ \A i \in S, j \in (1 .. Len(list)) \ S : list[i].cpu_percent >= list[j].cpu_percent
  BY DEF TopProcesses, PidsAt
<1>2. /\ \/ \E m \in Means(seen) : list = Rate("processes", m)
         \/ failures > 0 /\ list \in {<<>>, Rate("processes", Still)}
      /\ seen \subseteq Machine
  BY FrameParts DEF FrameComplete, Rates, Shown, Blank
<1> HIDE DEF list
<1>3. \A m : /\ Len(Rate("processes", m)) = 3
             /\ \A i \in 1 .. 3 : /\ Rate("processes", m)[i].pid = i
                                  /\ Rate("processes", m)[i].cpu_percent = m.usage[i]
  <2> SUFFICES ASSUME NEW m
               PROVE  /\ Len(Rate("processes", m)) = 3
                      /\ \A i \in 1 .. 3 : /\ Rate("processes", m)[i].pid = i
                                           /\ Rate("processes", m)[i].cpu_percent = m.usage[i]
    OBVIOUS
  <2> DEFINE row(p) == [pid |-> p, ppid |-> p - 1, cpu_percent |-> m.usage[p]]
             rows == [p \in 1 .. 3 |-> row(p)]
  <2>1. Rate("processes", m) = rows
    BY DEF Rate, Pids
  <2>2. \A p : row(p).pid = p /\ row(p).cpu_percent = m.usage[p]
    OBVIOUS
  <2> HIDE DEF row
  <2>3. rows \in [1 .. 3 -> {row(p) : p \in 1 .. 3}] /\ \A i \in 1 .. 3 : rows[i] = row(i)
    OBVIOUS
  <2>4. Len(rows) = 3
    BY <2>3, FunctionIsSeq
  <2> QED
    BY <2>1, <2>2, <2>3, <2>4
<1>4. CASE \E m \in Means(seen) : list = Rate("processes", m)
  <2>1. PICK m \in Means(seen) : list = Rate("processes", m)
    BY <1>4
  <2>2. /\ Len(list) = 3
        /\ \A i \in 1 .. 3 : list[i].pid = i /\ list[i].cpu_percent = m.usage[i]
    BY <1>3, <2>1
  <2>3. top = S /\ Pids = 1 .. 3
    BY <1>1, <2>2 DEF Pids
  <2>4. ASSUME NEW p \in top, NEW q \in Pids \ top
        PROVE  \E n \in seen : n.usage[p] >= n.usage[q]
    <3>1. p \in S /\ p \in 1 .. 3 /\ q \in (1 .. 3) \ S
      BY <1>1, <2>2, <2>3
    <3>2. list[p].cpu_percent >= list[q].cpu_percent
      BY <1>1, <2>2, <3>1
    <3>3. m.usage[p] >= m.usage[q]
      BY <2>2, <3>1, <3>2
    <3> QED
      BY <1>2, <2>1, <2>3, <3>1, <3>3, MeansOfFrame
  <2> QED
    BY <2>4
<1>5. CASE failures > 0 /\ list = <<>>
  <2>1. 1 .. Len(list) = {}
    BY <1>5, EmptySeq
  <2>2. top = {}
    BY <1>1, <2>1
  <2> QED
    BY <1>5, <2>2
<1>6. CASE failures > 0 /\ list = Rate("processes", Still)
  <2>1. /\ Len(list) = 3
        /\ \A i \in 1 .. 3 : list[i].pid = i /\ list[i].cpu_percent = Still.usage[i]
    BY <1>3, <1>6
  <2>2. \A i \in 1 .. 3 : Still.usage[i] = 0
    BY DEF Still, Pids
  <2>3. top \subseteq 1 .. 3
    BY <1>1, <2>1
  <2>4. \A i \in top : list[i].cpu_percent = 0
    BY <2>1, <2>2, <2>3
  <2> QED
    BY <1>6, <2>4 DEF list
<1> QED
  BY <1>2, <1>4, <1>5, <1>6

\* A frame that is drawn is complete.
LEMMA DrawnIsComplete == FrameInv /\ Drawn => FrameTyped /\ FrameComplete
BY DEF FrameInv, Drawn

\* However the machine changes while a frame is read: the overview does not miss a
\* pressure that lasts from the baseline to the last reading (correlation.cpp and
\* the loop of dashboard.cpp:255).
THEOREM PressureReported == Spec => []LastingPressureIsReported
<1>1. FrameInv => LastingPressureIsReported
  <2> SUFFICES ASSUME FrameInv, Drawn, failures = 0, NEW c \in DOMAIN SignsOf,
                      \A m \in seen : SignsOf[c] \subseteq Signs(m)
               PROVE  /\ c \in Conditions(render_overview.alerts)
                      /\ ~render_overview.healthy
    BY DEF LastingPressureIsReported
  <2>1. FrameTyped /\ FrameComplete /\ ~(failures > 0)
    BY DrawnIsComplete
  <2>2. c \in Conditions(analyze(snapshot))
    BY <2>1, LastingIsReported
  <2>3. c \in Conditions(diagnoses)
    BY <2>1, <2>2 DEF FrameComplete
  <2>4. diagnoses # <<>>
    <3>1. Conditions(<<>>) = {}
      BY EmptySeq DEF Conditions
    <3> QED
      BY <2>3, <3>1
  <2>5. render_overview.alerts = diagnoses /\ (render_overview.healthy <=> diagnoses = <<>>)
    BY DEF render_overview
  <2> QED
    BY <2>3, <2>4, <2>5
<1> QED
  BY <1>1, FrameInvariant, PTL

\* However the machine changes and whatever readings fail (dashboard.cpp:278-308):
\* what a screen shows was so in the time of its frame or, being a mean over that
\* time, within what was so, other than zeros after a failure.
THEOREM ScreenWasTrue == Spec => []ShownWasTrue
<1>1. FrameInv => ShownWasTrue
  <2> SUFFICES ASSUME FrameInv, Drawn
               PROVE  ShownWasTrue
    BY DEF ShownWasTrue
  <2>1. FrameTyped /\ FrameComplete
    BY DrawnIsComplete
  <2> DEFINE Shows(value, missing, of(_)) == \/ \E m \in seen : value = of(m)
                                             \/ failures > 0 /\ value \in missing
             Within(value, of(_)) == \/ \E low, high \in seen : of(low) <= value /\ value <= of(high)
                                     \/ failures > 0 /\ value = 0
  <2>0. seen \subseteq Machine
    BY <2>1, FrameParts DEF FrameComplete
  <2>2. \A c \in Conditions(render_overview.alerts) :
           \A sign \in SignsOf[c] : \E m \in seen : sign \in Signs(m)
    <3>1. render_overview.alerts = analyze(snapshot)
      BY <2>1 DEF render_overview, FrameComplete
    <3> QED
      BY <2>1, <3>1, ReportedWasSo
  <2>3. /\ Within(render_footer.cpu, LAMBDA m : m.load)
        /\ Shows(render_footer.psi, {0}, LAMBDA m : IF m.old THEN 0 ELSE m.cpu_psi)
    <3>1. /\ render_footer.cpu = snapshot.cpu.total_utilization
          /\ render_footer.psi = Pressure(snapshot, "cpu_some")
      BY DEF render_footer
    <3> QED
      BY <2>1, <3>1, NumbersAreTrue DEF Between
  <2>4. \/ /\ Len(render_cpu_cores.cores) = 1
           /\ Within(render_cpu_cores.cores[1], LAMBDA m : make_progress_bar(m.load, 20))
        \/ failures > 0 /\ render_cpu_cores.cores = <<>>
    <3>1. render_cpu_cores.cores
             = [i \in 1 .. Len(snapshot.cpu.per_core) |->
                  make_progress_bar(snapshot.cpu.per_core[i], 20)]
      BY DEF render_cpu_cores
    <3> DEFINE list == snapshot.cpu.per_core
    <3>2. \/ \E x \in Nat : Between(x, "load") /\ list = <<x>>
          \/ failures > 0 /\ list \in {<<>>, <<0>>}
      BY <2>1, NumbersAreTrue
    <3> HIDE DEF list
    <3>3. CASE \E x \in Nat : Between(x, "load") /\ list = <<x>>
      <4>1. PICK x \in Nat : Between(x, "load") /\ list = <<x>>
        BY <3>3
      <4>2. render_cpu_cores.cores = <<make_progress_bar(x, 20)>>
        BY <3>1, <4>1, Bars DEF list
      <4>3. PICK low \in seen, high \in seen : low.load <= x /\ x <= high.load
        BY <4>1 DEF Between
      <4>4. low.load \in Nat /\ high.load \in Nat
        BY <2>0 DEF Machine
      <4>5. /\ make_progress_bar(low.load, 20) <= make_progress_bar(x, 20)
            /\ make_progress_bar(x, 20) <= make_progress_bar(high.load, 20)
        BY <4>3, <4>4, Bars
      <4> QED
        BY <4>2, <4>5
    <3>4. CASE failures > 0 /\ list = <<>>
      BY <3>1, <3>4, Bars DEF list
    <3>5. CASE failures > 0 /\ list = <<0>>
      <4>1. render_cpu_cores.cores = <<0>>
        BY <3>1, <3>5, Bars DEF list
      <4> QED
        BY <3>5, <4>1
    <3> QED
      BY <3>2, <3>3, <3>4, <3>5
  <2>5. Shows(render_overview.memory, {0}, LAMBDA m : make_progress_bar(m.used, 24))
    <3>1. render_overview.memory = make_progress_bar(snapshot.memory.utilization_percent, 24)
      BY DEF render_overview
    <3> QED
      BY <2>1, <3>1, NumbersAreTrue, Bars
  <2>6. /\ Shows(render_memory_disk.used, {0}, LAMBDA m : m.used)
        /\ Shows(render_memory_disk.sensors, {<<>>}, LAMBDA m : <<<<20, m.heat>>>>)
    <3>1. /\ render_memory_disk.used = snapshot.memory.used_bytes
          /\ render_memory_disk.sensors = snapshot.thermal
      BY DEF render_memory_disk
    <3> QED
      BY <2>1, <3>1, NumbersAreTrue
  <2>8. \/ /\ Len(render_memory_disk.disk) = 1 /\ Len(render_memory_disk.disk[1]) = 1
           /\ Within(render_memory_disk.disk[1][1], LAMBDA m : m.busy)
        \/ failures > 0 /\ render_memory_disk.disk = <<>>
    <3> DEFINE disk == render_memory_disk.disk
    <3>1. disk = snapshot.disk
      BY DEF render_memory_disk
    <3>2. \/ \E x \in Nat : Between(x, "busy") /\ disk = <<<<x>>>>
          \/ failures > 0 /\ disk \in {<<>>, <<<<0>>>>}
      BY <2>1, <3>1, NumbersAreTrue
    <3> HIDE DEF disk
    <3>3. \A x : disk = <<<<x>>>> => Len(disk) = 1 /\ Len(disk[1]) = 1 /\ disk[1][1] = x
      OBVIOUS
    <3>4. \/ Len(disk) = 1 /\ Len(disk[1]) = 1 /\ Within(disk[1][1], LAMBDA m : m.busy)
          \/ failures > 0 /\ disk = <<>>
      BY <3>2, <3>3 DEF Between
    <3> QED
      BY <3>4 DEF disk
  <2>7. \A top \in render_overview.top \union render_processes.top :
           \/ \A p \in top, q \in Pids \ top : \E m \in seen : m.usage[p] >= m.usage[q]
           \/ failures > 0 /\ \A i \in top : snapshot.processes[i].cpu_percent = 0
    <3>1. /\ render_overview.top = TopProcesses(TOP_OVERVIEW)
          /\ render_processes.top = TopProcesses(TOP_LIST)
      BY DEF render_overview, render_processes
    <3> QED
      BY <2>1, <3>1, TopIsTrue
  <2> QED
    BY <2>2, <2>3, <2>4, <2>5, <2>6, <2>7, <2>8 DEF ShownWasTrue
<1> QED
  BY <1>1, FrameInvariant, PTL
===============================================================================
