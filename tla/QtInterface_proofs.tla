--------------------------- MODULE QtInterface_proofs ---------------------------
(***************************************************************************)
(* Proofs about the two state machines of the desktop interface:           *)
(*                                                                         *)
(*   TelemetryPipeline, for any samples, any memory, any number of         *)
(*   snapshots and any lengths of the ring buffer and the charts;          *)
(*                                                                         *)
(*   HistoryPlayback, for any values, any store of any length, any reach   *)
(*   of a query and any length of the chart.                               *)
(***************************************************************************)
EXTENDS TelemetryPipeline, HistoryPlayback, SequenceTheorems, FiniteSetTheorems, TLAPS

-------------------------------------------------------------------------------
(* Sequences.                                                              *)

\* A function on an interval from 1 is a sequence.
LEMMA FunctionIsSeq ==
    ASSUME NEW S, NEW n \in Nat, NEW f \in [1 .. n -> S]
    PROVE  f \in Seq(S) /\ Len(f) = n
OBVIOUS

\* The latest elements of a sequence are a sequence again.
LEMMA LatestProperties ==
    ASSUME NEW c \in Nat \ {0}, NEW S, NEW all \in Seq(S)
    PROVE  LET kept == Smaller(c, Len(all))
           IN  /\ kept \in Nat
               /\ Latest(c, all) \in Seq(S)
               /\ Len(Latest(c, all)) = kept
               /\ \A i \in 1 .. kept : Latest(c, all)[i] = all[Len(all) - kept + i]
<1> DEFINE kept == Smaller(c, Len(all))
<1>1. Len(all) \in Nat /\ kept \in Nat /\ kept <= Len(all)
  BY LenProperties DEF Smaller
<1>2. \A i \in 1 .. kept : Len(all) - kept + i \in 1 .. Len(all)
  BY <1>1
<1>3. \A i \in 1 .. kept : all[Len(all) - kept + i] \in S
  BY <1>2, ElementOfSeq
<1>4. Latest(c, all) = [i \in 1 .. kept |-> all[Len(all) - kept + i]]
  BY DEF Latest
<1> HIDE DEF kept
<1>5. Latest(c, all) \in [1 .. kept -> S]
  BY <1>3, <1>4
<1>6. Latest(c, all) \in Seq(S) /\ Len(Latest(c, all)) = kept
  BY <1>1, <1>5, FunctionIsSeq
<1>7. \A i \in 1 .. kept : Latest(c, all)[i] = all[Len(all) - kept + i]
  BY <1>4
<1> QED
  BY <1>1, <1>6, <1>7 DEF kept

\* A bounded buffer that holds the latest of all elements holds, after a push, the
\* latest of all elements and the new one; at its end is the new one.
LEMMA PushLatest ==
    ASSUME NEW c \in Nat \ {0}, NEW S, NEW all \in Seq(S), NEW x \in S
    PROVE  LET buffer == PushBounded(Latest(c, all), x, c)
           IN  /\ buffer = Latest(c, Append(all, x))
               /\ Len(buffer) \in Nat \ {0}
               /\ buffer[Len(buffer)] = x
<1> DEFINE kept == Smaller(c, Len(all))
           old == Latest(c, all)
           pushed == Append(old, x)
           longer == Append(all, x)
           new == Latest(c, longer)
<1>1. Len(all) \in Nat /\ c \in Nat
  BY LenProperties
<1>2. /\ longer \in Seq(S)
      /\ Len(longer) = Len(all) + 1
      /\ \A i \in 1 .. Len(all) : longer[i] = all[i]
      /\ longer[Len(all) + 1] = x
  BY AppendProperties
<1> HIDE DEF longer
<1>3. /\ old \in Seq(S) /\ Len(old) = kept
      /\ \A i \in 1 .. kept : old[i] = all[Len(all) - kept + i]
  BY LatestProperties
<1>4. /\ new \in Seq(S) /\ Len(new) = Smaller(c, Len(all) + 1)
      /\ \A i \in 1 .. Len(new) : new[i] = longer[Len(all) + 1 - Len(new) + i]
  <2>1. /\ new \in Seq(S) /\ Len(new) = Smaller(c, Len(longer))
        /\ \A i \in 1 .. Smaller(c, Len(longer)) :
              new[i] = longer[Len(longer) - Smaller(c, Len(longer)) + i]
    BY <1>2, LatestProperties
  <2> HIDE DEF new
  <2>2. new \in Seq(S) /\ Len(new) = Smaller(c, Len(all) + 1)
    BY <1>2, <2>1
  <2>3. \A i \in 1 .. Len(new) : new[i] = longer[Len(all) + 1 - Len(new) + i]
    <3>1. Len(longer) = Len(all) + 1 /\ Smaller(c, Len(longer)) = Len(new)
      BY <1>2, <2>2
    <3> QED
      BY <2>1, <3>1
  <2> QED
    BY <2>2, <2>3
<1>5. /\ pushed \in Seq(S)
      /\ Len(pushed) = kept + 1
      /\ \A i \in 1 .. kept : pushed[i] = old[i]
      /\ pushed[kept + 1] = x
  BY <1>3, AppendProperties
<1>6. PushBounded(old, x, c) = IF kept + 1 > c THEN Tail(pushed) ELSE pushed
  BY <1>3 DEF PushBounded
<1> HIDE DEF new, pushed, old
<1>7. CASE Len(all) >= c
  <2>1. kept = c /\ Len(new) = c
    BY <1>7, <1>1, <1>4 DEF Smaller
  <2>2. /\ Tail(pushed) \in Seq(S)
        /\ Len(Tail(pushed)) = c
        /\ \A i \in 1 .. c : Tail(pushed)[i] = pushed[i + 1]
    BY <1>5, <2>1, HeadTailProperties, EmptySeq
  <2>3. ASSUME NEW i \in 1 .. c
        PROVE  Tail(pushed)[i] = new[i]
    <3>1. new[i] = longer[Len(all) + 1 - c + i]
      BY <1>4, <2>1
    <3>2. CASE i = c
      <4>1. Len(all) + 1 - c + i = Len(all) + 1
        BY <3>2, <1>1
      <4>2. Tail(pushed)[i] = pushed[kept + 1]
        BY <3>2, <2>2, <2>1
      <4> QED
        BY <4>1, <4>2, <3>1, <1>5, <1>2
    <3>3. CASE i < c
      <4>1. i + 1 \in 1 .. kept /\ Len(all) + 1 - c + i \in 1 .. Len(all)
        BY <3>3, <2>1, <1>1, <1>7
      <4>2. Tail(pushed)[i] = all[Len(all) - c + (i + 1)]
        BY <4>1, <2>2, <2>1, <1>5, <1>3
      <4>3. Len(all) - c + (i + 1) = Len(all) + 1 - c + i
        BY <1>1
      <4> QED
        BY <4>1, <4>2, <4>3, <3>1, <1>2
    <3>4. i = c \/ i < c
      BY <1>1
    <3> QED
      BY <3>2, <3>3, <3>4
  <2>4. Tail(pushed) = new
    BY <2>1, <2>2, <2>3, <1>4, SeqEqual
  <2>5. Tail(pushed)[c] = x
    BY <2>2, <2>1, <1>5
  <2>6. PushBounded(old, x, c) = Tail(pushed)
    BY <1>6, <2>1
  <2> QED
    BY <2>2, <2>4, <2>5, <2>6 DEF old, new, longer
<1>8. CASE Len(all) < c
  <2>1. kept = Len(all) /\ Len(new) = Len(all) + 1
    BY <1>8, <1>1, <1>4 DEF Smaller
  <2>2. ASSUME NEW i \in 1 .. Len(all) + 1
        PROVE  pushed[i] = new[i]
    <3>1. new[i] = longer[i]
      <4>1. Len(all) + 1 - Len(new) + i = i
        BY <2>1, <1>1
      <4> QED
        BY <4>1, <2>1, <1>4
    <3>2. CASE i = Len(all) + 1
      BY <3>1, <3>2, <1>5, <2>1, <1>2
    <3>3. CASE i < Len(all) + 1
      <4>1. i \in 1 .. Len(all) /\ Len(all) - kept + i = i
        BY <3>3, <2>1, <1>1
      <4> QED
        BY <4>1, <3>1, <1>5, <1>3, <2>1, <1>2
    <3> QED
      BY <3>2, <3>3, <1>1
  <2>3. pushed = new
    BY <1>5, <1>4, <2>1, <2>2, SeqEqual
  <2>4. PushBounded(old, x, c) = pushed
    BY <1>6, <2>1, <1>8, <1>1
  <2> QED
    BY <2>1, <2>3, <2>4, <1>5, <1>1 DEF old, new, longer
<1> QED
  BY <1>7, <1>8, <1>1

\* Handing over the first element of a queue keeps the order of all elements.
LEMMA HandOver ==
    ASSUME NEW S, NEW d \in Seq(S), NEW e \in Seq(S), e # <<>>
    PROVE  /\ Head(e) \in S
           /\ Tail(e) \in Seq(S)
           /\ Append(d, Head(e)) \in Seq(S)
           /\ Append(d, Head(e)) \o Tail(e) = d \o e
<1>1. Head(e) \in S /\ Tail(e) \in Seq(S) /\ e = <<Head(e)>> \o Tail(e)
  BY HeadTailProperties, HeadTailAppend, ConcatProperties, SeqEqual
<1>2. Append(d, Head(e)) = d \o <<Head(e)>> /\ Append(d, Head(e)) \in Seq(S)
  BY <1>1, AppendIsConcat, AppendProperties
<1>3. <<Head(e)>> \in Seq(S)
  BY <1>1
<1>4. (d \o <<Head(e)>>) \o Tail(e) = d \o (<<Head(e)>> \o Tail(e))
  BY <1>1, <1>3, ConcatAssociative
<1> QED
  BY <1>1, <1>2, <1>4

\* What is put into the queue comes after everything else.
LEMMA PutLast ==
    ASSUME NEW S, NEW d \in Seq(S), NEW e \in Seq(S), NEW x \in S
    PROVE  d \o Append(e, x) = Append(d \o e, x)
<1>1. Append(e, x) = e \o <<x>> /\ Append(d \o e, x) = (d \o e) \o <<x>>
  BY AppendIsConcat, ConcatProperties
<1>2. <<x>> \in Seq(S)
  OBVIOUS
<1> QED
  BY <1>1, <1>2, ConcatAssociative

\* Applying a function to each element commutes with appending.
LEMMA MapAppend ==
    ASSUME NEW S, NEW T, NEW f \in [S -> T], NEW d \in Seq(S), NEW x \in S
    PROVE  LET Map(q) == [i \in 1 .. Len(q) |-> f[q[i]]]
           IN  Map(d) \in Seq(T) /\ Map(Append(d, x)) = Append(Map(d), f[x])
<1> DEFINE Map(q) == [i \in 1 .. Len(q) |-> f[q[i]]]
           longer == Append(d, x)
<1>1. Len(d) \in Nat /\ \A i \in 1 .. Len(d) : d[i] \in S
  BY LenProperties, ElementOfSeq
<1>2. /\ longer \in Seq(S) /\ Len(longer) = Len(d) + 1
      /\ \A i \in 1 .. Len(d) : longer[i] = d[i]
      /\ longer[Len(d) + 1] = x
  BY AppendProperties
<1> HIDE DEF longer
<1>3. Map(d) \in [1 .. Len(d) -> T]
  BY <1>1
<1>4. Map(d) \in Seq(T) /\ Len(Map(d)) = Len(d)
  BY <1>1, <1>3, FunctionIsSeq
<1>5. \A i \in 1 .. Len(longer) : longer[i] \in S
  BY <1>2, ElementOfSeq
<1>6. Map(longer) \in [1 .. Len(d) + 1 -> T]
  BY <1>2, <1>5
<1>7. Map(longer) \in Seq(T) /\ Len(Map(longer)) = Len(d) + 1
  BY <1>1, <1>6, FunctionIsSeq
<1>8. \A i \in 1 .. Len(d) : Map(d)[i] = f[d[i]]
  OBVIOUS
<1>9. \A i \in 1 .. Len(d) + 1 : Map(longer)[i] = f[longer[i]]
  BY <1>2
<1>10. f[x] \in T
  OBVIOUS
<1> HIDE DEF Map
<1>11. /\ Append(Map(d), f[x]) \in Seq(T)
       /\ Len(Append(Map(d), f[x])) = Len(d) + 1
       /\ \A i \in 1 .. Len(d) : Append(Map(d), f[x])[i] = Map(d)[i]
       /\ Append(Map(d), f[x])[Len(d) + 1] = f[x]
  BY <1>4, <1>10, AppendProperties
<1>12. ASSUME NEW i \in 1 .. Len(d) + 1
       PROVE  Map(longer)[i] = Append(Map(d), f[x])[i]
  <2>1. CASE i \in 1 .. Len(d)
    BY <2>1, <1>2, <1>8, <1>9, <1>11
  <2>2. CASE i = Len(d) + 1
    BY <2>2, <1>2, <1>9, <1>11
  <2>3. i \in 1 .. Len(d) \/ i = Len(d) + 1
    BY <1>1
  <2> QED
    BY <2>1, <2>2, <2>3
<1>13. Map(longer) = Append(Map(d), f[x])
  BY <1>7, <1>11, <1>12, SeqEqual
<1> QED
  BY <1>4, <1>13 DEF Map, longer

-------------------------------------------------------------------------------
(* What may be posted.                                                     *)

\* The snapshots of both kinds of callers, before and after they get their time.
Snapshots == Samples \union {Polled(load, readable, meminfo) :
                               load \in Loads, readable \in BOOLEAN, meminfo \in Meminfos}
Postable == {[s EXCEPT !.timestamp = n] : s \in Snapshots, n \in Nat}

\* Every variable that holds snapshots has its type.
Types == /\ posted \in Nat
         /\ events \in Seq(Postable)
         /\ delivered \in Seq(Postable)

\* Every snapshot has the fields of one, and lists of cores and processes.
LEMMA SnapshotFields ==
    ASSUME NEW s \in Snapshots
    PROVE  /\ s = [field \in DOMAIN NoSnapshot |-> s[field]]
           /\ s.timestamp = 0
           /\ s.cpu.per_core \in Seq(Nat)
           /\ s.processes \in Seq([pid : Nat, ppid : Nat, cpu_percent : Nat])
<1>1. CASE s \in Samples
  BY <1>1, PipelineAssumption
<1>2. ASSUME NEW load \in Loads, NEW readable \in BOOLEAN, NEW meminfo \in Meminfos,
             s = Polled(load, readable, meminfo)
      PROVE  /\ s = [field \in DOMAIN NoSnapshot |-> s[field]]
             /\ s.timestamp = 0
             /\ s.cpu.per_core \in Seq(Nat)
             /\ s.processes \in Seq([pid : Nat, ppid : Nat, cpu_percent : Nat])
  <2>1. /\ s = [field \in DOMAIN NoSnapshot |-> s[field]]
        /\ s.timestamp = 0
        /\ s.cpu = IF readable THEN CpuReading(load, FALSE) ELSE NoCpu
        /\ s.processes = <<>>
    BY <1>2 DEF Polled, NoSnapshot
  <2>2. [i \in 1 .. CORES |-> 0] \in Seq(Nat)
    BY PipelineAssumption
  <2>3. CpuReading(load, FALSE).per_core \in Seq(Nat)
    BY <2>2 DEF CpuReading, NoCpu
  <2>4. NoCpu.per_core \in Seq(Nat)
    BY DEF NoCpu
  <2>5. s.cpu.per_core \in Seq(Nat)
    BY <2>1, <2>3, <2>4
  <2>6. s.processes \in Seq([pid : Nat, ppid : Nat, cpu_percent : Nat])
    BY <2>1, EmptySeq
  <2> QED
    BY <2>1, <2>5, <2>6
<1> QED
  BY <1>1, <1>2 DEF Snapshots

\* The time it gets changes nothing else of a snapshot.
LEMMA Posted ==
    ASSUME NEW s \in Snapshots, NEW n \in Nat
    PROVE  LET event == [s EXCEPT !.timestamp = n]
           IN  /\ event \in Postable
               /\ event.timestamp = n
               /\ event.cpu = s.cpu
               /\ event.processes = s.processes
<1>1. /\ DOMAIN s = {"timestamp", "cpu", "memory", "processes", "gpu", "thermal", "psi",
                     "disk"}
      /\ s = [field \in DOMAIN s |-> s[field]]
      /\ s.timestamp = 0
  BY SnapshotFields DEF NoSnapshot
<1>2. [s EXCEPT !.timestamp = n] \in Postable
  BY DEF Postable
<1> QED
  BY <1>1, <1>2

\* What every element of the sequences has, which its type stands for.
LEMMA PostableFields ==
    ASSUME NEW s \in Postable
    PROVE  /\ s.timestamp \in Nat
           /\ s.cpu.per_core \in Seq(Nat)
           /\ s.processes \in Seq([pid : Nat, ppid : Nat, cpu_percent : Nat])
<1>1. PICK old \in Snapshots, n \in Nat : s = [old EXCEPT !.timestamp = n]
  BY DEF Postable
<1> QED
  BY <1>1, Posted, SnapshotFields

\* A step posts one snapshot, delivers one, or touches neither queue nor buffers
\* nor views.
LEMMA Steps ==
    ASSUME [Next]_vars
    PROVE  \/ \E s \in Snapshots : post_snapshot(s)
           \/ Deliver
           \/ UNCHANGED <<posted, events, delivered, model, pages, incidents, status_label_>>
<1>1. CASE poll_telemetry
  BY <1>1 DEF poll_telemetry, Snapshots
<1>2. CASE Post
  BY <1>2 DEF Post, Snapshots
<1>3. CASE SelectProcess \/ SelectIncident \/ Navigate \/ UNCHANGED vars
  BY <1>3 DEF SelectProcess, SelectIncident, Navigate, vars
<1> QED
  BY <1>1, <1>2, <1>3 DEF Next

-------------------------------------------------------------------------------
(* The event queue and the buffers.                                        *)

\* Nothing posted is lost or overtaken on its way to the model.
InOrder == /\ Len(delivered \o events) = posted
           /\ \A i \in 1 .. posted : (delivered \o events)[i].timestamp = i

Cpu(s) == s.cpu.total_utilization
Memory(s) == s.memory.utilization_percent

\* The three buffers stand for all that was delivered.
BuffersFollow ==
    /\ history_buffer_ = Latest(MAX_RING_BUFFER_SIZE, delivered)
    /\ cpu_chart_ = Latest(MAX_POINTS, [i \in 1 .. Len(delivered) |-> Cpu(delivered[i])])
    /\ mem_chart_ = Latest(MAX_POINTS, [i \in 1 .. Len(delivered) |-> Memory(delivered[i])])

\* Posting keeps types, order and buffers.
LEMMA PostKeepsOrder ==
    ASSUME Types, InOrder, NEW s \in Snapshots, post_snapshot(s)
    PROVE  Types' /\ InOrder'
<1> DEFINE event == [s EXCEPT !.timestamp = posted + 1]
           all == delivered \o events
<1>1. /\ posted \in Nat /\ events \in Seq(Postable) /\ delivered \in Seq(Postable)
      /\ posted' = posted + 1 /\ events' = Append(events, event) /\ delivered' = delivered
  BY DEF Types, post_snapshot
<1>2. event \in Postable /\ event.timestamp = posted + 1
  <2>1. posted + 1 \in Nat
    BY <1>1
  <2> QED
    BY <2>1, Posted
<1> HIDE DEF event
<1>3. Types'
  BY <1>1, <1>2, AppendProperties DEF Types
<1>4. delivered' \o events' = Append(all, event)
  BY <1>1, <1>2, PutLast
<1>5. all \in Seq(Postable) /\ Len(all) = posted
      /\ \A i \in 1 .. posted : all[i].timestamp = i
  BY <1>1, ConcatProperties DEF InOrder
<1> HIDE DEF all
<1>6. /\ Len(Append(all, event)) = posted + 1
      /\ \A i \in 1 .. posted : Append(all, event)[i] = all[i]
      /\ Append(all, event)[posted + 1] = event
  BY <1>2, <1>5, AppendProperties
<1>7. ASSUME NEW i \in 1 .. posted + 1
      PROVE  Append(all, event)[i].timestamp = i
  <2>1. i \in 1 .. posted \/ i = posted + 1
    BY <1>1
  <2> QED
    BY <2>1, <1>2, <1>5, <1>6
<1>8. InOrder'
  BY <1>1, <1>4, <1>6, <1>7 DEF InOrder
<1> QED
  BY <1>3, <1>8

\* Delivering keeps types and order.
LEMMA DeliverKeepsOrder ==
    ASSUME Types, InOrder, Deliver
    PROVE  Types' /\ InOrder'
<1>1. /\ events # <<>> /\ events' = Tail(events)
      /\ delivered' = Append(delivered, Head(events)) /\ posted' = posted
  BY DEF Deliver, Take
<1>2. events \in Seq(Postable) /\ delivered \in Seq(Postable) /\ posted \in Nat
  BY DEF Types
<1>3. /\ events' \in Seq(Postable) /\ delivered' \in Seq(Postable)
      /\ delivered' \o events' = delivered \o events
  BY <1>1, <1>2, HandOver
<1> QED
  BY <1>1, <1>2, <1>3 DEF Types, InOrder

\* What is delivered is a snapshot, and follows what was delivered before.
LEMMA Delivered ==
    ASSUME Types, Deliver
    PROVE  /\ Head(events) \in Postable
           /\ delivered \in Seq(Postable)
           /\ delivered' = Append(delivered, Head(events))
           /\ delivered' # <<>>
<1>1. events # <<>> /\ delivered' = Append(delivered, Head(events))
  BY DEF Deliver, Take
<1>2. events \in Seq(Postable) /\ delivered \in Seq(Postable)
  BY DEF Types
<1> QED
  BY <1>1, <1>2, HeadTailProperties, AppendProperties

\* The ring buffer takes over the delivered snapshot.
LEMMA RingFollows ==
    ASSUME Types, BuffersFollow, Deliver
    PROVE  /\ history_buffer_' = Latest(MAX_RING_BUFFER_SIZE, delivered')
           /\ history_buffer_'[Len(history_buffer_')] = Head(events)
<1>1. history_buffer_' = PushBounded(history_buffer_, Head(events), MAX_RING_BUFFER_SIZE)
  BY DEF Deliver
<1>2. MAX_RING_BUFFER_SIZE \in Nat \ {0}
  BY PipelineAssumption
<1> DEFINE buffer == PushBounded(Latest(MAX_RING_BUFFER_SIZE, delivered), Head(events),
                                 MAX_RING_BUFFER_SIZE)
<1>3. buffer = Latest(MAX_RING_BUFFER_SIZE, Append(delivered, Head(events)))
      /\ buffer[Len(buffer)] = Head(events)
  BY <1>2, Delivered, PushLatest
<1>4. history_buffer_' = buffer
  BY <1>1 DEF BuffersFollow
<1> HIDE DEF buffer
<1> QED
  BY <1>3, <1>4, Delivered

\* The chart of the first page takes over the load of the delivered snapshot.
LEMMA CpuChartFollows ==
    ASSUME Types, BuffersFollow, Deliver
    PROVE  /\ cpu_chart_' = Latest(MAX_POINTS, [i \in 1 .. Len(delivered') |->
                                                  Cpu(delivered'[i])])
           /\ cpu_chart_'[Len(cpu_chart_')] = Cpu(Head(events))
<1> DEFINE T == {Cpu(s) : s \in Postable}
           f == [s \in Postable |-> Cpu(s)]
           Map(q) == [i \in 1 .. Len(q) |-> f[q[i]]]
           s == Head(events)
           loads == Map(delivered)
<1>1. f \in [Postable -> T] /\ f[s] = Cpu(s) /\ f[s] \in T
  BY Delivered
<1>2. ASSUME NEW q \in Seq(Postable)
      PROVE  Map(q) = [i \in 1 .. Len(q) |-> Cpu(q[i])]
  BY ElementOfSeq
<1>3. delivered' \in Seq(Postable)
  BY Delivered, AppendProperties
<1> HIDE DEF f, T
<1>4. loads \in Seq(T) /\ Map(delivered') = Append(loads, f[s])
  BY <1>1, Delivered, MapAppend
<1>5. cpu_chart_' = PushBounded(cpu_chart_, f[s], MAX_POINTS)
  BY <1>1 DEF Deliver, DashboardPage, append_sample, Cpu
<1>6. cpu_chart_ = Latest(MAX_POINTS, loads)
  BY <1>2, Delivered DEF BuffersFollow
<1>7. MAX_POINTS \in Nat \ {0}
  BY PipelineAssumption
<1> HIDE DEF loads
<1>8. /\ cpu_chart_' = Latest(MAX_POINTS, Append(loads, f[s]))
      /\ cpu_chart_'[Len(cpu_chart_')] = f[s]
  <2> DEFINE buffer == PushBounded(Latest(MAX_POINTS, loads), f[s], MAX_POINTS)
  <2>1. buffer = Latest(MAX_POINTS, Append(loads, f[s])) /\ buffer[Len(buffer)] = f[s]
    BY <1>1, <1>4, <1>7, PushLatest
  <2>2. cpu_chart_' = buffer
    BY <1>5, <1>6
  <2> HIDE DEF buffer
  <2> QED
    BY <2>1, <2>2
<1> QED
  BY <1>1, <1>2, <1>3, <1>4, <1>8

\* So does the chart of the memory.
LEMMA MemoryChartFollows ==
    ASSUME Types, BuffersFollow, Deliver
    PROVE  mem_chart_' = Latest(MAX_POINTS, [i \in 1 .. Len(delivered') |->
                                               Memory(delivered'[i])])
<1> DEFINE T == {Memory(s) : s \in Postable}
           f == [s \in Postable |-> Memory(s)]
           Map(q) == [i \in 1 .. Len(q) |-> f[q[i]]]
           s == Head(events)
           used == Map(delivered)
<1>1. f \in [Postable -> T] /\ f[s] = Memory(s) /\ f[s] \in T
  BY Delivered
<1>2. ASSUME NEW q \in Seq(Postable)
      PROVE  Map(q) = [i \in 1 .. Len(q) |-> Memory(q[i])]
  BY ElementOfSeq
<1>3. delivered' \in Seq(Postable)
  BY Delivered, AppendProperties
<1> HIDE DEF f, T
<1>4. used \in Seq(T) /\ Map(delivered') = Append(used, f[s])
  BY <1>1, Delivered, MapAppend
<1>5. mem_chart_' = PushBounded(mem_chart_, f[s], MAX_POINTS)
  BY <1>1 DEF Deliver, DashboardPage, append_sample, Memory
<1>6. mem_chart_ = Latest(MAX_POINTS, used)
  BY <1>2, Delivered DEF BuffersFollow
<1>7. MAX_POINTS \in Nat \ {0}
  BY PipelineAssumption
<1> HIDE DEF used
<1>8. mem_chart_' = Latest(MAX_POINTS, Append(used, f[s]))
  BY <1>1, <1>4, <1>5, <1>6, <1>7, PushLatest
<1> QED
  BY <1>2, <1>3, <1>4, <1>8

\* The inductive invariant of the queue and the buffers.
IInv == Types /\ InOrder /\ BuffersFollow

\* It holds at the beginning and in every step.
LEMMA QueueInvariant == Spec => []IInv
<1>1. Init => IInv
  <2> SUFFICES ASSUME Init
               PROVE  IInv
    OBVIOUS
  <2>1. posted = 0 /\ events = <<>> /\ delivered = <<>>
    BY DEF Init
  <2>2. Types
    BY <2>1, EmptySeq DEF Types
  <2>3. delivered \o events = <<>> /\ Len(delivered \o events) = 0
    BY <2>1, <2>2, EmptySeq, ConcatEmptySeq DEF Types
  <2>4. InOrder
    BY <2>1, <2>3 DEF InOrder
  <2>5. ASSUME NEW c \in Nat \ {0}
        PROVE  Latest(c, <<>>) = <<>>
    <3>1. Len(<<>>) = 0 /\ Smaller(c, 0) = 0
      BY EmptySeq DEF Smaller
    <3> QED
      BY <3>1 DEF Latest
  <2>6. /\ [i \in 1 .. Len(delivered) |-> Cpu(delivered[i])] = <<>>
        /\ [i \in 1 .. Len(delivered) |-> Memory(delivered[i])] = <<>>
    BY <2>1
  <2>7. MAX_POINTS \in Nat \ {0} /\ MAX_RING_BUFFER_SIZE \in Nat \ {0}
    BY PipelineAssumption
  <2>8. history_buffer_ = <<>> /\ cpu_chart_ = <<>> /\ mem_chart_ = <<>>
    BY DEF Init
  <2>9. BuffersFollow
    BY <2>1, <2>5, <2>6, <2>7, <2>8 DEF BuffersFollow
  <2> QED
    BY <2>2, <2>4, <2>9 DEF IInv
<1>2. IInv /\ [Next]_vars => IInv'
  <2> SUFFICES ASSUME IInv, [Next]_vars
               PROVE  IInv'
    OBVIOUS
  <2>1. ASSUME NEW s \in Snapshots, post_snapshot(s)
        PROVE  IInv'
    <3>1. Types' /\ InOrder'
      BY <2>1, PostKeepsOrder DEF IInv
    <3>2. BuffersFollow'
      BY <2>1 DEF IInv, BuffersFollow, post_snapshot, model, pages
    <3> QED
      BY <3>1, <3>2 DEF IInv
  <2>2. CASE Deliver
    BY <2>2, DeliverKeepsOrder, RingFollows, CpuChartFollows, MemoryChartFollows
       DEF IInv, BuffersFollow
  <2>3. CASE UNCHANGED <<posted, events, delivered, model, pages>>
    BY <2>3 DEF IInv, Types, InOrder, BuffersFollow, model, pages
  <2> QED
    BY <2>1, <2>2, <2>3, Steps
<1> QED
  BY <1>1, <1>2, PTL DEF Spec

\* Whatever the lengths of the ring buffer and the charts: both hold the latest of
\* all snapshots that were delivered, which are all that were posted, in the order
\* of their posting (telemetry_model.cpp:23, telemetry_chart.cpp:62).
THEOREM ChartsCorrect == Spec => []ChartsFollowRing
<1>1. IInv => ChartsFollowRing
  BY DEF IInv, InOrder, BuffersFollow, ChartsFollowRing, Cpu, Memory
<1> QED
  BY <1>1, QueueInvariant, PTL

-------------------------------------------------------------------------------
(* The views.                                                              *)

\* Induction over the numbers as a statement about sets.
LEMMA SetInduction ==
    ASSUME NEW S, 0 \in S, \A n \in Nat : n \in S => n + 1 \in S
    PROVE  Nat \subseteq S
<1> SUFFICES ASSUME Nat \ S # {}
             PROVE  FALSE
  OBVIOUS
<1> DEFINE R == OpToRel(<, Nat)
<1>1. \A y, x \in Nat : y < x => <<y, x>> \in R
  BY DEF OpToRel
<1>2. IsWellFoundedOn(R, Nat)
  BY NatLessThanWellFounded
<1> HIDE DEF R
<1>3. PICK x \in Nat \ S : \A y \in Nat \ S : <<y, x>> \notin R
  <2>1. Nat \ S \subseteq Nat
    OBVIOUS
  <2> QED
    BY <1>2, <2>1, WFMin
<1>4. x - 1 \in Nat \ S
  <2>1. x - 1 \in Nat /\ x = (x - 1) + 1
    BY <1>3
  <2> QED
    BY <1>3, <2>1
<1>5. <<x - 1, x>> \in R
  BY <1>1, <1>3, <1>4
<1> QED
  BY <1>3, <1>4, <1>5

\* The levels of the tree drawn from a list: its nodes have no children.
LEMMA Levels ==
    ASSUME NEW root, NEW N, Children(root) = N, \A node \in N : Children(node) = {},
           NEW levels \in Nat \ {0}
    PROVE  Shown(root, levels) = N
<1> DEFINE Next_(n, below) == IF n = 0 THEN {root}
                              ELSE UNION {Children(node) : node \in below[n - 1]}
           level == CHOOSE f : f = [n \in 0 .. levels |-> Next_(n, f)]
           g == [n \in 0 .. levels |-> IF n = 0 THEN {root} ELSE IF n = 1 THEN N ELSE {}]
<1>1. g = [n \in 0 .. levels |-> Next_(n, g)]
  <2> SUFFICES ASSUME NEW n \in 0 .. levels
               PROVE  g[n] = Next_(n, g)
    OBVIOUS
  <2>1. CASE n = 0
    BY <2>1
  <2>2. CASE n = 1
    <3>1. g[n - 1] = {root} /\ g[n] = N
      BY <2>2
    <3> QED
      BY <2>2, <3>1
  <2>3. CASE n \notin {0, 1}
    <3>1. n - 1 \in 0 .. levels /\ n - 1 # 0 /\ g[n] = {}
      BY <2>3
    <3>2. g[n - 1] \subseteq N
      BY <3>1
    <3> QED
      BY <2>3, <3>1, <3>2
  <2> QED
    BY <2>1, <2>2, <2>3
<1>2. level = [n \in 0 .. levels |-> Next_(n, level)]
  <2> HIDE DEF g, Next_
  <2> QED
    BY <1>1
<1> HIDE DEF g, level
<1>3. level[0] = {root}
  BY <1>2
<1>4. ASSUME NEW n \in Nat, n + 1 <= levels
      PROVE  level[n + 1] = UNION {Children(node) : node \in level[n]}
  <2>1. n + 1 \in 0 .. levels /\ n + 1 # 0 /\ n + 1 - 1 = n
    BY <1>4
  <2>2. level[n + 1] = Next_(n + 1, level)
    BY <1>2, <2>1
  <2> QED
    BY <2>1, <2>2
<1>5. level[1] = N
  <2>1. level[0 + 1] = UNION {Children(node) : node \in level[0]}
    BY <1>4
  <2> QED
    BY <2>1, <1>3
<1> DEFINE S == {n \in Nat : n + 1 <= levels => level[n + 1] \subseteq N}
<1>6. 0 \in S
  BY <1>5
<1>7. ASSUME NEW n \in Nat, n \in S
      PROVE  n + 1 \in S
  <2> SUFFICES ASSUME n + 1 + 1 <= levels
               PROVE  level[n + 1 + 1] \subseteq N
    OBVIOUS
  <2>1. level[n + 1] \subseteq N
    BY <1>7
  <2>2. level[n + 1 + 1] = UNION {Children(node) : node \in level[n + 1]}
    BY <1>4
  <2> QED
    BY <2>1, <2>2
<1>8. \A n \in Nat : n \in S
  <2> HIDE DEF S
  <2> QED
    BY <1>6, <1>7, SetInduction
<1>9. \A n \in 1 .. levels : level[n] \subseteq N
  <2> TAKE n \in 1 .. levels
  <2>1. n - 1 \in S /\ n - 1 + 1 = n
    BY <1>8
  <2> QED
    BY <2>1
<1>10. UNION {level[n] : n \in 1 .. levels} = N
  <2>1. 1 \in 1 .. levels
    OBVIOUS
  <2> QED
    BY <2>1, <1>5, <1>9
<1> QED
  BY <1>10 DEF Shown, level

\* The tree drawn from a list shows what the list says, and nothing else.
LEMMA TreeShowsList ==
    ASSUME NEW processes \in Seq([pid : Nat, ppid : Nat, cpu_percent : Nat])
    PROVE  {data(node) : node \in Shown(update_processes(processes), Len(processes) + 1)}
             = ToSet(processes)
<1> DEFINE nodes == [i \in 1 .. Len(processes) |-> Node(processes[i])]
           N == {nodes[i] : i \in 1 .. Len(processes)}
           root == update_processes(processes)
<1>1. Len(processes) \in Nat /\ DOMAIN processes = 1 .. Len(processes)
  BY LenProperties
<1>2. root.children = nodes
  BY DEF update_processes, NoTree
<1>3. Len(nodes) = Len(processes)
  BY <1>1
<1>4. rowCount(root) = Len(processes)
  BY <1>2, <1>3 DEF rowCount
<1> HIDE DEF root
<1>5. \A i \in 1 .. Len(processes) : Value(index(i, root)) = nodes[i]
  BY <1>2, <1>4 DEF index, Value
<1>6. Children(root) = N
  BY <1>4, <1>5 DEF Children
<1>7. \A node \in N : Children(node) = {}
  <2> SUFFICES ASSUME NEW node, node.children = <<>>
               PROVE  Children(node) = {}
    BY DEF Node
  <2>1. rowCount(node) = 0
    BY EmptySeq DEF rowCount
  <2> QED
    BY <2>1 DEF Children
<1>8. ASSUME NEW i \in 1 .. Len(processes)
      PROVE  data(nodes[i]) = processes[i]
  <2>1. processes[i] \in [pid : Nat, ppid : Nat, cpu_percent : Nat]
    BY ElementOfSeq
  <2> QED
    BY <2>1 DEF Node, data
<1>9. Shown(root, Len(processes) + 1) = N
  <2>1. Len(processes) + 1 \in Nat \ {0}
    BY <1>1
  <2> HIDE DEF N
  <2> QED
    BY <1>6, <1>7, <2>1, Levels
<1>10. {data(node) : node \in N} = {processes[i] : i \in 1 .. Len(processes)}
  <2> HIDE DEF nodes
  <2> QED
    BY <1>8
<1> QED
  BY <1>1, <1>9, <1>10 DEF root, ToSet

\* Every page shows the latest snapshot and nothing of an earlier one, however
\* many cores it has and whether or not it has pressure and processes.
THEOREM ViewsCorrect == Spec => []ViewsAgree
<1>1. Init => ViewsAgree
  BY DEF Init, ViewsAgree
<1>2. IInv /\ ViewsAgree /\ [Next]_vars => ViewsAgree'
  <2> SUFFICES ASSUME IInv, ViewsAgree, [Next]_vars
               PROVE  ViewsAgree'
    OBVIOUS
  <2>1. CASE UNCHANGED <<delivered, model, pages, status_label_>>
    BY <2>1 DEF ViewsAgree, model, pages
  <2>2. CASE \E s \in Snapshots : post_snapshot(s)
    BY <2>1, <2>2 DEF post_snapshot
  <2>3. CASE Deliver
    <3> DEFINE s == Head(events)
    <3>1. /\ latest_' = s
          /\ kpi' = [cpu |-> s.cpu.total_utilization,
                     memory |-> s.memory.utilization_percent, psi |-> s.psi]
          /\ memory_labels' = s.memory
          /\ psi_labels' = s.psi
          /\ status_label_' = [cpu |-> s.cpu.total_utilization,
                               memory |-> s.memory.utilization_percent]
      BY <2>3 DEF Deliver, DashboardPage, MemoryPage, PsiPage, StatusBar
    <3>2. /\ core_bars_' = [i \in 1 .. BARS |-> IF i <= Len(s.cpu.per_core)
                                                THEN <<s.cpu.per_core[i]>> ELSE <<>>]
          /\ root_' = update_processes(s.processes)
      BY <2>3 DEF Deliver, CpuPage, ProcessPage
    <3>3. s \in Postable
      BY <2>3, Delivered DEF IInv
    <3>4. /\ history_buffer_'[Len(history_buffer_')] = s
          /\ cpu_chart_'[Len(cpu_chart_')] = s.cpu.total_utilization
      BY <2>3, RingFollows, CpuChartFollows DEF IInv, Cpu
    <3>5. /\ s.cpu.per_core \in Seq(Nat)
          /\ s.processes \in Seq([pid : Nat, ppid : Nat, cpu_percent : Nat])
      BY <3>3, PostableFields
    <3> HIDE DEF s
    <3>6. \A i \in 1 .. BARS :
             core_bars_'[i] = IF i \in DOMAIN s.cpu.per_core
                              THEN <<s.cpu.per_core[i]>> ELSE <<>>
      <4>1. DOMAIN s.cpu.per_core = 1 .. Len(s.cpu.per_core) /\ Len(s.cpu.per_core) \in Nat
        BY <3>5, LenProperties
      <4>2. \A i \in 1 .. BARS : i \in DOMAIN s.cpu.per_core <=> i <= Len(s.cpu.per_core)
        BY <4>1
      <4> QED
        BY <3>2, <4>2
    <3>7. {data(node) : node \in Shown(root_', Len(s.processes) + 1)} = ToSet(s.processes)
      BY <3>2, <3>5, TreeShowsList
    <3> QED
      BY <3>1, <3>4, <3>6, <3>7 DEF ViewsAgree
  <2> QED
    BY <2>1, <2>2, <2>3, Steps
<1> QED
  BY <1>1, <1>2, QueueInvariant, PTL DEF Spec

-------------------------------------------------------------------------------
(* The list of incidents.                                                  *)

\* A rule adds one diagnosis or none.
LEMMA RuleAddsOneOrNone ==
    ASSUME NEW condition, NEW required, NEW further
    PROVE  LET added == Rule(condition, required, further)
           IN  added = <<>> \/ \E d : added = <<d>>
BY DEF Rule

\* Such a list is a sequence of anything that has its element.
LEMMA OneOrNone ==
    ASSUME NEW S, NEW list, list = <<>> \/ \E d : list = <<d>>, list[1] \in S
    PROVE  list \in Seq(S)
<1>1. CASE list = <<>>
  BY <1>1, EmptySeq
<1>2. ASSUME NEW d, list = <<d>>
      PROVE  list \in Seq(S)
  <2>1. list[1] = d
    BY <1>2
  <2> QED
    BY <1>2, <2>1
<1> QED
  BY <1>1, <1>2

\* The diagnoses of a snapshot are a sequence.
LEMMA DiagnosesAreSeq ==
    ASSUME NEW s
    PROVE  Len(analyze(s)) \in Nat
<1> DEFINE a == ThermalThrottling(s)
           b == MemoryContention(s)
           c == IoBottleneck(s)
           d == CpuContention(s)
           S == {a[1], b[1], c[1], d[1]}
<1>1. a = <<>> \/ \E x : a = <<x>>
  BY RuleAddsOneOrNone, Zenon DEF ThermalThrottling
<1>2. b = <<>> \/ \E x : b = <<x>>
  BY RuleAddsOneOrNone, Zenon DEF MemoryContention
<1>3. c = <<>> \/ \E x : c = <<x>>
  BY RuleAddsOneOrNone, Zenon DEF IoBottleneck
<1>4. d = <<>> \/ \E x : d = <<x>>
  BY RuleAddsOneOrNone, Zenon DEF CpuContention
<1>5. analyze(s) = ((a \o b) \o c) \o d
  BY DEF analyze
<1> HIDE DEF a, b, c, d
<1>6. a \in Seq(S) /\ b \in Seq(S) /\ c \in Seq(S) /\ d \in Seq(S)
  BY <1>1, <1>2, <1>3, <1>4, OneOrNone
<1> HIDE DEF S
<1>7. ((a \o b) \o c) \o d \in Seq(S)
  BY <1>6, ConcatProperties
<1> QED
  BY <1>5, <1>7, LenProperties

\* A list is a function on an interval from 1.
IsList(list) == Len(list) \in Nat /\ list = [i \in 1 .. Len(list) |-> list[i]]

\* Of two lists that are put together each element is in its place.
LEMMA ListsJoined ==
    ASSUME NEW x, NEW y, IsList(x), IsList(y)
    PROVE  /\ IsList(x \o y)
           /\ Len(x \o y) = Len(x) + Len(y)
           /\ \A i \in 1 .. Len(x) : (x \o y)[i] = x[i]
           /\ \A i \in 1 .. Len(y) : (x \o y)[Len(x) + i] = y[i]
<1> DEFINE S == {x[i] : i \in 1 .. Len(x)} \union {y[i] : i \in 1 .. Len(y)}
<1>1. Len(x) \in Nat /\ Len(y) \in Nat
  BY DEF IsList
<1>2. x \in [1 .. Len(x) -> S] /\ y \in [1 .. Len(y) -> S]
  BY DEF IsList
<1>3. x \in Seq(S) /\ y \in Seq(S)
  BY <1>1, <1>2, FunctionIsSeq
<1> HIDE DEF S
<1>4. /\ x \o y \in Seq(S)
      /\ Len(x \o y) = Len(x) + Len(y)
      /\ \A i \in 1 .. Len(x) + Len(y) :
            (x \o y)[i] = IF i <= Len(x) THEN x[i] ELSE y[i - Len(x)]
  BY <1>3, ConcatProperties
<1>5. IsList(x \o y)
  BY <1>4, LenProperties DEF IsList
<1>6. \A i \in 1 .. Len(x) : (x \o y)[i] = x[i]
  BY <1>1, <1>4
<1>7. ASSUME NEW i \in 1 .. Len(y)
      PROVE  (x \o y)[Len(x) + i] = y[i]
  <2>1. /\ Len(x) + i \in 1 .. Len(x) + Len(y) /\ ~(Len(x) + i <= Len(x))
        /\ Len(x) + i - Len(x) = i
    BY <1>1
  <2> QED
    BY <1>4, <2>1
<1> QED
  BY <1>4, <1>5, <1>6, <1>7

\* The row of the list that stands for an event of the model.
Row(event) == [start_time |-> event.start_time, condition |-> event.condition,
               signals |-> Len(event.evidence)]

\* Row and event have the same place in the list and in the model, neither of which
\* ever loses one; that is why a row chosen long ago still leads to its event.
RowsMatch ==
    /\ IsList(incident_list_) /\ IsList(historical_incidents_)
    /\ Len(incident_list_) = Len(historical_incidents_)
    /\ \A i \in 1 .. Len(incident_list_) : incident_list_[i] = Row(historical_incidents_[i])
    /\ incident_row \in 0 .. Len(incident_list_)
    /\ incident_row # 0 => incident_detail = <<historical_incidents_[incident_row]>>

\* Delivering a snapshot adds as many rows as events, each in the same place.
LEMMA DeliverKeepsRows ==
    ASSUME RowsMatch, Deliver
    PROVE  RowsMatch'
<1> DEFINE s == Head(events)
           diagnoses == analyze(s)
           new == [i \in 1 .. Len(diagnoses) |-> Event(s, diagnoses[i])]
           items == [i \in 1 .. Len(diagnoses) |-> Item(s, diagnoses[i])]
           count == Len(historical_incidents_)
<1>1. /\ historical_incidents_' = historical_incidents_ \o new
      /\ incident_list_' = incident_list_ \o items
      /\ incident_row' = incident_row /\ incident_detail' = incident_detail
  BY DEF Deliver, DiagnosticsPage, selection
<1>2. Len(diagnoses) \in Nat
  BY DiagnosesAreSeq
<1>3. \A i \in 1 .. Len(diagnoses) : items[i] = Row(new[i])
  BY DEF Event, Item, Row
<1> HIDE DEF s, diagnoses
<1>4. /\ IsList(new) /\ Len(new) = Len(diagnoses)
      /\ IsList(items) /\ Len(items) = Len(diagnoses)
  BY <1>2 DEF IsList
<1> HIDE DEF new, items
<1>5. /\ IsList(incident_list_) /\ IsList(historical_incidents_)
      /\ Len(incident_list_) = count /\ count \in Nat
      /\ \A i \in 1 .. count : incident_list_[i] = Row(historical_incidents_[i])
      /\ incident_row \in 0 .. count
      /\ incident_row # 0 => incident_detail = <<historical_incidents_[incident_row]>>
  BY DEF RowsMatch, IsList
<1>6. /\ IsList(incident_list_')
      /\ Len(incident_list_') = count + Len(diagnoses)
      /\ \A i \in 1 .. count : incident_list_'[i] = incident_list_[i]
      /\ \A i \in 1 .. Len(diagnoses) : incident_list_'[count + i] = items[i]
  <2>1. /\ IsList(incident_list_ \o items)
        /\ Len(incident_list_ \o items) = Len(incident_list_) + Len(items)
        /\ \A i \in 1 .. Len(incident_list_) : (incident_list_ \o items)[i] = incident_list_[i]
        /\ \A i \in 1 .. Len(items) :
              (incident_list_ \o items)[Len(incident_list_) + i] = items[i]
    BY <1>4, <1>5, ListsJoined
  <2> QED
    BY <1>1, <1>4, <1>5, <2>1
<1>7. /\ IsList(historical_incidents_')
      /\ Len(historical_incidents_') = count + Len(diagnoses)
      /\ \A i \in 1 .. count : historical_incidents_'[i] = historical_incidents_[i]
      /\ \A i \in 1 .. Len(diagnoses) : historical_incidents_'[count + i] = new[i]
  <2>1. /\ IsList(historical_incidents_ \o new)
        /\ Len(historical_incidents_ \o new) = Len(historical_incidents_) + Len(new)
        /\ \A i \in 1 .. Len(historical_incidents_) : (historical_incidents_ \o new)[i] = historical_incidents_[i]
        /\ \A i \in 1 .. Len(new) :
              (historical_incidents_ \o new)[Len(historical_incidents_) + i] = new[i]
    BY <1>4, <1>5, ListsJoined
  <2> QED
    BY <1>1, <1>4, <1>5, <2>1
<1> HIDE DEF count
<1>8. ASSUME NEW i \in 1 .. count + Len(diagnoses)
      PROVE  incident_list_'[i] = Row(historical_incidents_'[i])
  <2>1. CASE i \in 1 .. count
    BY <2>1, <1>5, <1>6, <1>7
  <2>2. CASE i \notin 1 .. count
    <3>1. i - count \in 1 .. Len(diagnoses) /\ count + (i - count) = i
      BY <2>2, <1>2, <1>5
    <3>2. incident_list_'[i] = items[i - count] /\ historical_incidents_'[i] = new[i - count]
      BY <3>1, <1>6, <1>7
    <3> QED
      BY <3>1, <3>2, <1>3 DEF new, items
  <2> QED
    BY <2>1, <2>2
<1>9. incident_row' \in 0 .. count + Len(diagnoses)
  BY <1>1, <1>2, <1>5
<1>10. incident_row' # 0 =>
          incident_detail' = <<historical_incidents_'[incident_row']>>
  BY <1>1, <1>5, <1>7
<1> QED
  BY <1>6, <1>7, <1>8, <1>9, <1>10 DEF RowsMatch

\* A click on a row shows the event of that row.
LEMMA SelectKeepsRows ==
    ASSUME RowsMatch, SelectIncident
    PROVE  RowsMatch'
<1>1. /\ UNCHANGED incidents
      /\ incident_row' \in 1 .. Len(incident_list_)
      /\ incident_detail' = IF incident_row' <= Len(historical_incidents_)
                            THEN <<historical_incidents_[incident_row']>>
                            ELSE incident_detail
  BY DEF SelectIncident
<1> QED
  BY <1>1 DEF RowsMatch, IsList, incidents

\* The inspector shows the event of the selected row, however many snapshots with
\* incidents arrive before or after the click (diagnostics_page.cpp).
THEOREM InspectorCorrect == Spec => []InspectorShowsRow
<1>1. Init => RowsMatch
  <2> SUFFICES ASSUME Init
               PROVE  RowsMatch
    OBVIOUS
  <2>1. /\ incident_list_ = <<>> /\ historical_incidents_ = <<>> /\ incident_row = 0
        /\ Len(<<>>) = 0
    BY EmptySeq DEF Init
  <2> QED
    BY <2>1 DEF RowsMatch, IsList
<1>2. RowsMatch /\ [Next]_vars => RowsMatch'
  <2> SUFFICES ASSUME RowsMatch, [Next]_vars
               PROVE  RowsMatch'
    OBVIOUS
  <2>1. CASE Deliver
    BY <2>1, DeliverKeepsRows
  <2>2. CASE SelectIncident
    BY <2>2, SelectKeepsRows
  <2>3. CASE UNCHANGED <<incidents, incident_row, incident_detail>>
    BY <2>3 DEF RowsMatch, IsList, incidents
  <2>4. CASE poll_telemetry \/ Post
    BY <2>3, <2>4 DEF poll_telemetry, Post, post_snapshot, selection
  <2>5. CASE SelectProcess \/ Navigate \/ UNCHANGED vars
    BY <2>3, <2>5 DEF SelectProcess, Navigate, vars, selection
  <2> QED
    BY <2>1, <2>2, <2>4, <2>5 DEF Next
<1>3. RowsMatch => InspectorShowsRow
  <2> SUFFICES ASSUME RowsMatch, incident_row # 0
               PROVE  /\ Has(incident_detail)
                      /\ LET item == incident_list_[incident_row]
                             shown == Value(incident_detail)
                         IN  [start_time |-> shown.start_time, condition |-> shown.condition,
                              signals |-> Len(shown.evidence)] = item
    BY DEF InspectorShowsRow
  <2>1. incident_row \in 1 .. Len(incident_list_)
    BY DEF RowsMatch, IsList
  <2>2. incident_list_[incident_row] = Row(historical_incidents_[incident_row])
    BY <2>1 DEF RowsMatch
  <2>3. incident_detail = <<historical_incidents_[incident_row]>>
    BY DEF RowsMatch
  <2>4. Value(incident_detail) = historical_incidents_[incident_row] /\ Has(incident_detail)
    BY <2>3 DEF Value, Has
  <2> QED
    BY <2>2, <2>4 DEF Row
<1> QED
  BY <1>1, <1>2, <1>3, PTL DEF Spec

-------------------------------------------------------------------------------
(* Loops.                                                                  *)

\* The values a loop of n steps goes through.
Traces(T, base, n, step) ==
    {g \in [0 .. n -> T] : g[0] = base /\ \A i \in 1 .. n : g[i] = step[i][g[i - 1]]}

\* There are such values.
LEMMA Iteration ==
    ASSUME NEW T, NEW base \in T, NEW n \in Nat, NEW step \in [1 .. n -> [T -> T]]
    PROVE  Traces(T, base, n, step) # {}
<1> DEFINE Good(m, g) == g[0] = base /\ \A i \in 1 .. m : g[i] = step[i][g[i - 1]]
           S == {m \in Nat : m <= n => \E g \in [0 .. m -> T] : Good(m, g)}
<1>1. 0 \in S
  <2> DEFINE g == [i \in 0 .. 0 |-> base]
  <2>1. g \in [0 .. 0 -> T] /\ Good(0, g)
    OBVIOUS
  <2> QED
    BY <2>1
<1>2. ASSUME NEW m \in Nat, m \in S
      PROVE  m + 1 \in S
  <2> SUFFICES ASSUME m + 1 <= n
               PROVE  \E g \in [0 .. m + 1 -> T] : Good(m + 1, g)
    OBVIOUS
  <2>1. PICK g \in [0 .. m -> T] : Good(m, g)
    BY <1>2
  <2>2. m + 1 \in 1 .. n /\ m \in 0 .. m
    OBVIOUS
  <2>3. step[m + 1][g[m]] \in T
    BY <2>2
  <2> DEFINE h == [i \in 0 .. m + 1 |-> IF i = m + 1 THEN step[m + 1][g[m]] ELSE g[i]]
  <2>4. h \in [0 .. m + 1 -> T]
    BY <2>3
  <2>5. \A i \in 0 .. m : h[i] = g[i]
    OBVIOUS
  <2>6. h[m + 1] = step[m + 1][g[m]]
    OBVIOUS
  <2> HIDE DEF h
  <2>7. ASSUME NEW i \in 1 .. m + 1
        PROVE  h[i] = step[i][h[i - 1]]
    <3>1. CASE i = m + 1
      BY <2>5, <2>6, <3>1
    <3>2. CASE i \in 1 .. m
      <4>1. i - 1 \in 0 .. m /\ i \in 0 .. m
        BY <3>2
      <4> QED
        BY <2>1, <2>5, <3>2, <4>1
    <3> QED
      BY <3>1, <3>2
  <2> QED
    BY <2>1, <2>4, <2>5, <2>7
<1> HIDE DEF S
<1>3. Nat \subseteq S
  BY <1>1, <1>2, SetInduction
<1> QED
  BY <1>3 DEF S, Traces

\* The results, after each of its steps, of a loop that pushes some of the elements
\* of a sequence.
IsFiltering(g, s, Keep) ==
    /\ g[0] = <<>>
    /\ \A n \in 1 .. Len(s) :
          g[n] = IF n \in Keep THEN Append(g[n - 1], s[n]) ELSE g[n - 1]

\* There are such results.
LEMMA FilterLoop ==
    ASSUME NEW S, NEW s \in Seq(S), NEW Keep
    PROVE  {g \in [0 .. Len(s) -> Seq(S)] : IsFiltering(g, s, Keep)} # {}
<1> DEFINE N == Len(s)
<1>0. N \in Nat /\ \A i \in 1 .. N : s[i] \in S
  BY ElementOfSeq, LenProperties
<1> HIDE DEF N
<1>1. ASSUME NEW T, T = Seq(S),
             NEW step, step = [n \in 1 .. N |->
                                 [t \in T |-> IF n \in Keep THEN Append(t, s[n]) ELSE t]]
      PROVE  \E g \in [0 .. N -> T] :
                /\ g[0] = <<>>
                /\ \A n \in 1 .. N :
                      g[n] = IF n \in Keep THEN Append(g[n - 1], s[n]) ELSE g[n - 1]
  <2>1. step \in [1 .. N -> [T -> T]]
    BY <1>0, <1>1, AppendProperties
  <2>2. <<>> \in T
    BY <1>1, EmptySeq
  <2>3. \A n \in 1 .. N, t \in T :
           step[n][t] = IF n \in Keep THEN Append(t, s[n]) ELSE t
    BY <1>1
  <2>4. PICK g : g \in Traces(T, <<>>, N, step)
    <3>1. N \in Nat
      BY <1>0
    <3>2. Traces(T, <<>>, N, step) # {}
      BY <3>1, <2>1, <2>2, Iteration, Zenon
    <3> QED
      BY <3>2
  <2>5. ASSUME NEW n \in 1 .. N
        PROVE  g[n] = IF n \in Keep THEN Append(g[n - 1], s[n]) ELSE g[n - 1]
    <3>1. g[n - 1] \in T
      BY <1>0, <2>4 DEF Traces
    <3> QED
      BY <2>3, <2>4, <3>1 DEF Traces
  <2> QED
    BY <2>4, <2>5 DEF Traces
<1> QED
  BY <1>1 DEF IsFiltering, N

\* A sequence over S of the elements of s at the places Keep, and no others.
Collects(result, S, s, Keep) ==
    /\ result \in Seq(S)
    /\ Len(result) = Cardinality(Keep)
    /\ {result[i] : i \in 1 .. Len(result)} = {s[i] : i \in Keep}

\* After n steps it has exactly those of the first n that are to be kept.
LEMMA FilterLoopResult ==
    ASSUME NEW S, NEW s \in Seq(S), NEW Keep \in SUBSET (1 .. Len(s)), NEW g,
           IsFiltering(g, s, Keep)
    PROVE  Collects(g[Len(s)], S, s, Keep)
<1> DEFINE N == Len(s)
           Kept(n) == {i \in Keep : i <= n}
           Good(n) == /\ g[n] \in Seq(S)
                      /\ IsFiniteSet(Kept(n))
                      /\ Len(g[n]) = Cardinality(Kept(n))
                      /\ {g[n][i] : i \in 1 .. Len(g[n])} = {s[i] : i \in Kept(n)}
           Reached == {n \in Nat : n <= N => Good(n)}
<1>1. N \in Nat /\ \A n \in 1 .. N : s[n] \in S
  BY ElementOfSeq, LenProperties
<1>0. /\ \A i \in Keep : i \in Nat /\ 1 <= i /\ i <= N
      /\ \A n : Kept(n) = {i \in Keep : i <= n}
  BY <1>1
<1> HIDE DEF N, Kept
<1>2. 0 \in Reached
  <2>1. Kept(0) = {}
    <3>1. \A i \in Keep : ~(i <= 0)
      BY <1>0
    <3> QED
      BY <1>0, <3>1
  <2>2. IsFiniteSet({}) /\ Cardinality({}) = 0
    BY FS_EmptySet
  <2>3. <<>> \in Seq(S) /\ Len(<<>>) = 0 /\ g[0] = <<>>
    BY EmptySeq DEF IsFiltering
  <2>4. {g[0][i] : i \in 1 .. 0} = {}
    OBVIOUS
  <2> QED
    BY <2>1, <2>2, <2>3, <2>4
<1>3. ASSUME NEW n \in Nat, n \in Reached
      PROVE  n + 1 \in Reached
  <2> SUFFICES ASSUME n + 1 <= N
               PROVE  Good(n + 1)
    <3> HIDE DEF Good
    <3> QED
      OBVIOUS
  <2> DEFINE m == n + 1
             old == g[n]
  <2>1. Good(n) /\ m \in 1 .. N /\ m - 1 = n
    <3>1. m \in 1 .. N /\ m - 1 = n /\ n <= N
      BY <1>1
    <3> HIDE DEF Good, m
    <3> QED
      BY <1>3, <3>1
  <2>2. g[m] = IF m \in Keep THEN Append(old, s[m]) ELSE old
    <3>1. g[m] = IF m \in Keep THEN Append(g[m - 1], s[m]) ELSE g[m - 1]
      <4> HIDE DEF m
      <4> QED
        BY <2>1 DEF N, IsFiltering
    <3> QED
      BY <2>1, <3>1
  <2> HIDE DEF Reached
  <2>3. CASE m \notin Keep
    <3>1. Kept(m) = Kept(n)
      <4>1. \A i \in Keep : i <= n + 1 <=> i <= n
        BY <1>0, <2>3
      <4> QED
        BY <1>0, <4>1
    <3> QED
      BY <2>1, <2>2, <2>3, <3>1
  <2>4. CASE m \in Keep
    <3>1. Kept(m) = Kept(n) \union {m} /\ m \notin Kept(n)
      <4>1. /\ \A i \in Keep : i <= n + 1 <=> i <= n \/ i = n + 1
            /\ m \in Keep /\ m <= m /\ ~(m <= n)
        BY <1>0, <2>4
      <4> QED
        BY <1>0, <4>1
    <3>2. /\ IsFiniteSet(Kept(n) \union {m})
          /\ Cardinality(Kept(n) \union {m}) = Cardinality(Kept(n)) + 1
      <4> HIDE DEF Kept
      <4> QED
        BY <2>1, <3>1, FS_AddElement
    <3>3. s[m] \in S /\ old \in Seq(S) /\ g[m] = Append(old, s[m])
      BY <1>1, <2>1, <2>2, <2>4
    <3> HIDE DEF old, m, Kept
    <3>4. /\ g[m] \in Seq(S) /\ Len(g[m]) = Len(old) + 1
          /\ \A i \in 1 .. Len(old) : g[m][i] = old[i]
          /\ g[m][Len(old) + 1] = s[m]
      BY <3>3, AppendProperties
    <3>5. Len(old) \in Nat
      BY <3>3, LenProperties
    <3>6. {g[m][i] : i \in 1 .. Len(g[m])} = {old[i] : i \in 1 .. Len(old)} \union {s[m]}
      <4>1. 1 .. Len(g[m]) = (1 .. Len(old)) \union {Len(old) + 1}
        BY <3>4, <3>5
      <4> DEFINE k == Len(old)
      <4>2. /\ \A i \in 1 .. k : g[m][i] = old[i]
            /\ g[m][k + 1] = s[m]
            /\ 1 .. Len(g[m]) = (1 .. k) \union {k + 1}
        BY <3>4, <4>1
      <4> HIDE DEF k
      <4> DEFINE h == g[m]
                 I == 1 .. k
                 x == s[m]
      <4>3. /\ \A i \in I : h[i] = old[i]
            /\ h[k + 1] = x
        BY <4>2
      <4> HIDE DEF h, I, x
      <4>4. {h[i] : i \in I \union {k + 1}} = {old[i] : i \in I} \union {x}
        BY <4>3
      <4>5. {g[m][i] : i \in (1 .. k) \union {k + 1}} = {old[i] : i \in 1 .. k} \union {s[m]}
        BY <4>4 DEF h, I, x
      <4> QED
        BY <4>2, <4>5 DEF k
    <3>7. {s[i] : i \in Kept(m)} = {s[i] : i \in Kept(n)} \union {s[m]}
      BY <3>1
    <3>8. {old[i] : i \in 1 .. Len(old)} = {s[i] : i \in Kept(n)} /\ Len(old) = Cardinality(Kept(n))
      BY <2>1 DEF old
    <3> QED
      BY <3>1, <3>2, <3>4, <3>6, <3>7, <3>8 DEF m
  <2> QED
    BY <2>3, <2>4
<1> HIDE DEF Reached
<1>4. N \in Reached
  BY <1>1, <1>2, <1>3, SetInduction
<1>5. Kept(N) = Keep
  BY <1>0
<1>6. Good(N)
  <2> HIDE DEF Good
  <2> QED
    BY <1>1, <1>4 DEF Reached
<1> QED
  BY <1>5, <1>6 DEF N, Collects

-------------------------------------------------------------------------------
(* The history page.                                                       *)

\* The records whose time is in the range.
Within(records, start, end) == {i \in 1 .. Len(records) : InRange(records[i], start, end)}

\* The loop of the SQLite engine finds the records of the range, each once.
LEMMA RangeIsFound ==
    ASSUME NEW S, NEW s \in Seq(S), NEW start, NEW end
    PROVE  Collects(RecordsInRange(s, start, end), S, s, Within(s, start, end))
<1> DEFINE N == Len(s)
           Keep == Within(s, start, end)
           Is(g) == g = [n \in 0 .. N |->
                           IF n = 0 THEN <<>>
                           ELSE IF InRange(s[n], start, end) THEN Append(g[n - 1], s[n])
                           ELSE g[n - 1]]
           f == CHOOSE g : Is(g)
<1>1. RecordsInRange(s, start, end) = f[N]
  BY DEF RecordsInRange
<1>2. N \in Nat /\ s \in [1 .. N -> S]
  BY ElementOfSeq, LenProperties
<1>3. /\ Keep \in SUBSET (1 .. N)
      /\ \A n \in 1 .. N : n \in Keep <=> InRange(s[n], start, end)
  BY DEF Within
<1> HIDE DEF Keep
<1>4. \E g : Is(g)
  <2> DEFINE results == {g \in [0 .. Len(s) -> Seq(S)] : IsFiltering(g, s, Keep)}
  <2>0. results # {}
    BY FilterLoop, Zenon
  <2>1. PICK g \in [0 .. N -> Seq(S)] : IsFiltering(g, s, Keep)
    <3> HIDE DEF Is
    <3> QED
      BY <2>0
  <2>2. ASSUME NEW n \in 0 .. N
        PROVE  g[n] = IF n = 0 THEN <<>>
                      ELSE IF InRange(s[n], start, end) THEN Append(g[n - 1], s[n])
                      ELSE g[n - 1]
    <3>1. CASE n = 0
      BY <2>1, <3>1 DEF IsFiltering
    <3>2. CASE n # 0
      <4>1. n \in 1 .. N
        BY <1>2, <3>2
      <4> QED
        BY <1>3, <2>1, <3>2, <4>1 DEF IsFiltering
    <3> QED
      BY <3>1, <3>2
  <2>3. Is(g)
    <3> HIDE DEF N
    <3> QED
      BY <2>1, <2>2
  <2> QED
    BY <2>3
<1>5. Is(f)
  <2> HIDE DEF Is
  <2> QED
    BY <1>4
<1> HIDE DEF f
<1>6. IsFiltering(f, s, Keep)
  <2> DEFINE step(n) == IF n = 0 THEN <<>>
                        ELSE IF InRange(s[n], start, end) THEN Append(f[n - 1], s[n])
                        ELSE f[n - 1]
  <2>1. \A n \in 0 .. N : f[n] = step(n)
    <3>1. f = [n \in 0 .. N |-> step(n)]
      BY <1>5
    <3> HIDE DEF step, Is
    <3> QED
      BY <3>1
  <2>2. f[0] = <<>>
    BY <1>2, <2>1
  <2>3. ASSUME NEW n \in 1 .. N
        PROVE  f[n] = IF n \in Keep THEN Append(f[n - 1], s[n]) ELSE f[n - 1]
    <3>1. n \in 0 .. N /\ n # 0
      BY <1>2
    <3> HIDE DEF Is
    <3> QED
      BY <1>3, <2>1, <3>1
  <2> QED
    BY <2>2, <2>3 DEF IsFiltering
<1>7. Collects(f[Len(s)], S, s, Keep)
  <2>1. Keep \in SUBSET (1 .. Len(s))
    BY <1>3
  <2> HIDE DEF Is, N
  <2> QED
    BY <2>1, <1>6, FilterLoopResult
<1> QED
  BY <1>1, <1>7 DEF Keep

\* A push moves what is in the buffer one place back from the end.
LEMMA PushMoves ==
    ASSUME NEW c \in Nat \ {0}, NEW S, NEW buffer \in Seq(S), Len(buffer) <= c, NEW x \in S
    PROVE  LET pushed == PushBounded(buffer, x, c)
           IN  /\ pushed \in Seq(S)
               /\ Len(pushed) = Smaller(c, Len(buffer) + 1)
               /\ pushed[Len(pushed)] = x
               /\ \A k \in 2 .. Len(pushed) :
                     pushed[Len(pushed) + 1 - k] = buffer[Len(buffer) + 1 - (k - 1)]
<1> DEFINE L == Len(buffer)
           longer == Append(buffer, x)
           pushed == PushBounded(buffer, x, c)
<1>1. L \in Nat
  BY LenProperties
<1>2. /\ longer \in Seq(S) /\ Len(longer) = L + 1
      /\ \A i \in 1 .. L : longer[i] = buffer[i]
      /\ longer[L + 1] = x
  BY AppendProperties
<1>3. pushed = IF L + 1 > c THEN Tail(longer) ELSE longer
  BY DEF PushBounded
<1> HIDE DEF L, longer, pushed
<1>4. CASE L + 1 > c
  <2>1. L = c /\ Smaller(c, L + 1) = c
    BY <1>1, <1>4 DEF L, Smaller
  <2>2. /\ pushed \in Seq(S) /\ Len(pushed) = c
        /\ \A i \in 1 .. c : pushed[i] = longer[i + 1]
    BY <1>2, <1>3, <1>4, <2>1, HeadTailProperties, EmptySeq
  <2>3. pushed[c] = x
    BY <1>2, <2>1, <2>2
  <2>4. ASSUME NEW k \in 2 .. c
        PROVE  pushed[c + 1 - k] = buffer[L + 1 - (k - 1)]
    <3>1. /\ c + 1 - k \in 1 .. c /\ (c + 1 - k) + 1 = L + 1 - (k - 1)
          /\ L + 1 - (k - 1) \in 1 .. L
      BY <2>1
    <3> QED
      BY <1>2, <2>2, <3>1
  <2> QED
    BY <2>1, <2>2, <2>3, <2>4 DEF L, pushed
<1>5. CASE ~(L + 1 > c)
  <2>1. Smaller(c, L + 1) = L + 1
    BY <1>1, <1>5 DEF Smaller
  <2>2. pushed = longer
    BY <1>3, <1>5
  <2>3. ASSUME NEW k \in 2 .. L + 1
        PROVE  pushed[L + 1 + 1 - k] = buffer[L + 1 - (k - 1)]
    <3>1. L + 1 + 1 - k = L + 1 - (k - 1) /\ L + 1 - (k - 1) \in 1 .. L
      BY <1>1
    <3> QED
      BY <1>2, <2>2, <3>1
  <2> QED
    BY <1>2, <2>1, <2>2, <2>3 DEF L, pushed
<1> QED
  BY <1>4, <1>5

Records == [timestamp_ns : Nat, value : Values]

\* The inductive invariant: what the variables may hold, and what both properties
\* need of them.
HistoryTypes ==
    /\ engine \in {"sqlite", "mock"}
    /\ now \in Nat /\ HOUR <= now
    /\ metric_store_ \in Seq(Records)
    /\ records_ \in Seq(Records)
    /\ history_chart_ \in Seq(Values) /\ Len(history_chart_) <= MAX_POINTS
    /\ current_index_ \in 0 .. Len(records_)
    /\ asked.stored \in 0 .. Len(metric_store_)
    /\ asked.at \in Nat

\* A query finds records.
LEMMA QueryFindsRecords ==
    ASSUME HistoryTypes, NEW metric, NEW start, NEW end
    PROVE  query_history(metric, start, end) \in Seq(Records)
<1>1. metric_store_ \in Seq(Records)
  BY DEF HistoryTypes
<1>2. RecordsInRange(metric_store_, start, end) \in Seq(Records)
  BY <1>1, RangeIsFound DEF Collects
<1> QED
  BY <1>1, <1>2 DEF query_history

\* A new chart is made of the latest of the records.
LEMMA SeriesIsBounded ==
    ASSUME NEW records \in Seq(Records)
    PROVE  /\ update_series(ValuesOf(records)) \in Seq(Values)
           /\ Len(update_series(ValuesOf(records))) <= MAX_POINTS
<1>1. MAX_POINTS \in Nat \ {0}
  BY HistoryAssumption
<1>2. Len(records) \in Nat /\ \A i \in 1 .. Len(records) : records[i] \in Records
  BY LenProperties, ElementOfSeq
<1>3. ValuesOf(records) \in [1 .. Len(records) -> Values]
  BY <1>2 DEF ValuesOf, Records
<1>4. ValuesOf(records) \in Seq(Values)
  BY <1>2, <1>3, FunctionIsSeq
<1> DEFINE values == ValuesOf(records)
<1> HIDE DEF values
<1>5. /\ Latest(MAX_POINTS, values) \in Seq(Values)
      /\ Len(Latest(MAX_POINTS, values)) = Smaller(MAX_POINTS, Len(values))
  BY <1>1, <1>4, LatestProperties DEF values
<1>6. Len(values) \in Nat
  BY <1>4, LenProperties DEF values
<1> QED
  BY <1>1, <1>5, <1>6 DEF values, update_series, Smaller

\* A step of the playback puts the next record at the end of the chart.
LEMMA TickPlaysNext ==
    ASSUME HistoryTypes, tick, current_index_ < Len(records_)
    PROVE  /\ current_index_' = current_index_ + 1
           /\ history_chart_' \in Seq(Values)
           /\ Len(history_chart_') = Smaller(MAX_POINTS, Len(history_chart_) + 1)
           /\ history_chart_'[Len(history_chart_')] = records_[current_index_ + 1].value
           /\ \A k \in 2 .. Len(history_chart_') :
                 history_chart_'[Len(history_chart_') + 1 - k]
                    = history_chart_[Len(history_chart_) + 1 - (k - 1)]
<1> DEFINE x == records_[current_index_ + 1].value
<1>1. /\ records_ \in Seq(Records) /\ Len(records_) \in Nat
      /\ current_index_ + 1 \in 1 .. Len(records_)
      /\ ~(current_index_ >= Len(records_))
  BY LenProperties DEF HistoryTypes
<1>2. x \in Values
  <2>1. records_[current_index_ + 1] \in Records
    BY <1>1, ElementOfSeq
  <2> QED
    BY <2>1 DEF Records
<1>3. /\ current_index_' = current_index_ + 1
      /\ history_chart_' = PushBounded(history_chart_, x, MAX_POINTS)
  BY <1>1 DEF tick, append_sample
<1> HIDE DEF x
<1>4. /\ MAX_POINTS \in Nat \ {0}
      /\ history_chart_ \in Seq(Values) /\ Len(history_chart_) <= MAX_POINTS
  BY HistoryAssumption DEF HistoryTypes
<1>5. LET pushed == PushBounded(history_chart_, x, MAX_POINTS)
      IN  /\ pushed \in Seq(Values)
          /\ Len(pushed) = Smaller(MAX_POINTS, Len(history_chart_) + 1)
          /\ pushed[Len(pushed)] = x
          /\ \A k \in 2 .. Len(pushed) :
                pushed[Len(pushed) + 1 - k] = history_chart_[Len(history_chart_) + 1 - (k - 1)]
  BY <1>2, <1>4, PushMoves
<1> QED
  BY <1>3, <1>5 DEF x

\* The steps of the model, sorted by what they change.
LEMMA HistorySteps ==
    ASSUME [HistoryNext]_historyVars
    PROVE  \/ UNCHANGED <<metric_store_, records_, history_chart_, current_index_, asked,
                          current_records_, history_table_, engine>>
              /\ now' \in {now, now + 1}
           \/ StoreSnapshot
           \/ tick
           \/ on_query_clicked
           \/ on_stop_clicked
BY DEF HistoryNext, historyVars, TimePasses, HistoryPage, on_play_clicked,
       on_pause_clicked, store, found, playback

\* Storing appends to the store or leaves it alone.
LEMMA StoreAppends ==
    ASSUME HistoryTypes, StoreSnapshot
    PROVE  /\ metric_store_' \in Seq(Records)
           /\ Len(metric_store_) <= Len(metric_store_')
           /\ \A i \in 1 .. Len(metric_store_) : metric_store_'[i] = metric_store_[i]
<1>1. PICK t \in 0 .. now, v \in Values :
         metric_store_' = IF initialized_
                          THEN Append(metric_store_, [timestamp_ns |-> t, value |-> v])
                          ELSE metric_store_
  BY DEF StoreSnapshot
<1> DEFINE r == [timestamp_ns |-> t, value |-> v]
<1>2. r \in Records /\ metric_store_ \in Seq(Records) /\ Len(metric_store_) \in Nat
  BY LenProperties DEF HistoryTypes, Records
<1>3. metric_store_' = metric_store_ \/ metric_store_' = Append(metric_store_, r)
  BY <1>1
<1> HIDE DEF r
<1>4. CASE metric_store_' = metric_store_
  BY <1>2, <1>4
<1>5. CASE metric_store_' = Append(metric_store_, r)
  BY <1>2, <1>5, AppendProperties
<1> QED
  BY <1>3, <1>4, <1>5

\* The invariant holds in every state.
THEOREM HistoryTyped == HistorySpec => []HistoryTypes
<1>1. HistoryInit => HistoryTypes
  <2> SUFFICES ASSUME HistoryInit
               PROVE  HistoryTypes
    OBVIOUS
  <2>1. <<>> \in Seq(Records) /\ <<>> \in Seq(Values) /\ Len(<<>>) = 0
    BY EmptySeq
  <2>2. HOUR \in Nat /\ MAX_POINTS \in Nat
    BY HistoryAssumption
  <2> QED
    BY <2>1, <2>2 DEF HistoryInit, HistoryTypes
<1>2. HistoryTypes /\ [HistoryNext]_historyVars => HistoryTypes'
  <2> SUFFICES ASSUME HistoryTypes, [HistoryNext]_historyVars
               PROVE  HistoryTypes'
    OBVIOUS
  <2>1. HOUR \in Nat /\ MAX_POINTS \in Nat \ {0} /\ Len(metric_store_) \in Nat
        /\ Len(records_) \in Nat /\ Len(history_chart_) \in Nat
    BY HistoryAssumption, LenProperties DEF HistoryTypes
  <2>2. CASE /\ UNCHANGED <<metric_store_, records_, history_chart_, current_index_, asked,
                            current_records_, history_table_, engine>>
             /\ now' \in {now, now + 1}
    BY <2>1, <2>2 DEF HistoryTypes
  <2>3. CASE StoreSnapshot
    <3>1. asked.stored \in 0 .. Len(metric_store_') /\ metric_store_' \in Seq(Records)
      BY <2>1, <2>3, StoreAppends, LenProperties DEF HistoryTypes
    <3> QED
      BY <2>3, <3>1 DEF HistoryTypes, StoreSnapshot, found, playback
  <2>4. CASE tick
    <3>1. /\ UNCHANGED <<engine, now, metric_store_, asked, records_>>
      BY <2>4 DEF tick, store, found
    <3>2. CASE current_index_ < Len(records_)
      <4>1. current_index_' \in 0 .. Len(records_)
        BY <2>1, <2>4, <3>2, TickPlaysNext DEF HistoryTypes
      <4>2. history_chart_' \in Seq(Values) /\ Len(history_chart_') <= MAX_POINTS
        <5>1. /\ history_chart_' \in Seq(Values)
              /\ Len(history_chart_') = Smaller(MAX_POINTS, Len(history_chart_) + 1)
          BY <2>4, <3>2, TickPlaysNext
        <5> QED
          BY <2>1, <5>1 DEF Smaller
      <4> QED
        BY <3>1, <4>1, <4>2 DEF HistoryTypes
    <3>3. CASE ~(current_index_ < Len(records_))
      <4>1. current_index_ >= Len(records_)
        BY <2>1, <3>3 DEF HistoryTypes
      <4>2. UNCHANGED <<current_index_, history_chart_>>
        BY <2>4, <4>1 DEF tick
      <4> QED
        BY <3>1, <4>2 DEF HistoryTypes
    <3> QED
      BY <3>2, <3>3
  <2>5. CASE on_query_clicked
    <3>1. PICK metric \in Metrics :
             LET records == query_history(metric, now - HOUR, now)
             IN  /\ current_records_' = records
                 /\ load_records(records)
                 /\ history_table_' = [i \in 1 .. Len(records) |-> records[i]]
                 /\ history_chart_' = update_series(ValuesOf(records))
      BY <2>5 DEF on_query_clicked
    <3>2. records_' \in Seq(Records) /\ current_index_' = 0
          /\ history_chart_' = update_series(ValuesOf(records_'))
      BY <3>1, QueryFindsRecords DEF load_records
    <3>3. history_chart_' \in Seq(Values) /\ Len(history_chart_') <= MAX_POINTS
      BY <3>2, SeriesIsBounded
    <3>4. /\ UNCHANGED <<engine, now, metric_store_>>
          /\ asked' = [at |-> now, stored |-> Len(metric_store_)]
      BY <2>5 DEF on_query_clicked, store
    <3>5. 0 \in 0 .. Len(records_')
      BY <3>2, LenProperties
    <3> QED
      BY <2>1, <3>2, <3>3, <3>4, <3>5 DEF HistoryTypes
  <2>6. CASE on_stop_clicked
    <3>1. current_index_' = 0 /\ 0 \in 0 .. Len(records_)
      BY <2>1, <2>6 DEF on_stop_clicked
    <3> QED
      BY <2>6, <3>1 DEF HistoryTypes, on_stop_clicked, store, found
  <2> QED
    BY <2>2, <2>3, <2>4, <2>5, <2>6, HistorySteps
<1> QED
  BY <1>1, <1>2, PTL DEF HistorySpec

\* Playing a record keeps the latest points of the chart what was played before it.
LEMMA TickKeepsOrder ==
    ASSUME HistoryTypes, PlaybackInOrder, tick
    PROVE  PlaybackInOrder'
<1>1. /\ records_' = records_ /\ Len(records_) \in Nat /\ current_index_ \in Nat
      /\ MAX_POINTS \in Nat \ {0} /\ Len(history_chart_) \in Nat
  BY HistoryAssumption, LenProperties DEF HistoryTypes, tick
<1>2. CASE current_index_ < Len(records_)
  <2> DEFINE L == Len(history_chart_')
  <2>1. /\ current_index_' = current_index_ + 1
        /\ L = Smaller(MAX_POINTS, Len(history_chart_) + 1)
        /\ history_chart_'[L] = records_[current_index_ + 1].value
        /\ \A k \in 2 .. L : history_chart_'[L + 1 - k]
                                = history_chart_[Len(history_chart_) + 1 - (k - 1)]
    BY <1>2, TickPlaysNext
  <2>2. \A k \in 1 .. Smaller(MAX_POINTS, current_index_) :
           /\ k <= Len(history_chart_)
           /\ history_chart_[Len(history_chart_) + 1 - k] = records_[current_index_ + 1 - k].value
    BY DEF PlaybackInOrder
  <2>3. L \in Nat \ {0}
    BY <1>1, <2>1 DEF Smaller
  <2> HIDE DEF L
  <2>4. ASSUME NEW k \in 1 .. Smaller(MAX_POINTS, current_index_')
        PROVE  /\ k <= L
               /\ history_chart_'[L + 1 - k] = records_'[current_index_' + 1 - k].value
    <3>1. CASE k = 1
      <4>1. L + 1 - k = L /\ current_index_' + 1 - k = current_index_ + 1 /\ k <= L
        BY <1>1, <2>1, <2>3, <3>1
      <4> QED
        BY <1>1, <2>1, <4>1
    <3>2. CASE k # 1
      <4>1. /\ k - 1 \in 1 .. Smaller(MAX_POINTS, current_index_)
            /\ k <= MAX_POINTS /\ k \in Nat /\ 2 <= k
        BY <1>1, <2>1, <3>2 DEF Smaller
      <4>2. /\ k - 1 <= Len(history_chart_)
            /\ history_chart_[Len(history_chart_) + 1 - (k - 1)]
                  = records_[current_index_ + 1 - (k - 1)].value
        BY <2>2, <4>1
      <4>3. k <= L /\ k \in 2 .. L
        BY <1>1, <2>1, <2>3, <4>1, <4>2 DEF Smaller
      <4>4. current_index_' + 1 - k = current_index_ + 1 - (k - 1)
        BY <1>1, <2>1, <4>1
      <4>5. history_chart_'[L + 1 - k] = history_chart_[Len(history_chart_) + 1 - (k - 1)]
        BY <2>1, <4>3
      <4> QED
        BY <1>1, <4>2, <4>3, <4>4, <4>5
    <3> QED
      BY <3>1, <3>2
  <2>5. current_index_' <= Len(records_')
    BY <1>1, <1>2, <2>1
  <2> QED
    BY <2>4, <2>5 DEF L, PlaybackInOrder
<1>3. CASE ~(current_index_ < Len(records_))
  <2>1. current_index_ >= Len(records_)
    BY <1>1, <1>3
  <2>2. UNCHANGED <<current_index_, history_chart_>>
    BY <2>1 DEF tick
  <2> QED
    BY <1>1, <2>2 DEF PlaybackInOrder
<1> QED
  BY <1>2, <1>3

\* However many records there are and however often the user plays, pauses, stops
\* and asks again: the latest points of the chart are the records played, in their
\* order (playback_controller.cpp:37, history_page.cpp:24).
THEOREM PlaybackCorrect == HistorySpec => []PlaybackInOrder
<1>1. ASSUME Len(records_) \in Nat, current_index_ = 0
      PROVE  PlaybackInOrder
  <2>1. Smaller(MAX_POINTS, 0) <= 0 /\ Smaller(MAX_POINTS, 0) \in Int
    BY HistoryAssumption DEF Smaller
  <2>2. 1 .. Smaller(MAX_POINTS, 0) = {}
    BY <2>1
  <2> QED
    BY <1>1, <2>2 DEF PlaybackInOrder
<1>2. HistoryInit => PlaybackInOrder
  <2>1. Len(<<>>) = 0
    BY EmptySeq
  <2> QED
    BY <1>1, <2>1 DEF HistoryInit
<1>3. HistoryTypes /\ HistoryTypes' /\ PlaybackInOrder /\ [HistoryNext]_historyVars
         => PlaybackInOrder'
  <2> SUFFICES ASSUME HistoryTypes, HistoryTypes', PlaybackInOrder, [HistoryNext]_historyVars
               PROVE  PlaybackInOrder'
    OBVIOUS
  <2>1. CASE UNCHANGED <<records_, history_chart_, current_index_>>
    BY <2>1 DEF PlaybackInOrder
  <2>2. CASE tick
    BY <2>2, TickKeepsOrder
  <2>3. CASE current_index_' = 0
    <3>1. Len(records_') \in Nat
      BY LenProperties DEF HistoryTypes
    <3>2. Smaller(MAX_POINTS, 0) <= 0 /\ Smaller(MAX_POINTS, 0) \in Int
      BY HistoryAssumption DEF Smaller
    <3>3. 1 .. Smaller(MAX_POINTS, 0) = {}
      BY <3>2
    <3> QED
      BY <2>3, <3>1, <3>3 DEF PlaybackInOrder
  <2> QED
    BY <2>1, <2>2, <2>3, HistorySteps
       DEF StoreSnapshot, playback, on_query_clicked, load_records, on_stop_clicked
<1> QED
  BY <1>2, <1>3, HistoryTyped, PTL DEF HistorySpec

\* The places in a store of the records in the hour before a moment.
Wanted(stored, had, at) ==
    {i \in 1 .. had : /\ stored[i].timestamp_ns <= at
                      /\ at - stored[i].timestamp_ns <= HOUR}

\* What an engine answers from the first records of a store.
Answers(which, records, stored, had, at) ==
    LET answer == IF which = "sqlite" THEN Wanted(stored, had, at) ELSE 1 .. had
        Kept(S) == {stored[i] : i \in S}
    IN  /\ Kept(Wanted(stored, had, at)) \subseteq {records[i] : i \in 1 .. Len(records)}
        /\ {records[i] : i \in 1 .. Len(records)} = Kept(answer)
        /\ Len(records) = Cardinality(answer)

\* FoundIsStored in these terms.
IsAnswered ==
    /\ history_table_ = current_records_ /\ records_ = current_records_
    /\ Answers(engine, records_, metric_store_, asked.stored, asked.at)

\* The two say the same, before and after a step.
LEMMA FoundMeansAnswered == (FoundIsStored <=> IsAnswered) /\ (FoundIsStored' <=> IsAnswered')
BY DEF FoundIsStored, IsAnswered, Answers, Wanted

\* Records stored since the latest query change nothing of what it found.
LEMMA StoreKeepsAnswer ==
    ASSUME NEW stored, NEW stored2, NEW had, NEW at, NEW which, NEW records,
           \A i \in 1 .. had : stored2[i] = stored[i],
           Answers(which, records, stored, had, at)
    PROVE  Answers(which, records, stored2, had, at)
<1>1. Wanted(stored2, had, at) = Wanted(stored, had, at)
  BY DEF Wanted
<1>2. Wanted(stored, had, at) \subseteq 1 .. had
  BY DEF Wanted
<1>3. {stored2[i] : i \in Wanted(stored, had, at)} = {stored[i] : i \in Wanted(stored, had, at)}
  BY <1>2
<1>4. {stored2[i] : i \in 1 .. had} = {stored[i] : i \in 1 .. had}
  OBVIOUS
<1> QED
  BY <1>1, <1>3, <1>4 DEF Answers

\* What a query finds is in the store, and of the hour before it all of it.
LEMMA QueryAnswers ==
    ASSUME HistoryTypes, on_query_clicked
    PROVE  FoundIsStored'
<1> DEFINE N == Len(metric_store_)
           records == query_history("", now - HOUR, now)
           wanted == Within(metric_store_, now - HOUR, now)
<1>1. /\ current_records_' = records /\ records_' = records
      /\ history_table_' = [i \in 1 .. Len(records) |-> records[i]]
      /\ asked' = [at |-> now, stored |-> N]
      /\ metric_store_' = metric_store_ /\ engine' = engine
  BY DEF on_query_clicked, query_history, load_records, store
<1>2. metric_store_ \in Seq(Records) /\ N \in Nat
  BY LenProperties DEF HistoryTypes
<1>3. records \in Seq(Records)
  BY QueryFindsRecords
<1>4. history_table_' = records
  <2> HIDE DEF records
  <2> QED
    BY <1>1, <1>3
<1>5. wanted = Wanted(metric_store_, N, now)
  <2>1. now \in Nat /\ HOUR \in Nat
    BY HistoryAssumption DEF HistoryTypes
  <2>2. ASSUME NEW i \in 1 .. N
        PROVE  metric_store_[i].timestamp_ns \in Nat
    <3>1. metric_store_[i] \in Records
      BY <1>2, ElementOfSeq
    <3> QED
      BY <3>1 DEF Records
  <2>3. \A i \in 1 .. N : InRange(metric_store_[i], now - HOUR, now)
                             <=> /\ metric_store_[i].timestamp_ns <= now
                                 /\ now - metric_store_[i].timestamp_ns <= HOUR
    BY <2>1, <2>2 DEF InRange
  <2> QED
    BY <2>3 DEF Within, Wanted
<1>6. Answers(engine, records, metric_store_, N, now)
  <2>1. CASE engine = "sqlite"
    <3>1. records = RecordsInRange(metric_store_, now - HOUR, now)
      BY <2>1 DEF query_history
    <3>2. Collects(records, Records, metric_store_, wanted)
      BY <1>2, <3>1, RangeIsFound
    <3> HIDE DEF records, wanted, N
    <3> QED
      BY <1>5, <2>1, <3>2 DEF Answers, Collects
  <2>2. CASE engine # "sqlite"
    <3>1. records = metric_store_
      BY <2>2 DEF query_history
    <3> HIDE DEF records, wanted
    <3>2. Cardinality(1 .. N) = N
      <4> HIDE DEF N
      <4>1. Cardinality(1 .. N) = IF 1 > N THEN 0 ELSE N - 1 + 1
        BY <1>2, FS_Interval
      <4> QED
        BY <1>2, <4>1
    <3>3. Wanted(metric_store_, N, now) \subseteq 1 .. N
      BY DEF Wanted
    <3> QED
      BY <2>2, <3>1, <3>2, <3>3 DEF Answers
  <2> QED
    BY <2>1, <2>2
<1> HIDE DEF records, N, wanted
<1>7. asked'.at = now /\ asked'.stored = N
  BY <1>1
<1> QED
  BY <1>1, <1>4, <1>6, <1>7, FoundMeansAnswered DEF IsAnswered

\* However much is stored before and after, and whichever engine it is: the page
\* shows of the store, as it was when the query was made, the hour it asked for
\* (sqlite_persistence.cpp:57) or, of the mock engine, everything.
THEOREM QueryCorrect == HistorySpec => []FoundIsStored
<1>1. HistoryInit => FoundIsStored
  <2> SUFFICES ASSUME HistoryInit
               PROVE  FoundIsStored
    OBVIOUS
  <2>1. /\ asked.stored = 0 /\ records_ = <<>> /\ history_table_ = <<>>
        /\ current_records_ = <<>>
    BY DEF HistoryInit
  <2>2. Len(<<>>) = 0 /\ Cardinality({}) = 0 /\ 1 .. 0 = {}
    BY EmptySeq, FS_EmptySet
  <2> QED
    BY <2>1, <2>2 DEF FoundIsStored
<1>2. HistoryTypes /\ FoundIsStored /\ [HistoryNext]_historyVars => FoundIsStored'
  <2> SUFFICES ASSUME HistoryTypes, FoundIsStored, [HistoryNext]_historyVars
               PROVE  FoundIsStored'
    OBVIOUS
  <2>1. CASE UNCHANGED <<metric_store_, asked, current_records_, history_table_, records_,
                         engine>>
    BY <2>1, FoundMeansAnswered DEF IsAnswered
  <2>2. CASE StoreSnapshot
    <3>1. UNCHANGED <<asked, current_records_, history_table_, records_, engine>>
      BY <2>2 DEF StoreSnapshot, found, playback
    <3>2. \A i \in 1 .. asked.stored : metric_store_'[i] = metric_store_[i]
      <4>1. /\ asked.stored \in 0 .. Len(metric_store_) /\ Len(metric_store_) \in Nat
            /\ \A i \in 1 .. Len(metric_store_) : metric_store_'[i] = metric_store_[i]
        BY <2>2, StoreAppends, LenProperties DEF HistoryTypes
      <4>2. \A i \in 1 .. asked.stored : i \in 1 .. Len(metric_store_)
        BY <4>1
      <4> QED
        BY <4>1, <4>2
    <3>3. Answers(engine, records_, metric_store_', asked.stored, asked.at)
      BY <3>2, StoreKeepsAnswer, FoundMeansAnswered DEF IsAnswered
    <3> QED
      BY <3>1, <3>3, FoundMeansAnswered DEF IsAnswered
  <2>3. CASE on_query_clicked
    BY <2>3, QueryAnswers
  <2>4. CASE tick
    BY <2>1, <2>4 DEF tick, store, found
  <2>5. CASE on_stop_clicked
    BY <2>1, <2>5 DEF on_stop_clicked, store, found
  <2> QED
    BY <2>1, <2>2, <2>3, <2>4, <2>5, HistorySteps
<1> QED
  BY <1>1, <1>2, HistoryTyped, PTL DEF HistorySpec
================================================================================
