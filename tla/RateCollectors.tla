---------------------------- MODULE RateCollectors ----------------------------
(***************************************************************************)
(* sysscope::collectors::DiskCollector and NetworkCollector                *)
(* (src/src/collectors/disk.cpp, network.cpp).                             *)
(*                                                                         *)
(* Both list the devices, take one stamp of the wall clock for the whole   *)
(* collection, and report for each device how much its counters grew since *)
(* the last collection over the time between the two stamps.  The disk     *)
(* collector then reads one file after the other, each of which may fail;  *)
(* the network collector has everything in the one file it read before.    *)
(* Meanwhile devices work, vanish and return with counters of zero, and    *)
(* the clock is set.  A collection that cannot list changes nothing and    *)
(* has no action.                                                          *)
(*                                                                         *)
(* All counters of a device are treated alike and are one; a rate is kept  *)
(* as the fraction ops/elapsed.                                            *)
(***************************************************************************)
EXTENDS Integers

CONSTANTS Devices,
          Modulus,   \* uint64_t arithmetic is modulo this
          MaxWork,   \* bound of the model: count of a device
          MaxTime    \* bound of the model: the clock, and the time between two stamps

ASSUME ConstAssumption == /\ MaxWork \in Nat /\ MaxTime \in Nat
                          /\ Modulus \in Nat
                          /\ MaxWork < Modulus /\ MaxTime < Modulus

VARIABLES present,              \* the devices there are
          count,                \* the kernel's counter of each
          clock,                \* the wall clock
          one_file,             \* is it the network collector?
          has_previous_state_,
          previous_states_,     \* previous_disk_states_, previous_iface_states_
          pc,                   \* position inside collect
          entries,              \* the devices listed and not handled yet
          lines,                \* the contents of /proc/net/dev
          now_ns,
          current_states,       \* current_disk_states, current_iface_states
          snapshot,             \* by device, see Info
          since,                \* history: of each device since its last reading
          sinceStamp,           \* history: see Interval, since the last stamp
          interval              \* history: between the last two, during a collection

kernel == <<present, count, clock>>
baseline == <<one_file, has_previous_state_, previous_states_>>
locals == <<entries, lines, now_ns, current_states, snapshot>>
stamps == <<sinceStamp, interval>>
vars == <<kernel, baseline, pc, locals, since, stamps>>

-------------------------------------------------------------------------------
\* What is kept of a device.
State == [count : 0 .. MaxWork, timestamp_ns : 0 .. MaxTime]

\* History of a device: how much it worked, and whether it was removed before.
Since == [work : Nat, reset : BOOLEAN]
Nothing == [work |-> 0, reset |-> FALSE]

\* The time that really passed, and whether the clock was set.
Interval == [time : Nat, set : BOOLEAN]
NoTime == [time |-> 0, set |-> FALSE]

\* A reading of a device, with its history.
Reading == [count : 0 .. MaxWork, since : Since]
ReadingOf(d) == [count |-> count[d], since |-> since[d]]

\* What a snapshot shows of a device: whether there is a rate, the rate, and as
\* history what it should be, unless the device was reset or the clock set.
Info == [shown : BOOLEAN, ops : Nat, elapsed : Nat,
         trueOps : Nat, trueElapsed : Nat, disturbed : BOOLEAN]

\* Functions from some of the devices.
IsPartial(f, T) == DOMAIN f \subseteq Devices /\ f \in [DOMAIN f -> T]
Empty == [d \in {} |-> Nothing]
With(f, d, x) == [e \in DOMAIN f \union {d} |-> IF e = d THEN x ELSE f[e]]

\* Unsigned subtraction.
Minus(a, b) == IF a >= b THEN a - b ELSE a - b + Modulus

\* A device that was in the last collection, some time ago.
ShowsRate(d) == /\ has_previous_state_
                /\ d \in DOMAIN previous_states_
                /\ Minus(now_ns, previous_states_[d].timestamp_ns) > 0

InfoOf(d, r) ==
    [shown       |-> ShowsRate(d),
     ops         |-> IF ShowsRate(d) THEN Minus(r.count, previous_states_[d].count) ELSE 0,
     elapsed     |-> IF ShowsRate(d) THEN Minus(now_ns, previous_states_[d].timestamp_ns)
                                     ELSE 0,
     trueOps     |-> r.since.work,
     trueElapsed |-> interval.time,
     disturbed   |-> r.since.reset \/ interval.set]

-------------------------------------------------------------------------------
Init == /\ present \in SUBSET Devices
        /\ count = [d \in Devices |-> 0]
        /\ clock = 0
        /\ one_file \in BOOLEAN
        /\ has_previous_state_ = FALSE /\ previous_states_ = Empty
        /\ pc = "idle"
        /\ entries = {} /\ lines = Empty /\ now_ns = 0
        /\ current_states = Empty /\ snapshot = Empty
        /\ since = [d \in Devices |-> Nothing]
        /\ sinceStamp = NoTime /\ interval = NoTime

(* The devices and the clock.                                              *)

Work(d) == /\ d \in present /\ count[d] < MaxWork
           /\ count' = [count EXCEPT ![d] = @ + 1]
           /\ since' = [since EXCEPT ![d].work = @ + 1]
           /\ UNCHANGED <<present, clock, baseline, pc, locals, stamps>>

\* The counters of a device go with it.
Unplug(d) == /\ d \in present
             /\ present' = present \ {d}
             /\ count' = [count EXCEPT ![d] = 0]
             /\ since' = [since EXCEPT ![d] = [work |-> 0, reset |-> TRUE]]
             /\ UNCHANGED <<clock, baseline, pc, locals, stamps>>

Plug(d) == /\ d \in Devices \ present
           /\ present' = present \union {d}
           /\ UNCHANGED <<count, clock, baseline, pc, locals, since, stamps>>

Pass == /\ clock < MaxTime /\ sinceStamp.time < MaxTime
        /\ clock' = clock + 1
        /\ sinceStamp' = [sinceStamp EXCEPT !.time = @ + 1]
        /\ UNCHANGED <<present, count, baseline, pc, locals, since, interval>>

SetClock == /\ clock' \in 0 .. MaxTime
            /\ sinceStamp' = [sinceStamp EXCEPT !.set = TRUE]
            /\ UNCHANGED <<present, count, baseline, pc, locals, since, interval>>

(* collect.                                                                *)

\* The directory is listed, or the network's file is read.
List == /\ pc = "idle"
        /\ pc' = "listed"
        /\ entries' = present
        /\ IF one_file
           THEN /\ lines' = [d \in present |-> ReadingOf(d)]
                /\ since' = [d \in Devices |-> IF d \in present THEN Nothing ELSE since[d]]
           ELSE UNCHANGED <<lines, since>>
        /\ UNCHANGED <<kernel, baseline, now_ns, current_states, snapshot, stamps>>

Stamp == /\ pc = "listed"
         /\ pc' = "reading"
         /\ now_ns' = clock
         /\ interval' = sinceStamp /\ sinceStamp' = NoTime
         /\ UNCHANGED <<kernel, baseline, entries, lines, current_states, snapshot, since>>

\* A device is added to the snapshot and to the next baseline.
Handle(d, r) == /\ entries' = entries \ {d}
                /\ current_states' = With(current_states, d,
                                          [count |-> r.count, timestamp_ns |-> now_ns])
                /\ snapshot' = With(snapshot, d, InfoOf(d, r))
                /\ UNCHANGED <<kernel, baseline, pc, lines, now_ns, stamps>>

ReadFile(d) == /\ pc = "reading" /\ d \in entries
               /\ ~one_file /\ d \in present
               /\ since' = [since EXCEPT ![d] = Nothing]
               /\ Handle(d, ReadingOf(d))

\* The file of a device cannot be read, for one because the device has gone.
SkipFile(d) == /\ pc = "reading" /\ d \in entries
               /\ ~one_file
               /\ entries' = entries \ {d}
               /\ UNCHANGED <<kernel, baseline, pc, lines, now_ns, current_states, snapshot,
                              since, stamps>>

ParseLine(d) == /\ pc = "reading" /\ d \in entries
                /\ one_file
                /\ Handle(d, lines[d])
                /\ UNCHANGED since

\* The snapshot has been returned and the local variables are gone.
ClearLocals == /\ lines' = Empty /\ now_ns' = 0
               /\ current_states' = Empty /\ snapshot' = Empty
               /\ interval' = NoTime

\* Slips: the baselines are merged into the old ones, which win or lose.
FinishKeeping ==
    /\ pc = "reading" /\ entries = {}
    /\ pc' = "idle"
    /\ previous_states_' = [d \in DOMAIN previous_states_ \union DOMAIN current_states |->
                              IF d \in DOMAIN previous_states_ THEN previous_states_[d]
                                                               ELSE current_states[d]]
    /\ has_previous_state_' = TRUE
    /\ ClearLocals
    /\ UNCHANGED <<kernel, one_file, entries, since, sinceStamp>>

FinishMerging ==
    /\ pc = "reading" /\ entries = {}
    /\ pc' = "idle"
    /\ previous_states_' = [d \in DOMAIN previous_states_ \union DOMAIN current_states |->
                              IF d \in DOMAIN current_states THEN current_states[d]
                                                             ELSE previous_states_[d]]
    /\ has_previous_state_' = TRUE
    /\ ClearLocals
    /\ UNCHANGED <<kernel, one_file, entries, since, sinceStamp>>

\* The baselines are replaced.
Finish == /\ pc = "reading" /\ entries = {}
          /\ pc' = "idle"
          /\ previous_states_' = current_states
          /\ has_previous_state_' = TRUE
          /\ ClearLocals
          /\ UNCHANGED <<kernel, one_file, entries, since, sinceStamp>>

Next == \/ \E d \in Devices : Work(d) \/ Unplug(d) \/ Plug(d)
        \/ Pass \/ SetClock
        \/ List \/ Stamp
        \/ \E d \in Devices : ReadFile(d) \/ SkipFile(d) \/ ParseLine(d)
        \/ Finish

Spec == Init /\ [][Next]_vars

-------------------------------------------------------------------------------
\* Every variable has its type; a snapshot shows what is kept for the next one.
TypeOK == /\ present \subseteq Devices
          /\ count \in [Devices -> 0 .. MaxWork]
          /\ clock \in 0 .. MaxTime
          /\ one_file \in BOOLEAN /\ has_previous_state_ \in BOOLEAN
          /\ IsPartial(previous_states_, State)
          /\ pc \in {"idle", "listed", "reading"}
          /\ entries \subseteq Devices
          /\ IsPartial(lines, Reading) /\ (one_file => entries \subseteq DOMAIN lines)
          /\ now_ns \in 0 .. MaxTime
          /\ IsPartial(current_states, State)
          /\ IsPartial(snapshot, Info)
          /\ DOMAIN snapshot = DOMAIN current_states
          /\ since \in [Devices -> Since]
          /\ sinceStamp \in Interval /\ interval \in Interval

\* A rate is what the device did between its last two readings over the time that
\* passed between the stamps of their collections, whatever was plugged or could
\* not be read in between - unless this device was reset or the clock was set.
RateIsTrue ==
    \A d \in DOMAIN snapshot :
        LET i == snapshot[d]
        IN  (i.shown /\ ~i.disturbed) => (i.ops = i.trueOps /\ i.elapsed = i.trueElapsed)

\* All rates of a snapshot are over the same interval, also of devices that were
\* missing for a collection, and even if the clock was set.
OneInterval ==
    \A d, e \in DOMAIN snapshot :
        (snapshot[d].shown /\ snapshot[e].shown) => snapshot[d].elapsed = snapshot[e].elapsed
===============================================================================
