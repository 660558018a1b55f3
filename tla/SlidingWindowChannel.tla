------------------------- MODULE SlidingWindowChannel -------------------------
(***************************************************************************)
(* What sysscope::telemetry::BoundedQueue promises its users: a channel    *)
(* that never blocks a sender, delivers items in the order they were sent, *)
(* each at most once, and forgets the oldest undelivered item - and only   *)
(* that one - when a send finds Window items outstanding.  Items are       *)
(* numbered 1, 2, ... in the order they are sent; the outstanding items    *)
(* are next .. sent.                                                       *)
(***************************************************************************)
EXTENDS Naturals, Sequences

CONSTANT Window    \* how many undelivered items the channel keeps

VARIABLES sent,       \* number of the last item sent
          next,       \* number of the oldest item still outstanding
          delivered   \* the numbers of the items handed out, in that order

chanVars == <<sent, next, delivered>>

ChanInit == sent = 0 /\ next = 1 /\ delivered = <<>>

Outstanding == next .. sent

Send == /\ sent' = sent + 1
        /\ next' = IF sent + 1 - next < Window THEN next ELSE next + 1
        /\ UNCHANGED delivered

Deliver == /\ next <= sent
           /\ delivered' = Append(delivered, next)
           /\ next' = next + 1
           /\ UNCHANGED sent

ChanNext == Send \/ Deliver

ChanSpec == ChanInit /\ [][ChanNext]_chanVars
===============================================================================
