--------------------------- MODULE TelemetryService ---------------------------
(***************************************************************************)
(* What the measurement path promises: the packets of completed polls are  *)
(* handed to the broker one at a time, in poll order, each at most once,   *)
(* and each carries the reading of its own poll or none.  A packet is lost *)
(* only when Publish fails (QoS 0) or the board resets.                    *)
(***************************************************************************)
EXTENDS Integers, Sequences

VARIABLES poll, open, pending, published

vars == <<poll, open, pending, published>>

Init == poll = 0 /\ open = FALSE /\ pending = <<>> /\ published = <<>>

Begin == /\ ~open
         /\ open' = TRUE
         /\ poll' = poll + 1
         /\ UNCHANGED <<pending, published>>

Report == /\ open
          /\ open' = FALSE
          /\ \E r \in {0, poll} :
               pending' = Append(pending, [of |-> poll, reading |-> r])
          /\ UNCHANGED <<poll, published>>

HandOver == /\ pending # <<>>
            /\ pending' = Tail(pending)
            /\ published' \in {published, Append(published, Head(pending))}
            /\ UNCHANGED <<poll, open>>

Reset == /\ open' = FALSE
         /\ pending' = <<>>
         /\ UNCHANGED <<poll, published>>

Next == Begin \/ Report \/ HandOver \/ Reset

Spec == Init /\ [][Next]_vars
=============================================================================
