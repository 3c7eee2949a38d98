------------------------------ MODULE MCCommands ------------------------------
(* A command path with small mailboxes and ints of 16 bits. *)
EXTENDS Commands

Number(n) == [kind |-> "number", n |-> n]
Word      == [kind |-> "word", n |-> 0]
Empty     == [kind |-> "empty", n |-> 0]
PollRate(text) == [param |-> "sensor_poll_rate", text |-> text]

\* A parameter nobody knows, a poll rate without text and a parameter that names a sensor but
\* no setting; and a poll rate in range.  40 s is past the range of 16 bits.
MCMessages ==
  { <<[param |-> "other", text |-> Word], PollRate(Empty),
      [param |-> "sensor_other", text |-> Number(20)]>>,
    <<PollRate(Number(10))>> }
MCGarbage == {9, 40}
=============================================================================
