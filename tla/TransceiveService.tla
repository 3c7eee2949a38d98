--------------------------- MODULE TransceiveService ---------------------------
(* What the command library expects of optiga_comms_transceive: one call at  *)
(* a time, each answered once, and a successful answer is the response to    *)
(* that call.  Only after the device missed a re-sync, or none was sent      *)
(* though the call before had gone astray, may it be the response to an      *)
(* earlier one.                                                              *)
EXTENDS Naturals

VARIABLES
    phase,              \* "idle", "busy", "answered"
    call,               \* number of the call under way or last made
    answer,             \* 0 for an error, otherwise the call the response belongs to
    unsynced            \* the device missed a re-sync, or should have been sent one

vars == <<phase, call, answer, unsynced>>

Init == phase = "idle" /\ call = 0 /\ answer = 0 /\ unsynced = FALSE

Transceive ==
    /\ phase = "idle" /\ phase' = "busy" /\ call' = call + 1
    /\ unsynced' \in {unsynced, TRUE}
    /\ UNCHANGED answer

Report ==
    /\ phase = "busy" /\ phase' = "answered"
    /\ answer' \in IF unsynced THEN 0..call ELSE {0, call}
    /\ UNCHANGED <<call, unsynced>>

Take == phase = "answered" /\ phase' = "idle" /\ answer' = 0 /\ UNCHANGED <<call, unsynced>>

LoseSync == unsynced' = TRUE /\ UNCHANGED <<phase, call, answer>>

Next == Transceive \/ Report \/ Take \/ LoseSync
Spec == Init /\ [][Next]_vars
=============================================================================
