---------------------------- MODULE BoundedFifo ----------------------------
(***************************************************************************)
(* What app/include/sample_queue.h promises the pipeline, with no ring, no *)
(* mutex and no condition variable: a queue of at most Capacity samples    *)
(* that is handed out in the order it was filled, makes room by dropping   *)
(* its OLDEST sample, counts what it dropped, and takes nothing in once it *)
(* is closed (what it still holds can be taken out).  SampleQueue          *)
(* implements it.                                                          *)
(***************************************************************************)
EXTENDS Naturals, Sequences

CONSTANTS Consumers,   \* threads that pop
          Sample,      \* samples a producer may push
          NoSample,    \* content of a consumer's buffer before its first pop
          Capacity     \* most samples the queue holds

VARIABLES buf,       \* the queued samples, the oldest first
          closed,    \* TRUE after shutdown
          dropped,   \* how many samples were given up for newer ones
          out        \* the last sample each consumer was handed

vars == <<buf, closed, dropped, out>>

Init == /\ buf = <<>>
        /\ closed = FALSE
        /\ dropped = 0
        /\ out = [c \in Consumers |-> NoSample]

(* mutants: no limit; the loss of the oldest sample is not counted *)
PushUnbounded(s) == ~closed /\ buf' = Append(buf, s) /\ UNCHANGED <<closed, dropped, out>>
PushUncounted(s) ==
    /\ ~closed
    /\ buf' = Append(IF Len(buf) < Capacity THEN buf ELSE Tail(buf), s)
    /\ UNCHANGED <<closed, dropped, out>>

Push(s) == /\ ~closed
           /\ IF Len(buf) < Capacity
              THEN buf' = Append(buf, s) /\ UNCHANGED dropped
              ELSE buf' = Append(Tail(buf), s) /\ dropped' = dropped + 1
           /\ UNCHANGED <<closed, out>>

Pop(c) == /\ buf # <<>>
          /\ out' = [out EXCEPT ![c] = Head(buf)]
          /\ buf' = Tail(buf)
          /\ UNCHANGED <<closed, dropped>>

Close == closed' = TRUE /\ UNCHANGED <<buf, dropped, out>>

Next == \/ \E s \in Sample : Push(s)
        \/ \E c \in Consumers : Pop(c)
        \/ Close

Spec == Init /\ [][Next]_vars
=============================================================================
