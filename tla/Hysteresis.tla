----------------------------- MODULE Hysteresis -----------------------------
(***************************************************************************)
(* What processor.c promises of its alarm: it is raised when the last      *)
(* OnCount samples of this process were all out of range, taken back when  *)
(* the last OffCount were all in range, and otherwise left as it is.       *)
(***************************************************************************)
EXTENDS Integers, Sequences

CONSTANTS OnCount, OffCount

VARIABLES on,     \* is the alarm raised?
          recent  \* verdicts on the last samples, the newest first

Window == IF OnCount > OffCount THEN OnCount ELSE OffCount

(* The verdicts once v is the newest. *)
With(v) == LET all == <<v>> \o recent
           IN  SubSeq(all, 1, IF Len(all) < Window THEN Len(all) ELSE Window)

(* The newest n samples were all judged v. *)
AllOf(verdicts, n, v) == Len(verdicts) >= n /\ \A i \in 1 .. n : verdicts[i] = v

Init == on = FALSE /\ recent = <<>>

Sample(v) ==
    /\ recent' = With(v)
    /\ on' = \/ AllOf(recent', OnCount, TRUE)
             \/ on /\ ~AllOf(recent', OffCount, FALSE)

(* A new process knows nothing of the one before it. *)
Restart == on' = FALSE /\ recent' = <<>>

Next == Restart \/ \E v \in BOOLEAN : Sample(v)

Spec == Init /\ [][Next]_<<on, recent>>
=============================================================================
