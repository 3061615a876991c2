---------------------------- MODULE MCSerialLink ----------------------------
(* SerialLink for TLC: the bounds on the faults. *)
EXTENDS SerialLink, TLC

Bounds(n, all) == [k \in {"late", "lost", "exception", "damage", "split",
                          "echo", "write", "read", "interrupt", "restart"} |-> n]
                  @@ ("all" :> all)

TwoFaults == [Bounds(2, 2) EXCEPT !["damage"] = 1]
=============================================================================
