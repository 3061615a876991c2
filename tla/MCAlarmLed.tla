----------------------------- MODULE MCAlarmLed -----------------------------
(* AlarmLed for TLC: every limit the code compares from both sides.        *)
EXTENDS AlarmLed

Limits == {649, 650, 850, 851} \X {0, 4500, 4501}
              \X {500, 501} \X {2000, 2001}
Seqs == 1 .. 600
=============================================================================
