------------------------------- MODULE Alarm -------------------------------
(***************************************************************************)
(* What the gateway makes of a set of registers: app/src/sample.c turns    *)
(* them into a sample, app/src/processor.c compares it with the thresholds *)
(* and debounces the verdict.                                              *)
(*                                                                         *)
(* Quantities are kept in the unit of their register (0.01 pH, 0.01 C,     *)
(* 0.01 NTU, 1 us/cm).  The code compares floats scaled by 0.01f; for      *)
(* every register value that gives the same order as the integers here.    *)
(***************************************************************************)
EXTENDS Integers

CONSTANTS OnCount,   \* DEBOUNCE_ON_COUNT
          OffCount,  \* DEBOUNCE_OFF_COUNT
          MaxRun     \* bound of the model: the run counters stop there

ASSUME AlarmAssumption ==
    /\ OnCount \in Nat \ {0} /\ OffCount \in Nat \ {0}
    /\ MaxRun \in Nat /\ MaxRun >= OnCount /\ MaxRun >= OffCount

(* (signed short) of a register. *)
Signed16(word) == IF word < 32768 THEN word ELSE word - 65536

(* sample_from_modbus_regs, as far as the thresholds look. *)
FromRegs(regs) == [ph           |-> regs[1],
                   temperature  |-> Signed16(regs[2]),
                   turbidity    |-> regs[3],
                   conductivity |-> regs[4]]

(* sample_generate_mock; seq is the value of ++g_mock_sequence. *)
Mock(seq) == [ph           |-> 700 + (seq % 20),
              temperature  |-> 2500 + (seq % 50),
              turbidity    |-> 300 + (seq % 30),
              conductivity |-> 800 + (seq % 40)]

(* processor_threshold_default; temp_min is set and compared nowhere. *)
Threshold == [ph_min |-> 650, ph_max |-> 850, temp_min |-> 0,
              temp_max |-> 4500, turb_max |-> 500, cond_max |-> 2000]

(* mutant: a value at the limit is reported *)
InclusiveAlarm(sample, th) ==
    {bit \in {"PH_LOW", "PH_HIGH", "TEMP_HIGH", "TURB_HIGH", "COND_HIGH"} :
        \/ bit = "PH_LOW"    /\ sample.ph <= th.ph_min
        \/ bit = "PH_HIGH"   /\ sample.ph >= th.ph_max
        \/ bit = "TEMP_HIGH" /\ sample.temperature >= th.temp_max
        \/ bit = "TURB_HIGH" /\ sample.turbidity >= th.turb_max
        \/ bit = "COND_HIGH" /\ sample.conductivity >= th.cond_max}

processor_compute_alarm(sample, th) ==
    {bit \in {"PH_LOW", "PH_HIGH", "TEMP_HIGH", "TURB_HIGH", "COND_HIGH"} :
        \/ bit = "PH_LOW"    /\ sample.ph < th.ph_min
        \/ bit = "PH_HIGH"   /\ ~(sample.ph < th.ph_min) /\ sample.ph > th.ph_max
        \/ bit = "TEMP_HIGH" /\ sample.temperature > th.temp_max
        \/ bit = "TURB_HIGH" /\ sample.turbidity > th.turb_max
        \/ bit = "COND_HIGH" /\ sample.conductivity > th.cond_max}

-----------------------------------------------------------------------------
(* The locals of processor_thread. *)
Debouncer == [led_on : BOOLEAN, alarm_cnt : 0 .. MaxRun, clear_cnt : 0 .. MaxRun]
Fresh == [led_on |-> FALSE, alarm_cnt |-> 0, clear_cnt |-> 0]

(* A run counter counts on for years; past MaxRun no comparison changes. *)
Inc(n) == IF n < MaxRun THEN n + 1 ELSE n

(* mutant: the run never gets longer than one *)
AfterAlarmForgets(d) ==
    [led_on |-> d.led_on \/ 1 >= OnCount, alarm_cnt |-> 1, clear_cnt |-> 0]

AfterAlarm(d) ==
    LET n == Inc(d.alarm_cnt)
    IN  [led_on    |-> d.led_on \/ n >= OnCount,
         alarm_cnt |-> n,
         clear_cnt |-> 0]

(* mutant: a clear sample takes one off the run of alarms *)
AfterClearLeaky(d) ==
    LET n == Inc(d.clear_cnt)
    IN  [led_on    |-> d.led_on /\ ~(n >= OffCount),
         alarm_cnt |-> d.alarm_cnt - 1,
         clear_cnt |-> n]

AfterClear(d) ==
    LET n == Inc(d.clear_cnt)
    IN  [led_on    |-> d.led_on /\ ~(n >= OffCount),
         alarm_cnt |-> 0,
         clear_cnt |-> n]

(* The debouncer after a sample with these alarm bits. *)
Debounce(d, alarm) == IF alarm # {} THEN AfterAlarm(d) ELSE AfterClear(d)
=============================================================================
