--------------------------- MODULE AlarmLedProofs ---------------------------
(***************************************************************************)
(* What AlarmLed.tla promises for every pair of debounce counts, all the   *)
(* register values a slave may hold, with no temperature below zero, and   *)
(* every sequence of the mock generator: the debouncer is Hysteresis, an   *)
(* alarm is shown and the light is on for a reason.                        *)
(*                                                                         *)
(* The inductive invariant IInv ties the run counters of processor_thread  *)
(* to the verdicts on the last samples, and the light to the debouncer.    *)
(***************************************************************************)
EXTENDS AlarmLed, TLAPS

-----------------------------------------------------------------------------
(* The counters are the lengths of the runs that end with the last sample, *)
(* as far as the window of Hysteresis reaches.                             *)
CountersAreRuns ==
    \A n \in 1 .. H!Window :
        /\ H!AllOf(recent, n, TRUE) <=> d.alarm_cnt >= n
        /\ H!AllOf(recent, n, FALSE) <=> d.clear_cnt >= n

(* A run of alarms of OnCount has raised the alarm. *)
RunsRaise == d.alarm_cnt >= OnCount => d.led_on

(* The driver cannot be removed under an open device. *)
OpenIsLoaded == up /\ alarm_fd => loaded

IInv == TypeOK /\ CountersAreRuns /\ RunsRaise /\ OpenIsLoaded /\ LitForAReason

-----------------------------------------------------------------------------
(* The thresholds.                                                         *)

(* Which comparisons raise a bit. *)
LEMMA SomeBit ==
    ASSUME NEW sample,
           sample.ph \in Int, sample.temperature \in Int,
           sample.turbidity \in Int, sample.conductivity \in Int
    PROVE  processor_compute_alarm(sample, Threshold) # {}
             <=> \/ sample.ph < 650 \/ sample.ph > 850
                 \/ sample.temperature > 4500 \/ sample.turbidity > 500
                 \/ sample.conductivity > 2000
<1> DEFINE A == processor_compute_alarm(sample, Threshold)
<1>1. /\ Threshold.ph_min = 650 /\ Threshold.ph_max = 850
      /\ Threshold.temp_max = 4500 /\ Threshold.turb_max = 500
      /\ Threshold.cond_max = 2000
    BY DEF Threshold
<1>2. /\ "PH_LOW" \in A <=> sample.ph < 650
      /\ "PH_HIGH" \in A <=> ~(sample.ph < 650) /\ sample.ph > 850
      /\ "TEMP_HIGH" \in A <=> sample.temperature > 4500
      /\ "TURB_HIGH" \in A <=> sample.turbidity > 500
      /\ "COND_HIGH" \in A <=> sample.conductivity > 2000
    BY <1>1 DEF processor_compute_alarm
<1>3. A \subseteq {"PH_LOW", "PH_HIGH", "TEMP_HIGH", "TURB_HIGH", "COND_HIGH"}
    BY DEF processor_compute_alarm
<1> HIDE DEF A
<1>4. A # {} <=> \/ "PH_LOW" \in A \/ "PH_HIGH" \in A \/ "TEMP_HIGH" \in A
                 \/ "TURB_HIGH" \in A \/ "COND_HIGH" \in A
    BY <1>3
<1>5. A # {} <=> \/ sample.ph < 650 \/ sample.ph > 850
                 \/ sample.temperature > 4500 \/ sample.turbidity > 500
                 \/ sample.conductivity > 2000
    BY <1>2, <1>4
<1> QED BY <1>5 DEF A

(* The code's comparisons agree with a reader's of the documented limits   *)
(* for every value of the registers that is no temperature below zero.     *)
LEMMA VerdictOnReading ==
    ASSUME NEW regs \in Readings
    PROVE  processor_compute_alarm(FromRegs(regs), Threshold) # {} <=> ~InRange(regs)
<1>1. \A i \in 1 .. 4 : regs[i] \in Nat
    <2> DEFINE top == 65535
    <2>1. Register = 0 .. top /\ top \in Nat
        BY DEF Register
    <2> HIDE DEF top
    <2>2. \A i \in 1 .. 4 : regs[i] \in Register
        BY LedAssumption
    <2> QED BY <2>1, <2>2
<1> DEFINE t == Signed16(regs[2])
<1>2. /\ t \in Int
      /\ t > 4500 <=> ~(regs[2] <= 4500)
    BY <1>1, NoneBelowZero DEF Signed16
<1> DEFINE s == FromRegs(regs)
<1>3. /\ s.ph = regs[1] /\ s.temperature = t
      /\ s.turbidity = regs[3] /\ s.conductivity = regs[4]
    BY DEF FromRegs
<1> HIDE DEF s, t
<1>4. processor_compute_alarm(s, Threshold) # {}
        <=> \/ regs[1] < 650 \/ regs[1] > 850 \/ t > 4500
            \/ regs[3] > 500 \/ regs[4] > 2000
    <2>1. /\ s.ph \in Int /\ s.temperature \in Int
          /\ s.turbidity \in Int /\ s.conductivity \in Int
        BY <1>1, <1>2, <1>3
    <2> QED BY <2>1, <1>3, SomeBit
<1> QED BY <1>1, <1>2, <1>4 DEF InRange, s

(* No mock sample is out of range, whatever its number. *)
LEMMA VerdictOnMock ==
    ASSUME NEW seq \in MockSeqs
    PROVE  processor_compute_alarm(Mock(seq), Threshold) = {}
<1>1. /\ seq % 20 \in 0 .. 19 /\ seq % 50 \in 0 .. 49
      /\ seq % 30 \in 0 .. 29 /\ seq % 40 \in 0 .. 39
    BY LedAssumption
<1>2. /\ Mock(seq).ph \in 700 .. 719 /\ Mock(seq).temperature \in 2500 .. 2549
      /\ Mock(seq).turbidity \in 300 .. 329
      /\ Mock(seq).conductivity \in 800 .. 839
    BY <1>1 DEF Mock
<1> DEFINE s == Mock(seq)
<1> HIDE DEF s
<1>3. /\ s.ph \in 700 .. 719 /\ s.temperature \in 2500 .. 2549
      /\ s.turbidity \in 300 .. 329 /\ s.conductivity \in 800 .. 839
    BY <1>2 DEF s
<1>4. processor_compute_alarm(s, Threshold) = {}
    BY <1>3, SomeBit
<1> QED BY <1>4 DEF s

-----------------------------------------------------------------------------
(* The window of Hysteresis.                                               *)

LEMMA WindowBounds ==
    /\ H!Window \in Nat \ {0} /\ H!Window <= MaxRun
    /\ OnCount \in 1 .. H!Window /\ OffCount \in 1 .. H!Window
BY AlarmAssumption DEF H!Window

(* The newest n verdicts, once v is the newest of all. *)
LEMMA AllOfWith ==
    ASSUME TypeOK, NEW v \in BOOLEAN, NEW u \in BOOLEAN, NEW n \in 1 .. H!Window
    PROVE  H!AllOf(H!With(v), n, u)
             <=> v = u /\ (n = 1 \/ (n - 1 \in 1 .. H!Window /\ H!AllOf(recent, n - 1, u)))
<1> DEFINE all == <<v>> \o recent
           W == H!Window
           m == IF Len(all) < W THEN Len(all) ELSE W
<1>1. recent \in Seq(BOOLEAN) /\ Len(recent) <= W /\ W \in Nat \ {0}
    BY WindowBounds DEF TypeOK
<1>2. /\ all \in Seq(BOOLEAN) /\ Len(all) = Len(recent) + 1
      /\ all[1] = v /\ \A i \in 2 .. Len(recent) + 1 : all[i] = recent[i - 1]
    BY <1>1
<1>3. m \in 1 .. Len(all) /\ (m = Len(recent) + 1 \/ (m = W /\ W <= Len(recent) + 1))
    BY <1>1, <1>2
<1> HIDE DEF all, m
<1>4. H!With(v) = SubSeq(all, 1, m)
    BY DEF H!With, all, m
<1>5. /\ Len(H!With(v)) = m
      /\ \A i \in 1 .. m : H!With(v)[i] = all[i]
    BY <1>2, <1>3, <1>4
<1>6. H!AllOf(H!With(v), n, u) <=> n <= m /\ \A i \in 1 .. n : all[i] = u
    BY <1>3, <1>5 DEF H!AllOf
<1>7. n <= m <=> n = 1 \/ n - 1 <= Len(recent)
    BY <1>1, <1>3
<1>8. (\A i \in 1 .. n : all[i] = u)
        <=> v = u /\ \A i \in 2 .. n : all[i] = u
    BY <1>2
<1>9. n - 1 <= Len(recent) => ((\A i \in 2 .. n : all[i] = u)
                                <=> \A i \in 1 .. n - 1 : recent[i] = u)
    <2> SUFFICES ASSUME n - 1 <= Len(recent)
                 PROVE  (\A i \in 2 .. n : all[i] = u)
                          <=> \A i \in 1 .. n - 1 : recent[i] = u
        OBVIOUS
    <2>1. \A i \in 1 .. n - 1 : i + 1 \in 2 .. n /\ all[i + 1] = recent[i]
        BY <1>1, <1>2
    <2>2. \A i \in 2 .. n : i - 1 \in 1 .. n - 1 /\ all[i] = recent[i - 1]
        BY <1>1, <1>2
    <2> QED BY <2>1, <2>2
<1>10. CASE n = 1
    BY <1>6, <1>7, <1>8, <1>10
<1>11. CASE n # 1
    <2>1. n - 1 \in 1 .. H!Window
        BY <1>1, <1>11
    <2>2. H!AllOf(recent, n - 1, u)
            <=> n - 1 <= Len(recent) /\ \A i \in 1 .. n - 1 : recent[i] = u
        BY <1>1 DEF H!AllOf
    <2> HIDE DEF W
    <2>3. H!AllOf(H!With(v), n, u)
            <=> (n - 1 <= Len(recent)) /\ v = u /\ \A i \in 2 .. n : all[i] = u
        BY <1>6, <1>7, <1>8, <1>11
    <2>4. H!AllOf(H!With(v), n, u) <=> v = u /\ H!AllOf(recent, n - 1, u)
        BY <1>9, <2>2, <2>3
    <2> QED BY <1>11, <2>1, <2>4
<1> QED BY <1>10, <1>11

LEMMA WithType ==
    ASSUME TypeOK, NEW v \in BOOLEAN
    PROVE  H!With(v) \in UNION {[1 .. n -> BOOLEAN] : n \in 0 .. H!Window}
<1> DEFINE all == <<v>> \o recent
           W == H!Window
           m == IF Len(all) < W THEN Len(all) ELSE W
<1>1. recent \in Seq(BOOLEAN) /\ W \in Nat \ {0}
    BY WindowBounds DEF TypeOK
<1>2. all \in Seq(BOOLEAN) /\ m \in 0 .. W /\ m <= Len(all)
    BY <1>1
<1> HIDE DEF all, m
<1>3. SubSeq(all, 1, m) = [i \in 1 .. m |-> all[i]]
    BY <1>2
<1>4. \A i \in 1 .. m : all[i] \in BOOLEAN
    BY <1>2
<1>5. SubSeq(all, 1, m) \in [1 .. m -> BOOLEAN]
    BY <1>3, <1>4
<1> QED BY <1>2, <1>5 DEF H!With, all, m

-----------------------------------------------------------------------------
(* One sample of the debouncer.                                            *)

(* A counter that stops at MaxRun compares with 1 .. Window as one that    *)
(* goes on would.                                                          *)
LEMMA IncCompares ==
    ASSUME NEW c \in 0 .. MaxRun
    PROVE  /\ Inc(c) \in 1 .. MaxRun
           /\ \A n \in 1 .. H!Window :
                  Inc(c) >= n <=> n = 1 \/ (n - 1 \in 1 .. H!Window /\ c >= n - 1)
<1>1. MaxRun \in Nat /\ H!Window \in Nat \ {0} /\ H!Window <= MaxRun
    BY WindowBounds, AlarmAssumption
<1> QED BY <1>1 DEF Inc

(* The debouncer after a sample counts the runs of the new window, and     *)
(* raises and clears as Hysteresis does.                                   *)
LEMMA DebounceCounts ==
    ASSUME TypeOK, CountersAreRuns, RunsRaise,
           NEW v \in BOOLEAN, NEW bits, bits # {} <=> v
    PROVE  LET e == Debounce(d, bits)
               r == H!With(v)
           IN  /\ e \in Debouncer
               /\ \A n \in 1 .. H!Window :
                      /\ H!AllOf(r, n, TRUE) <=> e.alarm_cnt >= n
                      /\ H!AllOf(r, n, FALSE) <=> e.clear_cnt >= n
               /\ e.alarm_cnt >= OnCount => e.led_on
               /\ e.led_on <=> (\/ H!AllOf(r, OnCount, TRUE)
                                \/ (d.led_on /\ ~H!AllOf(r, OffCount, FALSE)))
<1> DEFINE e == Debounce(d, bits)
           r == H!With(v)
           W == H!Window
<1>1. /\ W \in Nat \ {0} /\ OnCount \in 1 .. W /\ OffCount \in 1 .. W
      /\ MaxRun \in Nat
    BY WindowBounds, AlarmAssumption
<1>2. d.led_on \in BOOLEAN /\ d.alarm_cnt \in 0 .. MaxRun /\ d.clear_cnt \in 0 .. MaxRun
    BY DEF TypeOK, Debouncer
<1>3. ASSUME NEW n \in 1 .. W
      PROVE  /\ H!AllOf(r, n, TRUE)
                   <=> v /\ (n = 1 \/ (n - 1 \in 1 .. W /\ d.alarm_cnt >= n - 1))
             /\ H!AllOf(r, n, FALSE)
                   <=> ~v /\ (n = 1 \/ (n - 1 \in 1 .. W /\ d.clear_cnt >= n - 1))
    <2>1. /\ H!AllOf(r, n, TRUE)
                <=> v = TRUE /\ (n = 1 \/ (n - 1 \in 1 .. W /\ H!AllOf(recent, n - 1, TRUE)))
          /\ H!AllOf(r, n, FALSE)
                <=> v = FALSE /\ (n = 1 \/ (n - 1 \in 1 .. W /\ H!AllOf(recent, n - 1, FALSE)))
        BY AllOfWith
    <2> QED BY <2>1 DEF CountersAreRuns
<1> HIDE DEF r, W
<1>4. CASE v
    <2>1. e = AfterAlarm(d)
        BY <1>4 DEF Debounce
    <2>2. /\ e.led_on = (d.led_on \/ Inc(d.alarm_cnt) >= OnCount)
          /\ e.alarm_cnt = Inc(d.alarm_cnt) /\ e.clear_cnt = 0
        BY <2>1 DEF AfterAlarm
    <2>3. /\ Inc(d.alarm_cnt) \in 1 .. MaxRun
          /\ \A n \in 1 .. W : Inc(d.alarm_cnt) >= n
                <=> n = 1 \/ (n - 1 \in 1 .. W /\ d.alarm_cnt >= n - 1)
        BY <1>2, IncCompares DEF W
    <2>4. e \in Debouncer
        BY <2>1, <2>3, <1>1, <1>2 DEF AfterAlarm, Debouncer
    <2> HIDE DEF e
    <2>5. ASSUME NEW n \in 1 .. W
          PROVE  /\ H!AllOf(r, n, TRUE) <=> e.alarm_cnt >= n
                 /\ H!AllOf(r, n, FALSE) <=> e.clear_cnt >= n
        <3>1. H!AllOf(r, n, TRUE) <=> e.alarm_cnt >= n
            BY <1>3, <1>4, <2>2, <2>3
        <3>2. ~H!AllOf(r, n, FALSE)
            BY <1>3, <1>4
        <3>3. ~(e.clear_cnt >= n)
            BY <1>1, <2>2
        <3> QED BY <3>1, <3>2, <3>3
    <2>6. e.alarm_cnt >= OnCount => e.led_on
        BY <2>2
    <2>7. e.led_on <=> (\/ H!AllOf(r, OnCount, TRUE)
                        \/ (d.led_on /\ ~H!AllOf(r, OffCount, FALSE)))
        BY <1>1, <1>2, <1>3, <1>4, <2>2, <2>5
    <2> QED BY <2>4, <2>5, <2>6, <2>7 DEF e, r, W
<1>5. CASE ~v
    <2>1. e = AfterClear(d)
        BY <1>5 DEF Debounce
    <2>2. /\ e.led_on = (d.led_on /\ ~(Inc(d.clear_cnt) >= OffCount))
          /\ e.alarm_cnt = 0 /\ e.clear_cnt = Inc(d.clear_cnt)
        BY <2>1 DEF AfterClear
    <2>3. /\ Inc(d.clear_cnt) \in 1 .. MaxRun
          /\ \A n \in 1 .. W : Inc(d.clear_cnt) >= n
                <=> n = 1 \/ (n - 1 \in 1 .. W /\ d.clear_cnt >= n - 1)
        BY <1>2, IncCompares DEF W
    <2>4. e \in Debouncer
        BY <2>1, <2>3, <1>1, <1>2 DEF AfterClear, Debouncer
    <2> HIDE DEF e
    <2>5. ASSUME NEW n \in 1 .. W
          PROVE  /\ H!AllOf(r, n, TRUE) <=> e.alarm_cnt >= n
                 /\ H!AllOf(r, n, FALSE) <=> e.clear_cnt >= n
        <3>1. H!AllOf(r, n, FALSE) <=> e.clear_cnt >= n
            BY <1>3, <1>5, <2>2, <2>3
        <3>2. ~H!AllOf(r, n, TRUE)
            BY <1>3, <1>5
        <3>3. ~(e.alarm_cnt >= n)
            BY <1>1, <2>2
        <3> QED BY <3>1, <3>2, <3>3
    <2>6. e.alarm_cnt >= OnCount => e.led_on
        BY <1>1, <2>2
    <2>7. e.led_on <=> (\/ H!AllOf(r, OnCount, TRUE)
                        \/ (d.led_on /\ ~H!AllOf(r, OffCount, FALSE)))
        BY <1>1, <1>2, <1>3, <1>5, <2>2, <2>5
    <2> QED BY <2>4, <2>5, <2>6, <2>7 DEF e, r, W
<1> QED BY <1>4, <1>5
-----------------------------------------------------------------------------
(* The steps.                                                              *)

(* LitForAReason spelled out, with the parentheses the prover needs. *)
LEMMA LitMeaning ==
    LitForAReason <=> (up /\ alarm_fd => (led <=> (d.led_on \/ inherited)))
BY DEF LitForAReason

LEMMA InitIInv == Init => IInv
<1> SUFFICES ASSUME Init PROVE IInv
    OBVIOUS
<1>1. H!Window \in Nat \ {0} /\ OnCount \in Nat \ {0} /\ MaxRun \in Nat
    BY WindowBounds, AlarmAssumption
<1>2. /\ Fresh.led_on = FALSE /\ Fresh.alarm_cnt = 0 /\ Fresh.clear_cnt = 0
      /\ Fresh \in Debouncer
    BY <1>1 DEF Fresh, Debouncer
<1>3. TypeOK
    <2>1. recent \in [1 .. 0 -> BOOLEAN]
        BY DEF Init
    <2>2. 0 \in 0 .. H!Window
        BY <1>1
    <2> QED BY <1>2, <2>1, <2>2 DEF Init, TypeOK
<1>4. CountersAreRuns
    BY <1>1, <1>2 DEF Init, CountersAreRuns, H!AllOf
<1>5. RunsRaise /\ OpenIsLoaded /\ LitForAReason
    BY <1>1, <1>2 DEF Init, RunsRaise, OpenIsLoaded, LitForAReason
<1> QED BY <1>3, <1>4, <1>5 DEF IInv

(* One sample, judged by its bits as the ghost judges it. *)
LEMMA ProcessStep ==
    ASSUME IInv, NEW sample, NEW bad \in BOOLEAN,
           processor_compute_alarm(sample, Threshold) # {} <=> bad,
           Process(sample, bad)
    PROVE  IInv' /\ H!Sample(bad)
<1> DEFINE bits == processor_compute_alarm(sample, Threshold)
<1>1. /\ up /\ d' = Debounce(d, bits) /\ recent' = H!With(bad) /\ made' = ~made
      /\ UNCHANGED <<loaded, up, alarm_fd>>
    BY DEF Process
<1>2. TypeOK /\ CountersAreRuns /\ RunsRaise /\ OpenIsLoaded
    BY DEF IInv
<1>3. bits # {} <=> bad
    OBVIOUS
<1> HIDE DEF bits
<1>4. /\ d' \in Debouncer
      /\ \A n \in 1 .. H!Window :
             /\ H!AllOf(recent', n, TRUE) <=> d'.alarm_cnt >= n
             /\ H!AllOf(recent', n, FALSE) <=> d'.clear_cnt >= n
      /\ d'.alarm_cnt >= OnCount => d'.led_on
      /\ d'.led_on <=> (\/ H!AllOf(recent', OnCount, TRUE)
                        \/ (d.led_on /\ ~H!AllOf(recent', OffCount, FALSE)))
    BY <1>1, <1>2, <1>3, DebounceCounts
<1>5. d.led_on \in BOOLEAN /\ d'.led_on \in BOOLEAN
    BY <1>2, <1>4 DEF TypeOK, Debouncer
<1>6. \/ /\ d'.led_on # d.led_on
         /\ led' = (IF alarm_fd THEN d'.led_on ELSE led) /\ inherited' = FALSE
      \/ d'.led_on = d.led_on /\ UNCHANGED <<led, inherited>>
    BY DEF Process, Switch, bits
<1>7. TypeOK'
    <2>1. recent' \in UNION {[1 .. n -> BOOLEAN] : n \in 0 .. H!Window}
        BY <1>1, <1>2, WithType
    <2>2. {loaded, led, up, alarm_fd, made, inherited}' \subseteq BOOLEAN
        BY <1>1, <1>2, <1>5, <1>6 DEF TypeOK
    <2> QED BY <1>4, <2>1, <2>2 DEF TypeOK, H!Window
<1>8. CountersAreRuns' /\ RunsRaise' /\ OpenIsLoaded'
    BY <1>1, <1>2, <1>4 DEF CountersAreRuns, RunsRaise, OpenIsLoaded, H!AllOf, H!Window
<1>9. LitForAReason'
    BY <1>1, <1>5, <1>6, LitMeaning DEF IInv, LitForAReason, TypeOK
<1>10. H!Sample(bad)
    BY <1>1, <1>4, <1>5 DEF H!Sample
<1> QED BY <1>7, <1>8, <1>9, <1>10 DEF IInv

(* The fields a step leaves alone keep what only they decide. *)
LEMMA UnchangedDebouncer ==
    ASSUME IInv, UNCHANGED <<d, recent>>
    PROVE  /\ (d \in Debouncer)' /\ CountersAreRuns' /\ RunsRaise'
           /\ (recent \in UNION {[1 .. n -> BOOLEAN] : n \in 0 .. H!Window})'
BY DEF IInv, TypeOK, CountersAreRuns, RunsRaise, H!AllOf, H!Window

(* Every step keeps the invariant and is one of Hysteresis, or changes     *)
(* nothing Hysteresis sees.                                                *)
LEMMA NextStep ==
    ASSUME IInv, [Next]_vars
    PROVE  IInv' /\ (H!Next \/ UNCHANGED <<d.led_on, recent>>)
<1>1. CASE Load
    <2>1. TypeOK' /\ OpenIsLoaded'
        BY <1>1, UnchangedDebouncer DEF IInv, TypeOK, OpenIsLoaded, Load, process
    <2>2. LitForAReason'
        BY <1>1 DEF IInv, OpenIsLoaded, LitForAReason, Load, process
    <2> QED BY <1>1, <2>1, <2>2, UnchangedDebouncer DEF IInv, Load, process
<1>2. CASE Unload
    <2>1. TypeOK' /\ OpenIsLoaded' /\ LitForAReason'
        BY <1>2, UnchangedDebouncer
           DEF IInv, TypeOK, OpenIsLoaded, LitForAReason, Unload, process
    <2> QED BY <1>2, <2>1, UnchangedDebouncer DEF IInv, Unload, process
<1>3. CASE Start
    <2>1. H!Restart /\ d' = Fresh
        BY <1>3 DEF Start, H!Restart, Fresh
    <2>2. /\ H!Window \in Nat \ {0} /\ OnCount \in Nat \ {0} /\ MaxRun \in Nat
        BY WindowBounds, AlarmAssumption
    <2>3. /\ d' \in Debouncer /\ d'.led_on = FALSE
          /\ d'.alarm_cnt = 0 /\ d'.clear_cnt = 0
        BY <2>1, <2>2 DEF Fresh, Debouncer
    <2>4. TypeOK'
        <3>1. recent' \in [1 .. 0 -> BOOLEAN] /\ 0 \in 0 .. H!Window
            BY <1>3, <2>2 DEF Start
        <3> QED BY <1>3, <2>3, <3>1 DEF IInv, TypeOK, Start, H!Window
    <2>5. CountersAreRuns'
        BY <1>3, <2>2, <2>3 DEF CountersAreRuns, Start, H!AllOf, H!Window
    <2>6. RunsRaise' /\ OpenIsLoaded'
        BY <1>3, <2>2, <2>3 DEF RunsRaise, OpenIsLoaded, Start
    <2>7. LitForAReason'
        BY <1>3, <2>3 DEF IInv, TypeOK, LitForAReason, Start
    <2> QED BY <2>1, <2>4, <2>5, <2>6, <2>7 DEF IInv, H!Next
<1>4. CASE Exit
    <2>1. TypeOK' /\ OpenIsLoaded' /\ LitForAReason'
        BY <1>4, UnchangedDebouncer DEF IInv, TypeOK, OpenIsLoaded, LitForAReason, Exit
    <2> QED BY <1>4, <2>1, UnchangedDebouncer DEF IInv, Exit
<1>5. CASE ReadSample
    <2>1. PICK regs \in Readings : Process(FromRegs(regs), ~InRange(regs))
        BY <1>5 DEF ReadSample
    <2>2. (~InRange(regs)) \in BOOLEAN
        BY DEF InRange
    <2>3. IInv' /\ H!Sample(~InRange(regs))
        BY <2>1, <2>2, VerdictOnReading, ProcessStep
    <2> QED BY <2>2, <2>3 DEF H!Next
<1>6. CASE MockSample
    <2>1. PICK seq \in MockSeqs : Process(Mock(seq), FALSE)
        BY <1>6 DEF MockSample
    <2>2. IInv' /\ H!Sample(FALSE)
        BY <2>1, VerdictOnMock, ProcessStep
    <2> QED BY <2>2 DEF H!Next
<1>7. CASE UNCHANGED vars
    <2>1. TypeOK' /\ OpenIsLoaded' /\ LitForAReason'
        BY <1>7, UnchangedDebouncer DEF IInv, TypeOK, OpenIsLoaded, LitForAReason, vars
    <2> QED BY <1>7, <2>1, UnchangedDebouncer DEF IInv, vars
<1> QED BY <1>1, <1>2, <1>3, <1>4, <1>5, <1>6, <1>7 DEF Next

(* The inductive invariant holds in every behaviour: the counters of        *)
(* processor_thread count what they should, whatever the driver and the     *)
(* restarts of the process do.                                              *)
THEOREM Invariance == Spec => []IInv
<1>1. IInv /\ [Next]_vars => IInv'
    BY NextStep
<1> QED BY <1>1, InitIInv, PTL DEF Spec

-----------------------------------------------------------------------------
(* The variables keep their types in every behaviour: the debouncer's      *)
(* locals and the light are booleans and bounded counters whatever the     *)
(* thread, the driver and the processes do.                                *)
THEOREM TypeCorrect == Spec => []TypeOK
<1>1. IInv => TypeOK
    BY DEF IInv
<1> QED BY <1>1, Invariance, PTL

(* processor_thread's two counters and its flag implement Hysteresis: the  *)
(* alarm is raised and taken back exactly when the last samples of this    *)
(* process say so, for every pair of debounce counts and every reading     *)
(* that is not below zero.                                                 *)
THEOREM AlarmIsHysteresis == Spec => ImplementsHysteresis
<1>1. Init => H!Init
    BY DEF Init, H!Init, Fresh
<1>2. IInv /\ [Next]_vars => [H!Next]_<<d.led_on, recent>>
    BY NextStep
<1> QED BY <1>1, <1>2, Invariance, PTL DEF Spec, ImplementsHysteresis, H!Spec

(* A process that opened the device and saw OnCount samples out of range   *)
(* in a row, none of them below zero, has the light on, whatever the       *)
(* driver and the processes before it did to the pin.                      *)
THEOREM AlarmIsShown == Spec => []AlarmShown
<1>1. IInv => AlarmShown
    <2> SUFFICES ASSUME IInv, up, alarm_fd, H!AllOf(recent, OnCount, TRUE) PROVE led
        BY DEF AlarmShown
    <2>1. d.alarm_cnt >= OnCount
        BY WindowBounds DEF IInv, CountersAreRuns
    <2>2. d.led_on
        BY <2>1 DEF IInv, RunsRaise
    <2> QED BY <2>2, LitMeaning DEF IInv
<1> QED BY <1>1, Invariance, PTL

(* The light of a process that opened the device is on exactly for its     *)
(* alarm or for what an earlier process left and it has not yet switched.  *)
THEOREM LitOnlyForAReason == Spec => []LitForAReason
<1>1. IInv => LitForAReason
    BY DEF IInv
<1> QED BY <1>1, Invariance, PTL
=============================================================================
