------------------------------ MODULE AlarmLed ------------------------------
(***************************************************************************)
(* The alarm light: the processor thread of the gateway, one process after *)
(* another, the alarm client (app/src/alarm_client.c) and the LED driver   *)
(* (driver/water_alarm/newchrled.c), whose GPIO outlives the process.      *)
(*                                                                         *)
(* The sample a step works on is either read from the slave or a mock made *)
(* for want of a response (main.c:105-118).  Its alarm_status and its push *)
(* to the store queue belong to Gateway.                                   *)
(***************************************************************************)
EXTENDS Alarm, Sequences

CONSTANTS Readings,  \* register values the slave may hold
          MockSeqs   \* values g_mock_sequence may take

Register == 0 .. 65535

ASSUME LedAssumption ==
    /\ Readings \subseteq [1 .. 4 -> Register]
    /\ MockSeqs \subseteq Nat

(* A register from 32768 on is a temperature below zero.  The documents    *)
(* raise an alarm for it (docs/test-log.md:958) and configure temp_min,    *)
(* which the code compares nowhere; what the alarm promises is said of the *)
(* other readings, about which the two agree.                              *)
ASSUME NoneBelowZero == \A regs \in Readings : regs[2] < 32768

VARIABLES loaded,     \* is newchrled.ko loaded?
          led,        \* level of GPIO1_IO03: is the light on?
          up,         \* is a gateway process running?
          alarm_fd,   \* did it open the device?
          d,          \* its debouncer
          recent,     \* ghost: were its last samples out of range?
          made,       \* ghost: parity of the number of samples made
          inherited   \* ghost: the light was on at its start, and it has
                      \* not switched it since

vars == <<loaded, led, up, alarm_fd, d, recent, made, inherited>>
process == <<up, alarm_fd, d, recent, made, inherited>>

H == INSTANCE Hysteresis WITH on <- d.led_on

-----------------------------------------------------------------------------
Init == /\ loaded \in BOOLEAN /\ led = FALSE
        /\ up = FALSE /\ alarm_fd = FALSE
        /\ d = Fresh /\ recent = <<>> /\ made = FALSE /\ inherited = FALSE

(* led_init switches the light off. *)
Load == /\ ~loaded
        /\ loaded' = TRUE /\ led' = FALSE
        /\ UNCHANGED process

(* led_exit leaves the pin alone; an open device keeps the module loaded. *)
Unload == /\ loaded /\ ~(up /\ alarm_fd)
          /\ loaded' = FALSE
          /\ UNCHANGED <<led, process>>

(* main: alarm_client_open gives -1 when the driver is not there, and the  *)
(* gateway goes on without a light; led_open does not touch the pin.       *)
Start == /\ ~up
         /\ up' = TRUE /\ alarm_fd' = loaded
         /\ d' = Fresh /\ recent' = <<>>
         /\ inherited' = (led /\ loaded)
         /\ UNCHANGED <<loaded, led, made>>

(* The process ends, by SIGTERM or kill -9: alarm_client_close, or the     *)
(* kernel, and led_release leave the pin as it is.                         *)
Exit == /\ up
        /\ up' = FALSE /\ alarm_fd' = FALSE
        /\ UNCHANGED <<loaded, led, d, recent, made, inherited>>

(* mutant: the level of the active-low pin is mixed up *)
SwitchInverted(on) == led' = IF alarm_fd THEN ~on ELSE led

(* alarm_client_set, led_write and led_switch. *)
Switch(on) == led' = IF alarm_fd THEN on ELSE led

(* mutant: the light is never switched off again *)
ProcessNeverOff(sample, bad) ==
    /\ up
    /\ d' = Debounce(d, processor_compute_alarm(sample, Threshold))
    /\ IF d'.led_on /\ ~d.led_on
       THEN Switch(TRUE) /\ inherited' = FALSE
       ELSE UNCHANGED <<led, inherited>>
    /\ recent' = H!With(bad) /\ made' = ~made
    /\ UNCHANGED <<loaded, up, alarm_fd>>

(* One sample of processor_thread; bad is the judgement of a reader of     *)
(* the thresholds, for the ghosts.                                         *)
Process(sample, bad) ==
    /\ up
    /\ d' = Debounce(d, processor_compute_alarm(sample, Threshold))
    /\ IF d'.led_on # d.led_on
       THEN Switch(d'.led_on) /\ inherited' = FALSE
       ELSE UNCHANGED <<led, inherited>>
    /\ recent' = H!With(bad) /\ made' = ~made
    /\ UNCHANGED <<loaded, up, alarm_fd>>

(* The table of docs/test-log.md:957-960: pH 6.5-8.5, 0-45 C, 5 NTU,       *)
(* 2000 us/cm.                                                             *)
InRange(regs) == /\ 650 <= regs[1] /\ regs[1] <= 850
                 /\ regs[2] <= 4500  \* and not below zero: NoneBelowZero
                 /\ regs[3] <= 500
                 /\ regs[4] <= 2000

ReadSample == \E regs \in Readings : Process(FromRegs(regs), ~InRange(regs))
MockSample == \E seq \in MockSeqs : Process(Mock(seq), FALSE)

Next == Load \/ Unload \/ Start \/ Exit \/ ReadSample \/ MockSample

Spec == Init /\ [][Next]_vars

(* While a process is up its loops go on making samples. *)
FairSpec == Spec /\ WF_vars(ReadSample \/ MockSample)

-----------------------------------------------------------------------------
TypeOK == /\ {loaded, led, up, alarm_fd, made, inherited} \subseteq BOOLEAN
          /\ d \in Debouncer
          /\ recent \in UNION {[1 .. n -> BOOLEAN] : n \in 0 .. H!Window}

(* The counters of processor_thread raise and clear the alarm exactly as   *)
(* documented limits and the two debounce counts say, wherever processes   *)
(* end, of every reading whose temperature is not below zero.              *)
ImplementsHysteresis == H!Spec

(* An alarm is shown: a process that opened the device and saw its last    *)
(* OnCount samples out of range, none of them below zero, has the light    *)
(* on, whatever happened to the light and the driver before it started.    *)
AlarmShown == up /\ alarm_fd /\ H!AllOf(recent, OnCount, TRUE) => led

(* The light is on without an alarm only as a relic: a process before this *)
(* one left it on and this one has not switched it yet.                    *)
LitForAReason == up /\ alarm_fd => (led <=> d.led_on \/ inherited)

(* An alarm condition that lasts lights the light, whatever runs of mock   *)
(* samples came before.                                                    *)
OutOfRangeStays == up /\ alarm_fd /\ recent # <<>> /\ recent[1]
AlarmComes == <>[]OutOfRangeStays => <>[]led

(* docs/test-log.md:2355: two samples in range and the light is off. *)
LedOffWhenNormal == up /\ alarm_fd /\ H!AllOf(recent, OffCount, FALSE) => ~led
=============================================================================
