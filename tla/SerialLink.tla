----------------------------- MODULE SerialLink -----------------------------
(***************************************************************************)
(* The collect thread (app/src/main.c) asking the Modbus slave for its     *)
(* registers over the serial line, once per round (modbus_read_registers,  *)
(* serial_write and serial_read).                                          *)
(*                                                                         *)
(* The slave and the line are external.  The slave numbers its responses   *)
(* and puts the number in every register, as the real one puts its         *)
(* sequence in register 6.  What it sends travels in chunks and keeps its  *)
(* order; select is woken by any byte, so a chunk is what one read() can   *)
(* see.  Every fault is counted in `faults` and bounded by MaxFaults.      *)
(***************************************************************************)
EXTENDS ModbusFrame

CONSTANTS Quantity,   \* registers asked for; collect_thread asks for 7
          ReadSize,   \* sizeof(response), 256
          MaxRounds,  \* bound of the model: requests written
          MaxFaults   \* bound of the model: faults of each kind and in all

ASSUME LinkAssumption ==
    /\ Quantity \in 1 .. MaxRegisters
    /\ ReadSize \in Nat \ {0}
    /\ MaxRounds \in Nat \ {0} /\ MaxRounds < 2^15  \* a register numbers the responses
    /\ DOMAIN MaxFaults = {"late", "lost", "exception", "damage", "split",
                           "echo", "write", "read", "interrupt", "restart", "all"}

VARIABLES fd,        \* TRUE iff serial_open gave a descriptor
          pc,        \* collect_thread: "loop", "waiting" in select, "stopped"
          g_shutdown,
          rx,        \* bytes in the tty's input buffer
          round,     \* requests written so far
          taken,     \* number of the response of the last accepted reading
          mocks,     \* mock samples made although a line was open
          requests,  \* rounds whose request the slave has not served
          line,      \* chunks on their way to the tty
          answers,   \* answers[n]: the round response n answers
          faults     \* how often each fault happened

thread == <<fd, pc, g_shutdown, taken, mocks>>
slave == <<requests, answers>>
vars == <<fd, pc, g_shutdown, rx, round, taken, mocks, requests, line,
          answers, faults>>

Faults == DOMAIN MaxFaults \ {"all"}
Total == faults.late + faults.lost + faults.exception + faults.damage
       + faults.split + faults.echo + faults.write + faults.read
       + faults.interrupt + faults.restart

(* One more fault of kind k, within the bounds of the model. *)
Fault(k) ==
    /\ faults[k] < MaxFaults[k]
    /\ Total < MaxFaults["all"]
    /\ faults' = [faults EXCEPT ![k] = @ + 1]

Response == [n \in 1 .. 2 * MaxRounds |->
                build_test_response([i \in 1 .. Quantity |-> Bits(n)])]

-----------------------------------------------------------------------------
Init == /\ fd \in BOOLEAN
        /\ pc = "loop" /\ g_shutdown = FALSE
        /\ rx = <<>> /\ line = <<>>
        /\ round = 0 /\ taken = 0 /\ mocks = 0
        /\ requests = <<>> /\ answers = <<>>
        /\ faults = [k \in Faults |-> 0]

(* The round ends with a reading or, for want of the registers, with a     *)
(* mock sample; collect_thread pushes either and sleeps.                   *)
Sampled(result) ==
    /\ pc' = "loop"
    /\ IF result.count = Quantity
       THEN taken' = Num[result.values[1]] /\ UNCHANGED mocks
       ELSE mocks' = mocks + 1 /\ UNCHANGED taken

(* No line: reg_count stays -1 and the sample is a mock, which is no event *)
(* of the link.                                                            *)
MockRound == pc = "loop" /\ ~fd /\ ~g_shutdown /\ UNCHANGED vars

(* serial_write of the whole request; nothing is flushed first. *)
Ask == /\ pc = "loop" /\ fd /\ ~g_shutdown
       /\ round < MaxRounds
       /\ round' = round + 1
       /\ requests' = Append(requests, round + 1)
       /\ pc' = "waiting"
       /\ UNCHANGED <<fd, g_shutdown, rx, taken, mocks, line, answers, faults>>

(* serial_write fails: modbus_read_registers returns -1 without reading. *)
AskFails == /\ pc = "loop" /\ fd /\ ~g_shutdown
            /\ Fault("write")
            /\ Sampled(Refused)
            /\ UNCHANGED <<fd, g_shutdown, rx, round, slave, line>>

(* An answer may still come. *)
InFlight == requests # <<>> \/ line # <<>>

(* mutant: one read() takes no more than one response *)
TakeOneFrame == Min({Len(rx), 2 * Quantity + 5})

(* Bytes one read() returns: what is there, up to the size of the buffer. *)
Readable == Min({Len(rx), ReadSize})

(* mutant: what was read stays in the buffer and is parsed again *)
ReceiveKeeps == /\ pc = "waiting" /\ rx # <<>>
                /\ Sampled(modbus_parse_response(SubSeq(rx, 1, Readable), Quantity))
                /\ UNCHANGED <<fd, g_shutdown, rx, round, slave, line, faults>>

(* select finds the descriptor readable; read() and the parser follow. *)
Receive == /\ pc = "waiting" /\ rx # <<>>
           /\ LET got == SubSeq(rx, 1, Readable)
              IN  Sampled(modbus_parse_response(got, Quantity))
           /\ rx' = SubSeq(rx, Readable + 1, Len(rx))
           /\ UNCHANGED <<fd, g_shutdown, round, slave, line, faults>>

(* mutant: select is given no deadline *)
NoTimeOut == FALSE /\ UNCHANGED vars

(* select's 500 ms pass without a byte.  When an answer may still come the *)
(* slave, or the line, was late.                                           *)
TimeOut == /\ pc = "waiting" /\ rx = <<>>
           /\ IF InFlight THEN Fault("late") ELSE UNCHANGED faults
           /\ Sampled(Refused)
           /\ UNCHANGED <<fd, g_shutdown, rx, round, slave, line>>

(* The signal handler runs in this thread: select fails with EINTR. *)
Interrupt == /\ pc = "waiting" /\ ~g_shutdown
             /\ Fault("interrupt")
             /\ g_shutdown' = TRUE
             /\ Sampled(Refused)
             /\ UNCHANGED <<fd, rx, round, slave, line>>

(* select or read fails otherwise, and serial_read returns -1: what was or *)
(* will be received stays for the next round.                              *)
ReadFails == /\ pc = "waiting"
             /\ Fault("read")
             /\ Sampled(Refused)
             /\ UNCHANGED <<fd, g_shutdown, rx, round, slave, line>>

SetShutdown == /\ ~g_shutdown
               /\ g_shutdown' = TRUE
               /\ UNCHANGED <<fd, pc, rx, round, taken, mocks, slave, line, faults>>

Stop == /\ pc = "loop" /\ g_shutdown
        /\ pc' = "stopped"
        /\ UNCHANGED <<fd, g_shutdown, rx, round, taken, mocks, slave, line, faults>>

(* mutant: the input buffer is not flushed *)
OpenNoFlush == UNCHANGED rx

(* serial_configure: tcflush discards what the tty had received. *)
Open == rx' = <<>>

(* The process ends, whatever it was doing, and the next one opens the     *)
(* line again.  An answer that arrives after that is late.                 *)
Restart == /\ fd /\ Fault(IF InFlight THEN "late" ELSE "restart")
           /\ Open
           /\ pc' = "loop" /\ g_shutdown' = FALSE
           /\ UNCHANGED <<fd, round, taken, mocks, slave, line>>

-----------------------------------------------------------------------------
(* The slave serves a request: it sends a response, the response twice     *)
(* (docs/test-log.md:584-596), an exception or nothing.                    *)
Answer(n) ==
    /\ requests # <<>>
    /\ requests' = Tail(requests)
    /\ answers' = answers \o [i \in 1 .. n |-> Head(requests)]
    /\ line' = line \o [i \in 1 .. n |-> Response[Len(answers) + i]]

Serve == Answer(1) /\ UNCHANGED <<thread, rx, round, faults>>
ServeTwice == Answer(2) /\ Fault("echo") /\ UNCHANGED <<thread, rx, round>>
ServeNothing == Answer(0) /\ Fault("lost") /\ UNCHANGED <<thread, rx, round>>
ServeException ==
    /\ requests # <<>> /\ Fault("exception")
    /\ requests' = Tail(requests)
    /\ line' = Append(line, ExceptionResponse(2))
    /\ UNCHANGED <<thread, rx, round, answers>>

Deliver == /\ line # <<>>
           /\ rx' = rx \o Head(line)
           /\ line' = Tail(line)
           /\ UNCHANGED <<thread, round, slave, faults>>

(* A pause in the middle of a chunk: a reader may see its first k bytes.   *)
Split(k) == /\ line # <<>> /\ k < Len(Head(line))
            /\ Fault("split")
            /\ line' = <<SubSeq(Head(line), 1, k),
                         SubSeq(Head(line), k + 1, Len(Head(line)))>> \o Tail(line)
            /\ UNCHANGED <<thread, rx, round, slave>>

(* Noise flips one bit or eats one byte of the chunk. *)
Damaged(chunk, i) ==
    {[chunk EXCEPT ![i] = SymDiff(@, {b})] : b \in 0 .. 7} \cup {RemoveAt(chunk, i)}

Damage(i) == /\ line # <<>> /\ i \in DOMAIN Head(line)
             /\ Fault("damage")
             /\ \E chunk \in Damaged(Head(line), i) :
                    line' = <<chunk>> \o Tail(line)
             /\ UNCHANGED <<thread, rx, round, slave>>

Positions == 1 .. 2 * Quantity + 5

-----------------------------------------------------------------------------
(* The service asks until it is stopped; the model ends with MaxRounds.    *)
Done == /\ \/ pc = "stopped"
           \/ pc = "loop" /\ round = MaxRounds
        /\ UNCHANGED vars

Collect == MockRound \/ Ask \/ Receive \/ TimeOut \/ Stop
Slave == Serve \/ Deliver

Next == \/ Collect \/ AskFails \/ ReadFails \/ Interrupt \/ SetShutdown \/ Restart
        \/ Slave \/ ServeTwice \/ ServeNothing \/ ServeException
        \/ \E i \in Positions : Split(i) \/ Damage(i)
        \/ Done

Spec == Init /\ [][Next]_vars

(* select returns at its deadline and the thread is scheduled, so a round  *)
(* ends; once the model has no late answer left, the slave is on time.     *)
FairSpec == /\ Spec
            /\ WF_vars(Receive \/ TimeOut) /\ WF_vars(Stop)
            /\ WF_vars(Serve) /\ WF_vars(Deliver)

-----------------------------------------------------------------------------
TypeOK ==
    /\ fd \in BOOLEAN /\ g_shutdown \in BOOLEAN
    /\ pc \in {"loop", "waiting", "stopped"}
    /\ \A buf \in Range(line) \cup {rx} : UNION Range(buf) \subseteq 0 .. 7
    /\ round \in 0 .. MaxRounds
    /\ taken \in Nat /\ mocks \in Nat
    /\ requests \in Seq(1 .. round) /\ answers \in Seq(1 .. round)
    /\ faults \in [Faults -> Nat]

FrameChecks == modbus_run_sensor_tests /\ DetectsErrors(Response[1])

(* What the parser accepts, before the line is used: the expectations of   *)
(* modbus_run_sensor_tests hold, and the CRC and the length check see      *)
(* every one- and two-bit error and every lost byte of a response.         *)
FramesProtected == round = 0 => FrameChecks

(* A reading that becomes a sample is one the slave sent, however chunks   *)
(* were damaged, cut and joined on the way: modbus_parse_response refuses  *)
(* everything else.                                                        *)
DamageRefused == taken \in 0 .. Len(answers)

(* The round ends with a reading. *)
Accepts == /\ pc = "waiting" /\ pc' = "loop"
           /\ mocks' = mocks /\ faults' = faults

(* A round that ends with a reading ends with a newer one than all before  *)
(* it: no response is used twice or after a younger one.                   *)
ReadingsAdvance == [][Accepts => taken' > taken]_vars

(* A reading is behind the request of its round by no more rounds than     *)
(* there were late answers, failed reads, broken frames and echoes: each   *)
(* shifts the pairing of requests and responses by one at most, and        *)
(* serial_open starts from an empty buffer.                                *)
LagWithinFaults ==
    [][Accepts => round - answers[taken']
                    <= faults.late + faults.read + faults.split + faults.echo]_vars

(* The loop finds the frames again by itself.  A fault costs two samples   *)
(* at most, the round it hits and one that sees too few or too many bytes; *)
(* a cut costs three: its first part is refused, so is the rest, and so is *)
(* a read that finds the frame after it joined to the next.                *)
MocksWithinFaults == mocks <= 2 * Total + faults.split

(* SIGTERM ends the thread: serial_read returns at its deadline even when  *)
(* the slave is silent.                                                    *)
CollectStops == g_shutdown ~> (pc = "stopped" \/ ~g_shutdown)
=============================================================================
