-------------------------- MODULE SerialLinkProofs --------------------------
(***************************************************************************)
(* For every number of rounds and faults: the types of SerialLink.tla, how *)
(* well its frames are protected, that no reading comes of damage on a     *)
(* line that does not cut (Uncut), and, on one that neither cuts nor       *)
(* changes what is sent (Quiet), how requests, responses and readings pair *)
(* and what the faults cost.                                               *)
(*                                                                         *)
(* Three invariants carry this.  Frames: what is received and what is on   *)
(* the line is a response, or refused for good.  Pairing: what is received *)
(* is one response or junk, responses are in order, and the age of each,   *)
(* with all that is before it, is explained by late answers, failed reads  *)
(* and echoes.  Balance: two mock samples per fault pay for those made and *)
(* those still to come.                                                    *)
(***************************************************************************)
EXTENDS SerialLink, FrameProofs

-----------------------------------------------------------------------------
(* The types of the link.  The slave never runs out of responses because   *)
(* each request left may take two of them, and as many are left.           *)

Types ==
    /\ fd \in BOOLEAN /\ g_shutdown \in BOOLEAN
    /\ pc \in {"loop", "waiting", "stopped"}
    /\ rx \in Seq(Byte) /\ line \in Seq(Seq(Byte))
    /\ round \in 0 .. MaxRounds
    /\ taken \in Nat /\ mocks \in Nat
    /\ requests \in Seq(1 .. round) /\ answers \in Seq(1 .. round)
    /\ Len(answers) + 2 * Len(requests) <= 2 * round
    /\ faults \in [Faults -> Nat]

LEMMA TypesGiveTypeOK == Types => TypeOK
<1> SUFFICES ASSUME Types PROVE TypeOK
    OBVIOUS
<1>1. ASSUME NEW buf \in Seq(Byte) PROVE UNION Range(buf) \subseteq 0 .. 7
    <2>1. \A i \in DOMAIN buf : buf[i] \subseteq 0 .. 7
        BY DEF Byte
    <2> QED BY <2>1 DEF Range
<1>2. \A buf \in Range(line) \cup {rx} : buf \in Seq(Byte)
    BY DEF Types, Range
<1> QED BY <1>1, <1>2 DEF Types, TypeOK

LEMMA PartOfBuffer ==
    ASSUME NEW buf \in Seq(Byte), NEW m \in Nat \ {0}, NEW n \in Int, n <= Len(buf)
    PROVE  SubSeq(buf, m, n) \in Seq(Byte)
<1>1. \A i \in m .. n : buf[i] \in Byte
    OBVIOUS
<1> QED BY <1>1, SubSeqProperties

LEMMA ReadableType ==
    ASSUME rx \in Seq(Byte)
    PROVE  Readable \in Nat /\ Readable <= Len(rx)
<1>1. Len(rx) \in Nat /\ ReadSize \in Nat
    BY LinkAssumption
<1>2. \E x \in {Len(rx), ReadSize} : \A y \in {Len(rx), ReadSize} : x <= y
    BY <1>1
<1>3. /\ Readable \in {Len(rx), ReadSize}
      /\ \A y \in {Len(rx), ReadSize} : Readable <= y
    BY <1>2 DEF Readable, Min
<1> QED BY <1>1, <1>3

LEMMA ParsedType ==
    ASSUME NEW buf \in Seq(Byte),
           modbus_parse_response(buf, Quantity).count = Quantity
    PROVE  modbus_parse_response(buf, Quantity).values[1] \in Word16
<1> DEFINE n == Min({Num[buf[3]] \div 2, Quantity})
<1>1. Quantity \in Nat /\ Quantity >= 1
    BY LinkAssumption
<1>2. Acceptable(buf)
    BY <1>1 DEF modbus_parse_response, Refused
<1>3. n = Quantity /\ modbus_parse_response(buf, Quantity).values
                       = [i \in 1 .. n |-> WordOf(buf[2 * i + 2], buf[2 * i + 3])]
    BY <1>2 DEF modbus_parse_response
<1> HIDE DEF n
<1>4. modbus_parse_response(buf, Quantity).values[1] = WordOf(buf[2 * 1 + 2], buf[2 * 1 + 3])
    BY <1>1, <1>3
<1>5. Len(buf) >= 5 /\ Len(buf) = Num[buf[3]] + 5
    BY <1>2 DEF Acceptable, ResponseMin
<1>6. Num[buf[3]] \in Nat
    <2>1. buf[3] \in Byte
        BY <1>5
    <2> QED BY <2>1, ByteIsWord, NumType
<1>7. Num[buf[3]] \div 2 >= Quantity
    <2> DEFINE m == Num[buf[3]] \div 2
    <2>1. m \in Int
        BY <1>6
    <2>2. Quantity = Min({m, Quantity})
        BY <1>3 DEF n
    <2> HIDE DEF m
    <2>3. \E x \in {m, Quantity} : \A y \in {m, Quantity} : x <= y
        BY <1>1, <2>1
    <2>4. Quantity <= m
        BY <2>2, <2>3 DEF Min
    <2> QED BY <1>1, <2>1, <2>4 DEF m
<1>8. 2 * 1 + 2 \in 1 .. Len(buf) /\ 2 * 1 + 3 \in 1 .. Len(buf)
    BY <1>1, <1>5, <1>6, <1>7
<1>9. buf[2 * 1 + 2] \in Byte /\ buf[2 * 1 + 3] \in Byte
    BY <1>8
<1> QED BY <1>4, <1>9, WordOfParts

LEMMA ResponseType ==
    ASSUME NEW n \in 1 .. 2 * MaxRounds
    PROVE  Response[n] \in Seq(Byte)
<1> DEFINE regs == [i \in 1 .. Quantity |-> Bits(n)]
<1>1. Quantity \in Nat /\ Quantity <= MaxRegisters /\ MaxRounds \in Nat
    BY LinkAssumption DEF MaxRegisters
<1>2. Bits(n) \in Word16
    BY <1>1, BitsType
<1>3. regs \in Seq(Word16) /\ Len(regs) = Quantity
    BY <1>1, <1>2
<1>4. Response[n] = build_test_response(regs)
    BY DEF Response
<1> HIDE DEF regs
<1> QED BY <1>1, <1>3, <1>4, ResponseIs

LEMMA ExceptionType == ExceptionResponse(2) \in Seq(Byte)
    BY ExceptionIs

LEMMA FaultKinds ==
    Faults = {"late", "lost", "exception", "damage", "split",
              "echo", "write", "read", "interrupt", "restart"}
    BY LinkAssumption DEF Faults

LEMMA FaultType ==
    ASSUME NEW k \in Faults, faults \in [Faults -> Nat], Fault(k)
    PROVE  faults' \in [Faults -> Nat]
    BY DEF Fault

LEMMA InitTypes == Init => Types
<1> SUFFICES ASSUME Init PROVE Types
    OBVIOUS
<1>1. MaxRounds \in Nat
    BY LinkAssumption
<1>2. rx \in Seq(Byte) /\ line \in Seq(Seq(Byte))
    BY DEF Init
<1>3. requests \in Seq(1 .. round) /\ answers \in Seq(1 .. round)
    BY DEF Init
<1>4. Len(answers) + 2 * Len(requests) <= 2 * round
    BY DEF Init
<1>5. round \in 0 .. MaxRounds /\ taken \in Nat /\ mocks \in Nat
    BY <1>1 DEF Init
<1>6. faults \in [Faults -> Nat]
    BY DEF Init
<1>7. fd \in BOOLEAN /\ g_shutdown \in BOOLEAN /\ pc \in {"loop", "waiting", "stopped"}
    BY DEF Init
<1> QED BY <1>2, <1>3, <1>4, <1>5, <1>6, <1>7 DEF Types

(* How a round ends. *)
LEMMA SampledType ==
    ASSUME taken \in Nat, mocks \in Nat, NEW result,
           result.count = Quantity => result.values[1] \in Word16,
           Sampled(result)
    PROVE  pc' = "loop" /\ taken' \in Nat /\ mocks' \in Nat
    BY NumType DEF Sampled

LEMMA RefusedIsNoReading == Refused.count # Quantity
    BY LinkAssumption DEF Refused

LEMMA ThreadTypesStep ==
    Types /\ (Collect \/ AskFails \/ ReadFails \/ Interrupt \/ SetShutdown \/ Restart) => Types'
<1> SUFFICES ASSUME Types
             PROVE  Collect \/ AskFails \/ ReadFails \/ Interrupt \/ SetShutdown \/ Restart
                       => Types'
    OBVIOUS
<1> USE DEF Types
<1>1. ASSUME MockRound PROVE Types'
    BY <1>1 DEF MockRound, vars
<1>2. ASSUME Ask PROVE Types'
    <2>1. round \in Nat /\ MaxRounds \in Nat /\ round + 1 \in 0 .. MaxRounds
        BY <1>2, LinkAssumption DEF Ask
    <2>2. 1 .. round \subseteq 1 .. round + 1 /\ round + 1 \in 1 .. round + 1
        BY <2>1
    <2>3. requests \in Seq(1 .. round + 1) /\ answers \in Seq(1 .. round + 1)
        BY <2>1, <2>2
    <2>4. /\ Append(requests, round + 1) \in Seq(1 .. round + 1)
          /\ Len(Append(requests, round + 1)) = Len(requests) + 1
        BY <2>2, <2>3
    <2>5. Len(answers) + 2 * (Len(requests) + 1) <= 2 * (round + 1)
        BY <2>1
    <2>6. /\ requests' \in Seq(1 .. round') /\ answers' \in Seq(1 .. round')
          /\ Len(answers') + 2 * Len(requests') <= 2 * round'
        BY <1>2, <2>3, <2>4, <2>5 DEF Ask
    <2> QED BY <1>2, <2>1, <2>6 DEF Ask
<1>3. ASSUME Receive PROVE Types'
    <2>1. /\ SubSeq(rx, 1, Readable) \in Seq(Byte)
          /\ SubSeq(rx, Readable + 1, Len(rx)) \in Seq(Byte)
        BY ReadableType, PartOfBuffer
    <2>2. pc' = "loop" /\ taken' \in Nat /\ mocks' \in Nat
        BY <1>3, <2>1, ParsedType, SampledType DEF Receive
    <2> QED BY <1>3, <2>1, <2>2 DEF Receive, slave
<1>4. ASSUME TimeOut PROVE Types'
    <2>1. pc' = "loop" /\ taken' \in Nat /\ mocks' \in Nat
        BY <1>4, RefusedIsNoReading, SampledType DEF TimeOut
    <2>2. faults' \in [Faults -> Nat]
        BY <1>4, FaultKinds, FaultType DEF TimeOut
    <2> QED BY <1>4, <2>1, <2>2 DEF TimeOut, slave
<1>5. ASSUME Stop PROVE Types'
    BY <1>5 DEF Stop, slave
<1>6. ASSUME AskFails PROVE Types'
    <2>1. pc' = "loop" /\ taken' \in Nat /\ mocks' \in Nat
        BY <1>6, RefusedIsNoReading, SampledType DEF AskFails
    <2>2. faults' \in [Faults -> Nat]
        BY <1>6, FaultKinds, FaultType DEF AskFails
    <2> QED BY <1>6, <2>1, <2>2 DEF AskFails, slave
<1>7. ASSUME Interrupt PROVE Types'
    <2>1. pc' = "loop" /\ taken' \in Nat /\ mocks' \in Nat
        BY <1>7, RefusedIsNoReading, SampledType DEF Interrupt
    <2>2. faults' \in [Faults -> Nat]
        BY <1>7, FaultKinds, FaultType DEF Interrupt
    <2> QED BY <1>7, <2>1, <2>2 DEF Interrupt, slave
<1>8. ASSUME SetShutdown PROVE Types'
    BY <1>8 DEF SetShutdown, slave
<1>9. ASSUME Restart PROVE Types'
    <2>1. faults' \in [Faults -> Nat]
        BY <1>9, FaultKinds, FaultType DEF Restart
    <2>2. rx' \in Seq(Byte)
        BY <1>9 DEF Restart, Open
    <2> QED BY <1>9, <2>1, <2>2 DEF Restart, slave
<1>10. ASSUME ReadFails PROVE Types'
    <2>1. pc' = "loop" /\ taken' \in Nat /\ mocks' \in Nat
        BY <1>10, RefusedIsNoReading, SampledType DEF ReadFails
    <2>2. faults' \in [Faults -> Nat]
        BY <1>10, FaultKinds, FaultType DEF ReadFails
    <2> QED BY <1>10, <2>1, <2>2 DEF ReadFails, slave
<1> QED BY <1>1, <1>2, <1>3, <1>4, <1>5, <1>6, <1>7, <1>8, <1>9, <1>10 DEF Collect

LEMMA AnswerTypes ==
    ASSUME Types, NEW n \in {0, 1, 2}, Answer(n)
    PROVE  /\ line' \in Seq(Seq(Byte))
           /\ requests' \in Seq(1 .. round) /\ answers' \in Seq(1 .. round)
           /\ Len(answers') + 2 * Len(requests') <= 2 * round
<1> DEFINE served == [i \in 1 .. n |-> Head(requests)]
           sent == [i \in 1 .. n |-> Response[Len(answers) + i]]
<1>1. n \in Nat /\ n <= 2
    OBVIOUS
<1>2. /\ requests \in Seq(1 .. round) /\ answers \in Seq(1 .. round)
      /\ requests # <<>> /\ requests' = Tail(requests)
      /\ answers' = answers \o served /\ line' = line \o sent
      /\ line \in Seq(Seq(Byte))
    BY DEF Types, Answer
<1>3. Head(requests) \in 1 .. round
    BY <1>2, HeadTailProperties
<1>4. Tail(requests) \in Seq(1 .. round) /\ Len(Tail(requests)) = Len(requests) - 1
    BY <1>2, HeadTailProperties
<1>5. /\ Len(requests) \in Nat \ {0} /\ Len(answers) \in Nat
      /\ round \in Nat /\ MaxRounds \in Nat /\ round <= MaxRounds
      /\ Len(answers) + 2 * Len(requests) <= 2 * round
    <2>1. Len(requests) \in Nat \ {0} /\ Len(answers) \in Nat
        BY <1>2, EmptySeq, LenProperties
    <2> QED BY <2>1, LinkAssumption DEF Types
<1>6. served \in Seq(1 .. round) /\ Len(served) = n
    BY <1>1, <1>3
<1>7. \A i \in 1 .. n : Len(answers) + i \in 1 .. 2 * MaxRounds
    BY <1>1, <1>5
<1>8. sent \in Seq(Seq(Byte))
    <2>1. \A i \in 1 .. n : sent[i] \in Seq(Byte)
        BY <1>7, ResponseType
    <2> QED BY <1>1, <2>1
<1> HIDE DEF served, sent
<1>9. /\ answers \o served \in Seq(1 .. round)
      /\ Len(answers \o served) = Len(answers) + Len(served)
    BY <1>2, <1>6, ConcatProperties
<1>10. line \o sent \in Seq(Seq(Byte))
    BY <1>2, <1>8, ConcatProperties
<1>11. Len(answers) + n + 2 * (Len(requests) - 1) <= 2 * round
    BY <1>1, <1>5
<1> QED BY <1>2, <1>4, <1>6, <1>9, <1>10, <1>11

LEMMA SlaveTypesStep ==
    Types /\ (Slave \/ ServeTwice \/ ServeNothing \/ ServeException) => Types'
<1> SUFFICES ASSUME Types
             PROVE  Slave \/ ServeTwice \/ ServeNothing \/ ServeException => Types'
    OBVIOUS
<1>1. ASSUME Serve PROVE Types'
    BY <1>1, AnswerTypes DEF Serve, thread, Types
<1>2. ASSUME Deliver PROVE Types'
    <2>1. line \in Seq(Seq(Byte)) /\ line # <<>> /\ rx \in Seq(Byte)
        BY <1>2 DEF Deliver, Types
    <2>2. Head(line) \in Seq(Byte) /\ Tail(line) \in Seq(Seq(Byte))
        BY <2>1, HeadTailProperties
    <2>3. rx \o Head(line) \in Seq(Byte)
        BY <2>1, <2>2, ConcatProperties
    <2> QED BY <1>2, <2>2, <2>3 DEF Deliver, thread, slave, Types
<1>3. ASSUME ServeTwice PROVE Types'
    <2>1. faults' \in [Faults -> Nat]
        BY <1>3, FaultKinds, FaultType DEF ServeTwice, Types
    <2> QED BY <1>3, <2>1, AnswerTypes DEF ServeTwice, thread, Types
<1>4. ASSUME ServeNothing PROVE Types'
    <2>1. faults' \in [Faults -> Nat]
        BY <1>4, FaultKinds, FaultType DEF ServeNothing, Types
    <2> QED BY <1>4, <2>1, AnswerTypes DEF ServeNothing, thread, Types
<1>5. ASSUME ServeException PROVE Types'
    <2>1. faults' \in [Faults -> Nat]
        BY <1>5, FaultKinds, FaultType DEF ServeException, Types
    <2>2. /\ requests \in Seq(1 .. round) /\ requests # <<>> /\ line \in Seq(Seq(Byte))
          /\ round \in Nat /\ Len(answers) \in Nat
        BY <1>5, LinkAssumption DEF ServeException, Types
    <2>3. Tail(requests) \in Seq(1 .. round) /\ Len(Tail(requests)) = Len(requests) - 1
        BY <2>2, HeadTailProperties
    <2>4. Append(line, ExceptionResponse(2)) \in Seq(Seq(Byte))
        BY <2>2, ExceptionType, AppendProperties
    <2>5. Len(answers) + 2 * (Len(requests) - 1) <= 2 * round
        BY <2>2 DEF Types
    <2> QED BY <1>5, <2>1, <2>3, <2>4, <2>5 DEF ServeException, thread, Types
<1> QED BY <1>1, <1>2, <1>3, <1>4, <1>5 DEF Slave

LEMMA NoiseTypesStep ==
    ASSUME Types, NEW i \in Positions, Split(i) \/ Damage(i)
    PROVE  Types'
<1> DEFINE chunk == Head(line)
<1>1. line \in Seq(Seq(Byte)) /\ line # <<>>
    BY DEF Split, Damage, Types
<1>2. chunk \in Seq(Byte) /\ Tail(line) \in Seq(Seq(Byte))
    BY <1>1, HeadTailProperties
<1>3. i \in Nat /\ i >= 1
    BY LinkAssumption DEF Positions, MaxRegisters
<1>4. faults' \in [Faults -> Nat]
    BY FaultKinds, FaultType DEF Split, Damage, Types
<1>5. ASSUME Split(i) PROVE line' \in Seq(Seq(Byte))
    <2>1. i < Len(chunk) /\ line' = <<SubSeq(chunk, 1, i), SubSeq(chunk, i + 1, Len(chunk))>>
                                  \o Tail(line)
        BY <1>5 DEF Split
    <2> HIDE DEF chunk
    <2>2. SubSeq(chunk, 1, i) \in Seq(Byte) /\ SubSeq(chunk, i + 1, Len(chunk)) \in Seq(Byte)
        BY <1>2, <1>3, <2>1, PartOfBuffer
    <2>3. <<SubSeq(chunk, 1, i), SubSeq(chunk, i + 1, Len(chunk))>> \in Seq(Seq(Byte))
        BY <2>2
    <2> QED BY <1>2, <2>1, <2>3, ConcatProperties
<1>6. ASSUME Damage(i) PROVE line' \in Seq(Seq(Byte))
    <2>1. PICK other \in Damaged(chunk, i) : line' = <<other>> \o Tail(line)
        BY <1>6 DEF Damage
    <2>2. i \in 1 .. Len(chunk)
        BY <1>2, <1>6 DEF Damage
    <2> HIDE DEF chunk
    <2>3. other \in Seq(Byte)
        <3>1. ASSUME NEW b \in 0 .. 7
              PROVE  [chunk EXCEPT ![i] = SymDiff(@, {b})] \in Seq(Byte)
            <4>1. chunk[i] \in Byte
                BY <1>2, <2>2
            <4>2. SymDiff(chunk[i], {b}) \in Byte
                BY <4>1 DEF SymDiff, Byte
            <4> QED BY <1>2, <2>2, <4>2
        <3>2. RemoveAt(chunk, i) \in Seq(Byte)
            <4>1. SubSeq(chunk, 1, i - 1) \in Seq(Byte)
                BY <1>2, <1>3, <2>2, PartOfBuffer
            <4>2. SubSeq(chunk, i + 1, Len(chunk)) \in Seq(Byte)
                BY <1>2, <1>3, <2>2, PartOfBuffer
            <4> QED BY <4>1, <4>2, ConcatProperties DEF RemoveAt
        <3> QED BY <2>1, <3>1, <3>2 DEF Damaged
    <2>4. <<other>> \in Seq(Seq(Byte))
        BY <2>3
    <2> QED BY <1>2, <2>1, <2>4, ConcatProperties
<1> QED BY <1>4, <1>5, <1>6 DEF Split, Damage, thread, slave, Types

LEMMA NextTypes == Types /\ [Next]_vars => Types'
<1> SUFFICES ASSUME Types, [Next]_vars PROVE Types'
    OBVIOUS
<1>1. CASE UNCHANGED vars
    BY <1>1 DEF vars, Types
<1>2. CASE Done
    BY <1>2 DEF Done, vars, Types
<1> QED BY <1>1, <1>2, ThreadTypesStep, SlaveTypesStep, NoiseTypesStep DEF Next

LEMMA TypesInvariance == Spec => []Types
<1> QED BY InitTypes, NextTypes, PTL DEF Spec

(* Whatever the slave, the line and the noise on it do, the thread reads   *)
(* bytes and takes registers, and every response stays within the ones the *)
(* slave numbers: HighByte and LowByte cut a word without leaving a bit    *)
(* behind.                                                                 *)
THEOREM TypeCorrect == Spec => []TypeOK
<1> QED BY TypesInvariance, TypesGiveTypeOK, PTL

(* The first response of the slave, a 1 in every register. *)
LEMMA FirstResponse == DetectsErrors(Response[1])
<1> DEFINE regs == [i \in 1 .. Quantity |-> Bits(1)]
           frame == build_test_response(regs)
<1>1. Quantity \in 1 .. MaxRegisters /\ MaxRegisters \in Nat /\ 1 \in 1 .. 2 * MaxRounds
    BY LinkAssumption DEF MaxRegisters
<1>2. Response[1] = frame
    BY <1>1 DEF Response
<1>3. regs \in Seq(Word16) /\ Len(regs) = Quantity /\ regs[1] = Bits(1)
    BY <1>1, BitsType
<1> HIDE DEF regs
<1>4. frame \in Seq(Byte) /\ Acceptable(frame)
    BY <1>1, <1>3, ResponseIs
<1>5. \A i \in DOMAIN frame : ~Acceptable(RemoveAt(frame, i))
    BY <1>1, <1>3, LostByteRefused
<1> HIDE DEF frame
<1>6. \A p, r \in (DOMAIN frame) \X (0 .. 7) : ~Acceptable(Flipped(frame, {p, r}))
    BY <1>4, TwoBitsRefused
<1> QED BY <1>2, <1>5, <1>6 DEF DetectsErrors

(* What modbus_parse_response is relied on for: the expectations of the    *)
(* sensor tests hold, and of a response no one- or two-bit error and no    *)
(* lost byte passes, for every number of registers asked for.              *)
THEOREM ResponsesProtected == Spec => []FramesProtected
<1>1. FramesProtected
    BY SensorTestsHold, FirstResponse DEF FramesProtected, FrameChecks
<1> QED BY <1>1, PTL

-----------------------------------------------------------------------------
(* Which frames of the exchange can be read.  A buffer that starts with an *)
(* exception, or with a response and more than that, cannot; what is read  *)
(* later makes it no better.                                               *)

Junk(buf) ==
    /\ Len(buf) >= 5
    /\ \/ 7 \in buf[2]
       \/ Num[buf[3]] = 2 * Quantity /\ Len(buf) > 2 * Quantity + 5

LEMMA LowDigits ==
    ASSUME NEW hi \in Nat, NEW lo \in Nat, lo <= 255, NEW b, DigitsOf(b, 256 * hi + lo)
    PROVE  DigitsOf(b, lo)
<1> DEFINE n == 256 * hi + lo
<1>1. Digit(n, 1) <=> Digit(lo, 1)
    BY DEF Digit
<1>2. Digit(n, 2) <=> Digit(lo, 2)
    BY DEF Digit
<1>3. Digit(n, 4) <=> Digit(lo, 4)
    BY DEF Digit
<1>4. Digit(n, 8) <=> Digit(lo, 8)
    BY DEF Digit
<1>5. Digit(n, 16) <=> Digit(lo, 16)
    BY DEF Digit
<1>6. Digit(n, 32) <=> Digit(lo, 32)
    BY DEF Digit
<1>7. Digit(n, 64) <=> Digit(lo, 64)
    BY DEF Digit
<1>8. Digit(n, 128) <=> Digit(lo, 128)
    BY DEF Digit
<1>9. DigitsOf(b, n)
    OBVIOUS
<1> HIDE DEF n
<1> QED BY <1>1, <1>2, <1>3, <1>4, <1>5, <1>6, <1>7, <1>8, <1>9 DEF DigitsOf

LEMMA HighByteBits ==
    ASSUME NEW w
    PROVE  /\ (0 \in HighByte(w) <=> 8 \in w)  /\ (1 \in HighByte(w) <=> 9 \in w)
           /\ (2 \in HighByte(w) <=> 10 \in w) /\ (3 \in HighByte(w) <=> 11 \in w)
           /\ (4 \in HighByte(w) <=> 12 \in w) /\ (5 \in HighByte(w) <=> 13 \in w)
           /\ (6 \in HighByte(w) <=> 14 \in w) /\ (7 \in HighByte(w) <=> 15 \in w)
<1>1. \A i : i \in HighByte(w) <=> \E j \in w : j \in 8 .. 15 /\ i = j - 8
    BY DEF HighByte
<1>2. \A i, j : j \in 8 .. 15 /\ i = j - 8 => j = i + 8
    OBVIOUS
<1> QED BY <1>1, <1>2

LEMMA NumOfWordBits ==
    ASSUME NEW n \in Nat, n <= 65535
    PROVE  Num[Bits(n)] = n
<1> DEFINE w == Bits(n)
           hi == n \div 256
           lo == n % 256
<1>1. hi \in Nat /\ hi <= 255 /\ lo \in Nat /\ lo <= 255 /\ n = 256 * hi + lo
    OBVIOUS
<1> HIDE DEF hi, lo
<1>2. w \in Word16 /\ DigitsOf(w, n)
    BY <1>1, BitsType, DigitsOfBits
<1>3. /\ (8 \in w <=> Digit(n, 256))    /\ (9 \in w <=> Digit(n, 512))
      /\ (10 \in w <=> Digit(n, 1024))  /\ (11 \in w <=> Digit(n, 2048))
      /\ (12 \in w <=> Digit(n, 4096))  /\ (13 \in w <=> Digit(n, 8192))
      /\ (14 \in w <=> Digit(n, 16384)) /\ (15 \in w <=> Digit(n, 32768))
    <2>1. /\ 2^8 = 256 /\ 2^9 = 512 /\ 2^10 = 1024 /\ 2^11 = 2048
          /\ 2^12 = 4096 /\ 2^13 = 8192 /\ 2^14 = 16384 /\ 2^15 = 32768
        OBVIOUS
    <2>2. \A i \in 0 .. 15 : i \in w <=> Digit(n, 2^i)
        BY DEF Bits, Digit
    <2> HIDE DEF w
    <2> QED BY <2>1, <2>2
<1> HIDE DEF w
<1>4. DigitsOf(w, lo)
    BY <1>1, <1>2, LowDigits
<1>5. DigitsOf(LowByte(w), lo)
    BY <1>4 DEF DigitsOf, LowByte
<1>6. DigitsOf(HighByte(w), hi)
    <2>1. Digit(n, 256) <=> Digit(hi, 1)
        <3>1. n \div 256 = hi \div 1
            BY <1>1
        <3> QED BY <3>1 DEF Digit
    <2>2. Digit(n, 512) <=> Digit(hi, 2)
        <3>1. n \div 512 = hi \div 2
            BY <1>1
        <3> QED BY <3>1 DEF Digit
    <2>3. Digit(n, 1024) <=> Digit(hi, 4)
        <3>1. n \div 1024 = hi \div 4
            BY <1>1
        <3> QED BY <3>1 DEF Digit
    <2>4. Digit(n, 2048) <=> Digit(hi, 8)
        <3>1. n \div 2048 = hi \div 8
            BY <1>1
        <3> QED BY <3>1 DEF Digit
    <2>5. Digit(n, 4096) <=> Digit(hi, 16)
        <3>1. n \div 4096 = hi \div 16
            BY <1>1
        <3> QED BY <3>1 DEF Digit
    <2>6. Digit(n, 8192) <=> Digit(hi, 32)
        <3>1. n \div 8192 = hi \div 32
            BY <1>1
        <3> QED BY <3>1 DEF Digit
    <2>7. Digit(n, 16384) <=> Digit(hi, 64)
        <3>1. n \div 16384 = hi \div 64
            BY <1>1
        <3> QED BY <3>1 DEF Digit
    <2>8. Digit(n, 32768) <=> Digit(hi, 128)
        <3>1. n \div 32768 = hi \div 128
            BY <1>1
        <3> QED BY <3>1 DEF Digit
    <2> QED BY <1>3, <2>1, <2>2, <2>3, <2>4, <2>5, <2>6, <2>7, <2>8, HighByteBits DEF DigitsOf
<1>7. NumByte(HighByte(w)) = hi /\ NumByte(LowByte(w)) = lo
    BY <1>1, <1>5, <1>6, DigitsGiveNumber
<1>8. Num[w] = 256 * NumByte(HighByte(w)) + NumByte(LowByte(w))
    BY <1>2 DEF Num
<1>9. Num[w] = n
    BY <1>1, <1>7, <1>8
<1> QED BY <1>9 DEF w

LEMMA ResponseFrame ==
    ASSUME NEW m \in 1 .. 2 * MaxRounds
    PROVE  /\ Response[m] \in Seq(Byte) /\ Len(Response[m]) = 2 * Quantity + 5
           /\ Num[Response[m][3]] = 2 * Quantity /\ Acceptable(Response[m])
           /\ modbus_parse_response(Response[m], Quantity)
                = [count |-> Quantity, values |-> [i \in 1 .. Quantity |-> Bits(m)]]
<1> DEFINE regs == [i \in 1 .. Quantity |-> Bits(m)]
<1>1. Quantity \in Nat /\ Quantity <= MaxRegisters /\ MaxRounds \in Nat
    BY LinkAssumption DEF MaxRegisters
<1>2. Bits(m) \in Word16
    BY <1>1, BitsType
<1>3. regs \in Seq(Word16) /\ Len(regs) = Quantity
    BY <1>1, <1>2
<1>4. Response[m] = build_test_response(regs)
    BY DEF Response
<1>5. LET frame == build_test_response(regs)
      IN  /\ frame \in Seq(Byte) /\ Len(frame) = 2 * Len(regs) + 5
          /\ Num[frame[3]] = 2 * Len(regs) /\ Acceptable(frame)
    BY <1>1, <1>3, ResponseIs
<1>6. modbus_parse_response(build_test_response(regs), Quantity)
        = [count |-> Len(regs), values |-> regs]
    <2> HIDE DEF regs
    <2>1. Quantity <= Quantity
        BY <1>1
    <2> QED BY <1>1, <1>3, <2>1, RoundTrip
<1> QED BY <1>3, <1>4, <1>5, <1>6

LEMMA ReadingIs ==
    ASSUME NEW m \in 1 .. 2 * MaxRounds
    PROVE  LET result == modbus_parse_response(Response[m], Quantity)
           IN  result.count = Quantity /\ Num[result.values[1]] = m
<1>1. 1 \in 1 .. Quantity
    BY LinkAssumption DEF MaxRegisters
<1>2. m \in Nat /\ m <= 65535
    <2>1. MaxRounds \in Nat /\ MaxRounds <= 32767
        BY LinkAssumption
    <2> QED BY <2>1
<1>3. Num[Bits(m)] = m
    BY <1>2, NumOfWordBits
<1>4. modbus_parse_response(Response[m], Quantity)
        = [count |-> Quantity, values |-> [i \in 1 .. Quantity |-> Bits(m)]]
    BY ResponseFrame
<1> QED BY <1>1, <1>3, <1>4

LEMMA ResponsesDiffer ==
    ASSUME NEW m \in 1 .. 2 * MaxRounds, NEW n \in 1 .. 2 * MaxRounds,
           Response[m] = Response[n]
    PROVE  m = n
    BY ReadingIs

LEMMA ExceptionIsJunk == Junk(ExceptionResponse(2))
<1> DEFINE frame == ExceptionResponse(2)
<1>1. Len(frame) = 5 /\ 7 \in frame[2]
    BY ExceptionIs
<1> HIDE DEF frame
<1>2. Len(frame) >= 5
    BY <1>1
<1> QED BY <1>1, <1>2 DEF Junk, frame

LEMMA JunkGrows ==
    ASSUME NEW buf \in Seq(Byte), NEW more \in Seq(Byte), Junk(buf)
    PROVE  Junk(buf \o more)
<1>1. Len(buf) >= 5 /\ Len(buf) \in Nat /\ Len(more) \in Nat
    BY DEF Junk
<1>2. /\ Len(buf \o more) = Len(buf) + Len(more)
      /\ (buf \o more)[2] = buf[2] /\ (buf \o more)[3] = buf[3]
    <2>1. /\ 2 \in 1 .. Len(buf) + Len(more) /\ 2 <= Len(buf)
          /\ 3 \in 1 .. Len(buf) + Len(more) /\ 3 <= Len(buf)
        BY <1>1
    <2> QED BY <2>1, ConcatProperties
<1>3. 2 * Quantity + 5 \in Nat
    BY LinkAssumption
<1> QED BY <1>1, <1>2, <1>3 DEF Junk

LEMMA JoinedIsJunk ==
    ASSUME NEW m \in 1 .. 2 * MaxRounds, NEW more \in Seq(Byte), more # <<>>
    PROVE  Junk(Response[m] \o more)
<1> DEFINE buf == Response[m]
<1>1. buf \in Seq(Byte) /\ Len(buf) = 2 * Quantity + 5 /\ Num[buf[3]] = 2 * Quantity
    BY ResponseFrame
<1> HIDE DEF buf
<1>2. Len(buf) \in Nat /\ Len(buf) >= 5 /\ Len(more) \in Nat /\ Len(more) > 0
    BY <1>1, LinkAssumption, EmptySeq
<1>3. /\ Len(buf \o more) = Len(buf) + Len(more)
      /\ (buf \o more)[3] = buf[3]
    <2>1. 3 \in 1 .. Len(buf) + Len(more) /\ 3 <= Len(buf)
        BY <1>2
    <2> QED BY <1>1, <2>1, ConcatProperties
<1>4. Junk(buf \o more)
    BY <1>1, <1>2, <1>3 DEF Junk
<1> QED BY <1>4 DEF buf

LEMMA JunkRefused ==
    ASSUME NEW buf, Junk(buf)
    PROVE  modbus_parse_response(buf, Quantity) = Refused
<1>1. 2 * Quantity + 5 \in Nat
    BY LinkAssumption
<1>2. ~Acceptable(buf)
    BY <1>1 DEF Junk, Acceptable
<1> QED BY <1>2 DEF modbus_parse_response

-----------------------------------------------------------------------------
(* Damage.  A frame that noise has hit is spoilt: refused, and, when its    *)
(* function is still that of a response, too long to become one by what    *)
(* follows.  What joins to it, or to a whole frame, stays refused.         *)

Spoilt(c) ==
    /\ c \in Seq(Byte) /\ Len(c) >= 4 /\ ~Acceptable(c)
    /\ \/ c[2] # FuncReadHolding
       \/ Len(c) >= 2 * Quantity + 4
       \/ Len(c) = 5 /\ Num[c[3]] = 2
Rubbish(buf) ==
    /\ buf \in Seq(Byte) /\ Len(buf) >= 5
    /\ \/ buf[2] # FuncReadHolding
       \/ Num[buf[3]] = 2 * Quantity /\ Len(buf) > 2 * Quantity + 5

LEMMA FunctionBits ==
    FuncReadHolding = {0, 1} /\ FuncReadHolding # {0, 1, 7} /\ FuncReadHolding # Bits(2)
<1>1. Bits(3) = {0, 1}
    BY BitsWord, SameBits DEF Word16
<1>2. 0 \notin Bits(2)
    BY BitsWord
<1> QED BY <1>1, <1>2 DEF FuncReadHolding

FlipOf(w, i, b) == [w EXCEPT ![i] = SymDiff(@, {b})]

LEMMA FlipIs ==
    ASSUME NEW w \in Seq(Byte), NEW i \in 1 .. Len(w), NEW b \in 0 .. 7,
           NEW c, c = FlipOf(w, i, b)
    PROVE  /\ c \in Seq(Byte) /\ Len(c) = Len(w) /\ c = Flipped(w, {<<i, b>>})
           /\ c[i] = SymDiff(w[i], {b})
           /\ \A k \in 1 .. Len(w) : k # i => c[k] = w[k]
<1> DEFINE hit(k) == {e[2] : e \in {x \in {<<i, b>>} : x[1] = k}}
           v == SymDiff(w[i], {b})
<1>1. w[i] \in Byte
    OBVIOUS
<1>2. v \in Byte /\ c = [w EXCEPT ![i] = v]
    BY <1>1 DEF FlipOf, SymDiff, Byte
<1>3. /\ c \in Seq(Byte) /\ Len(c) = Len(w) /\ DOMAIN c = DOMAIN w
      /\ c[i] = SymDiff(w[i], {b}) /\ \A k \in 1 .. Len(w) : k # i => c[k] = w[k]
    <2> HIDE DEF v
    <2>1. c \in Seq(Byte) /\ Len(c) = Len(w) /\ DOMAIN c = DOMAIN w
        BY <1>2
    <2>2. c[i] = v /\ \A k \in 1 .. Len(w) : k # i => c[k] = w[k]
        BY <1>2
    <2> QED BY <2>1, <2>2 DEF v
<1>4. hit(i) = {b} /\ \A k : k # i => hit(k) = {}
    <2>1. <<i, b>>[1] = i /\ <<i, b>>[2] = b
        OBVIOUS
    <2>2. \A k, x : x \in hit(k) <=> \E e \in {<<i, b>>} : e[1] = k /\ x = e[2]
        OBVIOUS
    <2> HIDE DEF hit
    <2>3. \A k, x : x \in hit(k) <=> k = i /\ x = b
        BY <2>1, <2>2
    <2> QED BY <2>3
<1>5. \A k \in DOMAIN w : c[k] = SymDiff(w[k], hit(k))
    <2> SUFFICES ASSUME NEW k \in DOMAIN w PROVE c[k] = SymDiff(w[k], hit(k))
        OBVIOUS
    <2>1. CASE k = i
        BY <1>3, <1>4, <2>1
    <2>2. CASE k # i
        <3>1. hit(k) = {} /\ c[k] = w[k]
            BY <1>3, <1>4, <2>2
        <3> QED BY <3>1 DEF SymDiff
    <2> QED BY <2>1, <2>2
<1>6. c = [k \in DOMAIN w |-> c[k]]
    BY <1>3
<1>7. Flipped(w, {<<i, b>>}) = [k \in DOMAIN w |-> SymDiff(w[k], hit(k))]
    BY DEF Flipped
<1> HIDE DEF hit
<1>8. c = Flipped(w, {<<i, b>>})
    BY <1>5, <1>6, <1>7
<1> QED BY <1>3, <1>8

LEMMA DamagedResponse ==
    ASSUME NEW m \in 1 .. 2 * MaxRounds, NEW i \in DOMAIN Response[m],
           NEW c \in Damaged(Response[m], i)
    PROVE  Spoilt(c)
<1> DEFINE w == Response[m]
           regs == [j \in 1 .. Quantity |-> Bits(m)]
<1>1. /\ w \in Seq(Byte) /\ Len(w) = 2 * Quantity + 5 /\ Acceptable(w)
      /\ i \in 1 .. Len(w)
    BY ResponseFrame
<1>2. Quantity \in 1 .. MaxRegisters /\ Quantity \in Nat /\ MaxRounds \in Nat
    BY LinkAssumption DEF MaxRegisters
<1>3. regs \in Seq(Word16) /\ Len(regs) = Quantity
    <2>1. Bits(m) \in Word16
        BY <1>2, BitsType
    <2> QED BY <1>2, <2>1
<1>4. w = build_test_response(regs)
    BY DEF Response
<1> HIDE DEF regs, w
<1>5. ASSUME NEW b \in 0 .. 7, c = FlipOf(w, i, b)
      PROVE  Spoilt(c)
    <2>1. c \in Seq(Byte) /\ Len(c) = Len(w) /\ c = Flipped(w, {<<i, b>>})
        BY ZenonT(30), <1>1, <1>5, FlipIs
    <2>2. <<i, b>> \in (DOMAIN w) \X (0 .. 7)
        BY <1>1
    <2>3. ~Acceptable(Flipped(w, {<<i, b>>, <<i, b>>}))
        BY <1>1, <2>2, TwoBitsRefused
    <2>4. {<<i, b>>, <<i, b>>} = {<<i, b>>}
        OBVIOUS
    <2>5. ~Acceptable(c)
        BY <2>1, <2>3, <2>4
    <2>6. Len(c) >= 4 /\ Len(c) >= 2 * Quantity + 4
        BY <1>1, <1>2, <2>1
    <2> QED BY <2>1, <2>5, <2>6 DEF Spoilt
<1>6. ASSUME c = RemoveAt(w, i)
      PROVE  Spoilt(c)
    <2>1. c \in Seq(Byte) /\ Len(c) = Len(w) - 1
        BY <1>1, <1>6, RemoveAtIs
    <2>2. i \in DOMAIN build_test_response(regs)
        BY <1>1, <1>4
    <2>3. ~Acceptable(c)
        BY <1>2, <1>3, <1>4, <1>6, <2>2, LostByteRefused
    <2>4. Len(c) >= 4 /\ Len(c) >= 2 * Quantity + 4
        BY <1>1, <1>2, <2>1
    <2> QED BY <2>1, <2>3, <2>4 DEF Spoilt
<1> QED BY <1>5, <1>6 DEF Damaged, FlipOf, w

LEMMA DamagedException ==
    ASSUME NEW i \in DOMAIN ExceptionResponse(2), NEW c \in Damaged(ExceptionResponse(2), i)
    PROVE  Spoilt(c)
<1> DEFINE w == ExceptionResponse(2)
<1>1. /\ w \in Seq(Byte) /\ Len(w) = 5 /\ w[2] = {0, 1, 7} /\ w[3] = Bits(2)
      /\ i \in 1 .. Len(w)
    BY ExceptionIs
<1> HIDE DEF w
<1>2. ASSUME NEW b \in 0 .. 7, c = FlipOf(w, i, b)
      PROVE  Spoilt(c)
    <2>1. /\ c \in Seq(Byte) /\ Len(c) = 5 /\ c[i] = SymDiff(w[i], {b})
          /\ \A k \in 1 .. 5 : k # i => c[k] = w[k]
        <3>1. w \in Seq(Byte) /\ i \in 1 .. Len(w)
            BY <1>1
        <3>2. c \in Seq(Byte) /\ Len(c) = Len(w) /\ c[i] = SymDiff(w[i], {b})
            BY ZenonT(30), <1>2, <3>1, FlipIs
        <3>3. \A k \in 1 .. Len(w) : k # i => c[k] = w[k]
            BY <1>2, <3>1 DEF FlipOf
        <3> QED BY <1>1, <3>2, <3>3
    <2>2. CASE c[2] # FuncReadHolding
        BY <2>1, <2>2 DEF Spoilt, Acceptable
    <2>3. CASE c[2] = FuncReadHolding
        <3>1. i = 2
            <4>1. 2 # i => c[2] = w[2]
                BY <2>1
            <4> QED BY <1>1, <2>3, <4>1, FunctionBits
        <3>2. c[3] = Bits(2)
            BY <1>1, <2>1, <3>1
        <3>3. Num[c[3]] = 2
            <4>1. LowByte(Bits(2)) = Bits(2)
                BY SmallBits DEF LowByte
            <4> QED BY <3>2, <4>1, NumOfBits
        <3>4. ~Acceptable(c)
            BY <2>1, <3>3 DEF Acceptable
        <3> QED BY <2>1, <3>3, <3>4 DEF Spoilt
    <2> QED BY <2>2, <2>3
<1>3. ASSUME c = RemoveAt(w, i)
      PROVE  Spoilt(c)
    <2>1. /\ c \in Seq(Byte) /\ Len(c) = 4
          /\ \A k \in 1 .. 4 : c[k] = IF k < i THEN w[k] ELSE w[k + 1]
        <3>1. /\ c \in Seq(Byte) /\ Len(c) = Len(w) - 1
              /\ \A k \in 1 .. Len(w) - 1 : c[k] = IF k < i THEN w[k] ELSE w[k + 1]
            BY <1>1, <1>3, RemoveAtIs
        <3> QED BY <1>1, <3>1
    <2>2. c[2] = w[2] \/ c[2] = w[3]
        <3>1. c[2] = IF 2 < i THEN w[2] ELSE w[2 + 1]
            BY <2>1
        <3> QED BY <3>1
    <2>3. c[2] # FuncReadHolding
        BY <1>1, <2>2, FunctionBits
    <2> QED BY <2>1, <2>3 DEF Spoilt, Acceptable
<1> QED BY <1>2, <1>3 DEF Damaged, FlipOf, w

LEMMA ExceptionIsSpoilt == Spoilt(ExceptionResponse(2))
<1> DEFINE w == ExceptionResponse(2)
<1>1. w \in Seq(Byte) /\ Len(w) = 5 /\ w[2] = {0, 1, 7}
    BY ExceptionIs
<1> HIDE DEF w
<1>2. Spoilt(w)
    BY <1>1, FunctionBits DEF Spoilt, Acceptable
<1> QED BY <1>2 DEF w

LEMMA RubbishRefused ==
    ASSUME NEW buf, Rubbish(buf) \/ Spoilt(buf)
    PROVE  modbus_parse_response(buf, Quantity) = Refused
<1>1. ~Acceptable(buf)
    <2>1. 2 * Quantity + 5 \in Nat
        BY LinkAssumption
    <2> QED BY <2>1 DEF Rubbish, Spoilt, Acceptable
<1> QED BY <1>1 DEF modbus_parse_response

(* A whole frame or a spoilt one. *)
Frame(c, ans) == Spoilt(c) \/ \E m \in DOMAIN ans : c = Response[m]

LEMMA FrameIs ==
    ASSUME NEW ans, DOMAIN ans \subseteq 1 .. 2 * MaxRounds, NEW c, Frame(c, ans)
    PROVE  /\ c \in Seq(Byte) /\ Len(c) >= 4
           /\ \/ c[2] # FuncReadHolding
              \/ Len(c) >= 2 * Quantity + 4
              \/ Len(c) = 5 /\ Num[c[3]] = 2
<1>1. CASE Spoilt(c)
    BY <1>1 DEF Spoilt
<1>2. ASSUME NEW m \in DOMAIN ans, c = Response[m]
      PROVE  c \in Seq(Byte) /\ Len(c) >= 4 /\ Len(c) >= 2 * Quantity + 4
    <2>1. c \in Seq(Byte) /\ Len(c) = 2 * Quantity + 5
        BY <1>2, ResponseFrame
    <2> QED BY <2>1, LinkAssumption DEF MaxRegisters
<1> QED BY <1>1, <1>2 DEF Frame

(* What is in the buffer when a frame joins it, if it has kept its length  *)
(* byte or is no response.                                                 *)
LEMMA JoinedIsRubbish ==
    ASSUME NEW ans, DOMAIN ans \subseteq 1 .. 2 * MaxRounds,
           NEW buf, Frame(buf, ans) \/ Rubbish(buf), NEW more, Frame(more, ans),
           buf[2] # FuncReadHolding \/ Num[buf[3]] = 2 * Quantity
    PROVE  Rubbish(buf \o more)
<1> DEFINE all == buf \o more
<1>1. more \in Seq(Byte) /\ Len(more) \in Nat /\ Len(more) >= 4
    BY FrameIs
<1>2. buf \in Seq(Byte) /\ Len(buf) \in Nat /\ Len(buf) >= 4
    BY FrameIs DEF Rubbish
<1>3. all \in Seq(Byte) /\ Len(all) = Len(buf) + Len(more) /\ all[2] = buf[2] /\ all[3] = buf[3]
    <2>1. /\ 2 \in 1 .. Len(buf) + Len(more) /\ 2 <= Len(buf)
          /\ 3 \in 1 .. Len(buf) + Len(more) /\ 3 <= Len(buf)
        BY <1>1, <1>2
    <2> QED BY <1>1, <1>2, <2>1, ConcatProperties
<1> HIDE DEF all
<1>4. Len(all) >= 5
    BY <1>1, <1>2, <1>3
<1>5. CASE buf[2] # FuncReadHolding
    BY <1>3, <1>4, <1>5 DEF Rubbish, all
<1>6. CASE buf[2] = FuncReadHolding
    <2>1. Quantity \in Nat /\ Num[buf[3]] = 2 * Quantity
        BY <1>6, LinkAssumption
    <2>2. \/ Len(buf) >= 2 * Quantity + 4
          \/ Len(buf) = 5 /\ 2 * Quantity = 2
        <3>1. CASE Rubbish(buf)
            BY <1>6, <2>1, <3>1 DEF Rubbish
        <3>2. CASE Frame(buf, ans)
            BY <1>6, <2>1, <3>2, FrameIs
        <3> QED BY <3>1, <3>2
    <2>3. Len(all) > 2 * Quantity + 5
        BY <1>1, <1>2, <1>3, <2>1, <2>2
    <2> QED BY <1>3, <1>4, <2>1, <2>3 DEF Rubbish, all
<1> QED BY <1>5, <1>6

-----------------------------------------------------------------------------
(* Requests and responses on a quiet line: bytes come in whole chunks, as  *)
(* they were sent, and one read() takes all that is there.                 *)

Quiet == faults.split = 0 /\ faults.damage = 0 /\ Len(rx) <= ReadSize

(* What is received holds nothing to read or one response; on the line are *)
(* whole frames.                                                           *)
Received(buf, ans) == buf = <<>> \/ Junk(buf) \/ \E m \in DOMAIN ans : buf = Response[m]
Sent(chunks, ans) ==
    \A j \in DOMAIN chunks : \/ chunks[j] = ExceptionResponse(2)
                             \/ \E m \in DOMAIN ans : chunks[j] = Response[m]

(* Responses are newer than the last reading, and in the order of their    *)
(* numbers.                                                                *)
Ordered(buf, chunks, ans, read) ==
    /\ read \in Nat /\ read <= Len(ans)
    /\ \A m \in DOMAIN ans : buf = Response[m] => read < m
    /\ \A j \in DOMAIN chunks, m \in DOMAIN ans : chunks[j] = Response[m] =>
          read < m /\ \A n \in DOMAIN ans : buf = Response[n] => n < m
    /\ \A i, j \in DOMAIN chunks, m, n \in DOMAIN ans :
          i < j /\ chunks[i] = Response[m] /\ chunks[j] = Response[n] => m < n

Busy(buf) == IF buf = <<>> THEN 0 ELSE 1

(* 1 when the next request may be asked, which makes all the others older  *)
(* by a round; and the faults that may have kept an answer back.           *)
Slack == IF pc = "waiting" \/ g_shutdown THEN 0 ELSE 1
Delay == faults.late + faults.echo + faults.read

(* What is on its way, and, of each of them, its age in rounds and what is *)
(* before it, is accounted for by the faults.                              *)
Backlog(buf, chunks, reqs, slack, delay) ==
    Busy(buf) + Len(chunks) + Len(reqs) + slack <= delay + 1
Aged(buf, chunks, reqs, ans, now, slack, delay) ==
    /\ \A m \in DOMAIN ans : buf = Response[m] => now - ans[m] + slack <= delay
    /\ \A j \in DOMAIN chunks, m \in DOMAIN ans : chunks[j] = Response[m] =>
          now - ans[m] + Busy(buf) + (j - 1) + slack <= delay
    /\ \A j \in DOMAIN reqs :
          now - reqs[j] + Busy(buf) + Len(chunks) + (j - 1) + slack <= delay

PairingOf(buf, chunks, reqs, ans, now, read, slack, delay) ==
    /\ Received(buf, ans) /\ Sent(chunks, ans)
    /\ Ordered(buf, chunks, ans, read)
    /\ Backlog(buf, chunks, reqs, slack, delay)
    /\ Aged(buf, chunks, reqs, ans, now, slack, delay)
Pairing == PairingOf(rx, line, requests, answers, round, taken, Slack, Delay)

(* The types of what the lemmas below are about. *)
Exchange(buf, chunks, reqs, ans, now, slack, delay) ==
    /\ buf \in Seq(Byte) /\ chunks \in Seq(Seq(Byte))
    /\ now \in Nat /\ reqs \in Seq(1 .. now) /\ ans \in Seq(1 .. now)
    /\ Len(ans) <= 2 * MaxRounds
    /\ slack \in {0, 1} /\ delay \in Nat

LEMMA ResponseReadable ==
    ASSUME NEW m \in 1 .. 2 * MaxRounds
    PROVE  Response[m] # <<>> /\ ~Junk(Response[m]) /\ Response[m] # ExceptionResponse(2)
<1>1. Response[m] # <<>>
    BY ResponseFrame, LinkAssumption
<1>2. ~Junk(Response[m])
    BY ReadingIs, JunkRefused, RefusedIsNoReading
<1> QED BY <1>1, <1>2, ExceptionIsJunk

LEMMA KnownResponse ==
    ASSUME NEW ans, DOMAIN ans \subseteq 1 .. 2 * MaxRounds, NEW m \in 1 .. 2 * MaxRounds,
           \/ Received(Response[m], ans)
           \/ \E n \in DOMAIN ans : Response[m] = Response[n]
    PROVE  m \in DOMAIN ans
<1>1. PICK n \in DOMAIN ans : Response[m] = Response[n]
    BY ResponseReadable DEF Received
<1> QED BY <1>1, ResponsesDiffer

LEMMA ExchangeDomains ==
    ASSUME NEW buf, NEW chunks, NEW reqs, NEW ans, NEW now, NEW slack, NEW delay,
           Exchange(buf, chunks, reqs, ans, now, slack, delay)
    PROVE  /\ DOMAIN ans = 1 .. Len(ans) /\ DOMAIN ans \subseteq 1 .. 2 * MaxRounds
           /\ Len(ans) \in Nat /\ Len(chunks) \in Nat /\ Len(reqs) \in Nat
           /\ DOMAIN chunks = 1 .. Len(chunks) /\ DOMAIN reqs = 1 .. Len(reqs)
           /\ \A m \in DOMAIN ans : ans[m] \in Nat /\ ans[m] <= now
           /\ \A j \in DOMAIN reqs : reqs[j] \in Nat /\ reqs[j] <= now
           /\ Busy(buf) \in {0, 1} /\ MaxRounds \in Nat
    BY LinkAssumption DEF Exchange, Busy

(* A round ends or nothing happens: what was received is kept or gone.     *)
LEMMA RoundPairing ==
    ASSUME NEW buf, NEW chunks, NEW reqs, NEW ans, NEW now, NEW slack, NEW delay,
           Exchange(buf, chunks, reqs, ans, now, slack, delay),
           NEW read, PairingOf(buf, chunks, reqs, ans, now, read, slack, delay),
           NEW buf2, buf2 \in {buf, <<>>}, NEW slack2 \in {0, 1}, NEW delay2 \in Nat,
           Busy(buf2) + slack2 + delay <= Busy(buf) + slack + delay2,
           NEW read2 \in Nat, read2 <= Len(ans),
           buf2 # <<>> => read2 = read,
           \A j \in DOMAIN chunks, m \in DOMAIN ans : chunks[j] = Response[m] => read2 < m
    PROVE  PairingOf(buf2, chunks, reqs, ans, now, read2, slack2, delay2)
<1> DEFINE b == Busy(buf)
           b2 == Busy(buf2)
<1>1. b \in Nat /\ b2 \in Nat
    BY DEF Busy
<1>2. /\ DOMAIN ans \subseteq 1 .. 2 * MaxRounds
      /\ DOMAIN chunks = 1 .. Len(chunks) /\ DOMAIN reqs = 1 .. Len(reqs)
      /\ \A m \in DOMAIN ans : ans[m] \in Nat
      /\ \A k \in DOMAIN reqs : reqs[k] \in Nat
    BY ExchangeDomains
<1>3. /\ Len(chunks) \in Nat /\ Len(reqs) \in Nat
      /\ now \in Nat /\ slack \in Nat /\ delay \in Nat
      /\ slack2 \in Nat
    BY ExchangeDomains DEF Exchange
<1>4. b2 + slack2 + delay <= b + slack + delay2
    OBVIOUS
<1> HIDE DEF b, b2
<1>5. \A m \in DOMAIN ans : Response[m] # <<>>
    BY <1>2, ResponseReadable
<1>6. Received(buf2, ans) /\ Sent(chunks, ans)
    BY DEF PairingOf, Received
<1>7. Ordered(buf2, chunks, ans, read2)
    BY <1>5 DEF PairingOf, Ordered
<1>8. Backlog(buf2, chunks, reqs, slack2, delay2)
    <2>1. b + Len(chunks) + Len(reqs) + slack <= delay + 1
        BY DEF PairingOf, Backlog, b
    <2>2. b2 + Len(chunks) + Len(reqs) + slack2 <= delay2 + 1
        BY <1>1, <1>3, <1>4, <2>1
    <2> QED BY <2>2 DEF Backlog, b2
<1>9. Aged(buf2, chunks, reqs, ans, now, slack2, delay2)
    <2>1. ASSUME NEW m \in DOMAIN ans, buf2 = Response[m]
          PROVE  now - ans[m] + slack2 <= delay2
        <3>1. buf2 = buf /\ now - ans[m] + slack <= delay
            BY <1>5, <2>1 DEF PairingOf, Aged
        <3>2. b2 = b
            BY <3>1 DEF b, b2
        <3>3. ans[m] \in Nat
            BY <1>2
        <3> QED BY SMTT(30), <1>1, <1>3, <1>4, <3>1, <3>2, <3>3
    <2>2. ASSUME NEW j \in DOMAIN chunks, NEW m \in DOMAIN ans, chunks[j] = Response[m]
          PROVE  now - ans[m] + b2 + (j - 1) + slack2 <= delay2
        <3> DEFINE a == ans[m]
        <3>1. now - a + b + (j - 1) + slack <= delay
            BY <2>2 DEF PairingOf, Aged, b
        <3>2. j \in Nat
            BY <1>2
        <3>3. a \in Nat
            BY <1>2
        <3> HIDE DEF a
        <3>4. now - a + b2 + (j - 1) + slack2 <= delay2
            BY <1>1, <1>3, <1>4, <3>1, <3>2, <3>3, SMTT(60)
        <3> QED BY <3>4 DEF a
    <2>3. ASSUME NEW j \in DOMAIN reqs
          PROVE  now - reqs[j] + b2 + Len(chunks) + (j - 1) + slack2 <= delay2
        <3> DEFINE a == reqs[j]
        <3>1. now - a + b + Len(chunks) + (j - 1) + slack <= delay
            BY DEF PairingOf, Aged, b
        <3>2. j \in Nat
            BY <1>2
        <3>3. a \in Nat
            BY <1>2
        <3> HIDE DEF a
        <3>4. now - a + b2 + Len(chunks) + (j - 1) + slack2 <= delay2
            BY <1>1, <1>3, <1>4, <3>1, <3>2, <3>3, SMTT(60)
        <3> QED BY <3>4 DEF a
    <2> QED BY <2>1, <2>2, <2>3 DEF Aged, b2
<1> QED BY <1>6, <1>7, <1>8, <1>9 DEF PairingOf

(* Nothing is on its way. *)
LEMMA EmptyPairing ==
    ASSUME NEW ans, NEW now, NEW read \in Nat, read <= Len(ans), NEW slack \in {0, 1},
           NEW delay \in Nat, DOMAIN ans \subseteq 1 .. 2 * MaxRounds
    PROVE  PairingOf(<<>>, <<>>, <<>>, ans, now, read, slack, delay)
<1>1. \A m \in DOMAIN ans : Response[m] # <<>>
    BY ResponseReadable
<1>2. Backlog(<<>>, <<>>, <<>>, slack, delay)
    BY DEF Backlog, Busy
<1> QED BY <1>1, <1>2 DEF PairingOf, Received, Sent, Ordered, Aged

LEMMA AskPairing ==
    ASSUME NEW buf, NEW chunks, NEW reqs, NEW ans, NEW now, NEW delay,
           Exchange(buf, chunks, reqs, ans, now, 1, delay),
           NEW read, PairingOf(buf, chunks, reqs, ans, now, read, 1, delay)
    PROVE  PairingOf(buf, chunks, Append(reqs, now + 1), ans, now + 1, read, 0, delay)
<1> DEFINE reqs2 == Append(reqs, now + 1)
<1>1. /\ Len(ans) \in Nat /\ Len(chunks) \in Nat /\ Len(reqs) \in Nat
      /\ DOMAIN chunks = 1 .. Len(chunks) /\ DOMAIN reqs = 1 .. Len(reqs)
      /\ \A m \in DOMAIN ans : ans[m] \in Nat
      /\ \A j \in DOMAIN reqs : reqs[j] \in Nat
      /\ Busy(buf) \in {0, 1} /\ now \in Nat /\ delay \in Nat
    BY ExchangeDomains DEF Exchange
<1>2. /\ Len(reqs2) = Len(reqs) + 1 /\ DOMAIN reqs2 = 1 .. Len(reqs) + 1
      /\ \A j \in DOMAIN reqs : reqs2[j] = reqs[j]
      /\ reqs2[Len(reqs) + 1] = now + 1
    BY DEF Exchange
<1> HIDE DEF reqs2
<1>3. Received(buf, ans) /\ Sent(chunks, ans) /\ Ordered(buf, chunks, ans, read)
    BY DEF PairingOf
<1>4. Busy(buf) + Len(chunks) + Len(reqs) + 1 <= delay + 1
    BY DEF PairingOf, Backlog
<1>5. Backlog(buf, chunks, reqs2, 0, delay)
    BY <1>1, <1>2, <1>4 DEF Backlog
<1>6. Aged(buf, chunks, reqs2, ans, now + 1, 0, delay)
    <2>1. ASSUME NEW m \in DOMAIN ans, buf = Response[m]
          PROVE  (now + 1) - ans[m] + 0 <= delay
        <3>1. now - ans[m] + 1 <= delay
            BY <2>1 DEF PairingOf, Aged
        <3> QED BY <1>1, <3>1
    <2>2. ASSUME NEW j \in DOMAIN chunks, NEW m \in DOMAIN ans, chunks[j] = Response[m]
          PROVE  (now + 1) - ans[m] + Busy(buf) + (j - 1) + 0 <= delay
        <3>1. now - ans[m] + Busy(buf) + (j - 1) + 1 <= delay
            BY <2>2 DEF PairingOf, Aged
        <3>2. j \in Nat
            BY <1>1
        <3> QED BY <1>1, <3>1, <3>2
    <2>3. ASSUME NEW j \in DOMAIN reqs2
          PROVE  (now + 1) - reqs2[j] + Busy(buf) + Len(chunks) + (j - 1) + 0 <= delay
        <3>1. CASE j = Len(reqs) + 1
            BY <1>1, <1>2, <1>4, <3>1
        <3>2. CASE j # Len(reqs) + 1
            <4>1. j \in DOMAIN reqs /\ j \in Nat
                BY <1>1, <1>2, <3>2
            <4>2. now - reqs[j] + Busy(buf) + Len(chunks) + (j - 1) + 1 <= delay
                BY <4>1 DEF PairingOf, Aged
            <4> QED BY <1>1, <1>2, <4>1, <4>2
        <3> QED BY <3>1, <3>2
    <2> QED BY <2>1, <2>2, <2>3 DEF Aged
<1> QED BY <1>3, <1>5, <1>6 DEF PairingOf, reqs2

LEMMA TailIs ==
    ASSUME NEW S, NEW seq \in Seq(S), seq # <<>>
    PROVE  /\ Len(seq) \in Nat /\ Len(seq) >= 1
           /\ Tail(seq) \in Seq(S) /\ Len(Tail(seq)) = Len(seq) - 1
           /\ DOMAIN Tail(seq) = 1 .. Len(seq) - 1
           /\ \A j \in DOMAIN Tail(seq) : j + 1 \in DOMAIN seq /\ Tail(seq)[j] = seq[j + 1]
           /\ Head(seq) = seq[1] /\ 1 \in DOMAIN seq
<1>1. Len(seq) \in Nat /\ Len(seq) >= 1 /\ DOMAIN seq = 1 .. Len(seq)
    BY EmptySeq
<1>2. /\ Tail(seq) \in Seq(S) /\ Len(Tail(seq)) = Len(seq) - 1
      /\ \A j \in 1 .. Len(Tail(seq)) : Tail(seq)[j] = seq[j + 1]
    BY HeadTailProperties
<1> QED BY <1>1, <1>2

(* The tty takes a chunk in: after an earlier one it makes the input junk.  *)
LEMMA DeliverPairing ==
    ASSUME NEW buf, NEW chunks, NEW reqs, NEW ans, NEW now, NEW slack, NEW delay,
           Exchange(buf, chunks, reqs, ans, now, slack, delay),
           NEW read, PairingOf(buf, chunks, reqs, ans, now, read, slack, delay),
           chunks # <<>>
    PROVE  PairingOf(buf \o Head(chunks), Tail(chunks), reqs, ans, now, read, slack, delay)
<1> DEFINE buf2 == buf \o Head(chunks)
           rest == Tail(chunks)
<1>1. /\ DOMAIN ans \subseteq 1 .. 2 * MaxRounds
      /\ DOMAIN chunks = 1 .. Len(chunks) /\ DOMAIN reqs = 1 .. Len(reqs)
      /\ \A m \in DOMAIN ans : ans[m] \in Nat
      /\ \A k \in DOMAIN reqs : reqs[k] \in Nat
      /\ Busy(buf) \in {0, 1}
    BY ExchangeDomains
<1>2. /\ buf \in Seq(Byte) /\ chunks \in Seq(Seq(Byte))
      /\ Len(chunks) \in Nat /\ Len(reqs) \in Nat
      /\ now \in Nat /\ slack \in Nat /\ delay \in Nat
    BY ExchangeDomains DEF Exchange
<1>3. /\ Len(chunks) >= 1 /\ Len(rest) = Len(chunks) - 1
      /\ DOMAIN rest = 1 .. Len(chunks) - 1
      /\ \A j \in DOMAIN rest : j + 1 \in DOMAIN chunks /\ rest[j] = chunks[j + 1]
      /\ Head(chunks) = chunks[1] /\ 1 \in DOMAIN chunks
    BY <1>2, TailIs
<1>4. Head(chunks) \in Seq(Byte)
    BY <1>2, <1>3
<1>5. /\ Received(buf, ans) /\ Sent(chunks, ans) /\ Ordered(buf, chunks, ans, read)
      /\ Backlog(buf, chunks, reqs, slack, delay)
      /\ Aged(buf, chunks, reqs, ans, now, slack, delay)
    BY DEF PairingOf
<1>6. \/ Head(chunks) = ExceptionResponse(2)
      \/ \E m \in DOMAIN ans : Head(chunks) = Response[m]
    BY <1>3, <1>5 DEF Sent
<1>7. Head(chunks) # <<>>
    BY <1>1, <1>6, ResponseReadable, ExceptionIsJunk, EmptySeq DEF Junk
<1>8. CASE buf = <<>>
    <2>1. buf2 = chunks[1]
        BY <1>3, <1>4, <1>8, ConcatEmptySeq
    <2>2. Busy(buf) = 0 /\ Busy(buf2) \in {0, 1}
        BY <1>8 DEF Busy
    <2> HIDE DEF buf2, rest
    <2>3. Received(buf2, ans) /\ Sent(rest, ans)
        BY <1>3, <1>5, <2>1, ExceptionIsJunk DEF Received, Sent
    <2>4. Ordered(buf2, rest, ans, read)
        <3>1. ASSUME NEW m \in DOMAIN ans, buf2 = Response[m]
              PROVE  read < m
            BY <1>3, <1>5, <2>1, <3>1 DEF Ordered
        <3>2. ASSUME NEW j \in DOMAIN rest, NEW m \in DOMAIN ans, rest[j] = Response[m]
              PROVE  read < m /\ \A n \in DOMAIN ans : buf2 = Response[n] => n < m
            <4>1. j + 1 \in DOMAIN chunks /\ chunks[j + 1] = Response[m] /\ 1 < j + 1
                BY <1>2, <1>3, <3>2
            <4> QED BY <1>3, <1>5, <2>1, <4>1 DEF Ordered
        <3>3. ASSUME NEW i \in DOMAIN rest, NEW j \in DOMAIN rest,
                     NEW m \in DOMAIN ans, NEW n \in DOMAIN ans,
                     i < j, rest[i] = Response[m], rest[j] = Response[n]
              PROVE  m < n
            <4>1. /\ i + 1 \in DOMAIN chunks /\ j + 1 \in DOMAIN chunks
                  /\ chunks[i + 1] = Response[m] /\ chunks[j + 1] = Response[n]
                  /\ i + 1 < j + 1
                BY SMTT(30), <1>2, <1>3, <3>3
            <4> QED BY <1>5, <4>1 DEF Ordered
        <3> QED BY <1>5, <3>1, <3>2, <3>3 DEF Ordered
    <2>5. Backlog(buf2, rest, reqs, slack, delay)
        BY <1>2, <1>3, <1>5, <2>2 DEF Backlog
    <2>6. Aged(buf2, rest, reqs, ans, now, slack, delay)
        <3>1. ASSUME NEW m \in DOMAIN ans, buf2 = Response[m]
              PROVE  now - ans[m] + slack <= delay
            <4>1. now - ans[m] + 0 + (1 - 1) + slack <= delay
                BY <1>3, <1>5, <2>1, <2>2, <3>1 DEF Aged
            <4> DEFINE a == ans[m]
            <4>2. a \in Nat
                BY <1>1
            <4>3. now - a + 0 + (1 - 1) + slack <= delay
                BY <4>1
            <4> HIDE DEF a
            <4>4. now - a + slack <= delay
                BY <1>2, <4>2, <4>3
            <4> QED BY <4>4 DEF a
        <3>2. ASSUME NEW j \in DOMAIN rest, NEW m \in DOMAIN ans, rest[j] = Response[m]
              PROVE  now - ans[m] + Busy(buf2) + (j - 1) + slack <= delay
            <4> DEFINE a == ans[m]
                       b2 == Busy(buf2)
            <4>1. /\ j + 1 \in DOMAIN chunks /\ chunks[j + 1] = Response[m]
                  /\ j \in Nat /\ a \in Nat
                BY SMTT(30), <1>1, <1>2, <1>3, <3>2
            <4>2. now - a + 0 + ((j + 1) - 1) + slack <= delay
                BY <1>5, <2>2, <4>1 DEF Aged
            <4>3. b2 = 0 \/ b2 = 1
                BY <2>2
            <4>4. j \in Nat /\ a \in Nat
                BY <4>1
            <4> HIDE DEF a, b2
            <4>5. now - a + b2 + (j - 1) + slack <= delay
                BY <1>2, <4>2, <4>3, <4>4, SMTT(60)
            <4> QED BY <4>5 DEF a, b2
        <3>3. ASSUME NEW j \in DOMAIN reqs
              PROVE  now - reqs[j] + Busy(buf2) + Len(rest) + (j - 1) + slack <= delay
            <4> DEFINE a == reqs[j]
                       b2 == Busy(buf2)
                       n == Len(chunks)
            <4>1. now - a + 0 + n + (j - 1) + slack <= delay
                BY <1>5, <2>2 DEF Aged
            <4>2. (b2 = 0 \/ b2 = 1) /\ j \in Nat /\ a \in Nat /\ n \in Nat
                BY <1>1, <1>2, <2>2
            <4> HIDE DEF a, b2, n
            <4>3. now - a + b2 + (n - 1) + (j - 1) + slack <= delay
                BY <1>2, <4>1, <4>2, SMTT(60)
            <4> QED BY <1>3, <4>3 DEF a, b2, n
        <3> QED BY <3>1, <3>2, <3>3 DEF Aged
    <2> QED BY <2>3, <2>4, <2>5, <2>6 DEF PairingOf, buf2, rest
<1>9. CASE buf # <<>>
    <2>1. Junk(buf2)
        <3>1. CASE Junk(buf)
            BY <1>2, <1>4, <3>1, JunkGrows
        <3>2. CASE \E m \in DOMAIN ans : buf = Response[m]
            BY <1>1, <1>4, <1>7, <3>2, JoinedIsJunk
        <3> QED BY <1>5, <1>9, <3>1, <3>2 DEF Received
    <2>2. buf2 # <<>>
        BY <2>1, EmptySeq DEF Junk
    <2>3. Busy(buf) = 1 /\ Busy(buf2) = 1
        BY <1>9, <2>2 DEF Busy
    <2>4. \A m \in DOMAIN ans : buf2 # Response[m]
        BY <1>1, <2>1, ResponseReadable
    <2> HIDE DEF buf2, rest
    <2>5. Received(buf2, ans) /\ Sent(rest, ans)
        BY <1>3, <1>5, <2>1 DEF Received, Sent
    <2>6. Ordered(buf2, rest, ans, read)
        <3>1. ASSUME NEW j \in DOMAIN rest, NEW m \in DOMAIN ans, rest[j] = Response[m]
              PROVE  read < m
            BY <1>3, <1>5, <3>1 DEF Ordered
        <3>2. ASSUME NEW i \in DOMAIN rest, NEW j \in DOMAIN rest,
                     NEW m \in DOMAIN ans, NEW n \in DOMAIN ans,
                     i < j, rest[i] = Response[m], rest[j] = Response[n]
              PROVE  m < n
            <4>1. /\ i + 1 \in DOMAIN chunks /\ j + 1 \in DOMAIN chunks
                  /\ chunks[i + 1] = Response[m] /\ chunks[j + 1] = Response[n]
                  /\ i + 1 < j + 1
                BY SMTT(30), <1>2, <1>3, <3>2
            <4> QED BY <1>5, <4>1 DEF Ordered
        <3> QED BY <1>5, <2>4, <3>1, <3>2 DEF Ordered
    <2>7. Backlog(buf2, rest, reqs, slack, delay)
        BY <1>2, <1>3, <1>5, <2>3 DEF Backlog
    <2>8. Aged(buf2, rest, reqs, ans, now, slack, delay)
        <3>1. ASSUME NEW j \in DOMAIN rest, NEW m \in DOMAIN ans, rest[j] = Response[m]
              PROVE  now - ans[m] + 1 + (j - 1) + slack <= delay
            <4> DEFINE a == ans[m]
            <4>1. /\ j + 1 \in DOMAIN chunks /\ chunks[j + 1] = Response[m]
                  /\ j \in Nat /\ a \in Nat
                BY SMTT(30), <1>1, <1>2, <1>3, <3>1
            <4>2. now - a + 1 + ((j + 1) - 1) + slack <= delay
                BY <1>5, <2>3, <4>1 DEF Aged
            <4>3. j \in Nat /\ a \in Nat
                BY <4>1
            <4> HIDE DEF a
            <4>4. now - a + 1 + (j - 1) + slack <= delay
                BY <1>2, <4>2, <4>3, SMTT(60)
            <4> QED BY <4>4 DEF a
        <3>2. ASSUME NEW j \in DOMAIN reqs
              PROVE  now - reqs[j] + 1 + Len(rest) + (j - 1) + slack <= delay
            <4> DEFINE a == reqs[j]
                       n == Len(chunks)
            <4>1. now - a + 1 + n + (j - 1) + slack <= delay
                BY <1>5, <2>3 DEF Aged
            <4>2. j \in Nat /\ a \in Nat /\ n \in Nat
                BY <1>1, <1>2
            <4> HIDE DEF a, n
            <4>3. now - a + 1 + (n - 1) + (j - 1) + slack <= delay
                BY <1>2, <4>1, <4>2, SMTT(60)
            <4> QED BY <1>3, <4>3 DEF a, n
        <3> QED BY <2>3, <2>4, <3>1, <3>2 DEF Aged
    <2> QED BY <2>5, <2>6, <2>7, <2>8 DEF PairingOf, buf2, rest
<1> QED BY <1>8, <1>9

(* The slave serves the oldest request with k chunks, exceptions or the    *)
(* responses it numbers next.                                              *)
Serving(chunks, reqs, ans, now, k, chunks2, ans2) ==
    /\ reqs # <<>>
    /\ chunks2 \in Seq(Seq(Byte)) /\ Len(chunks2) = Len(chunks) + k
    /\ \A j \in DOMAIN chunks : chunks2[j] = chunks[j]
    /\ ans2 \in Seq(1 .. now) /\ Len(ans) <= Len(ans2) /\ Len(ans2) <= 2 * MaxRounds
    /\ \A m \in DOMAIN ans : ans2[m] = ans[m]
    /\ \A i \in 1 .. k :
          \/ chunks2[Len(chunks) + i] = ExceptionResponse(2)
          \/ /\ Len(ans) + i \in DOMAIN ans2
             /\ ans2[Len(ans) + i] = Head(reqs)
             /\ chunks2[Len(chunks) + i] = Response[Len(ans) + i]

(* More than one chunk for a request is a fault. *)
LEMMA ServePairing ==
    ASSUME NEW buf, NEW chunks, NEW reqs, NEW ans, NEW now, NEW slack, NEW delay,
           Exchange(buf, chunks, reqs, ans, now, slack, delay),
           NEW read, PairingOf(buf, chunks, reqs, ans, now, read, slack, delay),
           NEW k \in Nat, NEW delay2 \in Nat, delay <= delay2, k + delay <= 1 + delay2,
           NEW chunks2, NEW ans2, Serving(chunks, reqs, ans, now, k, chunks2, ans2)
    PROVE  PairingOf(buf, chunks2, Tail(reqs), ans2, now, read, slack, delay2)
<1> DEFINE rest == Tail(reqs)
           b == Busy(buf)
           n == Len(chunks)
           d == Len(ans)
<1>a. /\ reqs # <<>>
      /\ chunks2 \in Seq(Seq(Byte)) /\ Len(chunks2) = Len(chunks) + k
      /\ \A j \in DOMAIN chunks : chunks2[j] = chunks[j]
      /\ ans2 \in Seq(1 .. now) /\ Len(ans) <= Len(ans2) /\ Len(ans2) <= 2 * MaxRounds
      /\ \A m \in DOMAIN ans : ans2[m] = ans[m]
    BY DEF Serving
<1>b. \A i \in 1 .. k :
          \/ chunks2[Len(chunks) + i] = ExceptionResponse(2)
          \/ /\ Len(ans) + i \in DOMAIN ans2
             /\ ans2[Len(ans) + i] = Head(reqs)
             /\ chunks2[Len(chunks) + i] = Response[Len(ans) + i]
    BY DEF Serving
<1>1. /\ DOMAIN ans = 1 .. d /\ DOMAIN ans2 = 1 .. Len(ans2)
      /\ DOMAIN ans \subseteq DOMAIN ans2 /\ DOMAIN ans2 \subseteq 1 .. 2 * MaxRounds
      /\ DOMAIN chunks = 1 .. n /\ DOMAIN chunks2 = 1 .. n + k
      /\ d \in Nat /\ n \in Nat /\ Len(ans2) \in Nat
    <2>1. DOMAIN ans = 1 .. d /\ DOMAIN chunks = 1 .. n /\ d \in Nat /\ n \in Nat
        BY ExchangeDomains
    <2>2. DOMAIN ans2 = 1 .. Len(ans2) /\ Len(ans2) \in Nat /\ DOMAIN chunks2 = 1 .. n + k
        BY <1>a
    <2>3. MaxRounds \in Nat
        BY LinkAssumption
    <2> QED BY <1>a, <2>1, <2>2, <2>3
<1>2. /\ \A m \in DOMAIN ans : ans[m] \in Nat
      /\ \A j \in DOMAIN reqs : reqs[j] \in Nat
    BY ExchangeDomains
<1>3. b \in {0, 1} /\ now \in Nat /\ slack \in Nat /\ delay \in Nat
    <2>1. b \in {0, 1}
        BY DEF Busy
    <2>2. now \in Nat /\ slack \in Nat /\ delay \in Nat
        BY DEF Exchange
    <2> QED BY <2>1, <2>2
<1>4. reqs \in Seq(1 .. now) /\ Len(reqs) \in Nat
    BY ExchangeDomains DEF Exchange
<1>5. /\ Len(reqs) >= 1 /\ Len(rest) = Len(reqs) - 1
      /\ DOMAIN rest = 1 .. Len(reqs) - 1
      /\ \A j \in DOMAIN rest : j + 1 \in DOMAIN reqs /\ rest[j] = reqs[j + 1]
      /\ Head(reqs) = reqs[1] /\ 1 \in DOMAIN reqs
    BY <1>4, <1>a, TailIs
<1>6. /\ Received(buf, ans) /\ Sent(chunks, ans) /\ Ordered(buf, chunks, ans, read)
      /\ Backlog(buf, chunks, reqs, slack, delay)
      /\ Aged(buf, chunks, reqs, ans, now, slack, delay)
    BY DEF PairingOf
<1> HIDE DEF rest, n, d
<1>7. ASSUME NEW m \in DOMAIN ans2, buf = Response[m]
      PROVE  m \in DOMAIN ans
    <2>1. DOMAIN ans \subseteq 1 .. 2 * MaxRounds /\ m \in 1 .. 2 * MaxRounds
        BY <1>1
    <2> QED BY <1>6, <1>7, <2>1, KnownResponse
<1>8. ASSUME NEW j \in DOMAIN chunks, NEW m \in DOMAIN ans2, chunks2[j] = Response[m]
      PROVE  m \in DOMAIN ans /\ chunks[j] = Response[m]
    <2>1. DOMAIN ans \subseteq 1 .. 2 * MaxRounds /\ m \in 1 .. 2 * MaxRounds
        BY <1>1
    <2>2. chunks[j] = Response[m]
        BY <1>8, <1>a
    <2>3. \E o \in DOMAIN ans : Response[m] = Response[o]
        BY <1>6, <2>1, <2>2, ResponseReadable DEF Sent
    <2> QED BY <2>1, <2>2, <2>3, KnownResponse
<1>9. ASSUME NEW j \in DOMAIN chunks2, j \notin DOMAIN chunks
      PROVE  /\ j - n \in 1 .. k
             /\ \/ chunks2[j] = ExceptionResponse(2)
                \/ /\ d + (j - n) \in DOMAIN ans2 /\ d + (j - n) \notin DOMAIN ans
                   /\ ans2[d + (j - n)] = reqs[1]
                   /\ chunks2[j] = Response[d + (j - n)]
    <2>1. j - n \in 1 .. k /\ n + (j - n) = j /\ j \in Int
        BY <1>1, <1>9
    <2>2. d + (j - n) \notin DOMAIN ans
        BY <1>1, <2>1
    <2> QED BY <1>5, <1>b, <2>1, <2>2 DEF n, d
<1>10. ASSUME NEW j \in DOMAIN chunks2, NEW m \in DOMAIN ans2, j \notin DOMAIN chunks,
              chunks2[j] = Response[m]
       PROVE  /\ j - n \in 1 .. k /\ m = d + (j - n)
              /\ m \notin DOMAIN ans /\ ans2[m] = reqs[1]
    <2>1. m \in 1 .. 2 * MaxRounds
        BY <1>1
    <2>2. chunks2[j] # ExceptionResponse(2)
        BY <1>10, <2>1, ResponseReadable
    <2>3. /\ j - n \in 1 .. k /\ d + (j - n) \in DOMAIN ans2
          /\ d + (j - n) \notin DOMAIN ans
          /\ ans2[d + (j - n)] = reqs[1] /\ chunks2[j] = Response[d + (j - n)]
        BY <1>9, <1>10, <2>2
    <2>4. m = d + (j - n)
        BY <1>1, <1>10, <2>1, <2>3, ResponsesDiffer
    <2> QED BY <2>3, <2>4
<1>11. Received(buf, ans2) /\ Sent(chunks2, ans2)
    <2>1. Received(buf, ans2)
        BY <1>1, <1>6 DEF Received
    <2>2. Sent(chunks2, ans2)
        <3>1. ASSUME NEW j \in DOMAIN chunks
              PROVE  \/ chunks2[j] = ExceptionResponse(2)
                     \/ \E m \in DOMAIN ans2 : chunks2[j] = Response[m]
            BY <1>1, <1>6, <1>a DEF Sent
        <3> QED BY <1>9, <3>1 DEF Sent
    <2> QED BY <2>1, <2>2
<1>12. Ordered(buf, chunks2, ans2, read)
    <2>1. read \in Nat /\ read <= d /\ d <= Len(ans2)
        BY <1>6, <1>a DEF Ordered, d
    <2>2. read <= Len(ans2)
        BY <1>1, <2>1
    <2>3. ASSUME NEW m \in DOMAIN ans2, buf = Response[m]
          PROVE  read < m /\ m <= d
        <3>1. m \in DOMAIN ans
            BY <1>7, <2>3
        <3>2. read < m
            BY <1>6, <2>3, <3>1 DEF Ordered
        <3> QED BY <1>1, <3>1, <3>2
    <2>4. ASSUME NEW j \in DOMAIN chunks2, NEW m \in DOMAIN ans2, chunks2[j] = Response[m]
          PROVE  read < m /\ \A o \in DOMAIN ans2 : buf = Response[o] => o < m
        <3>1. CASE j \in DOMAIN chunks
            <4>1. m \in DOMAIN ans /\ chunks[j] = Response[m]
                BY <1>8, <2>4, <3>1
            <4> QED BY <1>6, <1>7, <3>1, <4>1 DEF Ordered
        <3>2. CASE j \notin DOMAIN chunks
            <4>1. m \notin DOMAIN ans /\ m \in DOMAIN ans2
                BY <1>10, <2>4, <3>2
            <4>2. d < m
                BY <1>1, <4>1
            <4>3. m \in Nat /\ \A o \in DOMAIN ans2 : o \in Nat
                <5>1. \A o \in DOMAIN ans2 : o \in 1 .. Len(ans2)
                    BY <1>1
                <5> QED BY <5>1
            <4>4. ASSUME NEW o \in DOMAIN ans2, buf = Response[o]
                  PROVE  o < m
                <5>1. o <= d
                    BY <2>3, <4>4
                <5> QED BY <1>1, <4>2, <4>3, <5>1
            <4> QED BY <1>1, <2>1, <4>2, <4>3, <4>4
        <3> QED BY <3>1, <3>2
    <2>5. ASSUME NEW i \in DOMAIN chunks2, NEW j \in DOMAIN chunks2,
                 NEW m \in DOMAIN ans2, NEW o \in DOMAIN ans2,
                 i < j, chunks2[i] = Response[m], chunks2[j] = Response[o]
          PROVE  m < o
        <3>1. CASE j \in DOMAIN chunks
            <4>1. i \in DOMAIN chunks
                BY <1>1, <2>5, <3>1
            <4>2. /\ m \in DOMAIN ans /\ chunks[i] = Response[m]
                  /\ o \in DOMAIN ans /\ chunks[j] = Response[o]
                BY <1>8, <2>5, <3>1, <4>1
            <4> QED BY <1>6, <2>5, <3>1, <4>1, <4>2 DEF Ordered
        <3>2. CASE j \notin DOMAIN chunks /\ i \in DOMAIN chunks
            <4>1. m \in DOMAIN ans
                BY <1>8, <2>5, <3>2
            <4>2. o \notin DOMAIN ans
                BY <1>10, <2>5, <3>2
            <4> QED BY <1>1, <4>1, <4>2
        <3>3. CASE j \notin DOMAIN chunks /\ i \notin DOMAIN chunks
            <4>1. m = d + (i - n) /\ o = d + (j - n)
                BY <1>10, <2>5, <3>3
            <4>2. i \in 1 .. n + k /\ j \in 1 .. n + k
                BY <1>1
            <4> QED BY <1>1, <2>5, <4>1, <4>2
        <3> QED BY <3>1, <3>2, <3>3
    <2> QED BY <2>1, <2>2, <2>3, <2>4, <2>5 DEF Ordered
<1>13. Backlog(buf, chunks2, rest, slack, delay2)
    <2>1. b + n + Len(reqs) + slack <= delay + 1
        BY <1>6 DEF Backlog, n
    <2>2. Len(chunks2) = n + k
        BY <1>a DEF n
    <2> HIDE DEF b
    <2>3. b + (n + k) + (Len(reqs) - 1) + slack <= delay2 + 1
        BY <1>1, <1>3, <1>4, <2>1
    <2> QED BY <1>5, <2>2, <2>3 DEF Backlog, b
<1>14. Aged(buf, chunks2, rest, ans2, now, slack, delay2)
    <2>1. ASSUME NEW m \in DOMAIN ans2, buf = Response[m]
          PROVE  now - ans2[m] + slack <= delay2
        <3> DEFINE a == ans2[m]
        <3>1. m \in DOMAIN ans
            BY <1>7, <2>1
        <3>2. now - a + slack <= delay /\ a \in Nat
            BY <1>2, <1>6, <1>a, <2>1, <3>1 DEF Aged
        <3> HIDE DEF a
        <3>3. now - a + slack <= delay2
            BY <1>3, <3>2
        <3> QED BY <3>3 DEF a
    <2>2. ASSUME NEW j \in DOMAIN chunks2, NEW m \in DOMAIN ans2, chunks2[j] = Response[m]
          PROVE  now - ans2[m] + b + (j - 1) + slack <= delay2
        <3> DEFINE a == ans2[m]
        <3>1. j \in Nat
            BY <1>1
        <3>2. CASE j \in DOMAIN chunks
            <4>1. m \in DOMAIN ans /\ chunks[j] = Response[m]
                BY <1>8, <2>2, <3>2
            <4>2. now - a + b + (j - 1) + slack <= delay /\ a \in Nat
                BY <1>2, <1>6, <1>a, <3>2, <4>1 DEF Aged
            <4> HIDE DEF a, b
            <4>3. now - a + b + (j - 1) + slack <= delay2
                BY <1>3, <3>1, <4>2, SMTT(60)
            <4> QED BY <4>3 DEF a, b
        <3>3. CASE j \notin DOMAIN chunks
            <4>1. j - n \in 1 .. k /\ a = reqs[1]
                BY <1>10, <2>2, <3>3
            <4>2. now - a + b + n + (1 - 1) + slack <= delay /\ a \in Nat
                BY <1>2, <1>5, <1>6, <4>1 DEF Aged, n
            <4>3. j - n <= k
                BY <4>1
            <4> HIDE DEF a, b
            <4>4. now - a + b + (j - 1) + slack <= delay2
                BY <1>1, <1>3, <3>1, <4>2, <4>3, SMTT(60)
            <4> QED BY <4>4 DEF a, b
        <3> QED BY <3>2, <3>3
    <2>3. ASSUME NEW j \in DOMAIN rest
          PROVE  now - rest[j] + b + Len(chunks2) + (j - 1) + slack <= delay2
        <3> DEFINE a == rest[j]
        <3>1. j + 1 \in DOMAIN reqs /\ a = reqs[j + 1] /\ j \in Nat /\ a \in Nat
            BY <1>2, <1>4, <1>5
        <3>2. now - a + b + n + ((j + 1) - 1) + slack <= delay
            BY <1>6, <3>1 DEF Aged, n
        <3>3. j \in Nat /\ a \in Nat
            BY <3>1
        <3> HIDE DEF a, b
        <3>4. now - a + b + (n + k) + (j - 1) + slack <= delay2
            BY <1>1, <1>3, <3>2, <3>3, SMTT(60)
        <3> QED BY <1>a, <3>4 DEF a, b, n
    <2> QED BY <2>1, <2>2, <2>3 DEF Aged
<1> QED BY <1>11, <1>12, <1>13, <1>14 DEF PairingOf, rest

-----------------------------------------------------------------------------
LEMMA FaultIs ==
    ASSUME NEW k \in Faults, faults \in [Faults -> Nat], Fault(k)
    PROVE  /\ faults'[k] = faults[k] + 1
           /\ \A j \in Faults \ {k} : faults'[j] = faults[j]
    BY SMTT(30) DEF Fault

LEMMA ExchangeNow ==
    ASSUME Types
    PROVE  /\ Exchange(rx, line, requests, answers, round, Slack, Delay)
           /\ DOMAIN answers \subseteq 1 .. 2 * MaxRounds
           /\ Slack \in {0, 1} /\ Delay \in Nat
<1>1. Delay \in Nat
    BY SMTT(30), FaultKinds DEF Types, Delay
<1>2. /\ round \in Nat /\ MaxRounds \in Nat /\ Len(answers) \in Nat /\ Len(requests) \in Nat
      /\ Len(answers) + 2 * Len(requests) <= 2 * round /\ round <= MaxRounds
    BY LinkAssumption DEF Types
<1>3. Len(answers) <= 2 * MaxRounds
    BY <1>2
<1>4. Exchange(rx, line, requests, answers, round, Slack, Delay)
    BY <1>1, <1>2, <1>3 DEF Exchange, Types, Slack
<1> QED BY <1>1, <1>4, ExchangeDomains DEF Slack

LEMMA DelayAfter ==
    ASSUME Types, NEW k \in Faults, Fault(k)
    PROVE  /\ k \in {"late", "echo", "read"} => Delay' = Delay + 1
           /\ k \notin {"late", "echo", "read"} => Delay' = Delay
<1>1. /\ faults' = [faults EXCEPT ![k] = faults[k] + 1]
      /\ faults \in [Faults -> Nat]
      /\ "late" \in Faults /\ "echo" \in Faults /\ "read" \in Faults
    BY FaultKinds DEF Types, Fault
<1>2. faults["late"] \in Nat /\ faults["echo"] \in Nat /\ faults["read"] \in Nat
    BY <1>1
<1>3. \A j \in {"late", "echo", "read"} :
         faults'[j] = IF j = k THEN faults[j] + 1 ELSE faults[j]
    BY <1>1
<1>4. /\ faults'["late"] = (IF k = "late" THEN faults["late"] + 1 ELSE faults["late"])
      /\ faults'["echo"] = (IF k = "echo" THEN faults["echo"] + 1 ELSE faults["echo"])
      /\ faults'["read"] = (IF k = "read" THEN faults["read"] + 1 ELSE faults["read"])
    BY <1>3
<1>5. PICK l \in Nat, e \in Nat, f \in Nat :
         l = faults["late"] /\ e = faults["echo"] /\ f = faults["read"]
    BY <1>2
<1>6. Delay = l + e + f
    BY <1>5 DEF Delay
<1>7. CASE k = "late"
    <2>1. Delay' = (l + 1) + e + f
        BY <1>4, <1>5, <1>7 DEF Delay
    <2> QED BY <1>6, <1>7, <2>1
<1>8. CASE k = "echo"
    <2>1. Delay' = l + (e + 1) + f
        BY <1>4, <1>5, <1>8 DEF Delay
    <2> QED BY <1>6, <1>8, <2>1
<1>9. CASE k = "read"
    <2>1. Delay' = l + e + (f + 1)
        BY <1>4, <1>5, <1>9 DEF Delay
    <2> QED BY <1>6, <1>9, <2>1
<1>10. CASE k \notin {"late", "echo", "read"}
    <2>1. Delay' = l + e + f
        BY <1>4, <1>5, <1>10 DEF Delay
    <2> QED BY <1>6, <1>10, <2>1
<1> QED BY <1>7, <1>8, <1>9, <1>10

(* A read takes all there is when the buffer holds it. *)
LEMMA ReadAll ==
    ASSUME Types, Len(rx) <= ReadSize
    PROVE  /\ SubSeq(rx, 1, Readable) = rx
           /\ SubSeq(rx, Readable + 1, Len(rx)) = <<>>
<1>1. rx \in Seq(Byte) /\ Len(rx) \in Nat /\ Len(rx) <= ReadSize /\ ReadSize \in Nat
    BY LinkAssumption DEF Types
<1>2. Readable = Len(rx)
    <2> DEFINE n == Len(rx)
    <2>1. n \in Nat /\ n <= ReadSize /\ ReadSize \in Nat
        BY <1>1
    <2> HIDE DEF n
    <2>2. Min({n, ReadSize}) = n
        BY <2>1 DEF Min
    <2> QED BY <2>2 DEF Readable, n
<1> QED BY <1>1, <1>2

(* What a read gives: a newer reading or none. *)
LEMMA ReadGives ==
    ASSUME Types, Quiet, Pairing, Receive
    PROVE  /\ rx' = <<>>
           /\ \/ Junk(rx) /\ taken' = taken /\ mocks' = mocks + 1
              \/ \E m \in DOMAIN answers : rx = Response[m] /\ taken' = m /\ mocks' = mocks
<1>1. rx # <<>> /\ Sampled(modbus_parse_response(rx, Quantity)) /\ rx' = <<>>
    BY ReadAll DEF Receive, Quiet
<1>2. Junk(rx) \/ \E m \in DOMAIN answers : rx = Response[m]
    BY <1>1 DEF Pairing, PairingOf, Received
<1>3. CASE Junk(rx)
    <2>1. Sampled(Refused)
        BY <1>1, <1>3, JunkRefused
    <2> QED BY <1>1, <1>3, <2>1, RefusedIsNoReading DEF Sampled
<1>4. CASE \E m \in DOMAIN answers : rx = Response[m]
    <2>1. PICK m \in DOMAIN answers : rx = Response[m]
        BY <1>4
    <2>2. m \in 1 .. 2 * MaxRounds
        BY ExchangeNow
    <2> DEFINE result == modbus_parse_response(Response[m], Quantity)
    <2>3. result.count = Quantity /\ Num[result.values[1]] = m
        BY <2>2, ReadingIs
    <2>4. Sampled(result)
        BY <1>1, <2>1
    <2> HIDE DEF result
    <2>5. taken' = m /\ mocks' = mocks
        BY <2>3, <2>4 DEF Sampled
    <2> QED BY <1>1, <2>1, <2>5
<1> QED BY <1>2, <1>3, <1>4

LEMMA InitPairing == Init => Pairing
<1> SUFFICES ASSUME Init PROVE Pairing
    OBVIOUS
<1>1. Types
    BY InitTypes
<1>2. /\ rx = <<>> /\ line = <<>> /\ requests = <<>> /\ taken = 0 /\ answers = <<>>
    BY DEF Init
<1>3. taken \in Nat /\ taken <= Len(answers)
    BY <1>2
<1> QED BY <1>1, <1>2, <1>3, ExchangeNow, EmptyPairing DEF Pairing

(* A round ends, or the thread stops: the responses on the line wait. *)
LEMMA ThreadPairing ==
    ASSUME Types, Types', Quiet, Pairing,
           Collect \/ AskFails \/ ReadFails \/ Interrupt \/ SetShutdown \/ Restart
    PROVE  Pairing'
<1>1. /\ Exchange(rx, line, requests, answers, round, Slack, Delay)
      /\ DOMAIN answers \subseteq 1 .. 2 * MaxRounds
      /\ Slack \in {0, 1} /\ Delay \in Nat /\ Busy(rx) \in {0, 1}
    BY ExchangeNow DEF Busy
<1>2. Slack' \in {0, 1}
    BY DEF Slack
<1>3. Delay' \in Nat
    <2>1. (Types => Delay \in Nat)'
        BY ExchangeNow, PTL
    <2> QED BY <2>1
<1>4. PairingOf(rx, line, requests, answers, round, taken, Slack, Delay)
    BY DEF Pairing
<1>5. /\ taken \in Nat /\ taken <= Len(answers)
      /\ \A j \in DOMAIN line, m \in DOMAIN answers : line[j] = Response[m] => taken < m
    BY <1>4 DEF PairingOf, Ordered
<1>levels. PICK b \in Nat, s \in Nat, s2 \in Nat, d \in Nat, d2 \in Nat :
         b = Busy(rx) /\ s = Slack /\ s2 = Slack' /\ d = Delay /\ d2 = Delay'
    <2>1. Busy(rx) \in Nat /\ Slack \in Nat /\ Slack' \in Nat
        BY DEF Busy, Slack
    <2> QED BY <1>1, <1>3, <2>1
<1>6. ASSUME UNCHANGED <<rx, line, requests, answers, round, taken>>, s2 + d <= s + d2
      PROVE  Pairing'
    <2>1. b + s2 + d <= b + s + d2
        BY <1>6
    <2>2. PairingOf(rx, line, requests, answers, round, taken, Slack', Delay')
        BY ZenonT(30), <1>1, <1>2, <1>3, <1>4, <1>5, <1>levels, <2>1, RoundPairing
    <2> QED BY <1>6, <2>2 DEF Pairing
<1>7. ASSUME rx' = <<>>, UNCHANGED <<line, requests, answers, round>>,
             s2 + d <= b + s + d2, taken' \in Nat, taken' <= Len(answers),
             \A j \in DOMAIN line, m \in DOMAIN answers : line[j] = Response[m] => taken' < m
      PROVE  Pairing'
    <2>1. Busy(<<>>) = 0 /\ 0 + s2 + d <= b + s + d2
        BY <1>7 DEF Busy
    <2>2. Busy(<<>>) + Slack' + Delay <= Busy(rx) + Slack + Delay'
        BY <1>levels, <2>1
    <2>3. PairingOf(<<>>, line, requests, answers, round, taken', Slack', Delay')
        BY <1>1, <1>2, <1>3, <1>4, <1>7, <2>2, RoundPairing
    <2> QED BY <1>7, <2>3 DEF Pairing
<1>8. ASSUME rx' = <<>>, line = <<>>, requests = <<>>,
             UNCHANGED <<line, requests, answers, taken>>
      PROVE  Pairing'
    <2>1. PairingOf(<<>>, <<>>, <<>>, answers, round', taken, Slack', Delay')
        BY <1>1, <1>2, <1>3, <1>5, EmptyPairing
    <2> QED BY <1>8, <2>1 DEF Pairing
<1>9. ASSUME MockRound PROVE Pairing'
    <2>1. UNCHANGED <<Slack, Delay>>
        BY <1>9 DEF MockRound, vars, Slack, Delay
    <2>2. s2 + d <= s + d2
        BY <1>levels, <2>1
    <2> QED BY <1>6, <1>9, <2>2 DEF MockRound, vars
<1>10. ASSUME Ask PROVE Pairing'
    <2>1. Slack = 1 /\ Slack' = 0 /\ Delay' = Delay
        BY <1>10 DEF Ask, Slack, Delay
    <2>2. PairingOf(rx, line, Append(requests, round + 1), answers, round + 1, taken, 0, Delay)
        BY <1>1, <1>4, <2>1, AskPairing
    <2> QED BY <1>10, <2>1, <2>2 DEF Ask, Pairing
<1>11. ASSUME AskFails PROVE Pairing'
    <2>1. Slack' = Slack
        BY <1>11 DEF AskFails, Sampled, Slack
    <2>2. Delay' = Delay
        BY <1>11, FaultKinds, DelayAfter DEF AskFails
    <2>3. UNCHANGED <<rx, line, requests, answers, round, taken>>
        BY <1>11, RefusedIsNoReading DEF AskFails, Sampled, slave
    <2>4. s2 + d <= s + d2
        BY <1>levels, <2>1, <2>2
    <2> QED BY <1>6, <2>3, <2>4
<1>12. ASSUME Receive PROVE Pairing'
    <2>1. Slack = 0 /\ Busy(rx) = 1 /\ Delay' = Delay
        BY <1>12 DEF Receive, Slack, Busy, Delay
    <2>2. s2 + d <= b + s + d2
        <3>1. s = 0 /\ b = 1 /\ d2 = d /\ (s2 = 0 \/ s2 = 1)
            BY <1>2, <1>levels, <2>1
        <3> QED BY <3>1
    <2>3. rx' = <<>> /\ UNCHANGED <<line, requests, answers, round>>
        BY <1>12, ReadGives DEF Receive, slave
    <2>4. CASE taken' = taken
        BY <1>5, <1>7, <2>2, <2>3, <2>4
    <2>5. CASE \E m \in DOMAIN answers : rx = Response[m] /\ taken' = m
        <3>1. PICK m \in DOMAIN answers : rx = Response[m] /\ taken' = m
            BY <2>5
        <3>2. m \in Nat /\ m <= Len(answers)
            BY <1>1, ExchangeDomains
        <3>3. \A j \in DOMAIN line, n \in DOMAIN answers : line[j] = Response[n] => m < n
            BY <1>4, <3>1 DEF PairingOf, Ordered
        <3> QED BY <1>7, <2>2, <2>3, <3>1, <3>2, <3>3
    <2> QED BY <1>12, <2>4, <2>5, ReadGives
<1>13. ASSUME TimeOut PROVE Pairing'
    <2>1. Slack = 0 /\ rx = <<>> /\ rx' = <<>>
        BY <1>13 DEF TimeOut, Slack
    <2>2. UNCHANGED <<line, requests, answers, round, taken>>
        BY <1>13, RefusedIsNoReading DEF TimeOut, Sampled, slave
    <2>3. CASE InFlight
        <3>1. Delay' = Delay + 1
            BY <1>13, <2>3, FaultKinds, DelayAfter DEF TimeOut
        <3>2. s2 + d <= s + d2
            <4>1. s = 0 /\ d2 = d + 1 /\ (s2 = 0 \/ s2 = 1)
                BY <1>2, <1>levels, <2>1, <3>1
            <4> QED BY <4>1
        <3> QED BY <1>6, <2>1, <2>2, <3>2
    <2>4. CASE ~InFlight
        BY <1>8, <2>1, <2>2, <2>4 DEF InFlight
    <2> QED BY <2>3, <2>4
<1>14. ASSUME Interrupt PROVE Pairing'
    <2>1. Slack = 0 /\ Slack' = 0
        BY <1>14 DEF Interrupt, Slack
    <2>2. Delay' = Delay
        BY <1>14, FaultKinds, DelayAfter DEF Interrupt
    <2>3. UNCHANGED <<rx, line, requests, answers, round, taken>>
        BY <1>14, RefusedIsNoReading DEF Interrupt, Sampled, slave
    <2>4. s2 + d <= s + d2
        BY <1>levels, <2>1, <2>2
    <2> QED BY <1>6, <2>3, <2>4
<1>15. ASSUME SetShutdown PROVE Pairing'
    <2>1. Slack' = 0 /\ Delay' = Delay
        BY <1>15 DEF SetShutdown, Slack, Delay
    <2>2. UNCHANGED <<rx, line, requests, answers, round, taken>>
        BY <1>15 DEF SetShutdown, slave
    <2>3. s2 + d <= s + d2
        <3>1. s2 = 0 /\ d2 = d
            BY <1>levels, <2>1
        <3> QED BY <3>1
    <2> QED BY <1>6, <2>2, <2>3
<1>16. ASSUME Stop PROVE Pairing'
    <2>1. Slack = 0 /\ Slack' = 0 /\ Delay' = Delay
        BY <1>16 DEF Stop, Slack, Delay
    <2>2. UNCHANGED <<rx, line, requests, answers, round, taken>>
        BY <1>16 DEF Stop, slave
    <2>3. s2 + d <= s + d2
        BY <1>levels, <2>1
    <2> QED BY <1>6, <2>2, <2>3
<1>17. ASSUME Restart PROVE Pairing'
    <2>1. rx' = <<>> /\ UNCHANGED <<line, requests, answers, round, taken>>
        BY <1>17 DEF Restart, Open, slave
    <2>2. CASE InFlight
        <3>1. Delay' = Delay + 1
            BY <1>17, <2>2, FaultKinds, DelayAfter DEF Restart
        <3>2. s2 + d <= b + s + d2
            <4>1. d2 = d + 1 /\ (s2 = 0 \/ s2 = 1)
                BY <1>2, <1>levels, <3>1
            <4> QED BY <4>1
        <3> QED BY <1>5, <1>7, <2>1, <3>2
    <2>3. CASE ~InFlight
        BY <1>8, <2>1, <2>3 DEF InFlight
    <2> QED BY <2>2, <2>3
<1>18. ASSUME ReadFails PROVE Pairing'
    <2>1. Slack = 0 /\ Delay' = Delay + 1
        BY <1>18, FaultKinds, DelayAfter DEF ReadFails, Slack
    <2>2. UNCHANGED <<rx, line, requests, answers, round, taken>>
        BY <1>18, RefusedIsNoReading DEF ReadFails, Sampled, slave
    <2>3. s2 + d <= s + d2
        <3>1. s = 0 /\ d2 = d + 1 /\ (s2 = 0 \/ s2 = 1)
            BY <1>2, <1>levels, <2>1
        <3> QED BY <3>1
    <2> QED BY <1>6, <2>2, <2>3
<1> QED BY <1>9, <1>10, <1>11, <1>12, <1>13, <1>14, <1>15, <1>16, <1>17, <1>18 DEF Collect

LEMMA AnswerServes ==
    ASSUME Types, NEW k \in {0, 1, 2}, Answer(k)
    PROVE  /\ requests' = Tail(requests)
           /\ Serving(line, requests, answers, round, k, line', answers')
           /\ \A i \in 1 .. k : /\ Len(answers) + i \in 1 .. 2 * MaxRounds
                                /\ line'[Len(line) + i] = Response[Len(answers) + i]
<1> DEFINE served == [i \in 1 .. k |-> Head(requests)]
           sent == [i \in 1 .. k |-> Response[Len(answers) + i]]
<1>1. /\ requests # <<>> /\ requests' = Tail(requests)
      /\ answers' = answers \o served /\ line' = line \o sent
      /\ k \in Nat
    BY DEF Answer
<1>2. /\ line' \in Seq(Seq(Byte)) /\ answers' \in Seq(1 .. round)
      /\ Len(answers') + 2 * Len(requests') <= 2 * round
    BY AnswerTypes
<1>3. /\ Len(answers) \in Nat /\ Len(answers') \in Nat /\ Len(line) \in Nat
      /\ Len(requests') \in Nat /\ round \in Nat /\ round <= MaxRounds /\ MaxRounds \in Nat
      /\ line \in Seq(Seq(Byte)) /\ answers \in Seq(1 .. round)
    <2>1. Tail(requests) \in Seq(1 .. round)
        BY <1>1, TailIs DEF Types
    <2> QED BY SMTT(30), <1>1, <1>2, <2>1, LinkAssumption DEF Types
<1>4. /\ DOMAIN answers = 1 .. Len(answers) /\ DOMAIN line = 1 .. Len(line)
      /\ DOMAIN answers' = 1 .. Len(answers')
    BY <1>2, <1>3
<1>5. Len(answers') <= 2 * MaxRounds
    BY <1>2, <1>3
<1>6. served \in Seq(1 .. round) /\ Len(served) = k /\ \A i \in 1 .. k : served[i] = Head(requests)
    <2>1. Head(requests) \in 1 .. round
        BY <1>1, TailIs DEF Types
    <2> QED BY <1>1, <2>1
<1>7. /\ sent \in Seq(Seq(Byte)) /\ Len(sent) = k
      /\ \A i \in 1 .. k : sent[i] = Response[Len(answers) + i]
    <2>1. Len(answers \o served) = Len(answers) + k
        BY <1>3, <1>6, ConcatProperties
    <2>2. \A i \in 1 .. k : Len(answers) + i \in 1 .. 2 * MaxRounds
        BY <1>1, <1>3, <1>5, <2>1
    <2>3. \A i \in 1 .. k : sent[i] \in Seq(Byte)
        BY <2>2, ResponseType
    <2> QED BY <1>1, <2>3
<1> HIDE DEF served, sent
<1>8. /\ Len(answers') = Len(answers) + k
      /\ \A m \in DOMAIN answers : answers'[m] = answers[m]
      /\ \A i \in 1 .. k : answers'[Len(answers) + i] = Head(requests)
    <2>1. /\ Len(answers \o served) = Len(answers) + Len(served)
          /\ \A i \in 1 .. Len(answers) + Len(served) : (answers \o served)[i] =
                 IF i <= Len(answers) THEN answers[i] ELSE served[i - Len(answers)]
        BY <1>3, <1>6, ConcatProperties
    <2>2. ASSUME NEW m \in DOMAIN answers PROVE answers'[m] = answers[m]
        <3>1. m \in 1 .. Len(answers) /\ Len(answers) \in Nat /\ Len(served) \in Nat
            BY <1>1, <1>3, <1>4, <1>6
        <3>2. m \in 1 .. Len(answers) + Len(served) /\ m <= Len(answers)
            BY <3>1
        <3> QED BY <1>1, <2>1, <3>2
    <2>3. ASSUME NEW i \in 1 .. k PROVE answers'[Len(answers) + i] = Head(requests)
        <3>1. /\ Len(answers) + i \in 1 .. Len(answers) + Len(served)
              /\ ~(Len(answers) + i <= Len(answers))
              /\ Len(answers) + i - Len(answers) = i
            BY <1>1, <1>3, <1>6
        <3> QED BY <1>1, <1>6, <2>1, <3>1
    <2> QED BY <1>1, <1>6, <2>1, <2>2, <2>3
<1>9. /\ Len(line') = Len(line) + k
      /\ \A j \in DOMAIN line : line'[j] = line[j]
      /\ \A i \in 1 .. k : line'[Len(line) + i] = Response[Len(answers) + i]
    <2>1. /\ Len(line \o sent) = Len(line) + Len(sent)
          /\ \A i \in 1 .. Len(line) + Len(sent) : (line \o sent)[i] =
                 IF i <= Len(line) THEN line[i] ELSE sent[i - Len(line)]
        BY <1>3, <1>7, ConcatProperties
    <2>2. ASSUME NEW j \in DOMAIN line PROVE line'[j] = line[j]
        <3>1. j \in 1 .. Len(line) /\ Len(line) \in Nat /\ Len(sent) \in Nat
            BY <1>1, <1>3, <1>4, <1>7
        <3>2. j \in 1 .. Len(line) + Len(sent) /\ j <= Len(line)
            BY <3>1
        <3> QED BY <1>1, <2>1, <3>2
    <2>3. ASSUME NEW i \in 1 .. k PROVE line'[Len(line) + i] = Response[Len(answers) + i]
        <3>1. /\ Len(line) + i \in 1 .. Len(line) + Len(sent)
              /\ ~(Len(line) + i <= Len(line))
              /\ Len(line) + i - Len(line) = i
            BY <1>1, <1>3, <1>7
        <3> QED BY <1>1, <1>7, <2>1, <3>1
    <2> QED BY <1>1, <1>7, <2>1, <2>2, <2>3
<1>10. \A i \in 1 .. k : Len(answers) + i \in DOMAIN answers'
    BY <1>1, <1>3, <1>4, <1>8
<1>11. Len(answers) <= Len(answers')
    BY <1>1, <1>3, <1>8
<1>12. \A i \in 1 .. k : Len(answers) + i \in 1 .. 2 * MaxRounds
    BY <1>1, <1>3, <1>5, <1>8
<1>13. Serving(line, requests, answers, round, k, line', answers')
    <2> DEFINE line2 == line'
               ans2 == answers'
    <2>1. /\ line2 \in Seq(Seq(Byte)) /\ ans2 \in Seq(1 .. round)
          /\ Len(line2) = Len(line) + k
          /\ \A j \in DOMAIN line : line2[j] = line[j]
          /\ Len(answers) <= Len(ans2) /\ Len(ans2) <= 2 * MaxRounds
          /\ \A m \in DOMAIN answers : ans2[m] = answers[m]
        BY <1>2, <1>5, <1>8, <1>9, <1>11
    <2>2. \A i \in 1 .. k :
             \/ line2[Len(line) + i] = ExceptionResponse(2)
             \/ /\ Len(answers) + i \in DOMAIN ans2
                /\ ans2[Len(answers) + i] = Head(requests)
                /\ line2[Len(line) + i] = Response[Len(answers) + i]
        BY <1>8, <1>9, <1>10
    <2>3. requests # <<>>
        BY <1>1
    <2> HIDE DEF line2, ans2
    <2>4. Serving(line, requests, answers, round, k, line2, ans2)
        BY <2>1, <2>2, <2>3 DEF Serving
    <2> QED BY <2>4 DEF line2, ans2
<1> QED BY <1>1, <1>9, <1>12, <1>13

(* What the slave sends is newer than all before it. *)
LEMMA AnswerPairing ==
    ASSUME Types, Pairing, NEW k \in {0, 1, 2}, Answer(k), UNCHANGED <<thread, rx, round>>,
           NEW delay2 \in Nat, Delay' = delay2, Delay <= delay2, k + Delay <= 1 + delay2
    PROVE  Pairing'
<1>1. /\ Exchange(rx, line, requests, answers, round, Slack, Delay)
      /\ PairingOf(rx, line, requests, answers, round, taken, Slack, Delay)
    BY ExchangeNow DEF Pairing
<1>2. k \in Nat /\ requests' = Tail(requests)
    BY AnswerServes
<1>3. Serving(line, requests, answers, round, k, line', answers')
    BY AnswerServes
<1>4. PairingOf(rx, line', Tail(requests), answers', round, taken, Slack, delay2)
    BY <1>1, <1>2, <1>3, ServePairing
<1>5. Slack' = Slack
    BY DEF thread, Slack
<1> QED BY <1>2, <1>4, <1>5 DEF thread, Pairing

LEMMA SlavePairing ==
    ASSUME Types, Types', Pairing, Slave \/ ServeTwice \/ ServeNothing \/ ServeException
    PROVE  Pairing'
<1>1. /\ Exchange(rx, line, requests, answers, round, Slack, Delay)
      /\ PairingOf(rx, line, requests, answers, round, taken, Slack, Delay)
      /\ Delay \in Nat
    BY ExchangeNow DEF Pairing
<1>2. ASSUME UNCHANGED <<thread>> PROVE Slack' = Slack /\ taken' = taken
    BY <1>2 DEF thread, Slack
<1>3. PICK d \in Nat : d = Delay
    BY <1>1
<1>4. 0 + d <= 1 + d /\ 1 + d <= 1 + d /\ 2 + d <= 1 + (d + 1) /\ d <= d /\ d <= d + 1
      /\ d + 1 \in Nat
    OBVIOUS
<1>5. ASSUME Serve PROVE Pairing'
    <2>1. Delay' = d /\ Answer(1) /\ UNCHANGED <<thread, rx, round>>
        BY <1>3, <1>5 DEF Serve, Delay
    <2>2. 1 \in {0, 1, 2}
        OBVIOUS
    <2> QED BY <1>3, <1>4, <2>1, <2>2, AnswerPairing
<1>6. ASSUME ServeTwice PROVE Pairing'
    <2>1. Delay' = Delay + 1
        BY <1>6, FaultKinds, DelayAfter DEF ServeTwice
    <2>2. Delay' = d + 1 /\ Answer(2) /\ UNCHANGED <<thread, rx, round>>
        BY <1>3, <1>6, <2>1 DEF ServeTwice
    <2>3. 2 \in {0, 1, 2}
        OBVIOUS
    <2> QED BY <1>3, <1>4, <2>2, <2>3, AnswerPairing
<1>7. ASSUME ServeNothing PROVE Pairing'
    <2>1. Delay' = Delay
        BY <1>7, FaultKinds, DelayAfter DEF ServeNothing
    <2>2. Delay' = d /\ Answer(0) /\ UNCHANGED <<thread, rx, round>>
        BY <1>3, <1>7, <2>1 DEF ServeNothing
    <2>3. 0 \in {0, 1, 2}
        OBVIOUS
    <2> QED BY <1>3, <1>4, <2>2, <2>3, AnswerPairing
<1>8. ASSUME ServeException PROVE Pairing'
    <2>1. Delay' = Delay
        BY <1>8, FaultKinds, DelayAfter DEF ServeException
    <2> DEFINE line2 == Append(line, ExceptionResponse(2))
    <2>2. line \in Seq(Seq(Byte)) /\ Len(line) \in Nat /\ requests # <<>>
        BY <1>8 DEF ServeException, Types
    <2>3. /\ line2 \in Seq(Seq(Byte)) /\ Len(line2) = Len(line) + 1
          /\ \A j \in DOMAIN line : line2[j] = line[j]
          /\ line2[Len(line) + 1] = ExceptionResponse(2)
        BY <2>2, ExceptionType, AppendProperties
    <2> HIDE DEF line2
    <2>4. /\ answers \in Seq(1 .. round) /\ Len(answers) <= Len(answers)
          /\ Len(answers) <= 2 * MaxRounds
        <3>1. answers \in Seq(1 .. round) /\ Len(answers) \in Nat
            BY DEF Types
        <3> QED BY <1>1, <3>1 DEF Exchange
    <2>5. /\ 1 \in Nat /\ \A i \in 1 .. 1 : line2[Len(line) + i] = ExceptionResponse(2)
        BY <2>3
    <2>6. Delay <= Delay /\ 1 + Delay <= 1 + Delay
        BY <1>3, <1>4
    <2>7. Serving(line, requests, answers, round, 1, line2, answers)
        BY <2>2, <2>3, <2>4, <2>5 DEF Serving
    <2>8. PairingOf(rx, line2, Tail(requests), answers, round, taken, Slack, Delay)
        BY <1>1, <2>5, <2>6, <2>7, ServePairing
    <2> QED BY <1>2, <1>8, <2>1, <2>8 DEF ServeException, Pairing, line2
<1>9. ASSUME Deliver PROVE Pairing'
    <2>1. PairingOf(rx \o Head(line), Tail(line), requests, answers, round, taken, Slack, Delay)
        BY <1>1, <1>9, DeliverPairing DEF Deliver
    <2>2. Delay' = Delay
        BY <1>9 DEF Deliver, Delay
    <2> QED BY <1>2, <1>9, <2>1, <2>2 DEF Deliver, slave, Pairing
<1> QED BY <1>5, <1>6, <1>7, <1>8, <1>9 DEF Slave

LEMMA NoNoise ==
    ASSUME Types, Quiet, Quiet', NEW i \in Positions
    PROVE  ~Split(i) /\ ~Damage(i)
<1>1. faults \in [Faults -> Nat] /\ "split" \in Faults /\ "damage" \in Faults
    BY FaultKinds DEF Types
<1>2. faults["split"] = 0 /\ faults["damage"] = 0 /\ faults'["split"] = 0 /\ faults'["damage"] = 0
    BY DEF Quiet
<1>3. \A k \in {"split", "damage"} : Fault(k) => faults'[k] = faults[k] + 1
    BY <1>1, FaultIs
<1> QED BY <1>2, <1>3 DEF Split, Damage

LEMMA PairingStep == Types /\ Types' /\ Quiet /\ Quiet' /\ Pairing /\ [Next]_vars => Pairing'
<1> SUFFICES ASSUME Types, Types', Quiet, Quiet', Pairing, [Next]_vars PROVE Pairing'
    OBVIOUS
<1>1. CASE UNCHANGED vars
    BY <1>1 DEF vars, Pairing, Slack, Delay
<1>2. CASE Done
    BY <1>1, <1>2 DEF Done
<1> QED BY <1>1, <1>2, ThreadPairing, SlavePairing, NoNoise DEF Next

LEMMA PairingInvariance == Spec /\ []Quiet => []Pairing
<1> QED BY InitPairing, PairingStep, TypesInvariance, PTL DEF Spec

-----------------------------------------------------------------------------
(* Readings on a line with noise.  Chunks are not cut and one read() takes *)
(* all there is; a frame is hit once; and bytes join to a frame that has   *)
(* kept its length byte, or that is no response any more.                  *)

Uncut == faults.split = 0 /\ Len(rx) <= ReadSize
Unhit(c) == c = ExceptionResponse(2) \/ \E m \in DOMAIN answers : c = Response[m]
HitOnce == \A i \in Positions : Damage(i) => Unhit(Head(line))
LengthKept ==
    Deliver => \/ rx = <<>>
               \/ rx[2] # FuncReadHolding
               \/ Num[rx[3]] = 2 * Quantity

FramesOf(buf, chunks, ans, read) ==
    /\ read \in 0 .. Len(ans)
    /\ buf = <<>> \/ Frame(buf, ans) \/ Rubbish(buf)
    /\ \A j \in DOMAIN chunks : Frame(chunks[j], ans)
Frames == FramesOf(rx, line, answers, taken)

LEMMA ReadingsKept ==
    ASSUME Types, Uncut, Frames, Receive
    PROVE  Frames'
<1>1. rx # <<>> /\ Sampled(modbus_parse_response(rx, Quantity)) /\ rx' = <<>>
    BY ReadAll DEF Receive, Uncut
<1>2. line' = line /\ answers' = answers
    BY DEF Receive, slave
<1>3. taken' \in 0 .. Len(answers)
    <2>1. CASE Spoilt(rx) \/ Rubbish(rx)
        <3>1. Sampled(Refused)
            BY <1>1, <2>1, RubbishRefused
        <3>2. taken' = taken
            BY <3>1, RefusedIsNoReading DEF Sampled
        <3> QED BY <3>2 DEF Frames, FramesOf
    <2>2. ASSUME NEW m \in DOMAIN answers, rx = Response[m]
          PROVE  taken' \in 0 .. Len(answers)
        <3>1. m \in 1 .. 2 * MaxRounds
            BY ExchangeNow
        <3> DEFINE result == modbus_parse_response(Response[m], Quantity)
        <3>2. result.count = Quantity /\ Num[result.values[1]] = m
            BY <3>1, ReadingIs
        <3>3. Sampled(result)
            BY <1>1, <2>2
        <3> HIDE DEF result
        <3>4. taken' = m
            BY <3>2, <3>3 DEF Sampled
        <3>5. m \in 1 .. Len(answers) /\ Len(answers) \in Nat
            BY LinkAssumption DEF Types
        <3> QED BY <3>4, <3>5
    <2> QED BY <1>1, <2>1, <2>2 DEF Frames, FramesOf, Frame
<1> QED BY <1>1, <1>2, <1>3 DEF Frames, FramesOf

LEMMA ThreadFrames ==
    ASSUME Types, Uncut, Frames,
           Collect \/ AskFails \/ ReadFails \/ Interrupt \/ SetShutdown \/ Restart
    PROVE  Frames'
<1>1. ASSUME UNCHANGED <<rx, line, answers, taken>> PROVE Frames'
    BY <1>1 DEF Frames, FramesOf
<1>2. Sampled(Refused) => taken' = taken
    BY RefusedIsNoReading DEF Sampled
<1>3. CASE MockRound \/ Ask \/ Stop \/ SetShutdown
    BY <1>1, <1>3 DEF MockRound, Ask, Stop, SetShutdown, slave, vars
<1>4. CASE TimeOut \/ AskFails \/ ReadFails \/ Interrupt
    BY <1>1, <1>2, <1>4 DEF TimeOut, AskFails, ReadFails, Interrupt, slave
<1>5. CASE Restart
    BY <1>5 DEF Restart, Open, slave, Frames, FramesOf
<1> QED BY <1>3, <1>4, <1>5, ReadingsKept DEF Collect

LEMMA AnswerFrames ==
    ASSUME Types, Frames, NEW k \in {0, 1, 2}, Answer(k), UNCHANGED <<thread, rx>>
    PROVE  Frames'
<1>1. /\ Serving(line, requests, answers, round, k, line', answers')
      /\ \A i \in 1 .. k : line'[Len(line) + i] = Response[Len(answers) + i]
    BY AnswerServes
<1>2. /\ k \in Nat /\ Len(line) \in Nat /\ DOMAIN line = 1 .. Len(line)
      /\ Len(answers) \in Nat /\ DOMAIN answers = 1 .. Len(answers)
    BY LinkAssumption DEF Types
<1>3. /\ DOMAIN line' = 1 .. Len(line) + k
      /\ \A j \in DOMAIN line : line'[j] = line[j]
      /\ Len(answers) <= Len(answers') /\ Len(answers') \in Nat
      /\ DOMAIN answers' = 1 .. Len(answers')
    BY <1>1 DEF Serving
<1>4. DOMAIN answers \subseteq DOMAIN answers'
    BY <1>2, <1>3
<1>5. \A c : Frame(c, answers) => Frame(c, answers')
    BY <1>4 DEF Frame
<1>6. \A j \in DOMAIN line' : Frame(line'[j], answers')
    <2> SUFFICES ASSUME NEW j \in DOMAIN line' PROVE Frame(line'[j], answers')
        OBVIOUS
    <2>1. CASE j \in DOMAIN line
        BY <1>3, <1>5, <2>1 DEF Frames, FramesOf
    <2>2. CASE j \notin DOMAIN line
        <3> DEFINE i == j - Len(line)
        <3>1. i \in 1 .. k /\ j = Len(line) + i
            BY <1>2, <1>3, <2>2
        <3> HIDE DEF i
        <3>2. \/ line'[j] = ExceptionResponse(2)
              \/ Len(answers) + i \in DOMAIN answers' /\ line'[j] = Response[Len(answers) + i]
            BY <1>1, <3>1 DEF Serving
        <3> QED BY <3>2, ExceptionIsSpoilt DEF Frame
    <2> QED BY <2>1, <2>2
<1>7. taken' = taken /\ rx' = rx
    BY DEF thread
<1>8. taken \in 0 .. Len(answers')
    BY <1>2, <1>3 DEF Frames, FramesOf
<1> QED BY <1>5, <1>6, <1>7, <1>8 DEF Frames, FramesOf

LEMMA SlaveFrames ==
    ASSUME Types, Frames, LengthKept,
           Slave \/ ServeTwice \/ ServeNothing \/ ServeException
    PROVE  Frames'
<1>1. CASE Serve
    BY <1>1, AnswerFrames DEF Serve
<1>2. CASE ServeTwice
    BY <1>2, AnswerFrames DEF ServeTwice
<1>3. CASE ServeNothing
    BY <1>3, AnswerFrames DEF ServeNothing
<1>4. CASE ServeException
    <2>1. line \in Seq(Seq(Byte)) /\ line' = Append(line, ExceptionResponse(2))
        BY <1>4 DEF ServeException, Types
    <2>2. \A j \in DOMAIN line' : \/ j \in DOMAIN line /\ line'[j] = line[j]
                                  \/ line'[j] = ExceptionResponse(2)
        BY <2>1, ExceptionType, AppendProperties
    <2>3. \A j \in DOMAIN line' : Frame(line'[j], answers)
        BY <2>2, ExceptionIsSpoilt DEF Frames, FramesOf, Frame
    <2> QED BY <1>4, <2>3 DEF ServeException, thread, Frames, FramesOf
<1>5. CASE Deliver
    <2>1. /\ line \in Seq(Seq(Byte)) /\ line # <<>> /\ rx \in Seq(Byte)
          /\ rx' = rx \o Head(line) /\ line' = Tail(line)
          /\ answers' = answers /\ taken' = taken
        BY <1>5 DEF Deliver, thread, slave, Types
    <2>2. /\ Head(line) = line[1] /\ 1 \in DOMAIN line
          /\ \A j \in DOMAIN Tail(line) : j + 1 \in DOMAIN line /\ Tail(line)[j] = line[j + 1]
        BY <2>1, TailIs
    <2>3. Frame(Head(line), answers) /\ \A j \in DOMAIN line' : Frame(line'[j], answers)
        BY <2>1, <2>2 DEF Frames, FramesOf
    <2>4. DOMAIN answers \subseteq 1 .. 2 * MaxRounds
        BY ExchangeNow
    <2>5. Frame(rx', answers) \/ Rubbish(rx')
        <3>1. CASE rx = <<>>
            <4>1. Head(line) \in Seq(Byte)
                BY <2>3, <2>4, FrameIs
            <4> QED BY <2>1, <2>3, <3>1, <4>1, ConcatEmptySeq
        <3>2. CASE rx # <<>>
            <4>1. Frame(rx, answers) \/ Rubbish(rx)
                BY <3>2 DEF Frames, FramesOf
            <4>2. rx[2] # FuncReadHolding \/ Num[rx[3]] = 2 * Quantity
                BY <1>5, <3>2 DEF LengthKept
            <4> QED BY <2>1, <2>3, <2>4, <4>1, <4>2, JoinedIsRubbish
        <3> QED BY <3>1, <3>2
    <2> QED BY <2>1, <2>3, <2>5 DEF Frames, FramesOf
<1> QED BY <1>1, <1>2, <1>3, <1>4, <1>5 DEF Slave

LEMMA NoiseFrames ==
    ASSUME Types, Frames, HitOnce, NEW i \in Positions, Damage(i)
    PROVE  Frames'
<1>1. PICK c \in Damaged(Head(line), i) : line' = <<c>> \o Tail(line)
    BY DEF Damage
<1>2. i \in DOMAIN Head(line) /\ Unhit(Head(line)) /\ line # <<>> /\ line \in Seq(Seq(Byte))
    BY DEF Damage, HitOnce, Types
<1>3. Spoilt(c)
    <2>1. DOMAIN answers \subseteq 1 .. 2 * MaxRounds
        BY ExchangeNow
    <2>2. CASE Head(line) = ExceptionResponse(2)
        BY <1>2, <2>2, DamagedException
    <2>3. ASSUME NEW m \in DOMAIN answers, Head(line) = Response[m]
          PROVE  Spoilt(c)
        BY <1>2, <2>1, <2>3, DamagedResponse
    <2> QED BY <1>2, <2>2, <2>3 DEF Unhit
<1>4. /\ Tail(line) \in Seq(Seq(Byte)) /\ c \in Seq(Byte)
      /\ \A j \in DOMAIN Tail(line) : j + 1 \in DOMAIN line /\ Tail(line)[j] = line[j + 1]
    BY <1>2, <1>3, TailIs DEF Spoilt
<1>5. \A j \in DOMAIN line' : line'[j] = c \/ \E k \in DOMAIN line : line'[j] = line[k]
    <2> DEFINE rest == Tail(line)
    <2>1. <<c>> \in Seq(Seq(Byte)) /\ Len(<<c>>) = 1 /\ <<c>>[1] = c
        BY <1>4
    <2>2. rest \in Seq(Seq(Byte)) /\ Len(rest) \in Nat /\ DOMAIN rest = 1 .. Len(rest)
        BY <1>4
    <2>3. \A j \in DOMAIN rest : \E k \in DOMAIN line : rest[j] = line[k]
        BY <1>4
    <2> HIDE DEF rest
    <2>4. /\ <<c>> \o rest \in Seq(Seq(Byte)) /\ Len(<<c>> \o rest) = 1 + Len(rest)
          /\ \A j \in 1 .. 1 + Len(rest) :
                (<<c>> \o rest)[j] = IF j <= 1 THEN <<c>>[j] ELSE rest[j - 1]
        BY <2>1, <2>2, ConcatProperties
    <2>5. ASSUME NEW j \in 1 .. 1 + Len(rest)
          PROVE  (<<c>> \o rest)[j] = c \/ \E k \in DOMAIN line : (<<c>> \o rest)[j] = line[k]
        <3>1. CASE j = 1
            BY <2>1, <2>4, <3>1
        <3>2. CASE j # 1
            <4>1. ~(j <= 1) /\ j - 1 \in DOMAIN rest
                BY <2>2, <3>2
            <4>2. (<<c>> \o rest)[j] = rest[j - 1]
                BY <2>4, <4>1
            <4> QED BY <2>3, <4>1, <4>2
        <3> QED BY <3>1, <3>2
    <2>6. DOMAIN (<<c>> \o rest) = 1 .. 1 + Len(rest)
        BY <2>4
    <2> QED BY <1>1, <2>5, <2>6 DEF rest
<1>6. \A j \in DOMAIN line' : Frame(line'[j], answers)
    BY <1>3, <1>5 DEF Frames, FramesOf, Frame
<1>7. rx' = rx /\ answers' = answers /\ taken' = taken
    BY DEF Damage, thread, slave
<1> QED BY <1>6, <1>7 DEF Frames, FramesOf

LEMMA FramesStep ==
    Types /\ Uncut /\ Uncut' /\ [HitOnce /\ LengthKept]_vars /\ Frames /\ [Next]_vars => Frames'
<1> SUFFICES ASSUME Types, Uncut, Uncut', [HitOnce /\ LengthKept]_vars, Frames, [Next]_vars
             PROVE  Frames'
    OBVIOUS
<1>1. CASE UNCHANGED vars
    BY <1>1 DEF vars, Frames, FramesOf
<1>2. CASE ~(UNCHANGED vars)
    <2>1. HitOnce /\ LengthKept /\ Next /\ ~Done
        BY <1>2 DEF Done
    <2>2. \A i \in Positions : ~Split(i)
        <3>1. faults \in [Faults -> Nat] /\ "split" \in Faults
            BY FaultKinds DEF Types
        <3>2. faults["split"] = 0 /\ faults'["split"] = 0
            BY DEF Uncut
        <3>3. Fault("split") => faults'["split"] = faults["split"] + 1
            BY <3>1, FaultIs
        <3> QED BY <3>2, <3>3 DEF Split
    <2> QED BY <2>1, <2>2, ThreadFrames, SlaveFrames, NoiseFrames DEF Next
<1> QED BY <1>1, <1>2

(* Every sample that is not a mock is a response the slave sent, although  *)
(* noise flips a bit or eats a byte of responses and of exceptions, answers *)
(* are late, lost or doubled, reads fail, the gateway restarts, and one     *)
(* read() joins what several rounds left: the CRC, the function and the     *)
(* length are checked before a register is taken, and what joins to a       *)
(* damaged frame makes it no better.                                        *)
THEOREM DamagedReadingsRefused ==
    Spec /\ []Uncut /\ [][HitOnce /\ LengthKept]_vars => []DamageRefused
<1>1. Init => Frames
    BY DEF Init, Frames, FramesOf
<1>2. Frames => DamageRefused
    BY DEF Frames, FramesOf, DamageRefused
<1> QED BY <1>1, <1>2, FramesStep, TypesInvariance, PTL DEF Spec

-----------------------------------------------------------------------------
(* The step that ends a round with a reading. *)
LEMMA AcceptedReading ==
    ASSUME Types, Quiet, Quiet', Pairing, Next, Accepts
    PROVE  Receive /\ \E m \in DOMAIN answers : rx = Response[m] /\ taken' = m
<1>1. pc = "waiting" /\ pc' = "loop" /\ mocks' = mocks /\ faults' = faults
    BY DEF Accepts
<1>2. mocks \in Nat /\ mocks + 1 # mocks
    BY DEF Types
<1>3. ~Sampled(Refused)
    BY <1>1, <1>2, RefusedIsNoReading DEF Sampled
<1>4. \A k \in Faults : ~Fault(k)
    <2> SUFFICES ASSUME NEW k \in Faults, Fault(k) PROVE FALSE
        OBVIOUS
    <2>1. faults[k] \in Nat /\ faults'[k] = faults[k] + 1
        BY FaultIs DEF Types
    <2> QED BY <1>1, <2>1
<1>5. ~TimeOut /\ ~Interrupt /\ ~AskFails /\ ~ReadFails
    BY <1>3 DEF TimeOut, Interrupt, AskFails, ReadFails
<1>6. ~Restart
    BY <1>4, FaultKinds DEF Restart
<1>7. ~MockRound /\ ~Ask /\ ~Stop /\ ~SetShutdown /\ ~Done
    BY <1>1 DEF MockRound, Ask, Stop, SetShutdown, Done, vars
<1>8. ~Slave /\ ~ServeTwice /\ ~ServeNothing /\ ~ServeException
    BY <1>1 DEF Slave, Serve, Deliver, ServeTwice, ServeNothing, ServeException, thread
<1>9. Receive
    BY <1>5, <1>6, <1>7, <1>8, NoNoise DEF Next, Collect
<1> QED BY <1>1, <1>2, <1>9, ReadGives

(* On a line without noise a reading is newer than all before it: the order *)
(* of requests, responses and reads keeps an old answer from being taken    *)
(* after a younger one, although nothing is flushed between rounds.         *)
THEOREM QuietReadingsAdvance == Spec /\ []Quiet => ReadingsAdvance
<1>1. Types /\ Quiet /\ Quiet' /\ Pairing /\ [Next]_vars => [Accepts => taken' > taken]_vars
    <2> SUFFICES ASSUME Types, Quiet, Quiet', Pairing, Next, Accepts PROVE taken' > taken
        OBVIOUS
    <2>1. PICK m \in DOMAIN answers : rx = Response[m] /\ taken' = m
        BY AcceptedReading
    <2>2. taken < m /\ taken \in Nat
        BY <2>1 DEF Pairing, PairingOf, Ordered
    <2>3. m \in Nat
        BY ExchangeNow
    <2> QED BY <2>1, <2>2, <2>3
<1> QED BY <1>1, TypesInvariance, PairingInvariance, PTL DEF Spec, ReadingsAdvance

(* On a line without noise a reading is behind the request of its round by  *)
(* no more rounds than there were late answers, failed reads and echoes:    *)
(* lost answers, exceptions and failed writes shift nothing.                *)
THEOREM QuietLag == Spec /\ []Quiet => LagWithinFaults
<1>1. Types /\ Quiet /\ Quiet' /\ Pairing /\ [Next]_vars
         => [Accepts => round - answers[taken']
                           <= faults.late + faults.read + faults.split + faults.echo]_vars
    <2> SUFFICES ASSUME Types, Quiet, Quiet', Pairing, Next, Accepts
                 PROVE  round - answers[taken']
                           <= faults.late + faults.read + faults.split + faults.echo
        OBVIOUS
    <2>1. PICK m \in DOMAIN answers : rx = Response[m] /\ taken' = m
        BY AcceptedReading
    <2>2. Slack = 0
        BY AcceptedReading DEF Receive, Slack
    <2>3. round - answers[m] + 0 <= Delay
        BY <2>1, <2>2 DEF Pairing, PairingOf, Aged
    <2>4. answers[m] \in Nat /\ round \in Nat
        BY ExchangeNow, ExchangeDomains DEF Exchange
    <2>5. /\ faults.late \in Nat /\ faults.echo \in Nat /\ faults.read \in Nat
          /\ faults.split = 0
        BY FaultKinds DEF Types, Quiet
    <2>6. PICK l \in Nat, e \in Nat, f \in Nat :
             l = faults.late /\ e = faults.echo /\ f = faults.read
        BY <2>5
    <2>7. round - answers[m] <= l + e + f
        BY <2>3, <2>4, <2>6 DEF Delay
    <2> QED BY <2>1, <2>4, <2>5, <2>6, <2>7
<1> QED BY <1>1, TypesInvariance, PairingInvariance, PTL DEF Spec, LagWithinFaults

-----------------------------------------------------------------------------
(* What the faults cost on a quiet line.  A fault pays for two mock         *)
(* samples.  Those still to come are an exception, or joined frames, that   *)
(* will be read, and the distance of what is under way from what is asked   *)
(* for: too little ends in a time-out, too much in frames that join.        *)

Exceptions(chunks) == {j \in DOMAIN chunks : chunks[j] = ExceptionResponse(2)}
Garbled(buf) == IF Junk(buf) THEN 1 ELSE 0
Underway == Busy(rx) + Len(line) + Len(requests)
Asked == IF pc = "waiting" THEN 1 ELSE 0

Balanced(u, w, e, g, m, t) == m + e + g + (u - w) <= 2 * t /\ m + e + g + (w - u) <= 2 * t
Balance == Balanced(Underway, Asked, Cardinality(Exceptions(line)), Garbled(rx), mocks, Total)

LEMMA ExceptionsAreFinite ==
    ASSUME NEW chunks \in Seq(Seq(Byte))
    PROVE  IsFiniteSet(Exceptions(chunks)) /\ Cardinality(Exceptions(chunks)) \in Nat
<1>1. IsFiniteSet(1 .. Len(chunks))
    <2>1. 1 \in Int /\ Len(chunks) \in Int
        OBVIOUS
    <2> QED BY <2>1, FS_Interval
<1>2. Exceptions(chunks) \subseteq 1 .. Len(chunks)
    BY DEF Exceptions
<1> QED BY <1>1, <1>2, FS_Subset, FS_CardinalityType

LEMMA TailExceptions ==
    ASSUME NEW chunks \in Seq(Seq(Byte)), chunks # <<>>
    PROVE  Cardinality(Exceptions(Tail(chunks)))
              = Cardinality(Exceptions(chunks))
                   - (IF Head(chunks) = ExceptionResponse(2) THEN 1 ELSE 0)
<1> DEFINE S == Exceptions(Tail(chunks))
           T == Exceptions(chunks) \ {1}
           f == [j \in S |-> j + 1]
<1>1. /\ Tail(chunks) \in Seq(Seq(Byte)) /\ Len(chunks) \in Nat
      /\ DOMAIN Tail(chunks) = 1 .. Len(chunks) - 1 /\ DOMAIN chunks = 1 .. Len(chunks)
      /\ \A j \in DOMAIN Tail(chunks) : Tail(chunks)[j] = chunks[j + 1]
      /\ Head(chunks) = chunks[1] /\ 1 \in DOMAIN chunks
    BY TailIs
<1>2. \A j \in S : j \in Nat /\ j >= 1 /\ j <= Len(chunks) - 1 /\ chunks[j + 1] = ExceptionResponse(2)
    BY <1>1 DEF Exceptions
<1>3. \A j \in T : /\ j \in Nat /\ j >= 2 /\ j <= Len(chunks)
                   /\ chunks[j] = ExceptionResponse(2)
    BY <1>1 DEF Exceptions
<1>4. \A j \in S : j + 1 \in T
    <2> TAKE j \in S
    <2>1. j + 1 \in 1 .. Len(chunks) /\ j + 1 # 1
        BY <1>1, <1>2
    <2> QED BY <1>1, <1>2, <2>1 DEF Exceptions
<1>5. \A k \in T : k - 1 \in S /\ (k - 1) + 1 = k
    <2> TAKE k \in T
    <2>1. k - 1 \in 1 .. Len(chunks) - 1 /\ (k - 1) + 1 = k
        BY <1>1, <1>3
    <2> QED BY <1>1, <1>3, <2>1 DEF Exceptions
<1>6. IsFiniteSet(S)
    BY <1>1, ExceptionsAreFinite
<1>7. /\ 1 \in Exceptions(chunks) <=> Head(chunks) = ExceptionResponse(2)
      /\ Cardinality(T) = IF 1 \in Exceptions(chunks) THEN Cardinality(Exceptions(chunks)) - 1
                                                      ELSE Cardinality(Exceptions(chunks))
    <2>1. 1 \in Exceptions(chunks) <=> Head(chunks) = ExceptionResponse(2)
        BY <1>1 DEF Exceptions
    <2> QED BY <2>1, ExceptionsAreFinite, FS_RemoveElement
<1> HIDE DEF S, T
<1>8. f \in Bijection(S, T)
    <2>1. f \in [S -> T]
        BY <1>4
    <2>2. \A i, j \in S : f[i] = f[j] => i = j
        BY <1>2
    <2>3. \A k \in T : \E j \in S : f[j] = k
        BY <1>5
    <2> QED BY <2>1, <2>2, <2>3 DEF Bijection, Injection, IsInjective, Surjection
<1>9. Cardinality(T) = Cardinality(S)
    <2>1. ExistsBijection(S, T)
        BY <1>8 DEF ExistsBijection
    <2> QED BY <1>6, <2>1, FS_Bijection
<1>10. Cardinality(Exceptions(chunks)) \in Nat
    BY ExceptionsAreFinite
<1> QED BY <1>7, <1>9, <1>10 DEF S

LEMMA TotalAfter ==
    ASSUME Types
    PROVE  /\ Total \in Nat
           /\ \A k \in Faults : Fault(k) => Total' = Total + 1
<1>1. \A k \in Faults : k \in {"late", "lost", "exception", "damage", "split",
                               "echo", "write", "read", "interrupt", "restart"}
    BY FaultKinds
<1>2. /\ faults.late \in Nat /\ faults.lost \in Nat /\ faults.exception \in Nat
      /\ faults.damage \in Nat /\ faults.split \in Nat /\ faults.echo \in Nat
      /\ faults.write \in Nat /\ faults.read \in Nat /\ faults.interrupt \in Nat
      /\ faults.restart \in Nat
    BY FaultKinds DEF Types
<1>3. ASSUME NEW k \in Faults, Fault(k)
      PROVE  Total' = Total + 1
    <2> DEFINE d(j) == IF j = k THEN 1 ELSE 0
    <2>1. \A j \in Faults : faults'[j] = faults[j] + d(j) /\ d(j) \in {0, 1}
        BY <1>3, FaultIs DEF Types
    <2>2. d("late") + d("lost") + d("exception") + d("damage") + d("split") + d("echo")
             + d("write") + d("read") + d("interrupt") + d("restart") = 1
        BY <1>1, SMTT(30)
    <2> HIDE DEF d
    <2>3. Total' = (faults.late + d("late")) + (faults.lost + d("lost"))
                 + (faults.exception + d("exception")) + (faults.damage + d("damage"))
                 + (faults.split + d("split")) + (faults.echo + d("echo"))
                 + (faults.write + d("write")) + (faults.read + d("read"))
                 + (faults.interrupt + d("interrupt")) + (faults.restart + d("restart"))
        BY <2>1, FaultKinds DEF Total
    <2>4. /\ d("late") \in Nat /\ d("lost") \in Nat /\ d("exception") \in Nat
          /\ d("damage") \in Nat /\ d("split") \in Nat /\ d("echo") \in Nat
          /\ d("write") \in Nat /\ d("read") \in Nat /\ d("interrupt") \in Nat
          /\ d("restart") \in Nat
        BY <2>1, FaultKinds
    <2>5. Total' = Total + (d("late") + d("lost") + d("exception") + d("damage") + d("split")
                   + d("echo") + d("write") + d("read") + d("interrupt") + d("restart"))
        BY <1>2, <2>3, <2>4, SMTT(30) DEF Total
    <2> QED BY <2>2, <2>5
<1> QED BY <1>2, <1>3 DEF Total

LEMMA BalanceTypes ==
    ASSUME Types
    PROVE  /\ Underway \in Nat /\ Asked \in {0, 1} /\ Garbled(rx) \in {0, 1}
           /\ Cardinality(Exceptions(line)) \in Nat /\ mocks \in Nat /\ Total \in Nat
           /\ Busy(rx) \in {0, 1} /\ Len(line) \in Nat /\ Len(requests) \in Nat
<1>1. Busy(rx) \in {0, 1} /\ Asked \in {0, 1} /\ Garbled(rx) \in {0, 1}
    BY DEF Busy, Asked, Garbled
<1>2. /\ line \in Seq(Seq(Byte)) /\ Len(line) \in Nat /\ mocks \in Nat
      /\ Len(requests) \in Nat
    BY DEF Types
<1>3. Underway \in Nat
    BY <1>1, <1>2 DEF Underway
<1> QED BY <1>1, <1>2, <1>3, ExceptionsAreFinite, TotalAfter

LEMMA NothingIsWhole == ~Junk(<<>>)
    BY DEF Junk

LEMMA InitBalance == Init => Balance
<1> SUFFICES ASSUME Init PROVE Balance
    OBVIOUS
<1>1. rx = <<>> /\ line = <<>> /\ requests = <<>> /\ mocks = 0 /\ pc = "loop"
    BY DEF Init
<1>2. Underway = 0 /\ Asked = 0 /\ Garbled(rx) = 0
    BY <1>1, NothingIsWhole DEF Underway, Asked, Garbled, Busy
<1>3. Cardinality(Exceptions(line)) = 0
    <2>1. Exceptions(line) = {}
        BY <1>1 DEF Exceptions
    <2> QED BY <2>1, FS_EmptySet
<1>4. Total \in Nat
    BY InitTypes, BalanceTypes
<1> QED BY <1>1, <1>2, <1>3, <1>4 DEF Balance, Balanced

LEMMA ThreadBalance ==
    ASSUME Types, Types', Quiet, Pairing, Balance,
           Collect \/ AskFails \/ ReadFails \/ Interrupt \/ SetShutdown \/ Restart
    PROVE  Balance'
<1>1. /\ Underway \in Nat /\ Asked \in {0, 1} /\ Garbled(rx) \in {0, 1}
      /\ Cardinality(Exceptions(line)) \in Nat /\ mocks \in Nat /\ Total \in Nat
      /\ Busy(rx) \in {0, 1} /\ Len(line) \in Nat /\ Len(requests) \in Nat
    BY BalanceTypes
<1>2. /\ Underway' \in Nat /\ Asked' \in {0, 1} /\ Garbled(rx)' \in {0, 1} /\ Total' \in Nat
    <2>1. (Types => /\ Underway \in Nat /\ Asked \in {0, 1} /\ Garbled(rx) \in {0, 1}
                    /\ Total \in Nat)'
        BY BalanceTypes, PTL
    <2> QED BY <2>1
<1>3. PICK u \in Nat, w \in {0, 1}, e \in Nat, g \in {0, 1}, m \in Nat, t \in Nat, b \in {0, 1} :
         /\ u = Underway /\ w = Asked /\ e = Cardinality(Exceptions(line)) /\ g = Garbled(rx)
         /\ m = mocks /\ t = Total /\ b = Busy(rx)
    BY <1>1
<1>4. PICK u2 \in Nat, w2 \in {0, 1}, g2 \in {0, 1}, t2 \in Nat :
         u2 = Underway' /\ w2 = Asked' /\ g2 = Garbled(rx)' /\ t2 = Total'
    BY <1>2
<1>5. Balanced(u, w, e, g, m, t)
    BY <1>3 DEF Balance
<1>6. ASSUME NEW m2 \in Nat, mocks' = m2, line' = line, Balanced(u2, w2, e, g2, m2, t2)
      PROVE  Balance'
    BY <1>3, <1>4, <1>6 DEF Balance
<1>7. ASSUME UNCHANGED <<rx, line, requests>>
      PROVE  u2 = u /\ g2 = g
    BY <1>3, <1>4, <1>7 DEF Underway, Garbled
<1>8. ASSUME rx' = <<>>, UNCHANGED <<line, requests>>
      PROVE  u = u2 + b /\ g2 = 0
    <2>1. Underway' = Len(line) + Len(requests) /\ Garbled(rx)' = 0
        BY <1>1, <1>8, NothingIsWhole DEF Underway, Garbled, Busy
    <2>2. Underway = Busy(rx) + Len(line) + Len(requests)
        BY DEF Underway
    <2>3. PICK n \in Nat, r \in Nat : n = Len(line) /\ r = Len(requests)
        BY <1>1
    <2>4. u2 = n + r /\ u = b + n + r
        BY <1>3, <1>4, <2>1, <2>2, <2>3
    <2> QED BY <1>4, <2>1, <2>4
<1>9. ASSUME MockRound \/ SetShutdown \/ Stop PROVE Balance'
    <2>1. u2 = u /\ g2 = g
        BY <1>7, <1>9 DEF MockRound, SetShutdown, Stop, slave, vars
    <2>2. w2 = w /\ t2 = t
        BY <1>3, <1>4, <1>9 DEF MockRound, SetShutdown, Stop, vars, Asked, Total
    <2>3. mocks' = m /\ line' = line
        BY <1>3, <1>9 DEF MockRound, SetShutdown, Stop, vars
    <2> QED BY <1>5, <1>6, <2>1, <2>2, <2>3
<1>10. ASSUME Ask PROVE Balance'
    <2>1. w = 0 /\ w2 = 1 /\ g2 = g /\ t2 = t
        BY <1>3, <1>4, <1>10 DEF Ask, Asked, Garbled, Total
    <2>2. u2 = u + 1
        <3>1. Len(requests') = Len(requests) + 1 /\ rx' = rx /\ line' = line
            BY <1>10 DEF Ask, Types
        <3>2. Underway' = Busy(rx) + Len(line) + (Len(requests) + 1)
            BY <3>1 DEF Underway
        <3> QED BY SMTT(30), <1>1, <1>3, <1>4, <3>2 DEF Underway
    <2>3. mocks' = m /\ line' = line
        BY <1>3, <1>10 DEF Ask
    <2>4. Balanced(u2, w2, e, g2, m, t2)
        BY <1>5, <2>1, <2>2 DEF Balanced
    <2> QED BY <1>6, <2>3, <2>4
<1>11. ASSUME AskFails PROVE Balance'
    <2>1. u2 = u /\ g2 = g
        BY <1>7, <1>11 DEF AskFails, slave
    <2>2. w = 0 /\ w2 = 0 /\ mocks' = m + 1
        BY <1>3, <1>4, <1>11, RefusedIsNoReading DEF AskFails, Sampled, Asked
    <2>3. t2 = t + 1
        BY <1>3, <1>4, <1>11, FaultKinds, TotalAfter DEF AskFails
    <2>4. Balanced(u2, w2, e, g2, m + 1, t2) /\ m + 1 \in Nat
        BY <1>5, <2>1, <2>2, <2>3 DEF Balanced
    <2> QED BY <1>6, <1>11, <2>2, <2>4 DEF AskFails
<1>12. ASSUME Receive PROVE Balance'
    <2>1. w = 1 /\ w2 = 0 /\ b = 1 /\ t2 = t
        BY <1>3, <1>4, <1>12 DEF Receive, Sampled, Asked, Busy, Total
    <2>2. rx' = <<>> /\ line' = line /\ requests' = requests
        BY <1>12, ReadGives DEF Receive, slave
    <2>3. u = u2 + 1 /\ g2 = 0
        BY <1>8, <2>1, <2>2
    <2>4. CASE Junk(rx) /\ mocks' = mocks + 1
        <3>1. g = 1 /\ mocks' = m + 1
            BY <1>3, <2>4 DEF Garbled
        <3>2. Balanced(u2, w2, e, g2, m + 1, t2) /\ m + 1 \in Nat
            BY <1>5, <2>1, <2>3, <3>1 DEF Balanced
        <3> QED BY <1>6, <2>2, <3>1, <3>2
    <2>5. CASE mocks' = mocks
        <3>1. Balanced(u2, w2, e, g2, m, t2)
            BY <1>5, <2>1, <2>3 DEF Balanced
        <3> QED BY <1>3, <1>6, <2>2, <2>5, <3>1
    <2> QED BY <1>12, <2>4, <2>5, ReadGives
<1>13. ASSUME TimeOut PROVE Balance'
    <2>1. u2 = u /\ g2 = g
        BY <1>7, <1>13 DEF TimeOut, slave
    <2>2. w = 1 /\ w2 = 0 /\ mocks' = m + 1 /\ line' = line
        BY <1>3, <1>4, <1>13, RefusedIsNoReading DEF TimeOut, Sampled, Asked
    <2>3. CASE InFlight
        <3>1. t2 = t + 1
            BY <1>3, <1>4, <1>13, <2>3, FaultKinds, TotalAfter DEF TimeOut
        <3>2. Balanced(u2, w2, e, g2, m + 1, t2) /\ m + 1 \in Nat
            BY <1>5, <2>1, <2>2, <3>1 DEF Balanced
        <3> QED BY <1>6, <2>2, <3>2
    <2>4. CASE ~InFlight
        <3>1. t2 = t
            BY <1>3, <1>4, <1>13, <2>4 DEF TimeOut, Total
        <3>2. u = 0
            BY <1>3, <1>13, <2>4 DEF TimeOut, InFlight, Underway, Busy
        <3>3. Balanced(u2, w2, e, g2, m + 1, t2) /\ m + 1 \in Nat
            BY <1>5, <2>1, <2>2, <3>1, <3>2 DEF Balanced
        <3> QED BY <1>6, <2>2, <3>3
    <2> QED BY <2>3, <2>4
<1>14. ASSUME Interrupt PROVE Balance'
    <2>1. u2 = u /\ g2 = g
        BY <1>7, <1>14 DEF Interrupt, slave
    <2>2. w = 1 /\ w2 = 0 /\ mocks' = m + 1 /\ line' = line
        BY <1>3, <1>4, <1>14, RefusedIsNoReading DEF Interrupt, Sampled, Asked
    <2>3. t2 = t + 1
        BY <1>3, <1>4, <1>14, FaultKinds, TotalAfter DEF Interrupt
    <2>4. Balanced(u2, w2, e, g2, m + 1, t2) /\ m + 1 \in Nat
        BY <1>5, <2>1, <2>2, <2>3 DEF Balanced
    <2> QED BY <1>6, <2>2, <2>4
<1>15. ASSUME Restart PROVE Balance'
    <2>1. rx' = <<>> /\ line' = line /\ requests' = requests /\ mocks' = m
        BY <1>3, <1>15 DEF Restart, Open, slave
    <2>2. u = u2 + b /\ g2 = 0
        BY <1>8, <2>1
    <2>3. w2 = 0
        BY <1>4, <1>15 DEF Restart, Asked
    <2>4. t2 = t + 1
        BY <1>3, <1>4, <1>15, FaultKinds, TotalAfter DEF Restart
    <2>5. Balanced(u2, w2, e, g2, m, t2)
        BY <1>5, <2>2, <2>3, <2>4 DEF Balanced
    <2> QED BY <1>6, <2>1, <2>5
<1>16. ASSUME ReadFails PROVE Balance'
    <2>1. u2 = u /\ g2 = g
        BY <1>7, <1>16 DEF ReadFails, slave
    <2>2. w = 1 /\ w2 = 0 /\ mocks' = m + 1 /\ line' = line
        BY <1>3, <1>4, <1>16, RefusedIsNoReading DEF ReadFails, Sampled, Asked
    <2>3. t2 = t + 1
        BY <1>3, <1>4, <1>16, FaultKinds, TotalAfter DEF ReadFails
    <2>4. Balanced(u2, w2, e, g2, m + 1, t2) /\ m + 1 \in Nat
        BY <1>5, <2>1, <2>2, <2>3 DEF Balanced
    <2> QED BY <1>6, <2>2, <2>4
<1> QED BY <1>9, <1>10, <1>11, <1>12, <1>13, <1>14, <1>15, <1>16 DEF Collect

LEMMA AnswerBalance ==
    ASSUME Types, NEW k \in {0, 1, 2}, Answer(k)
    PROVE  /\ Exceptions(line') = Exceptions(line)
           /\ Len(line') = Len(line) + k
           /\ Len(requests') = Len(requests) - 1 /\ Len(requests) >= 1
<1>1. /\ requests # <<>> /\ requests' = Tail(requests)
      /\ line' \in Seq(Seq(Byte)) /\ Len(line') = Len(line) + k
      /\ \A j \in DOMAIN line : line'[j] = line[j]
    BY AnswerServes DEF Serving
<1>2. Len(requests') = Len(requests) - 1 /\ Len(requests) >= 1
    BY <1>1, TailIs DEF Types
<1>3. /\ DOMAIN line = 1 .. Len(line) /\ Len(line) \in Nat /\ k \in Nat
      /\ DOMAIN line' = 1 .. Len(line) + k
    BY <1>1 DEF Types
<1>4. ASSUME NEW j \in DOMAIN line', j \notin DOMAIN line
      PROVE  line'[j] # ExceptionResponse(2)
    <2>1. j - Len(line) \in 1 .. k /\ Len(line) + (j - Len(line)) = j
        BY <1>3, <1>4
    <2>2. PICK i \in 1 .. k : Len(line) + i = j
        BY <2>1
    <2>3. line'[j] = Response[Len(answers) + i] /\ Len(answers) + i \in 1 .. 2 * MaxRounds
        BY <2>2, AnswerServes
    <2> QED BY <2>3, ResponseReadable
<1>5. DOMAIN line \subseteq DOMAIN line'
    BY <1>3
<1>6. Exceptions(line') = Exceptions(line)
    BY <1>1, <1>4, <1>5 DEF Exceptions
<1> QED BY <1>1, <1>2, <1>6

LEMMA SlaveBalance ==
    ASSUME Types, Types', Pairing, Balance, Slave \/ ServeTwice \/ ServeNothing \/ ServeException
    PROVE  Balance'
<1>1. /\ Underway \in Nat /\ Asked \in {0, 1} /\ Garbled(rx) \in {0, 1}
      /\ Cardinality(Exceptions(line)) \in Nat /\ mocks \in Nat /\ Total \in Nat
      /\ Busy(rx) \in {0, 1} /\ Len(line) \in Nat /\ Len(requests) \in Nat
    BY BalanceTypes
<1>2. PICK u \in Nat, w \in {0, 1}, e \in Nat, g \in {0, 1}, m \in Nat, t \in Nat :
         /\ u = Underway /\ w = Asked /\ e = Cardinality(Exceptions(line)) /\ g = Garbled(rx)
         /\ m = mocks /\ t = Total
    BY <1>1
<1>3. PICK b \in {0, 1}, n \in Nat, r \in Nat :
         b = Busy(rx) /\ n = Len(line) /\ r = Len(requests)
    BY <1>1
<1>4. Balanced(u, w, e, g, m, t) /\ u = b + n + r
    BY <1>2, <1>3 DEF Balance, Underway
<1>5. ASSUME UNCHANGED thread PROVE Asked' = w /\ mocks' = m
    BY <1>2, <1>5 DEF thread, Asked
<1>6. ASSUME NEW k \in {0, 1, 2}, Answer(k), UNCHANGED <<thread, rx, round>>,
             NEW t2 \in Nat, Total' = t2, (k = 1 /\ t2 = t) \/ t2 = t + 1
      PROVE  Balance'
    <2>1. /\ Cardinality(Exceptions(line')) = e
          /\ Len(line') = n + k /\ Len(requests') = r - 1 /\ r >= 1
        BY <1>2, <1>3, <1>6, AnswerBalance
    <2>2. Underway' = b + (n + k) + (r - 1)
        BY <1>3, <1>6, <2>1 DEF Underway
    <2>3. Asked' = w /\ mocks' = m /\ Garbled(rx)' = g
        BY <1>2, <1>5, <1>6 DEF Garbled
    <2>4. PICK v \in Nat : v = b + (n + k) + (r - 1)
        BY <1>6, <2>1
    <2>5. Balanced(v, w, e, g, m, t2)
        BY <1>4, <1>6, <2>4 DEF Balanced
    <2> QED BY <1>6, <2>1, <2>2, <2>3, <2>4, <2>5 DEF Balance
<1>7. ASSUME Serve PROVE Balance'
    <2>1. Total' = t /\ Answer(1) /\ UNCHANGED <<thread, rx, round>>
        BY <1>2, <1>7 DEF Serve, Total
    <2>2. 1 \in {0, 1, 2}
        OBVIOUS
    <2> QED BY <1>6, <2>1, <2>2
<1>8. ASSUME ServeTwice PROVE Balance'
    <2>1. Total' = t + 1 /\ t + 1 \in Nat
        BY <1>2, <1>8, FaultKinds, TotalAfter DEF ServeTwice
    <2>2. Answer(2) /\ UNCHANGED <<thread, rx, round>> /\ 2 \in {0, 1, 2}
        BY <1>8 DEF ServeTwice
    <2> QED BY <1>6, <2>1, <2>2
<1>9. ASSUME ServeNothing PROVE Balance'
    <2>1. Total' = t + 1 /\ t + 1 \in Nat
        BY <1>2, <1>9, FaultKinds, TotalAfter DEF ServeNothing
    <2>2. Answer(0) /\ UNCHANGED <<thread, rx, round>> /\ 0 \in {0, 1, 2}
        BY <1>9 DEF ServeNothing
    <2> QED BY <1>6, <2>1, <2>2
<1>10. ASSUME ServeException PROVE Balance'
    <2>1. Total' = t + 1
        BY <1>2, <1>10, FaultKinds, TotalAfter DEF ServeException
    <2> DEFINE line2 == Append(line, ExceptionResponse(2))
    <2>2. /\ requests # <<>> /\ requests' = Tail(requests) /\ line' = line2
          /\ UNCHANGED <<thread, rx>>
        BY <1>10 DEF ServeException
    <2>3. line \in Seq(Seq(Byte)) /\ DOMAIN line = 1 .. n
        BY <1>3 DEF Types
    <2>4. /\ line2 \in Seq(Seq(Byte)) /\ Len(line2) = n + 1 /\ DOMAIN line2 = 1 .. n + 1
          /\ \A j \in 1 .. n : line2[j] = line[j]
          /\ line2[n + 1] = ExceptionResponse(2)
        BY <1>3, <2>3, ExceptionType, AppendProperties
    <2> HIDE DEF line2
    <2>5. Exceptions(line2) = Exceptions(line) \cup {n + 1} /\ n + 1 \notin Exceptions(line)
        <3>1. 1 .. n + 1 = (1 .. n) \cup {n + 1} /\ n + 1 \notin 1 .. n
            OBVIOUS
        <3> QED BY <2>3, <2>4, <3>1 DEF Exceptions
    <2>6. Cardinality(Exceptions(line2)) = e + 1
        BY <1>2, <2>3, <2>5, ExceptionsAreFinite, FS_AddElement
    <2>7. Len(requests') = r - 1 /\ r >= 1
        BY <1>3, <2>2, TailIs DEF Types
    <2>8. Underway' = b + (n + 1) + (r - 1)
        BY <1>3, <2>2, <2>4, <2>7 DEF Underway
    <2>9. Asked' = w /\ mocks' = m /\ Garbled(rx)' = g
        BY <1>2, <1>5, <2>2 DEF Garbled
    <2>10. PICK v \in Nat : v = b + (n + 1) + (r - 1)
        BY <2>7
    <2>11. Balanced(v, w, e + 1, g, m, t + 1)
        BY <1>4, <2>10 DEF Balanced
    <2> QED BY <2>1, <2>2, <2>6, <2>8, <2>9, <2>10, <2>11 DEF Balance
<1>11. ASSUME Deliver PROVE Balance'
    <2> DEFINE x == IF Head(line) = ExceptionResponse(2) THEN 1 ELSE 0
               rest == Tail(line)
               buf2 == rx \o Head(line)
    <2>1. /\ line # <<>> /\ line \in Seq(Seq(Byte)) /\ rx \in Seq(Byte)
          /\ rx' = buf2 /\ line' = rest
          /\ UNCHANGED <<thread, requests, faults>>
        BY <1>11 DEF Deliver, slave, Types
    <2>2. Head(line) \in Seq(Byte) /\ Len(rest) = n - 1 /\ n >= 1 /\ x \in {0, 1}
          /\ Head(line) = line[1] /\ 1 \in DOMAIN line
        BY <1>3, <2>1, TailIs
    <2>3. Cardinality(Exceptions(rest)) = e - x /\ Cardinality(Exceptions(rest)) \in Nat
        <3>1. rest \in Seq(Seq(Byte))
            BY <2>1, TailIs
        <3> QED BY <1>2, <2>1, <3>1, TailExceptions, ExceptionsAreFinite
    <2>4. /\ DOMAIN answers \subseteq 1 .. 2 * MaxRounds
          /\ \/ Head(line) = ExceptionResponse(2)
             \/ \E i \in DOMAIN answers : Head(line) = Response[i]
        BY <2>2, ExchangeNow DEF Pairing, PairingOf, Sent
    <2>5. Asked' = w /\ mocks' = m /\ Total' = t
        BY <1>2, <1>5, <2>1 DEF Total
    <2>6. Head(line) # <<>>
        BY <2>4, ResponseReadable, ExceptionIsJunk, NothingIsWhole
    <2>7. CASE rx = <<>>
        <3>1. buf2 = Head(line)
            BY <2>2, <2>7, ConcatEmptySeq
        <3>2. g = 0 /\ b = 0
            BY <1>2, <1>3, <2>7, NothingIsWhole DEF Garbled, Busy
        <3>3. Busy(buf2) = 1 /\ Garbled(buf2) = x
            BY <2>4, <2>6, <3>1, ResponseReadable, ExceptionIsJunk DEF Busy, Garbled
        <3> HIDE DEF x, rest, buf2
        <3>4. Underway' = 1 + (n - 1) + r
            BY <1>3, <2>1, <2>2, <3>3 DEF Underway
        <3>5. PICK v \in Nat, f \in Nat : v = 1 + (n - 1) + r /\ f = e - x
            BY <2>2, <2>3
        <3>6. Balanced(v, w, f, x, m, t)
            BY <1>4, <2>2, <3>2, <3>5 DEF Balanced
        <3> QED BY <2>1, <2>3, <2>5, <3>3, <3>4, <3>5, <3>6 DEF Balance
    <2>8. CASE rx # <<>>
        <3>1. b = 1
            BY <1>3, <2>8 DEF Busy
        <3>2. Junk(buf2)
            <4>1. CASE Junk(rx)
                BY <2>1, <2>2, <4>1, JunkGrows
            <4>2. CASE \E i \in DOMAIN answers : rx = Response[i]
                BY <2>2, <2>4, <2>6, <4>2, JoinedIsJunk
            <4> QED BY <2>8, <4>1, <4>2 DEF Pairing, PairingOf, Received
        <3>3. Busy(buf2) = 1 /\ Garbled(buf2) = 1
            BY <3>2, NothingIsWhole DEF Busy, Garbled
        <3> HIDE DEF x, rest, buf2
        <3>4. Underway' = 1 + (n - 1) + r
            BY <1>3, <2>1, <2>2, <3>3 DEF Underway
        <3>5. PICK v \in Nat, f \in Nat : v = 1 + (n - 1) + r /\ f = e - x
            BY <2>2, <2>3
        <3>6. v = u - 1 /\ v >= 1 /\ f <= e
            BY <1>4, <2>2, <3>1, <3>5
        <3>7. Balanced(v, w, f, 1, m, t)
            BY <1>4, <3>6 DEF Balanced
        <3> QED BY <2>1, <2>3, <2>5, <3>3, <3>4, <3>5, <3>7 DEF Balance
    <2> QED BY <2>7, <2>8
<1> QED BY <1>7, <1>8, <1>9, <1>10, <1>11 DEF Slave

LEMMA BalanceStep ==
    Types /\ Types' /\ Quiet /\ Quiet' /\ Pairing /\ Balance /\ [Next]_vars => Balance'
<1> SUFFICES ASSUME Types, Types', Quiet, Quiet', Pairing, Balance, [Next]_vars PROVE Balance'
    OBVIOUS
<1>1. CASE UNCHANGED vars
    BY <1>1 DEF vars, Balance, Underway, Asked, Total
<1>2. CASE Done
    BY <1>1, <1>2 DEF Done
<1> QED BY <1>1, <1>2, ThreadBalance, SlaveBalance, NoNoise DEF Next

LEMMA BalanceInvariance == Spec /\ []Quiet => []Balance
<1> QED BY InitBalance, BalanceStep, TypesInvariance, PairingInvariance, PTL DEF Spec

(* On a line without noise a fault costs two mock samples at most, however  *)
(* the faults follow on each other: a late answer the round it missed and   *)
(* one in which two frames join, a doubled answer one such round.           *)
THEOREM QuietMocks == Spec /\ []Quiet => []MocksWithinFaults
<1>1. Types /\ Quiet /\ Balance => MocksWithinFaults
    <2> SUFFICES ASSUME Types, Quiet, Balance PROVE MocksWithinFaults
        OBVIOUS
    <2>1. PICK u \in Nat, w \in {0, 1}, e \in Nat, g \in {0, 1}, m \in Nat, t \in Nat :
             /\ u = Underway /\ w = Asked /\ e = Cardinality(Exceptions(line))
             /\ g = Garbled(rx) /\ m = mocks /\ t = Total
        BY BalanceTypes
    <2>2. Balanced(u, w, e, g, m, t)
        BY <2>1 DEF Balance
    <2>3. m <= 2 * t
        BY <2>2 DEF Balanced
    <2>4. faults.split = 0
        BY DEF Quiet
    <2> QED BY <2>1, <2>3, <2>4 DEF MocksWithinFaults
<1> QED BY <1>1, TypesInvariance, BalanceInvariance, PTL

=============================================================================
