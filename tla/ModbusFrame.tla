---------------------------- MODULE ModbusFrame ----------------------------
(***************************************************************************)
(* app/src/modbus_rtu.c: the frames of a "read holding registers" exchange *)
(* and their CRC-16.                                                       *)
(*                                                                         *)
(* A byte or a 16-bit word is the set of the positions of its 1 bits, so   *)
(* that ^ is the symmetric difference of sets and a shift moves positions; *)
(* no bit leaves the word.  A buffer is a sequence of bytes.               *)
(***************************************************************************)
EXTENDS Integers, Sequences, FiniteSetsExt, SequencesExt

Byte == SUBSET (0 .. 7)
Word16 == SUBSET (0 .. 15)

(* The word of the number n, the number of a byte and that of a word. *)
Bits(n) == {i \in 0 .. 15 : (n \div 2^i) % 2 = 1}
BitValue(w, i) == IF i \in w THEN 2^i ELSE 0
NumByte(w) == BitValue(w, 0) + BitValue(w, 1) + BitValue(w, 2) + BitValue(w, 3)
            + BitValue(w, 4) + BitValue(w, 5) + BitValue(w, 6) + BitValue(w, 7)

LowByte(w) == w \cap 0 .. 7
HighByteUnshifted(w) == w \cap 8 .. 15  \* mutant: the shift is forgotten
HighByte(w) == {i - 8 : i \in w \cap 8 .. 15}
WordOf(high, low) == {i + 8 : i \in high} \cup low

Num[w \in Word16] == 256 * NumByte(HighByte(w)) + NumByte(LowByte(w))

FuncReadHolding == Bits(3)      \* MODBUS_FUNC_READ_HOLDING
MaxRegisters == 125             \* MODBUS_MAX_REGISTERS
ResponseMin == 5                \* MODBUS_RESPONSE_MIN

-----------------------------------------------------------------------------
CrcPoly == {0, 13, 15}          \* 0xA001

(* One turn of the inner loop: shift right, and fold in the bit shifted out. *)
CrcStep[crc \in Word16] ==
    LET shifted == {i - 1 : i \in crc \ {0}}
    IN  IF 0 \in crc THEN SymDiff(shifted, CrcPoly) ELSE shifted

(* One turn of the outer loop on <<crc, byte>>: fold the byte in, then the *)
(* eight turns of the inner loop.                                          *)
CrcByte[t \in Word16 \X Byte] ==
    CrcStep[CrcStep[CrcStep[CrcStep[
        CrcStep[CrcStep[CrcStep[CrcStep[SymDiff(t[1], t[2])]]]]]]]]

(* crc after each turn of the outer loop. *)
CrcAfter(buf, len) ==
    LET crc[k \in 0 .. len] == IF k = 0 THEN 0 .. 15
                                ELSE CrcByte[<<crc[k - 1], buf[k]>>]
    IN  crc

(* The CRC of the first len bytes of buf. *)
modbus_crc16(buf, len) == IF len = 0 THEN {} ELSE CrcAfter(buf, len)[len]

(* A frame is closed by the CRC of what precedes it, low byte first. *)
WithCrc(body) ==
    LET crc == modbus_crc16(body, Len(body))
    IN  body \o <<LowByte(crc), HighByte(crc)>>

-----------------------------------------------------------------------------
(* modbus_build_read_request: <<>> stands for its -1. *)
modbus_build_read_request(slave_addr, start_addr, quantity) ==
    IF quantity \in 1 .. MaxRegisters
    THEN WithCrc(<<Bits(slave_addr), FuncReadHolding,
                   HighByte(Bits(start_addr)), LowByte(Bits(start_addr)),
                   HighByte(Bits(quantity)), LowByte(Bits(quantity))>>)
    ELSE <<>>

(* build_test_response: a slave's answer; regs is a sequence of words. *)
build_test_response(regs) ==
    WithCrc(<<Bits(1), FuncReadHolding, LowByte(Bits(2 * Len(regs)))>>
            \o [k \in 1 .. 2 * Len(regs) |->
                    IF k % 2 = 1 THEN HighByte(regs[(k + 1) \div 2])
                                 ELSE LowByte(regs[k \div 2])])

(* An exception response, as test 6 of modbus_run_sensor_tests builds it. *)
ExceptionResponse(code) == WithCrc(<<Bits(1), {0, 1, 7}, Bits(code)>>)

-----------------------------------------------------------------------------
Refused == [count |-> -1, values |-> <<>>]

(* mutant: the CRC is not compared *)
AcceptableUnchecked(buf) ==
    /\ Len(buf) >= ResponseMin
    /\ 7 \notin buf[2]
    /\ buf[2] = FuncReadHolding
    /\ Len(buf) = Num[buf[3]] + 5

(* The checks of modbus_parse_response, in its order. *)
Acceptable(buf) ==
    /\ Len(buf) >= ResponseMin
    /\ 7 \notin buf[2]
    /\ buf[2] = FuncReadHolding
    /\ LET len == Len(buf)
       IN  /\ len = Num[buf[3]] + 5
           /\ WordOf(buf[len], buf[len - 1]) = modbus_crc16(buf, len - 2)

(* mutant: the two bytes of a register are swapped *)
ParseLittleEndian(buf, max_values) ==
    IF ~Acceptable(buf) THEN Refused
    ELSE LET n == Min({Num[buf[3]] \div 2, max_values})
         IN  [count  |-> n,
              values |-> [i \in 1 .. n |-> WordOf(buf[2 * i + 3], buf[2 * i + 2])]]

(* modbus_parse_response: the return value and the registers it copies out. *)
modbus_parse_response(buf, max_values) ==
    IF ~Acceptable(buf) THEN Refused
    ELSE LET n == Min({Num[buf[3]] \div 2, max_values})
         IN  [count  |-> n,
              values |-> [i \in 1 .. n |-> WordOf(buf[2 * i + 2], buf[2 * i + 3])]]
-----------------------------------------------------------------------------
(* modbus_run_sensor_tests: what its eight tests expect. *)
Regs(numbers) == [i \in DOMAIN numbers |-> Bits(numbers[i])]
RoundTrips(numbers) ==
    modbus_parse_response(build_test_response(Regs(numbers)), 16)
        = [count |-> Len(numbers), values |-> Regs(numbers)]
NormalRegs == <<712, 2534, 320, 820, 0, 0, 1280>>

modbus_run_sensor_tests ==
    LET normal == build_test_response(Regs(NormalRegs))
        damaged == [normal EXCEPT ![Len(normal) - 1] = {}, ![Len(normal)] = {}]
        fault == <<0, 32767, 320, 820, 3, 0, 2048>>
        alarm == <<450, 2500, 5000, 1500, 0, 5, 3072>>
    IN  /\ \A numbers \in {NormalRegs, fault, alarm,
                            [i \in 1 .. 7 |-> 0], [i \in 1 .. 7 |-> 65535]} :
               RoundTrips(numbers)
        /\ \A buf \in {ExceptionResponse(2), damaged, SubSeq(normal, 1, 4)} :
               modbus_parse_response(buf, 16) = Refused

-----------------------------------------------------------------------------
(* The frame with the bits at the places of `error` flipped. *)
Flipped(frame, error) ==
    [i \in DOMAIN frame |-> SymDiff(frame[i], {e[2] : e \in {x \in error : x[1] = i}})]

(* No frame passes for another: one or two flipped bits, or a lost byte,   *)
(* are always seen, wherever they hit.                                     *)
DetectsErrors(frame) ==
    LET places == (DOMAIN frame) \X (0 .. 7)
    IN  /\ \A p, r \in places : ~Acceptable(Flipped(frame, {p, r}))
        /\ \A i \in DOMAIN frame : ~Acceptable(RemoveAt(frame, i))
=============================================================================
