---------------------------- MODULE ModbusFrames ----------------------------
(***************************************************************************)
(* The frames of the Modbus slave of the NPE X1000 (modbus_slave.c,        *)
(* modbus_datastore.cpp), byte for byte: the checksum, what a frame in the *)
(* read buffer does to the registers and what it is answered with.         *)
(*                                                                         *)
(* A query for more coils or registers than there are is answered with     *)
(* what earlier replies left in the write buffer; Reply has zeroes there.  *)
(***************************************************************************)
EXTENDS Integers, SequencesExt

CONSTANTS
  OutputCount, InputCount, RegisterCount   \* MODBUS_*_COUNT

ASSUME ModbusFramesAssumption ==
  OutputCount \in Nat /\ InputCount \in Nat /\ RegisterCount \in Nat

Byte == 0..255
Words == {n \in Nat : n < 65536}   \* uint16_t
Address == 1         \* ADDR

\* The image of the inputs and outputs: modbus_registers_t.
Registers ==
  [dout : [0..OutputCount - 1 -> BOOLEAN], din : [0..InputCount - 1 -> BOOLEAN],
   ain : [0..RegisterCount - 1 -> Words]]
-----------------------------------------------------------------------------
(* Bits and bytes. *)

\* The byte that has the bits in on set.
ByteOf(on) ==
  LET bit(i, weight) == IF i \in on THEN weight ELSE 0 IN
  bit(0, 1) + bit(1, 2) + bit(2, 4) + bit(3, 8) + bit(4, 16) + bit(5, 32) + bit(6, 64) + bit(7, 128)

IsSet(byte, i) == (byte \div 2 ^ i) % 2 = 1

\* The bits 0..count-1 in bytes, those in on set.
PackedAll(on, count) ==
  [k \in 1..(count + 7) \div 8 |->
     ByteOf({i \in 0..7 : 8 * (k - 1) + i < count /\ 8 * (k - 1) + i \in on})]

UInt16(bytes, i) == 256 * bytes[i] + bytes[i + 1]
Word(n) == <<n \div 256, n % 256>>
-----------------------------------------------------------------------------
(* CRC16 *)

NibbleXor ==
  [x \in 0..15 |-> [y \in 0..15 |-> ByteOf({i \in 0..3 : IsSet(x, i) # IsSet(y, i)})]]

Xor(x, y) == 16 * NibbleXor[x \div 16][y \div 16] + NibbleXor[x % 16][y % 16]

_auchCRCHi == <<
    0, 193, 129, 64, 1, 192, 128, 65, 1, 192, 128, 65, 0, 193, 129, 64, 1, 192, 128, 65,
    0, 193, 129, 64, 0, 193, 129, 64, 1, 192, 128, 65, 1, 192, 128, 65, 0, 193, 129, 64,
    0, 193, 129, 64, 1, 192, 128, 65, 0, 193, 129, 64, 1, 192, 128, 65, 1, 192, 128, 65,
    0, 193, 129, 64, 1, 192, 128, 65, 0, 193, 129, 64, 0, 193, 129, 64, 1, 192, 128, 65,
    0, 193, 129, 64, 1, 192, 128, 65, 1, 192, 128, 65, 0, 193, 129, 64, 0, 193, 129, 64,
    1, 192, 128, 65, 1, 192, 128, 65, 0, 193, 129, 64, 1, 192, 128, 65, 0, 193, 129, 64,
    0, 193, 129, 64, 1, 192, 128, 65, 1, 192, 128, 65, 0, 193, 129, 64, 0, 193, 129, 64,
    1, 192, 128, 65, 0, 193, 129, 64, 1, 192, 128, 65, 1, 192, 128, 65, 0, 193, 129, 64,
    0, 193, 129, 64, 1, 192, 128, 65, 1, 192, 128, 65, 0, 193, 129, 64, 1, 192, 128, 65,
    0, 193, 129, 64, 0, 193, 129, 64, 1, 192, 128, 65, 0, 193, 129, 64, 1, 192, 128, 65,
    1, 192, 128, 65, 0, 193, 129, 64, 1, 192, 128, 65, 0, 193, 129, 64, 0, 193, 129, 64,
    1, 192, 128, 65, 1, 192, 128, 65, 0, 193, 129, 64, 0, 193, 129, 64, 1, 192, 128, 65,
    0, 193, 129, 64, 1, 192, 128, 65, 1, 192, 128, 65, 0, 193, 129, 64>>

_auchCRCLo == <<
    0, 192, 193, 1, 195, 3, 2, 194, 198, 6, 7, 199, 5, 197, 196, 4, 204, 12, 13, 205,
    15, 207, 206, 14, 10, 202, 203, 11, 201, 9, 8, 200, 216, 24, 25, 217, 27, 219, 218, 26,
    30, 222, 223, 31, 221, 29, 28, 220, 20, 212, 213, 21, 215, 23, 22, 214, 210, 18, 19, 211,
    17, 209, 208, 16, 240, 48, 49, 241, 51, 243, 242, 50, 54, 246, 247, 55, 245, 53, 52, 244,
    60, 252, 253, 61, 255, 63, 62, 254, 250, 58, 59, 251, 57, 249, 248, 56, 40, 232, 233, 41,
    235, 43, 42, 234, 238, 46, 47, 239, 45, 237, 236, 44, 228, 36, 37, 229, 39, 231, 230, 38,
    34, 226, 227, 35, 225, 33, 32, 224, 160, 96, 97, 161, 99, 163, 162, 98, 102, 166, 167, 103,
    165, 101, 100, 164, 108, 172, 173, 109, 175, 111, 110, 174, 170, 106, 107, 171, 105, 169, 168, 104,
    120, 184, 185, 121, 187, 123, 122, 186, 190, 126, 127, 191, 125, 189, 188, 124, 180, 116, 117, 181,
    119, 183, 182, 118, 114, 178, 179, 115, 177, 113, 112, 176, 80, 144, 145, 81, 147, 83, 82, 146,
    150, 86, 87, 151, 85, 149, 148, 84, 156, 92, 93, 157, 95, 159, 158, 94, 90, 154, 155, 91,
    153, 89, 88, 152, 136, 72, 73, 137, 75, 139, 138, 74, 78, 142, 143, 79, 141, 77, 76, 140,
    68, 132, 133, 69, 135, 71, 70, 134, 130, 66, 67, 131, 65, 129, 128, 64>>

\* Mutant of CrcStep: the two halves are swapped.
CrcStepSwapped(crc, byte) ==
  LET index == Xor(crc[1], byte) + 1 IN <<Xor(crc[2], _auchCRCLo[index]), _auchCRCHi[index]>>

\* crc is <<crc_lo, crc_hi>>.
CrcStep(crc, byte) ==
  LET index == Xor(crc[1], byte) + 1 IN <<Xor(crc[2], _auchCRCHi[index]), _auchCRCLo[index]>>

CRC16(bytes) ==
  LET crc[i \in 0..Len(bytes)] ==
        IF i = 0 THEN <<255, 255>> ELSE CrcStep(crc[i - 1], bytes[i]) IN
  crc[Len(bytes)]

\* _AppendChecksum
Sealed(bytes) == bytes \o CRC16(bytes)

\* Mutant of _IsChecksumOK: every frame passes.
_IsChecksumSkipped(frame) == Len(frame) > 2

_IsChecksumOK(frame) == Sealed(SubSeq(frame, 1, Len(frame) - 2)) = frame
-----------------------------------------------------------------------------
(* Replies. *)

\* MODBUS_RESULT_EXCEPTION_ILLEGAL_DATA_ADDRESS
IllegalAddress == 2

_SendErrorReply(fn, code) == Sealed(<<Address, fn + 128, code>>)
_SendSuccessReply(fn, first, count) == Sealed(<<Address, fn>> \o Word(first) \o Word(count))

_SendDataReply(fn, payload) == Sealed(<<Address, fn, Len(payload) % 256>> \o payload)

\* The reply to a query for bits, when one of them is there at least.
BitsReply(fn, bits, first, count) ==
  LET on == {i \in 0..count - 1 : first + i \in DOMAIN bits /\ bits[first + i]} IN
  IF \E i \in 0..count - 1 : first + i \in DOMAIN bits
  THEN _SendDataReply(fn, PackedAll(on, count))
  ELSE _SendErrorReply(fn, IF count = 0 THEN 0 ELSE IllegalAddress)

RegistersReply(fn, ain, first, count) ==
  LET word(i) == Word(IF first + i \in DOMAIN ain THEN ain[first + i] ELSE 0) IN
  IF \E i \in 0..count - 1 : first + i \in DOMAIN ain
  THEN _SendDataReply(fn, [k \in 1..2 * count |-> word((k - 1) \div 2)[1 + ((k - 1) % 2)]])
  ELSE _SendErrorReply(fn, IF count = 0 THEN 0 ELSE IllegalAddress)

\* Datastore_WriteSingleCoil
WriteCoil(regs, at, value) ==
  IF at \in DOMAIN regs.dout THEN [regs EXCEPT !.dout[at] = value] ELSE regs

\* The coils of FUNCTION_WRITE_MULTIPLE_COILS that the payload has a bit for.
GivenCoils(frame) == {i \in 0..UInt16(frame, 5) - 1 : i < 8 * frame[7]}

WriteCoils(regs, frame) ==
  LET first == UInt16(frame, 3) IN
  [regs EXCEPT !.dout = [c \in DOMAIN @ |->
     IF c - first \in GivenCoils(frame)
     THEN IsSet(frame[8 + (c - first) \div 8], (c - first) % 8) ELSE @[c]]]
-----------------------------------------------------------------------------
(* What becomes of a whole frame with a good checksum. *)

ReadFns == {1, 2, 3, 4}
WriteFns == {5, 6, 15, 16}

Written(regs, frame) ==
  CASE frame[2] = 5 -> WriteCoil(regs, UInt16(frame, 3), UInt16(frame, 5) # 0)
    [] frame[2] = 15 -> WriteCoils(regs, frame)
    [] OTHER -> regs

Reply(regs, frame) ==
  LET fn == frame[2]  first == UInt16(frame, 3)  count == UInt16(frame, 5) IN
  CASE fn = 1 -> BitsReply(fn, regs.dout, first, count)
    [] fn = 2 -> BitsReply(fn, regs.din, first, count)
    [] fn \in {3, 4} -> RegistersReply(fn, regs.ain, first, count)
    [] fn = 5 -> IF first \in DOMAIN regs.dout THEN frame ELSE _SendErrorReply(fn, IllegalAddress)
    [] fn = 15 -> IF \E i \in GivenCoils(frame) : first + i \in DOMAIN regs.dout
                  THEN _SendSuccessReply(fn, first, count)
                  ELSE _SendErrorReply(fn, IF GivenCoils(frame) = {} THEN 0 ELSE IllegalAddress)
    [] fn \in {6, 16} -> _SendErrorReply(fn, IF fn = 16 /\ count = 0 THEN 0 ELSE IllegalAddress)

\* The size of the frame at the head of bytes, 0 when there are too few to tell
\* and -1 when the function is unknown.
ExpectedSize(bytes) ==
  IF Len(bytes) < 4 THEN 0
  ELSE CASE bytes[2] \in {1, 2, 3, 4, 5, 6} -> 8
         [] bytes[2] = 15 -> IF Len(bytes) >= 10 THEN 9 + bytes[7] ELSE 0
         [] bytes[2] = 16 -> IF Len(bytes) >= 8 THEN 9 + bytes[7] ELSE 0
         [] OTHER -> -1

\* The slave has bytes to look at, a register image, a reply so far and the frames
\* it obeyed.
Obeyed(s, frame) ==
  IF frame[1] = Address /\ _IsChecksumOK(frame)
  THEN [s EXCEPT !.regs = Written(@, frame), !.out = @ \o Reply(s.regs, frame),
                 !.done = Append(@, frame)]
  ELSE s

Processed(s, size) ==
  IF size = -1 THEN [s EXCEPT !.buf = <<>>]
  ELSE IF size = 0 \/ Len(s.buf) < size THEN s
  ELSE Obeyed([s EXCEPT !.buf = SubSeq(@, size + 1, Len(@))], SubSeq(s.buf, 1, size))

\* One call: an unknown function spoils all the input, a frame for another device or
\* with a bad checksum is skipped without a reply.
_ProcessReceivedData(s) == Processed(s, ExpectedSize(s.buf))
=============================================================================
