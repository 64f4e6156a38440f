------------------------------- MODULE FlashCrc -------------------------------
(***************************************************************************)
(* The CRC that protects packets, Slot A and the external flash:           *)
(* g_update_crc, g_CRC_calc and g_CRC_calc_continue of Core/Src/main.c,    *)
(* and calculate_flash_crc of Post.c, which carries the CRC from one chunk *)
(* of the external flash to the next in a buffer that outlives the call.   *)
(* The models of the protocols take the CRC of an image to be the image;   *)
(* this one says how far the sixteen bits bear that out.                   *)
(*                                                                         *)
(* EvenPolynomial and FullChunks are slips in the definition after them.   *)
(***************************************************************************)
EXTENDS Integers, FiniteSetsExt, SequencesExt

CONSTANTS
  Byte,             \* the values of a byte
  FlashSize,        \* bytes of the flash
  CHUNK_SIZE,       \* 1024
  Bursts            \* the shapes of a disturbance: bit offsets within 0 .. 15

CrcAssumption ==
  /\ {} \in Byte /\ \A byte \in Byte : byte \subseteq 0 .. 7
  /\ FlashSize \in Nat /\ CHUNK_SIZE \in Nat \ {0}
  /\ \A burst \in Bursts : burst # {} /\ burst \subseteq 0 .. 15

-----------------------------------------------------------------------------
(* A uint8_t or a uint16_t is the set of its bits that are 1: ^ is SymDiff *)
(* and << 1 adds one to each; what is 16 then is lost when the result is   *)
(* stored.                                                                 *)

EvenPolynomial(crc, i) ==
  LET shifted == {k + 1 : k \in crc}
  IN  (IF 15 \in crc THEN SymDiff(shifted, {12, 5}) ELSE shifted) \cap 0 .. 15
ShiftBit(crc, i) ==
  LET shifted == {k + 1 : k \in crc}
  IN  (IF 15 \in crc THEN SymDiff(shifted, {12, 5, 0}) ELSE shifted) \cap 0 .. 15

g_update_crc(crc, data) ==
  FoldLeft(ShiftBit, SymDiff(crc, {k + 8 : k \in data}), <<0, 1, 2, 3, 4, 5, 6, 7>>)

g_CRC_calc_continue(bytes, crc) == FoldLeft(g_update_crc, crc, bytes)
g_CRC_calc(bytes) == g_CRC_calc_continue(bytes, 0 .. 15)

-----------------------------------------------------------------------------
(* The definition it is measured by: the remainder of the message, with    *)
(* 1s added to its first sixteen bits, by x^16 + x^12 + x^5 + 1.           *)
(* A polynomial over the integers mod 2 is the set of its exponents.       *)

Cancel(p, d) == IF d \in p THEN SymDiff(p, {d, d - 4, d - 11, d - 16}) ELSE p
Downto16(n) == [k \in 1 .. (n - 15) |-> n - (k - 1)]
Remainder(p, degree) == FoldLeft(Cancel, p, Downto16(degree))

Message(bytes) ==
  UNION {{8 * (Len(bytes) - k) + 16 + b : b \in bytes[k]} : k \in DOMAIN bytes}
Preset(n) == {8 * n + k : k \in 0 .. 15}
CrcOf(bytes) ==
  Remainder(SymDiff(Message(bytes), Preset(Len(bytes))), 8 * Len(bytes) + 15)

-----------------------------------------------------------------------------

VARIABLES
  flash,            \* what SerialFlash_ReadByte returns: bytes by address
  pc,               \* "idle", "reading", "done"
  start, size,      \* the arguments of the call
  addr, remaining, crc, buffer,
  before            \* ghost: what an earlier call with these arguments
                    \* returned before the flash was disturbed, if any

vars == <<flash, pc, start, size, addr, remaining, crc, buffer, before>>

Init ==
  /\ flash \in [0 .. (FlashSize - 1) -> Byte]
  /\ pc = "idle" /\ start = 0 /\ size = 0
  /\ addr = 0 /\ remaining = 0 /\ crc = {} /\ before = <<>>
  /\ buffer = [k \in 1 .. CHUNK_SIZE |-> {}]

Call(first, count) ==
  /\ pc = "idle"
  /\ pc' = "reading"
  /\ start' = first /\ size' = count
  /\ addr' = first /\ remaining' = count /\ crc' = 0 .. 15
  /\ UNCHANGED <<flash, buffer, before>>

FullChunks(rest) == CHUNK_SIZE
ChunkSize(rest) == IF rest > CHUNK_SIZE THEN CHUNK_SIZE ELSE rest

NextChunk ==
  /\ pc = "reading" /\ remaining > 0
  /\ LET n == ChunkSize(remaining)
     IN /\ buffer' = [k \in 1 .. CHUNK_SIZE |->
                        IF k <= n /\ addr + (k - 1) \in DOMAIN flash
                          THEN flash[addr + (k - 1)] ELSE buffer[k]]
        /\ crc' = g_CRC_calc_continue(SubSeq(buffer', 1, n), crc)
        /\ addr' = addr + n
        /\ remaining' = remaining - n
  /\ UNCHANGED <<flash, pc, start, size, before>>

Return ==
  /\ pc = "reading" /\ ~(remaining > 0)
  /\ pc' = "done"
  /\ UNCHANGED <<flash, start, size, addr, remaining, crc, buffer, before>>

(* Sixteen neighbouring bits of what was read, or fewer, go over; then     *)
(* the same call is made again.                                            *)
BitsOf(a, disturbance) == {b \in 0 .. 7 : 8 * (start + size - 1 - a) + b \in disturbance}
Disturb ==
  /\ pc = "done" /\ before = <<>>
  /\ \E lowest \in 0 .. (8 * size - 1), burst \in Bursts :
       LET disturbance == {lowest + k : k \in burst}
       IN /\ disturbance \subseteq 0 .. (8 * size - 1)
          /\ flash' = [a \in DOMAIN flash |->
               IF a \in start .. (start + size - 1)
                 THEN SymDiff(flash[a], BitsOf(a, disturbance))
                 ELSE flash[a]]
  /\ pc' = "reading" /\ before' = <<crc>>
  /\ addr' = start /\ remaining' = size /\ crc' = 0 .. 15
  /\ UNCHANGED <<start, size, buffer>>

Next ==
  \/ \E first \in 0 .. FlashSize, count \in 0 .. FlashSize :
       first + count <= FlashSize /\ Call(first, count)
  \/ NextChunk \/ Return \/ Disturb

Spec == Init /\ [][Next]_vars

-----------------------------------------------------------------------------

(* calculate_flash_crc returns the CRC of the bytes it was asked for,      *)
(* those and no others, and the same as g_CRC_calc over them in one piece: *)
(* at no byte, one, less than a chunk, whole chunks, a rest (Post.c:62).   *)
FlashCrcIsRemainder ==
  pc = "done" =>
    LET bytes == [k \in 1 .. size |-> flash[start + k - 1]]
    IN crc = g_CRC_calc(bytes) /\ crc = CrcOf(bytes)

(* An image that differs from the one that was measured in neighbouring    *)
(* bits, sixteen at most, does not have its CRC.                           *)
BurstIsNoticed == pc = "done" => before # <<crc>>
=============================================================================
