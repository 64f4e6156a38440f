------------------------------- MODULE ExtFlash -------------------------------
(***************************************************************************)
(* The external flash: the handlers of EXT_FLASH_ERASE, SEND_TP_PKT_ID,    *)
(* EXT_FLASH_CRC and READ_EXT_FLASH in Core/Src/main.c over the driver     *)
(* Core/Src/s25FL512S.c, with power cuts between and during the driver's   *)
(* operations, operations the chip does not carry out, and operations it   *)
(* never finishes.                                                         *)
(*                                                                         *)
(* The flash is counted in bytes.  The CRC of the test points is what they *)
(* contain; its two bytes are its two halves.                              *)
(*                                                                         *)
(* LastByteBlank, Unverified, VersionFirst, VersionReadsBack and           *)
(* NoWatchdog are slips in the operator that follows each; no step uses    *)
(* them.                                                                   *)
(***************************************************************************)
EXTENDS Integers, Sequences, FiniteSets

CONSTANTS
  LastTest,             \* highest FTU_Test_No (999)
  TESTPOINT_SLOT_SIZE,  \* bytes set aside for a test point (2048)
  RecordBytes,          \* sizeof(TestPoint_main) (68)
  SECTOR_SIZE, CrcSector, \* bytes of a sector; the one of CRC and version (20)
  VerifyBytes,          \* bytes EXT_FLASH_ERASE looks at (256)
  Records,              \* what a test point packet can contain, the CRC
                        \* field zeroed
  Blank, Torn,          \* 0xFF; the result of an interrupted operation
  VersionLo, VersionHi, \* EXT_FLASH_VERSION (0xE00)
  MaxSpoilt,            \* bytes an interrupted operation changes, at most
  MaxFaults             \* faults explored: cuts, ignored and endless operations

ASSUME SizesAssumption ==
  /\ LastTest \in Nat /\ RecordBytes \in Nat \ {0}
  /\ TESTPOINT_SLOT_SIZE \in Nat /\ RecordBytes <= TESTPOINT_SLOT_SIZE
  /\ CrcSector \in Nat /\ SECTOR_SIZE \in Nat /\ 4 <= SECTOR_SIZE
  /\ (LastTest + 1) * TESTPOINT_SLOT_SIZE <= CrcSector * SECTOR_SIZE
  /\ VerifyBytes \in 0 .. SECTOR_SIZE
  /\ MaxSpoilt \in Nat /\ MaxFaults \in Nat
ASSUME ValuesAssumption ==
  /\ Blank # Torn /\ Torn \notin {VersionLo, VersionHi}
  /\ Blank \notin {VersionLo, VersionHi}
  /\ \A r \in Records : /\ r \in Seq({r[k] : k \in DOMAIN r}) /\ Len(r) = RecordBytes
                        /\ r[1] # Blank
                        /\ \A k \in DOMAIN r : r[k] # Torn

Tests == 0 .. LastTest
TestBytes == 0 .. ((LastTest + 1) * TESTPOINT_SLOT_SIZE - 1)
Bytes == 0 .. ((CrcSector + 1) * SECTOR_SIZE - 1)
Sector(s) == {b \in Bytes : s * SECTOR_SIZE <= b /\ b < (s + 1) * SECTOR_SIZE}

Address(t) == t * TESTPOINT_SLOT_SIZE
CrcAddress == CrcSector * SECTOR_SIZE

(* What a byte of a test point can be; the CRC over all of them, whose two *)
(* bytes are its halves.  A half of 0xFF, or one that looks like what an   *)
(* interrupted operation leaves, is outside of this model.                 *)
PacketBytes == UNION {{r[k] : k \in DOMAIN r} : r \in Records}
Contents == [TestBytes -> PacketBytes \cup {Blank, Torn}]
Half(which, crc) == <<which, crc>>

ASSUME HalvesAssumption ==
  \A crc \in Contents : {Blank, Torn} \cap {Half("lo", crc), Half("hi", crc)} = {}

VARIABLES
  ext,                  \* contents of the flash
  pc, i,                \* the handler that runs; its loop index
  test, serializedData, \* SEND_TP_PKT_ID: FTU_Test_No and packet
  ExternalFlashCRC,     \* EXT_FLASH_CRC: the CRC it computed
  reply,                \* the latest reply
  acked,                \* ghost: what was acknowledged for each test point
                        \* since the erase of its sector
  faults, ignored,      \* ghost: faults so far; whether the chip ignored
                        \* an operation
  eraseCut              \* ghost: the latest erase of the CRC sector was cut
                        \* short

local == <<i, test, serializedData, ExternalFlashCRC>>
mishaps == <<faults, ignored, eraseCut>>
vars == <<ext, pc, local, reply, acked, mishaps>>

Stored(t) == [k \in 1 .. RecordBytes |-> ext[Address(t) + k - 1]]

(* calculate_flash_crc(0, 1000 * 2048).                                    *)
FlashCrc == [b \in TestBytes |-> ext[b]]

None == <<>>

Init ==
  /\ ext = [b \in Bytes |-> Blank]
  /\ pc = "idle" /\ i = 0 /\ test = 0
  /\ serializedData = None /\ ExternalFlashCRC = None
  /\ reply = "none" /\ acked = [t \in Tests |-> None] /\ faults = 0
  /\ ignored = FALSE /\ eraseCut = FALSE

-----------------------------------------------------------------------------
(* The chip.  A byte that is programmed twice keeps the zeros of both.     *)

Programmed(old, byte) == IF old \in {Blank, byte} THEN byte ELSE Torn

Fault == faults < MaxFaults /\ faults' = faults + 1
Ignore == Fault /\ ignored' = TRUE /\ UNCHANGED <<ext, eraseCut>>

WriteByte(b, byte) ==
  \/ ext' = [ext EXCEPT ![b] = Programmed(@, byte)] /\ UNCHANGED mishaps
  \/ Ignore

EraseSector(s) ==
  \/ /\ ext' = [b \in Bytes |-> IF b \in Sector(s) THEN Blank ELSE ext[b]]
     /\ eraseCut' = (eraseCut /\ s # CrcSector) /\ UNCHANGED <<faults, ignored>>
  \/ Ignore

(* What an operation leaves that is cut short: of a sector that was to be  *)
(* erased, each byte as it was, spoiled, or erased already.                *)
Spoil(bytes, values) ==
  \E lost \in {l \in SUBSET bytes : Cardinality(l) <= MaxSpoilt} :
    \E to \in [lost -> values] :
      ext' = [b \in Bytes |-> IF b \in lost THEN to[b] ELSE ext[b]]

Reply(answer) ==
  /\ pc' = "idle" /\ reply' = answer
  /\ i' = 0 /\ test' = 0 /\ serializedData' = None /\ ExternalFlashCRC' = None

Call(handler) == pc = "idle" /\ pc' = handler /\ reply' = "none" /\ i' = 0

(* A packet turned away before the flash is touched: CRC_CHECK_FAIL,       *)
(* INVALID_MSG_ID, TP_NUMBER_INVALID, INVALID_PACKET_SIZE,                 *)
(* INVALID_START_MSG or INVALID_END_MSG.                                   *)
Reject ==
  /\ pc = "idle"
  /\ reply' = "refused"
  /\ UNCHANGED <<ext, pc, local, acked, mishaps>>

-----------------------------------------------------------------------------
(* EXT_FLASH_ERASE: sector 0, then a look at its first bytes.              *)

BeginErase ==
  /\ Call("erase")
  /\ acked' = [t \in Tests |-> IF Address(t) \in Sector(0) THEN None ELSE acked[t]]
  /\ UNCHANGED <<ext, test, serializedData, ExternalFlashCRC, mishaps>>

Erase ==
  /\ pc = "erase" /\ pc' = "eraseVerify"
  /\ EraseSector(0)
  /\ UNCHANGED <<local, reply, acked>>

VerifyErase ==
  /\ pc = "eraseVerify"
  /\ IF \A b \in 0 .. (VerifyBytes - 1) : ext[b] = Blank
       THEN Reply("EXT_FLASH_ERASE_SUCESS")
       ELSE Reply("EXT_FLASH_ERASE_FAIL")
  /\ UNCHANGED <<ext, acked, mishaps>>

-----------------------------------------------------------------------------
(* SEND_TP_PKT_ID: write into blank bytes only, read back, acknowledge.    *)

LastByteBlank(t) == Stored(t)[RecordBytes] = Blank
isFlashEmpty(t) == \A k \in 1 .. RecordBytes : Stored(t)[k] = Blank

BeginTestPoint(t, r) ==
  /\ Call("write")
  /\ isFlashEmpty(t)
  /\ test' = t /\ serializedData' = r
  /\ UNCHANGED <<ext, ExternalFlashCRC, acked, mishaps>>

TestPointTaken(t) ==
  /\ pc = "idle" /\ ~isFlashEmpty(t)
  /\ reply' = "EXT_FLASH_NOT_EMPTY"
  /\ UNCHANGED <<ext, pc, local, acked, mishaps>>

WriteTestPoint ==
  /\ pc = "write" /\ i < RecordBytes
  /\ WriteByte(Address(test) + i, serializedData[i + 1])
  /\ i' = i + 1
  /\ UNCHANGED <<pc, test, serializedData, ExternalFlashCRC, reply, acked>>

Unverified(t, r) == TRUE
ReadsBack(t, r) == Stored(t) = r

(* The CRC of the packet takes the place of the status, in the same byte   *)
(* of the buffer: the two answers differ in their CRC alone.               *)
AnswerTestPoint ==
  /\ pc = "write" /\ i = RecordBytes
  /\ IF ReadsBack(test, serializedData)
       THEN /\ Reply("ACK_TP_PKT_ID 0")
            /\ acked' = [acked EXCEPT ![test] = serializedData]
       ELSE Reply("ACK_TP_PKT_ID 1") /\ UNCHANGED acked
  /\ UNCHANGED <<ext, mishaps>>

-----------------------------------------------------------------------------
(* EXT_FLASH_CRC: measure the test points, then erase the CRC sector and   *)
(* write CRC and version, in this order.                                   *)

BeginCrc ==
  /\ Call("crcErase")
  /\ ExternalFlashCRC' = FlashCrc
  /\ UNCHANGED <<ext, test, serializedData, acked, mishaps>>

EraseCrc ==
  /\ pc = "crcErase" /\ pc' = "crcWrite"
  /\ EraseSector(CrcSector)
  /\ UNCHANGED <<local, reply, acked>>

CrcRecord(crc) == <<Half("lo", crc), Half("hi", crc), VersionLo, VersionHi>>
CrcBytes == [k \in 1 .. 4 |-> ext[CrcAddress + k - 1]]

VersionFirst(k) == (k + 2) % 4
InOrder(k) == k

WriteCrc ==
  /\ pc = "crcWrite" /\ i < 4
  /\ WriteByte(CrcAddress + InOrder(i), CrcRecord(ExternalFlashCRC)[InOrder(i) + 1])
  /\ i' = i + 1
  /\ UNCHANGED <<pc, test, serializedData, ExternalFlashCRC, reply, acked>>

VersionReadsBack(crc) == CrcBytes[3] = VersionLo /\ CrcBytes[4] = VersionHi
CrcReadsBack(crc) == CrcBytes = CrcRecord(crc)

AnswerCrc ==
  /\ pc = "crcWrite" /\ i = 4
  /\ IF CrcReadsBack(ExternalFlashCRC)
       THEN Reply("EXT_FLASH_CRC_TX") ELSE Reply("EXT_FLASH_ERASE_FAIL")
  /\ UNCHANGED <<ext, acked, mishaps>>

-----------------------------------------------------------------------------
(* READ_EXT_FLASH: any test number; the record as it stands, or 1001.      *)

ReadTestPoint(t) ==
  /\ pc = "idle"
  /\ reply' = IF isFlashEmpty(t) THEN "READ_EXT_FLASH_DATA 1001"
                                 ELSE "READ_EXT_FLASH_DATA"
  /\ UNCHANGED <<ext, pc, local, acked, mishaps>>

-----------------------------------------------------------------------------
(* What can go wrong.                                                      *)

AtRisk == CASE pc = "erase"    -> Sector(0)
            [] pc = "crcErase" -> Sector(CrcSector)
            [] pc = "write" /\ i < RecordBytes -> {Address(test) + i}
            [] pc = "crcWrite" /\ i < 4        -> {CrcAddress + InOrder(i)}
            [] OTHER -> {}

Interrupted ==
  /\ Fault
  /\ Spoil(AtRisk, IF pc \in {"erase", "crcErase"} THEN {Torn, Blank} ELSE {Torn})
  /\ eraseCut' = (eraseCut \/ pc = "crcErase")
  /\ UNCHANGED <<acked, ignored>>

(* SerialFlash_IsWriteBusy keeps saying yes.                               *)
StaysBusy ==
  /\ AtRisk # {} /\ Interrupted
  /\ pc' = "hang"
  /\ UNCHANGED <<local, reply>>

Restart == /\ pc' = "idle" /\ reply' = "none" /\ i' = 0 /\ test' = 0
           /\ serializedData' = None /\ ExternalFlashCRC' = None

PowerCycle == Interrupted /\ Restart

NoWatchdog == FALSE
WatchdogReset ==
  /\ pc = "hang"
  /\ Restart /\ UNCHANGED <<ext, acked, mishaps>>

Handler == Erase \/ VerifyErase \/ WriteTestPoint \/ AnswerTestPoint
             \/ EraseCrc \/ WriteCrc \/ AnswerCrc

Command ==
  \/ Reject \/ BeginErase \/ BeginCrc
  \/ \E t \in Tests : \/ \E r \in Records : BeginTestPoint(t, r)
                      \/ TestPointTaken(t) \/ ReadTestPoint(t)

Next == Command \/ Handler \/ StaysBusy \/ PowerCycle \/ WatchdogReset

Spec == Init /\ [][Next]_vars

(* main goes on with a handler it has begun; the watchdog runs always.     *)
FairSpec == Spec /\ WF_vars(Handler) /\ WF_vars(WatchdogReset)

-----------------------------------------------------------------------------

(* A test point that was acknowledged reads back as it was sent until the  *)
(* host erases its sector, whatever else is written, ignored, cut short or *)
(* retried.                                                                *)
AckedStaysReadable ==
  \A t \in Tests : acked[t] # None => Stored(t) = acked[t]

(* A byte of a test point that holds something is changed by               *)
(* EXT_FLASH_ERASE only; outside sector 0, never.                          *)
TestPointsWrittenOnce ==
  [][\A b \in TestBytes :
       ext[b] # Blank /\ ext'[b] # ext[b] => pc = "erase" /\ b \in Sector(0)]_vars

(* The EXT_FLASH_CRC reply: CRC and version are in flash, and the CRC is   *)
(* that of the test points as they stand.                                  *)
CrcReplyMeansStored ==
  reply = "EXT_FLASH_CRC_TX" => CrcBytes = CrcRecord(FlashCrc)

(* As long as the chip does what it is told, a version that POST accepts   *)
(* stands next to the two halves of one CRC, wherever in the four writes,  *)
(* before or after them the power was cut (main.c:1114-1130).  Only an     *)
(* erase of the sector that was itself cut short can leave the version and *)
(* take the CRC, or a part of it; even then two CRCs are never mixed.      *)
Written(byte) == byte \notin {Blank, Torn}
VersionComesLast ==
  ~ignored /\ CrcBytes[3] = VersionLo /\ CrcBytes[4] = VersionHi =>
    /\ eraseCut \/ (Written(CrcBytes[1]) /\ Written(CrcBytes[2]))
    /\ Written(CrcBytes[1]) /\ Written(CrcBytes[2]) => CrcBytes[1][2] = CrcBytes[2][2]

(* Whatever the chip does, main gets back to the host.                     *)
KeepsServing == []<>(pc = "idle")
=============================================================================
