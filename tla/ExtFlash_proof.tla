---------------------------- MODULE ExtFlash_proof ----------------------------
(***************************************************************************)
(* What ExtFlash promises, for any number of test points, any size of      *)
(* packets and sectors, and any number of faults.                          *)
(*                                                                         *)
(* The argument is about which bytes a step can change at all: those at    *)
(* risk in the handler that runs.  Everything else follows from who can be *)
(* at risk when.                                                           *)
(***************************************************************************)
EXTENDS ExtFlash, TLAPS

Record(t) == {Address(t) + k : k \in 0 .. (RecordBytes - 1)}
CrcField == {CrcAddress + k : k \in 0 .. 3}
AnyByte == PacketBytes \cup {Blank, Torn, VersionLo, VersionHi}
             \cup {Half(which, crc) : which \in {"lo", "hi"}, crc \in Contents}

TypeInv ==
  /\ ext \in [Bytes -> AnyByte]
  /\ \A b \in TestBytes : ext[b] \in PacketBytes \cup {Blank, Torn}
  /\ pc \in {"idle", "erase", "eraseVerify", "write", "crcErase", "crcWrite", "hang"}
  /\ i \in Nat /\ test \in Tests
  /\ acked \in [Tests -> Records \cup {None}]
  /\ pc = "write" => i <= RecordBytes /\ serializedData \in Records
  /\ pc = "crcErase" => i = 0
  /\ pc = "crcWrite" => i <= 4

(* Nothing is said while a handler runs.                                   *)
QuietInv == pc # "idle" => reply = "none"

(* EXT_FLASH_ERASE has been given up what it is about to erase.            *)
EraseInv ==
  pc = "erase" => \A t \in Tests : Address(t) \in Sector(0) => acked[t] = None

(* What a test point packet goes to has nothing in it yet.                 *)
WriteInv ==
  pc = "write" =>
    /\ acked[test] = None
    /\ \A k \in i .. (RecordBytes - 1) : ext[Address(test) + k] = Blank

(* The CRC is written as long as it is that of the test points, and unless *)
(* the chip has ignored something, behind the bytes written it is blank.   *)
CrcInv ==
  /\ pc \in {"crcErase", "crcWrite"} => ExternalFlashCRC = FlashCrc
  /\ pc = "crcWrite" /\ ~ignored =>
       \A k \in 1 .. 4 : CrcBytes[k] = IF k <= i THEN CrcRecord(ExternalFlashCRC)[k]
                                                 ELSE Blank

IInv ==
  /\ TypeInv /\ QuietInv /\ EraseInv /\ WriteInv /\ CrcInv
  /\ AckedStaysReadable /\ CrcReplyMeansStored /\ VersionComesLast

-----------------------------------------------------------------------------
(* The layout of the flash.                                                *)

LEMMA Sizes ==
  /\ LastTest \in Nat /\ RecordBytes \in Nat \ {0} /\ SECTOR_SIZE \in Nat \ {0}
  /\ TESTPOINT_SLOT_SIZE \in Nat /\ RecordBytes <= TESTPOINT_SLOT_SIZE
  /\ CrcAddress \in Nat /\ (LastTest + 1) * TESTPOINT_SLOT_SIZE \in Nat
  /\ (LastTest + 1) * TESTPOINT_SLOT_SIZE <= CrcAddress
  /\ Bytes = 0 .. (CrcAddress + SECTOR_SIZE - 1)
  /\ 4 <= SECTOR_SIZE /\ CrcSector \in Nat
<1>1. /\ LastTest \in Nat /\ RecordBytes \in Nat \ {0} /\ SECTOR_SIZE \in Nat \ {0}
      /\ TESTPOINT_SLOT_SIZE \in Nat /\ RecordBytes <= TESTPOINT_SLOT_SIZE
      /\ CrcSector \in Nat /\ 4 <= SECTOR_SIZE
      /\ (LastTest + 1) * TESTPOINT_SLOT_SIZE <= CrcSector * SECTOR_SIZE
  BY SizesAssumption
<1>2. CrcSector * SECTOR_SIZE \in Nat /\ (LastTest + 1) * TESTPOINT_SLOT_SIZE \in Nat
  BY <1>1
<1>3. (CrcSector + 1) * SECTOR_SIZE = CrcSector * SECTOR_SIZE + SECTOR_SIZE
  BY <1>1
<1> QED
  BY <1>1, <1>2, <1>3 DEF CrcAddress, Bytes

(* Test points lie one behind the other.                                   *)
LEMMA Slots ==
  ASSUME NEW t \in Tests
  PROVE  /\ Address(t) \in Nat
         /\ Address(t) + TESTPOINT_SLOT_SIZE <= (LastTest + 1) * TESTPOINT_SLOT_SIZE
         /\ \A u \in Tests : t < u => Address(t) + TESTPOINT_SLOT_SIZE <= Address(u)
<1>1. t \in Nat /\ t <= LastTest /\ TESTPOINT_SLOT_SIZE \in Nat /\ LastTest \in Nat
  BY Sizes DEF Tests
<1>2. ASSUME NEW m \in Nat, NEW n \in Nat, m < n
      PROVE  m * TESTPOINT_SLOT_SIZE + TESTPOINT_SLOT_SIZE <= n * TESTPOINT_SLOT_SIZE
  <2>1. PICK d \in Nat : n = m + 1 + d
    <3>1. n - (m + 1) \in Nat /\ n = m + 1 + (n - (m + 1))
      BY <1>2
    <3> QED
      BY <3>1
  <2>2. n * TESTPOINT_SLOT_SIZE
          = m * TESTPOINT_SLOT_SIZE + TESTPOINT_SLOT_SIZE + d * TESTPOINT_SLOT_SIZE
    BY <1>1, <2>1
  <2>3. d * TESTPOINT_SLOT_SIZE \in Nat /\ m * TESTPOINT_SLOT_SIZE \in Nat
    BY <1>1
  <2> QED
    BY <1>1, <2>2, <2>3
<1>3. t * TESTPOINT_SLOT_SIZE \in Nat
  BY <1>1
<1>4. LastTest + 1 \in Nat /\ t < LastTest + 1
  BY <1>1
<1>5. \A u \in Tests : u \in Nat
  BY Sizes DEF Tests
<1> QED
  BY <1>1, <1>2, <1>3, <1>4, <1>5 DEF Address

LEMMA Records1 ==
  ASSUME NEW t \in Tests, NEW k \in 0 .. (RecordBytes - 1)
  PROVE  /\ Address(t) + k \in TestBytes /\ Address(t) + k \in Bytes
         /\ Address(t) + k \in Nat /\ Address(t) + k < CrcAddress
         /\ Address(t) + k \in Record(t)
BY Sizes, Slots DEF TestBytes, Record

LEMMA RecordsApart ==
  ASSUME NEW t \in Tests, NEW u \in Tests, t # u
  PROVE  Record(t) \cap Record(u) = {}
<1>1. ASSUME NEW v \in Tests, NEW w \in Tests, v < w,
             NEW j \in 0 .. (RecordBytes - 1), NEW k \in 0 .. (RecordBytes - 1)
      PROVE  Address(v) + j < Address(w) + k
  BY <1>1, Sizes, Slots
<1>2. t < u \/ u < t
  BY Sizes DEF Tests
<1>3. ASSUME NEW j \in 0 .. (RecordBytes - 1), NEW k \in 0 .. (RecordBytes - 1)
      PROVE  Address(t) + j # Address(u) + k
  <2>1. Address(t) \in Nat /\ Address(u) \in Nat
    BY Slots
  <2>2. Address(t) + j < Address(u) + k \/ Address(u) + k < Address(t) + j
    BY <1>1, <1>2
  <2> QED
    BY <2>1, <2>2, Sizes
<1> QED
  BY <1>3 DEF Record

LEMMA TestsBelowCrc ==
  /\ TestBytes \subseteq Bytes /\ CrcField \subseteq Bytes
  /\ Sector(CrcSector) \cap TestBytes = {} /\ CrcField \cap TestBytes = {}
  /\ CrcField \subseteq Sector(CrcSector)
<1>1. CrcSector * SECTOR_SIZE = CrcAddress
  BY DEF CrcAddress
<1>2. (CrcSector + 1) * SECTOR_SIZE = CrcAddress + SECTOR_SIZE
  BY Sizes DEF CrcAddress
<1> QED
  BY <1>1, <1>2, Sizes DEF TestBytes, CrcField, Sector

LEMMA FirstSector ==
  /\ Sector(0) = {b \in Bytes : b < SECTOR_SIZE}
  /\ Sector(0) \cap CrcField = {} /\ CrcSector # 0
<1>1. 0 * SECTOR_SIZE = 0 /\ (0 + 1) * SECTOR_SIZE = SECTOR_SIZE
  BY Sizes
<1>2. Sector(0) = {b \in Bytes : b < SECTOR_SIZE}
  BY <1>1, Sizes DEF Sector
<1>3. CrcSector # 0
  <2>1. ASSUME CrcSector = 0 PROVE FALSE
    <3>1. CrcAddress = 0
      BY <2>1, Sizes DEF CrcAddress
    <3>2. (LastTest + 1) * TESTPOINT_SLOT_SIZE > 0
      <4>1. LastTest + 1 \in Nat \ {0} /\ TESTPOINT_SLOT_SIZE \in Nat \ {0}
        BY Sizes
      <4> QED
        BY <4>1
    <3> QED
      BY <3>1, <3>2, Sizes
  <2> QED
    BY <2>1
<1>4. SECTOR_SIZE <= CrcAddress
  <2>1. PICK d \in Nat : CrcSector = d + 1
    <3>1. CrcSector - 1 \in Nat /\ CrcSector = (CrcSector - 1) + 1
      BY <1>3, Sizes
    <3> QED
      BY <3>1
  <2>2. CrcAddress = d * SECTOR_SIZE + SECTOR_SIZE /\ d * SECTOR_SIZE \in Nat
    BY <2>1, Sizes DEF CrcAddress
  <2> QED
    BY <2>2, Sizes
<1> QED
  BY <1>2, <1>3, <1>4, Sizes DEF CrcField

(* A record that begins behind the first sector has no byte in it.         *)
LEMMA RecordBehindFirstSector ==
  ASSUME NEW t \in Tests, Address(t) \notin Sector(0)
  PROVE  Record(t) \cap Sector(0) = {}
<1>1. Address(t) \in Bytes /\ Address(t) \in Nat
  <2>1. 0 \in 0 .. (RecordBytes - 1)
    BY Sizes
  <2> QED
    BY <2>1, Records1, Slots
<1>2. SECTOR_SIZE <= Address(t)
  BY <1>1, FirstSector, Sizes
<1> QED
  BY <1>1, <1>2, FirstSector, Sizes DEF Record

-----------------------------------------------------------------------------
(* Packets and bytes.                                                      *)

LEMMA PacketIsFunction ==
  ASSUME NEW r \in Records
  PROVE  /\ DOMAIN r = 1 .. RecordBytes /\ r = [k \in 1 .. RecordBytes |-> r[k]]
         /\ \A k \in 1 .. RecordBytes : r[k] \in PacketBytes
         /\ r[1] # Blank /\ r # None
<1>1. r \in Seq({r[k] : k \in DOMAIN r}) /\ Len(r) = RecordBytes /\ r[1] # Blank
  BY ValuesAssumption
<1>2. DOMAIN r = 1 .. RecordBytes /\ r = [k \in 1 .. RecordBytes |-> r[k]]
  BY <1>1
<1>3. r # None
  BY <1>1, Sizes DEF None
<1>4. \A k \in DOMAIN r : r[k] \in PacketBytes
  BY DEF PacketBytes
<1> QED
  BY <1>1, <1>2, <1>3, <1>4

LEMMA FlashCrcIsContents ==
  ASSUME TypeInv
  PROVE  FlashCrc \in Contents
BY DEF TypeInv, FlashCrc, Contents

-----------------------------------------------------------------------------
(* What a step can change in the flash.                                    *)

LEMMA RiskIn ==
  ASSUME TypeInv
  PROVE  /\ AtRisk \subseteq Bytes
         /\ pc = "write" => AtRisk \subseteq Record(test)
         /\ pc = "write" /\ i < RecordBytes => AtRisk = {Address(test) + i}
         /\ pc = "write" /\ ~(i < RecordBytes) => AtRisk = {}
         /\ pc = "crcWrite" => AtRisk \subseteq CrcField
         /\ pc = "crcWrite" /\ i < 4 => AtRisk = {CrcAddress + i}
         /\ pc = "crcWrite" /\ ~(i < 4) => AtRisk = {}
         /\ pc = "erase" => AtRisk = Sector(0)
         /\ pc = "crcErase" => AtRisk = Sector(CrcSector)
         /\ pc \notin {"erase", "crcErase", "write", "crcWrite"} => AtRisk = {}
<1>t. i \in Nat /\ test \in Tests /\ RecordBytes \in Nat
  BY Sizes DEF TypeInv
<1>1. CASE pc = "write" /\ i < RecordBytes
  <2>1. AtRisk = {Address(test) + i}
    BY <1>1 DEF AtRisk
  <2>2. i \in 0 .. (RecordBytes - 1)
    BY <1>t, <1>1
  <2>3. Address(test) + i \in Bytes /\ Address(test) + i \in Record(test)
    BY <1>t, <2>2, Records1
  <2> QED
    BY <1>1, <2>1, <2>3
<1>2. CASE pc = "write" /\ ~(i < RecordBytes)
  BY <1>2 DEF AtRisk
<1>3. CASE pc = "crcWrite" /\ i < 4
  <2>1. AtRisk = {CrcAddress + i}
    BY <1>3 DEF AtRisk, InOrder
  <2>2. CrcAddress + i \in CrcField
    BY <1>t, <1>3 DEF CrcField
  <2> QED
    BY <1>3, <2>1, <2>2, TestsBelowCrc
<1>4. CASE pc = "crcWrite" /\ ~(i < 4)
  BY <1>4 DEF AtRisk
<1>5. CASE pc = "erase"
  BY <1>5 DEF AtRisk, Sector
<1>6. CASE pc = "crcErase"
  BY <1>6 DEF AtRisk, Sector
<1>7. CASE pc \notin {"erase", "crcErase", "write", "crcWrite"}
  BY <1>7 DEF AtRisk
<1> QED
  BY <1>1, <1>2, <1>3, <1>4, <1>5, <1>6, <1>7

(* A cut leaves a byte as it was, spoils it, or has erased it already.     *)
LEMMA CutChanges ==
  ASSUME Interrupted
  PROVE  /\ DOMAIN ext' = Bytes
         /\ ext' = [b \in Bytes |-> ext'[b]]
         /\ \A b \in Bytes : \/ ext'[b] \in {ext[b], Torn}
                             \/ pc \in {"erase", "crcErase"} /\ ext'[b] = Blank
         /\ \A b \in Bytes \ AtRisk : ext'[b] = ext[b]
<1> DEFINE values == IF pc \in {"erase", "crcErase"} THEN {Torn, Blank} ELSE {Torn}
<1>1. PICK lost \in SUBSET AtRisk :
        \E to \in [lost -> values] :
          ext' = [b \in Bytes |-> IF b \in lost THEN to[b] ELSE ext[b]]
  BY DEF Interrupted, Spoil
<1>2. PICK to \in [lost -> values] :
        ext' = [b \in Bytes |-> IF b \in lost THEN to[b] ELSE ext[b]]
  BY <1>1
<1>3. \A b \in lost : to[b] \in values
  BY <1>2
<1>4. values \subseteq {Torn, Blank} /\ (pc \notin {"erase", "crcErase"} => values = {Torn})
  OBVIOUS
<1> HIDE DEF values
<1>5. ext' = [b \in Bytes |-> ext'[b]] /\ DOMAIN ext' = Bytes
  BY <1>2
<1>6. \A b \in Bytes : IF b \in lost THEN ext'[b] = to[b] ELSE ext'[b] = ext[b]
  BY <1>2
<1>7. ASSUME NEW b \in Bytes
      PROVE  \/ ext'[b] \in {ext[b], Torn}
             \/ pc \in {"erase", "crcErase"} /\ ext'[b] = Blank
  <2>1. ext'[b] = ext[b] \/ ext'[b] \in values
    BY <1>3, <1>6
  <2> QED
    BY <1>4, <2>1
<1>8. ASSUME NEW b \in Bytes \ AtRisk
      PROVE  ext'[b] = ext[b]
  <2>1. b \notin lost
    BY <1>1
  <2> QED
    BY <1>6, <2>1
<1> QED
  BY <1>5, <1>7, <1>8

(* No step changes more than what is at risk, and there it leaves what was *)
(* there, spoils it, erases it, or programs the byte the handler is at.    *)
LEMMA OnlyAtRisk ==
  ASSUME TypeInv, [Next]_vars
  PROVE  /\ ext' = [b \in Bytes |-> ext'[b]]
         /\ \A b \in Bytes \ AtRisk : ext'[b] = ext[b]
         /\ \A b \in AtRisk :
              \/ ext'[b] \in {ext[b], Torn}
              \/ pc \in {"erase", "crcErase"} /\ ext'[b] = Blank
              \/ pc = "write" /\ i < RecordBytes /\ ext'[b] = serializedData[i + 1]
              \/ pc = "crcWrite" /\ i < 4 /\ ext'[b] = CrcRecord(ExternalFlashCRC)[i + 1]
<1>t. ext = [b \in Bytes |-> ext[b]] /\ DOMAIN ext = Bytes
  BY DEF TypeInv
<1>1. CASE UNCHANGED ext
  BY <1>t, <1>1, RiskIn
<1>2. CASE Interrupted
  BY <1>2, RiskIn, CutChanges
<1>3. CASE Erase
  <2>1. pc = "erase" /\ AtRisk = Sector(0)
    BY <1>3, RiskIn DEF Erase
  <2>2. \/ UNCHANGED ext
        \/ ext' = [b \in Bytes |-> IF b \in Sector(0) THEN Blank ELSE ext[b]]
    BY <1>3 DEF Erase, EraseSector, Ignore
  <2> QED
    BY <1>1, <2>1, <2>2, RiskIn
<1>4. CASE EraseCrc
  <2>1. pc = "crcErase" /\ AtRisk = Sector(CrcSector)
    BY <1>4, RiskIn DEF EraseCrc
  <2>2. \/ UNCHANGED ext
        \/ ext' = [b \in Bytes |-> IF b \in Sector(CrcSector) THEN Blank ELSE ext[b]]
    BY <1>4 DEF EraseCrc, EraseSector, Ignore
  <2> QED
    BY <1>1, <2>1, <2>2, RiskIn
<1>5. ASSUME NEW b \in Bytes, NEW byte, AtRisk = {b},
             ext' = [ext EXCEPT ![b] = Programmed(@, byte)]
      PROVE  /\ ext' = [c \in Bytes |-> ext'[c]]
             /\ \A c \in Bytes \ AtRisk : ext'[c] = ext[c]
             /\ \A c \in AtRisk : ext'[c] \in {byte, Torn}
  BY <1>t, <1>5 DEF Programmed
<1>6. CASE WriteTestPoint
  <2>1. pc = "write" /\ i < RecordBytes /\ AtRisk = {Address(test) + i}
    BY <1>6, RiskIn DEF WriteTestPoint
  <2>2. Address(test) + i \in Bytes
    BY <2>1, RiskIn
  <2>3. \/ UNCHANGED ext
        \/ ext' = [ext EXCEPT ![Address(test) + i] = Programmed(@, serializedData[i + 1])]
    BY <1>6 DEF WriteTestPoint, WriteByte, Ignore
  <2> QED
    BY <1>1, <1>5, <2>1, <2>2, <2>3
<1>7. CASE WriteCrc
  <2>1. pc = "crcWrite" /\ i < 4 /\ AtRisk = {CrcAddress + i}
    BY <1>7, RiskIn DEF WriteCrc
  <2>2. CrcAddress + i \in Bytes
    BY <2>1, RiskIn
  <2>3. \/ UNCHANGED ext
        \/ ext' = [ext EXCEPT ![CrcAddress + i]
                     = Programmed(@, CrcRecord(ExternalFlashCRC)[i + 1])]
    BY <1>7 DEF WriteCrc, WriteByte, Ignore, InOrder
  <2> QED
    BY <1>1, <1>5, <2>1, <2>2, <2>3
<1>8. UNCHANGED ext \/ Interrupted \/ Erase \/ EraseCrc \/ WriteTestPoint \/ WriteCrc
  BY DEF Next, Command, Handler, vars, Reject, BeginErase, BeginCrc, BeginTestPoint,
     TestPointTaken, ReadTestPoint, VerifyErase, AnswerTestPoint, AnswerCrc, StaysBusy,
     PowerCycle, WatchdogReset
<1> QED
  BY <1>1, <1>2, <1>3, <1>4, <1>6, <1>7, <1>8

(* What is acknowledged is not at risk.                                    *)
LEMMA AckedNotAtRisk ==
  ASSUME IInv, NEW t \in Tests, acked[t] # None
  PROVE  Record(t) \cap AtRisk = {}
<1>t. TypeInv /\ test \in Tests
  BY DEF IInv, TypeInv
<1>1. CASE pc = "erase"
  BY <1>t, <1>1, RiskIn, RecordBehindFirstSector DEF IInv, EraseInv
<1>2. CASE pc = "write"
  <2>1. test # t
    BY <1>2 DEF IInv, WriteInv
  <2> QED
    BY <1>t, <1>2, <2>1, RiskIn, RecordsApart
<1>3. Record(t) \subseteq TestBytes
  BY Records1 DEF Record
<1>4. CASE pc \in {"crcErase", "crcWrite"}
  BY <1>t, <1>3, <1>4, RiskIn, TestsBelowCrc
<1>5. CASE pc \notin {"erase", "crcErase", "write", "crcWrite"}
  BY <1>t, <1>5, RiskIn
<1> QED
  BY <1>1, <1>2, <1>4, <1>5

(* A byte of a test point that holds something is at risk in               *)
(* EXT_FLASH_ERASE only.                                                   *)
LEMMA FullNotAtRisk ==
  ASSUME IInv, NEW b \in TestBytes, ext[b] # Blank, b \in AtRisk
  PROVE  pc = "erase" /\ b \in Sector(0)
<1>t. TypeInv /\ i \in Nat /\ RecordBytes \in Nat
  BY Sizes DEF IInv, TypeInv
<1>1. pc \notin {"crcErase", "crcWrite"}
  BY <1>t, RiskIn, TestsBelowCrc
<1>2. pc # "write"
  <2>1. ASSUME pc = "write" PROVE FALSE
    <3>1. i < RecordBytes /\ b = Address(test) + i
      BY <1>t, <2>1, RiskIn
    <3>2. i \in i .. (RecordBytes - 1)
      BY <1>t, <3>1
    <3> QED
      BY <2>1, <3>1, <3>2 DEF IInv, WriteInv
  <2> QED
    BY <2>1
<1> QED
  BY <1>t, <1>1, <1>2, RiskIn

-----------------------------------------------------------------------------
(* Each part of the invariant is kept.                                     *)

LEMMA ExtTypeStep ==
  ASSUME IInv, [Next]_vars
  PROVE  /\ ext' \in [Bytes -> AnyByte]
         /\ \A b \in TestBytes : ext'[b] \in PacketBytes \cup {Blank, Torn}
<1>t. TypeInv /\ i \in Nat /\ ext \in [Bytes -> AnyByte]
      /\ \A b \in TestBytes : ext[b] \in PacketBytes \cup {Blank, Torn}
  BY DEF IInv, TypeInv
<1>1. ASSUME NEW b \in AtRisk, pc = "write", i < RecordBytes
      PROVE  serializedData[i + 1] \in PacketBytes
  <2>1. serializedData \in Records /\ i + 1 \in 1 .. RecordBytes
    BY <1>t, <1>1, Sizes DEF TypeInv
  <2> QED
    BY <2>1, PacketIsFunction
<1>2. ASSUME NEW b \in AtRisk, pc = "crcWrite", i < 4
      PROVE  CrcRecord(ExternalFlashCRC)[i + 1] \in AnyByte /\ b \notin TestBytes
  <2>1. ExternalFlashCRC \in Contents
    BY <1>t, <1>2, FlashCrcIsContents DEF IInv, CrcInv
  <2>2. i \in {0, 1, 2, 3}
    BY <1>t, <1>2
  <2>3. b \notin TestBytes
    BY <1>t, <1>2, RiskIn, TestsBelowCrc
  <2> QED
    BY <2>1, <2>2, <2>3 DEF CrcRecord, AnyByte
<1>3. ASSUME NEW b \in Bytes
      PROVE  ext'[b] \in AnyByte /\ (b \in TestBytes => ext'[b] \in PacketBytes \cup {Blank, Torn})
  <2>1. ext[b] \in AnyByte /\ (b \in TestBytes => ext[b] \in PacketBytes \cup {Blank, Torn})
    BY <1>t, <1>3
  <2>2. PacketBytes \cup {Blank, Torn} \subseteq AnyByte
    BY DEF AnyByte
  <2>3. CASE b \notin AtRisk
    BY <1>t, <2>1, <2>3, OnlyAtRisk
  <2>4. CASE b \in AtRisk
    BY <1>t, <1>1, <1>2, <2>1, <2>2, <2>4, OnlyAtRisk
  <2> QED
    BY <2>3, <2>4
<1> QED
  BY <1>t, <1>3, OnlyAtRisk, TestsBelowCrc

LEMMA TypeStep ==
  ASSUME IInv, [Next]_vars
  PROVE  TypeInv'
<1>t. /\ pc \in {"idle", "erase", "eraseVerify", "write", "crcErase", "crcWrite", "hang"}
      /\ i \in Nat /\ test \in Tests /\ RecordBytes \in Nat /\ 0 \in Tests
      /\ acked \in [Tests -> Records \cup {None}]
      /\ (pc = "write" => i <= RecordBytes /\ serializedData \in Records)
      /\ (pc = "crcErase" => i = 0) /\ (pc = "crcWrite" => i <= 4)
  BY Sizes DEF IInv, TypeInv, Tests
<1> DEFINE Control ==
      /\ pc' \in {"idle", "erase", "eraseVerify", "write", "crcErase", "crcWrite", "hang"}
      /\ i' \in Nat /\ test' \in Tests
      /\ acked' \in [Tests -> Records \cup {None}]
      /\ pc' = "write" => i' <= RecordBytes /\ serializedData' \in Records
      /\ pc' = "crcErase" => i' = 0
      /\ pc' = "crcWrite" => i' <= 4
<1> SUFFICES Control
  BY ExtTypeStep DEF TypeInv
<1>1. CASE UNCHANGED vars
  BY <1>t, <1>1 DEF vars, local
<1>2. CASE Reject \/ \E t \in Tests : TestPointTaken(t) \/ ReadTestPoint(t)
  BY <1>t, <1>2 DEF Reject, TestPointTaken, ReadTestPoint, local
<1>3. CASE BeginErase
  BY <1>t, <1>3 DEF BeginErase, Call
<1>4. CASE Erase \/ EraseCrc
  BY <1>t, <1>4 DEF Erase, EraseCrc, local
<1>5. CASE VerifyErase \/ AnswerCrc
  BY <1>t, <1>5 DEF VerifyErase, AnswerCrc, Reply
<1>6. CASE \E t \in Tests, r \in Records : BeginTestPoint(t, r)
  BY <1>t, <1>6 DEF BeginTestPoint, Call
<1>7. CASE WriteTestPoint
  BY <1>t, <1>7 DEF WriteTestPoint
<1>8. CASE AnswerTestPoint
  <2>1. pc = "write" /\ pc' = "idle" /\ i' = 0 /\ test' = 0
    BY <1>8 DEF AnswerTestPoint, Reply
  <2>2. acked' = acked \/ acked' = [acked EXCEPT ![test] = serializedData]
    BY <1>8 DEF AnswerTestPoint
  <2>3. acked' \in [Tests -> Records \cup {None}]
    BY <1>t, <2>1, <2>2
  <2> QED
    BY <1>t, <2>1, <2>3
<1>9. CASE BeginCrc
  BY <1>t, <1>9 DEF BeginCrc, Call
<1>10. CASE WriteCrc
  BY <1>t, <1>10 DEF WriteCrc
<1>11. CASE StaysBusy
  BY <1>t, <1>11 DEF StaysBusy, Interrupted, local
<1>12. CASE PowerCycle \/ WatchdogReset
  BY <1>t, <1>12 DEF PowerCycle, Interrupted, WatchdogReset, Restart
<1> QED
  BY <1>1, <1>2, <1>3, <1>4, <1>5, <1>6, <1>7, <1>8, <1>9, <1>10, <1>11, <1>12
  DEF Next, Command, Handler

LEMMA QuietStep ==
  ASSUME IInv, [Next]_vars
  PROVE  QuietInv'
<1>1. pc' # "idle" => reply' = "none" \/ (pc # "idle" /\ reply' = reply)
                        \/ (pc' = pc /\ reply' = reply)
  BY DEF Next, Command, Handler, vars, Reject, BeginErase, BeginCrc, BeginTestPoint, Call,
     TestPointTaken, ReadTestPoint, Erase, EraseCrc, VerifyErase, AnswerTestPoint, AnswerCrc,
     WriteTestPoint, WriteCrc, Reply, StaysBusy, PowerCycle, WatchdogReset, Restart,
     RiskIn, AtRisk
<1> QED
  BY <1>1 DEF IInv, QuietInv

(* What is acknowledged changes only by EXT_FLASH_ERASE and by the answer. *)
LEMMA AckedChanges ==
  ASSUME IInv, [Next]_vars
  PROVE  \/ acked' = acked
         \/ BeginErase
         \/ AnswerTestPoint /\ ReadsBack(test, serializedData) /\ UNCHANGED ext
              /\ acked' = [acked EXCEPT ![test] = serializedData]
BY DEF Next, Command, Handler, vars, Reject, BeginCrc, BeginTestPoint,
   TestPointTaken, ReadTestPoint, Erase, EraseCrc, VerifyErase, AnswerTestPoint, AnswerCrc,
   WriteTestPoint, WriteCrc, StaysBusy, PowerCycle, Interrupted, WatchdogReset

LEMMA AckedStep ==
  ASSUME IInv, [Next]_vars
  PROVE  AckedStaysReadable'
<1>t. TypeInv /\ test \in Tests /\ acked \in [Tests -> Records \cup {None}]
  BY DEF IInv, TypeInv
<1>1. ASSUME NEW t \in Tests, acked[t] # None
      PROVE  Stored(t)' = acked[t]
  <2>1. Record(t) \cap AtRisk = {}
    BY <1>1, AckedNotAtRisk
  <2>2. ASSUME NEW k \in 1 .. RecordBytes
        PROVE  ext'[Address(t) + k - 1] = ext[Address(t) + k - 1]
    <3>1. k - 1 \in 0 .. (RecordBytes - 1)
      BY Sizes
    <3>2. Address(t) + (k - 1) \in Bytes \ AtRisk
      BY <2>1, <3>1, Records1
    <3>3. Address(t) + k - 1 = Address(t) + (k - 1)
      BY Slots
    <3> QED
      BY <1>t, <3>2, <3>3, OnlyAtRisk
  <2>3. Stored(t)' = Stored(t)
    BY <2>2 DEF Stored
  <2> QED
    BY <1>1, <2>3 DEF IInv, AckedStaysReadable
<1>2. ASSUME NEW t \in Tests, acked'[t] # None
      PROVE  Stored(t)' = acked'[t]
  <2>1. CASE acked'[t] = acked[t]
    BY <1>1, <1>2, <2>1
  <2>2. CASE BeginErase
    BY <1>1, <1>2, <2>2 DEF BeginErase
  <2>3. CASE /\ ReadsBack(test, serializedData) /\ UNCHANGED ext
             /\ acked' = [acked EXCEPT ![test] = serializedData]
             /\ acked'[t] # acked[t]
    <3>1. t = test /\ acked'[t] = serializedData
      BY <1>t, <2>3
    <3> QED
      BY <2>3, <3>1 DEF ReadsBack, Stored
  <2> QED
    BY <2>1, <2>2, <2>3, AckedChanges
<1> QED
  BY <1>2 DEF AckedStaysReadable

LEMMA EraseStep ==
  ASSUME IInv, [Next]_vars
  PROVE  EraseInv'
<1>1. CASE BeginErase
  BY <1>1 DEF BeginErase, EraseInv
<1>2. CASE ~BeginErase
  <2>1. pc' = "erase" => pc = "erase" /\ UNCHANGED acked
    BY <1>2 DEF Next, Command, Handler, vars, Reject, BeginCrc, BeginTestPoint, Call,
       TestPointTaken, ReadTestPoint, Erase, EraseCrc, VerifyErase, AnswerTestPoint,
       AnswerCrc, WriteTestPoint, WriteCrc, Reply, StaysBusy, PowerCycle, WatchdogReset,
       Restart
  <2> QED
    BY <2>1 DEF IInv, EraseInv, Sector
<1> QED
  BY <1>1, <1>2

LEMMA WriteStep ==
  ASSUME IInv, [Next]_vars
  PROVE  WriteInv'
<1>t. TypeInv /\ test \in Tests /\ acked \in [Tests -> Records \cup {None}] /\ i \in Nat
      /\ RecordBytes \in Nat
  BY Sizes DEF IInv, TypeInv
<1>1. ASSUME NEW t \in Tests, NEW r \in Records, BeginTestPoint(t, r)
      PROVE  WriteInv'
  <2>1. test' = t /\ i' = 0 /\ UNCHANGED <<ext, acked>> /\ isFlashEmpty(t)
    BY <1>1 DEF BeginTestPoint, Call
  <2>2. ASSUME NEW k \in 0 .. (RecordBytes - 1)
        PROVE  ext[Address(t) + k] = Blank
    <3>1. k + 1 \in 1 .. RecordBytes /\ Address(t) + (k + 1) - 1 = Address(t) + k
      BY <1>t, Slots
    <3> QED
      BY <2>1, <3>1 DEF isFlashEmpty, Stored
  <2>3. acked[t] = None
    <3>1. ASSUME acked[t] # None PROVE FALSE
      <4>1. acked[t] \in Records /\ Stored(t) = acked[t]
        BY <1>t, <3>1 DEF IInv, AckedStaysReadable
      <4>2. 1 \in 1 .. RecordBytes
        BY Sizes
      <4> QED
        BY <2>1, <4>1, <4>2, PacketIsFunction DEF isFlashEmpty
    <3> QED
      BY <3>1
  <2> QED
    BY <2>1, <2>2, <2>3 DEF WriteInv
<1>2. CASE WriteTestPoint
  <2>1. pc = "write" /\ i < RecordBytes /\ i' = i + 1 /\ UNCHANGED <<test, acked>>
    BY <1>2 DEF WriteTestPoint
  <2>2. ASSUME NEW k \in (i + 1) .. (RecordBytes - 1)
        PROVE  ext'[Address(test) + k] = Blank
    <3>1. k \in 0 .. (RecordBytes - 1) /\ k \in i .. (RecordBytes - 1) /\ k # i
      BY <1>t, <2>1
    <3>2. Address(test) + k \in Bytes /\ Address(test) + k # Address(test) + i
      BY <1>t, <2>1, <3>1, Records1, Slots
    <3>3. ext'[Address(test) + k] = ext[Address(test) + k]
      BY <1>t, <2>1, <3>2, RiskIn, OnlyAtRisk
    <3> QED
      BY <2>1, <3>1, <3>3 DEF IInv, WriteInv
  <2> QED
    BY <2>1, <2>2 DEF IInv, WriteInv
<1>3. CASE UNCHANGED vars
  BY <1>3 DEF IInv, WriteInv, vars, local
<1>4. CASE pc' # "write"
  BY <1>4 DEF WriteInv
<1>5. \/ pc' # "write" \/ UNCHANGED vars \/ WriteTestPoint
      \/ \E t \in Tests, r \in Records : BeginTestPoint(t, r)
  BY DEF Next, Command, Handler, Reject, BeginErase, BeginCrc, Call,
     TestPointTaken, ReadTestPoint, Erase, EraseCrc, VerifyErase, AnswerTestPoint,
     AnswerCrc, WriteCrc, Reply, StaysBusy, PowerCycle, WatchdogReset, Restart
<1> QED
  BY <1>1, <1>2, <1>3, <1>4, <1>5

(* The CRC sector and what EXT_FLASH_CRC computes.                         *)
LEMMA TestsUntouchedByCrc ==
  ASSUME IInv, [Next]_vars, pc \in {"crcErase", "crcWrite", "idle"}
  PROVE  FlashCrc' = FlashCrc
<1>1. TypeInv
  BY DEF IInv
<1>2. ASSUME NEW b \in TestBytes
      PROVE  ext'[b] = ext[b]
  <2>1. b \in Bytes /\ b \notin AtRisk
    BY <1>1, RiskIn, TestsBelowCrc
  <2> QED
    BY <1>1, <2>1, OnlyAtRisk
<1> QED
  BY <1>2 DEF FlashCrc

LEMMA CrcBytesAt ==
  ASSUME NEW k \in 1 .. 4
  PROVE  /\ CrcBytes[k] = ext[CrcAddress + (k - 1)]
         /\ CrcBytes'[k] = ext'[CrcAddress + (k - 1)]
         /\ CrcAddress + (k - 1) \in CrcField /\ CrcAddress + (k - 1) \in Bytes
<1>1. CrcAddress + k - 1 = CrcAddress + (k - 1)
  BY Sizes
<1>2. CrcAddress + (k - 1) \in CrcField
  BY DEF CrcField
<1> QED
  BY <1>1, <1>2, TestsBelowCrc DEF CrcBytes

LEMMA CrcStep ==
  ASSUME IInv, [Next]_vars
  PROVE  CrcInv'
<1>t. TypeInv /\ i \in Nat
  BY DEF IInv, TypeInv
<1>1. CASE BeginCrc
  <2>1. pc' = "crcErase" /\ UNCHANGED ext /\ ExternalFlashCRC' = FlashCrc
    BY <1>1 DEF BeginCrc, Call
  <2> QED
    BY <2>1 DEF CrcInv, FlashCrc
<1>2. CASE EraseCrc
  <2>1. /\ pc = "crcErase" /\ pc' = "crcWrite" /\ i' = i /\ i = 0
        /\ ExternalFlashCRC' = ExternalFlashCRC
    BY <1>t, <1>2 DEF EraseCrc, TypeInv, local
  <2>2. ExternalFlashCRC' = FlashCrc'
    BY <2>1, TestsUntouchedByCrc DEF IInv, CrcInv
  <2>3. ASSUME ~ignored', NEW k \in 1 .. 4
        PROVE  CrcBytes'[k] = Blank
    <3>1. ext' = [b \in Bytes |-> IF b \in Sector(CrcSector) THEN Blank ELSE ext[b]]
      BY <1>2, <2>3 DEF EraseCrc, EraseSector, Ignore
    <3>2. CrcAddress + (k - 1) \in Bytes /\ CrcAddress + (k - 1) \in Sector(CrcSector)
      BY CrcBytesAt, TestsBelowCrc
    <3> QED
      BY <3>1, <3>2, CrcBytesAt
  <2>4. \A k \in 1 .. 4 : ~(k <= i')
    BY <2>1
  <2> QED
    BY <2>1, <2>2, <2>3, <2>4 DEF CrcInv
<1>3. CASE WriteCrc
  <2>1. /\ pc = "crcWrite" /\ i < 4 /\ pc' = "crcWrite" /\ i' = i + 1
        /\ ExternalFlashCRC' = ExternalFlashCRC
    BY <1>3 DEF WriteCrc
  <2>2. ExternalFlashCRC' = FlashCrc'
    BY <2>1, TestsUntouchedByCrc DEF IInv, CrcInv
  <2>3. ASSUME ~ignored', NEW k \in 1 .. 4
        PROVE  CrcBytes'[k] = IF k <= i' THEN CrcRecord(ExternalFlashCRC')[k] ELSE Blank
    <3>1. /\ ext' = [ext EXCEPT ![CrcAddress + i]
                       = Programmed(@, CrcRecord(ExternalFlashCRC)[i + 1])]
          /\ ~ignored
      BY <1>3, <2>3 DEF WriteCrc, WriteByte, Ignore, InOrder, mishaps
    <3>2. CrcBytes[k] = IF k <= i THEN CrcRecord(ExternalFlashCRC)[k] ELSE Blank
      BY <2>1, <2>3, <3>1 DEF IInv, CrcInv
    <3>3. CASE k = i + 1
      <4>1. CrcBytes[k] = Blank /\ k - 1 = i
        BY <1>t, <3>2, <3>3
      <4>2. CrcBytes'[k] = Programmed(Blank, CrcRecord(ExternalFlashCRC)[k])
        BY <1>t, <3>1, <3>3, <4>1, CrcBytesAt DEF TypeInv
      <4> QED
        BY <1>t, <2>1, <3>3, <4>2 DEF Programmed
    <3>4. CASE k # i + 1
      <4>1. CrcAddress + (k - 1) # CrcAddress + i
        BY <1>t, <3>4, Sizes
      <4>2. CrcBytes'[k] = CrcBytes[k]
        BY <1>t, <3>1, <4>1, CrcBytesAt DEF TypeInv
      <4>3. k <= i' <=> k <= i
        BY <1>t, <2>1, <3>4
      <4> QED
        BY <2>1, <3>2, <4>2, <4>3
    <3> QED
      BY <3>3, <3>4
  <2> QED
    BY <2>1, <2>2, <2>3 DEF CrcInv
<1>4. CASE UNCHANGED vars
  BY <1>4 DEF IInv, CrcInv, vars, local, mishaps, FlashCrc, CrcBytes
<1>5. CASE pc' \notin {"crcErase", "crcWrite"}
  BY <1>5 DEF CrcInv
<1>6. \/ BeginCrc \/ EraseCrc \/ WriteCrc \/ UNCHANGED vars
      \/ pc' \notin {"crcErase", "crcWrite"}
  <2>1. CASE Reject \/ \E t \in Tests : TestPointTaken(t) \/ ReadTestPoint(t)
    BY <2>1 DEF Reject, TestPointTaken, ReadTestPoint
  <2> QED
    BY <2>1 DEF Next, Command, Handler, BeginErase, BeginTestPoint, Call,
     Erase, VerifyErase, AnswerTestPoint,
     AnswerCrc, WriteTestPoint, Reply, StaysBusy, PowerCycle, WatchdogReset, Restart
<1> QED
  BY <1>1, <1>2, <1>3, <1>4, <1>5, <1>6

LEMMA CrcReplyStep ==
  ASSUME IInv, [Next]_vars
  PROVE  CrcReplyMeansStored'
<1>1. CASE AnswerCrc
  <2>1. /\ pc = "crcWrite" /\ UNCHANGED ext
        /\ CrcBytes # CrcRecord(ExternalFlashCRC) => reply' = "EXT_FLASH_ERASE_FAIL"
    BY <1>1 DEF AnswerCrc, CrcReadsBack, Reply
  <2>2. ExternalFlashCRC = FlashCrc
    BY <2>1 DEF IInv, CrcInv
  <2> QED
    BY <2>1, <2>2 DEF CrcReplyMeansStored, CrcBytes, FlashCrc
<1>2. CASE reply' = "EXT_FLASH_CRC_TX" /\ reply' = reply
  <2>1. pc = "idle" /\ TypeInv
    BY <1>2 DEF IInv, QuietInv
  <2>2. \A b \in Bytes : ext'[b] = ext[b]
    BY <2>1, RiskIn, OnlyAtRisk
  <2>3. CrcBytes' = CrcBytes
    BY <2>2, CrcBytesAt DEF CrcBytes
  <2> QED
    BY <1>2, <2>1, <2>3, TestsUntouchedByCrc DEF IInv, CrcReplyMeansStored
<1>3. CASE reply' # "EXT_FLASH_CRC_TX"
  BY <1>3 DEF CrcReplyMeansStored
<1>4. AnswerCrc \/ reply' = reply \/ reply' # "EXT_FLASH_CRC_TX"
  BY DEF Next, Command, Handler, vars, Reject, BeginErase, BeginCrc, BeginTestPoint, Call,
     TestPointTaken, ReadTestPoint, Erase, EraseCrc, VerifyErase, AnswerTestPoint,
     WriteTestPoint, WriteCrc, Reply, StaysBusy, PowerCycle, WatchdogReset, Restart
<1> QED
  BY <1>1, <1>2, <1>3, <1>4

LEMMA VersionStep ==
  ASSUME IInv, [Next]_vars
  PROVE  VersionComesLast'
<1>t. TypeInv /\ i \in Nat
  BY DEF IInv, TypeInv
<1> SUFFICES ASSUME ~ignored', CrcBytes'[3] = VersionLo, CrcBytes'[4] = VersionHi
             PROVE  /\ eraseCut' \/ (Written(CrcBytes'[1]) /\ Written(CrcBytes'[2]))
                    /\ Written(CrcBytes'[1]) /\ Written(CrcBytes'[2])
                         => CrcBytes'[1][2] = CrcBytes'[2][2]
  BY DEF VersionComesLast, Written
<1>1. ~ignored
  BY DEF Next, Command, Handler, vars, Reject, BeginErase, BeginCrc, BeginTestPoint,
     TestPointTaken, ReadTestPoint, Erase, EraseCrc, VerifyErase, AnswerTestPoint, AnswerCrc,
     WriteTestPoint, WriteCrc, EraseSector, WriteByte, Ignore, StaysBusy, PowerCycle,
     Interrupted, WatchdogReset, mishaps
<1>v. /\ Torn # VersionLo /\ Torn # VersionHi /\ Torn # Blank
      /\ Blank # VersionLo /\ Blank # VersionHi
  BY ValuesAssumption
(* A cut erase is remembered until the sector is erased.                   *)
<1>2. eraseCut => eraseCut' \/ EraseCrc
  BY FirstSector
  DEF Next, Command, Handler, vars, Reject, BeginErase, BeginCrc, BeginTestPoint,
     TestPointTaken, ReadTestPoint, VerifyErase, Erase, AnswerTestPoint, AnswerCrc,
     WriteTestPoint, WriteCrc, EraseSector, WriteByte, Ignore, StaysBusy, PowerCycle,
     Interrupted, WatchdogReset, mishaps
<1>3. CASE pc \notin {"crcErase", "crcWrite"}
  <2>1. ASSUME NEW k \in 1 .. 4
        PROVE  CrcBytes'[k] = CrcBytes[k]
    <3>1. CrcAddress + (k - 1) \notin AtRisk
      <4>1. CASE pc = "write"
        <5>1. Record(test) \subseteq TestBytes
          BY <1>t, Records1 DEF TypeInv, Record
        <5> QED
          BY <1>t, <4>1, <5>1, CrcBytesAt, RiskIn, TestsBelowCrc
      <4>2. CASE pc = "erase"
        BY <1>t, <4>2, CrcBytesAt, RiskIn, FirstSector
      <4> QED
        BY <1>t, <1>3, <4>1, <4>2, RiskIn
    <3> QED
      BY <1>t, <3>1, CrcBytesAt, OnlyAtRisk
  <2>2. eraseCut => eraseCut'
    BY <1>2, <1>3 DEF EraseCrc
  <2> QED
    BY <1>1, <2>1, <2>2 DEF IInv, VersionComesLast
<1>4. CASE pc = "crcErase"
  <2>1. CASE EraseCrc
    <3>1. ext' = [b \in Bytes |-> IF b \in Sector(CrcSector) THEN Blank ELSE ext[b]]
      BY <2>1 DEF EraseCrc, EraseSector, Ignore
    <3>2. CrcAddress + (3 - 1) \in Sector(CrcSector) /\ CrcAddress + (3 - 1) \in Bytes
          /\ CrcBytes'[3] = ext'[CrcAddress + (3 - 1)]
      BY CrcBytesAt, TestsBelowCrc
    <3> QED
      BY <1>v, <3>1, <3>2
  <2>2. CASE Interrupted
    <3>1. \A k \in 1 .. 4 : CrcBytes'[k] \in {CrcBytes[k], Torn, Blank}
      BY <2>2, CrcBytesAt, CutChanges
    <3>2. /\ CrcBytes[3] = VersionLo /\ CrcBytes[4] = VersionHi
          /\ \A k \in 1 .. 2 : Written(CrcBytes'[k]) => CrcBytes'[k] = CrcBytes[k]
      BY <1>v, <3>1 DEF Written
    <3>3. eraseCut'
      BY <1>4, <2>2 DEF Interrupted
    <3> QED
      BY <1>1, <3>2, <3>3 DEF IInv, VersionComesLast
  <2>3. CASE UNCHANGED vars
    <3>1. CrcBytes' = CrcBytes /\ eraseCut' = eraseCut
      BY <2>3 DEF vars, mishaps, CrcBytes
    <3> QED
      BY <1>1, <3>1 DEF IInv, VersionComesLast
  <2> QED
    BY <1>4, <2>1, <2>2, <2>3
    DEF Next, Command, Handler, vars, Reject, BeginErase, BeginCrc, BeginTestPoint, Call,
     TestPointTaken, ReadTestPoint, Erase, VerifyErase, AnswerTestPoint, AnswerCrc,
     WriteTestPoint, WriteCrc, StaysBusy, PowerCycle, Interrupted, WatchdogReset
<1>5. CASE pc = "crcWrite"
  <2>1. \A k \in 1 .. 4 : CrcBytes[k] = IF k <= i THEN CrcRecord(ExternalFlashCRC)[k]
                                                   ELSE Blank
    BY <1>1, <1>5 DEF IInv, CrcInv
  <2>2. ASSUME NEW k \in 1 .. 4, k - 1 # i
        PROVE  CrcBytes'[k] = CrcBytes[k]
    <3>1. CrcAddress + (k - 1) \notin AtRisk
      BY <1>t, <1>5, <2>2, RiskIn, Sizes
    <3> QED
      BY <1>t, <3>1, CrcBytesAt, OnlyAtRisk
  <2>3. 3 <= i
    <3>1. CASE i < 3
      <4>1. CrcBytes'[4] = CrcBytes[4] /\ CrcBytes[4] = Blank
        BY <1>t, <2>1, <2>2, <3>1
      <4> QED
        BY <1>v, <4>1
    <3> QED
      BY <1>t, <3>1
  <2>4. /\ CrcBytes'[1] = CrcRecord(ExternalFlashCRC)[1]
        /\ CrcBytes'[2] = CrcRecord(ExternalFlashCRC)[2]
    BY <1>t, <2>1, <2>2, <2>3
  <2>5. ExternalFlashCRC \in Contents
    BY <1>t, <1>5, FlashCrcIsContents DEF IInv, CrcInv
  <2>6. /\ CrcBytes'[1] = Half("lo", ExternalFlashCRC)
        /\ CrcBytes'[2] = Half("hi", ExternalFlashCRC)
    BY <2>4 DEF CrcRecord
  <2>7. CrcBytes'[1][2] = CrcBytes'[2][2]
    BY <2>6 DEF Half
  <2>8. Written(CrcBytes'[1]) /\ Written(CrcBytes'[2])
    BY <2>5, <2>6, HalvesAssumption DEF Written
  <2> QED
    BY <2>7, <2>8
<1> QED
  BY <1>3, <1>4, <1>5

-----------------------------------------------------------------------------

LEMMA InitIInv == Init => IInv
<1> SUFFICES ASSUME Init PROVE IInv
  OBVIOUS
<1>1. /\ ext = [b \in Bytes |-> Blank] /\ pc = "idle" /\ i = 0 /\ test = 0
      /\ reply = "none" /\ acked = [t \in Tests |-> None]
  BY DEF Init
<1>2. TypeInv
  BY <1>1, Sizes, TestsBelowCrc DEF TypeInv, AnyByte, Tests
<1>3. CrcBytes[3] = Blank
  BY <1>1, CrcBytesAt
<1>4. VersionComesLast
  BY <1>3, ValuesAssumption DEF VersionComesLast
<1> QED
  BY <1>1, <1>2, <1>4 DEF IInv, QuietInv, EraseInv, WriteInv, CrcInv, AckedStaysReadable,
     CrcReplyMeansStored

LEMMA NextIInv == IInv /\ [Next]_vars => IInv'
<1> SUFFICES ASSUME IInv, [Next]_vars PROVE IInv'
  OBVIOUS
<1> QED
  BY TypeStep, QuietStep, EraseStep, WriteStep, CrcStep, AckedStep, CrcReplyStep,
     VersionStep DEF IInv

LEMMA IInvHolds == Spec => []IInv
BY InitIInv, NextIInv, PTL DEF Spec

(* A test point that was acknowledged reads back as it was sent until the  *)
(* host erases its sector (main.c:986-1043), for any number of test        *)
(* points, sectors and faults.                                             *)
THEOREM AckedCorrect == Spec => []AckedStaysReadable
<1>1. IInv => AckedStaysReadable
  BY DEF IInv
<1> QED
  BY <1>1, IInvHolds, PTL

(* The EXT_FLASH_CRC reply stands for a CRC in flash that is that of the   *)
(* test points (main.c:1075-1205).                                         *)
THEOREM CrcReplyCorrect == Spec => []CrcReplyMeansStored
<1>1. IInv => CrcReplyMeansStored
  BY DEF IInv
<1> QED
  BY <1>1, IInvHolds, PTL

(* The version that POST accepts is written after the CRC and does not     *)
(* stand next to a part of it, wherever a write was cut and whatever was   *)
(* tried again; if an erase of the sector is cut it may, but never next to *)
(* the halves of two CRCs (main.c:1114-1130).                              *)
THEOREM VersionCorrect == Spec => []VersionComesLast
<1>1. IInv => VersionComesLast
  BY DEF IInv
<1> QED
  BY <1>1, IInvHolds, PTL

(* No step but EXT_FLASH_ERASE changes a byte of a test point that holds   *)
(* something (main.c:986, 1546).                                           *)
THEOREM WrittenOnce == Spec => TestPointsWrittenOnce
<1>1. ASSUME IInv, [Next]_vars
      PROVE  \A b \in TestBytes :
               ext[b] # Blank /\ ext'[b] # ext[b] => pc = "erase" /\ b \in Sector(0)
  <2> SUFFICES ASSUME NEW b \in TestBytes, ext[b] # Blank, ext'[b] # ext[b]
               PROVE  pc = "erase" /\ b \in Sector(0)
    OBVIOUS
  <2>1. b \in AtRisk
    BY <1>1, OnlyAtRisk, TestsBelowCrc DEF IInv
  <2> QED
    BY <1>1, <2>1, FullNotAtRisk
<1> QED
  BY <1>1, IInvHolds, PTL DEF Spec, TestPointsWrittenOnce

=============================================================================
