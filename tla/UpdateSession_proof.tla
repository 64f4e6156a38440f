-------------------------- MODULE UpdateSession_proof --------------------------
(***************************************************************************)
(* The procedure of section 9 of main.h does what it is for, for every     *)
(* image, however it is cut into packets, every host that does not go on   *)
(* past a step that failed, and every number of lost messages, failures    *)
(* and resets.                                                             *)
(***************************************************************************)
EXTENDS UpdateSession, Bootloader_proof

(* One request at a time: mail holds the one the host waits for, and so    *)
(* does the handler that runs, and the reply on its way.                   *)
Handling == {"stay", "erase", "data", "metaErase", "metaWrite"}

HandlerInv ==
  /\ pc = "stay" => step = Stay
  /\ pc = "erase" => step = Erase
  /\ pc = "data" => step \in DataStep /\ Dword = Packet(step - 2)
  /\ pc \in {"metaErase", "metaWrite"} =>
       /\ msg = "APP_SIG_DWORD" => step = Sign
       /\ msg = "APP_CRC_VERIFY" => step = Verify /\ metadata[Size] = ImageSize

AnswerInv ==
  replies # <<>> =>
    /\ replies[1] = "CONTROLLER_IN_BOOTMODE" => step = Stay
    /\ replies[1] = "UC_FLASH_ERASE_SUCCESS" => step = Erase
    /\ replies[1] = "APP_WR_DATA_PKT_ACK_PASS" => step \in DataStep
    /\ replies[1] = "APP_SIG_DWORD_WR_PASS" => step = Sign
    /\ replies[1] = "APP_CRC_VERIFY" => step = Verify

ProtocolInv ==
  /\ retry \in Hosts /\ step \in 1 .. Done /\ waiting \in BOOLEAN
  /\ mail \in {NoRequest, step}
  /\ waiting => step \in Request
  /\ mail # NoRequest => waiting
  /\ pc \in Handling \/ replies # <<>> => waiting /\ mail = NoRequest
  /\ HandlerInv

-----------------------------------------------------------------------------
(* What the slot can hold at each step, with a host that starts over when  *)
(* it does not know how a data packet ended.                               *)

StartsOver == \A s \in DataStep : retry[s] \in {Stay, Erase}

(* The first double word was turned into zeros or torn: nothing but an     *)
(* erase makes this slot bootable again.                                   *)
Spoilt == slot[0] \notin BootWords \cup {Erased}
Prefix(n) == \A a \in 0 .. (n - 1) : slot[a] = Image[a + 1]

(* Packet p is due.  After a reset the address is that of the first packet *)
(* again, whose place is taken.                                            *)
Ready(p) ==
  \/ Spoilt
  \/ Installed /\ g_app_start_address >= ImageSize
  \/ g_app_start_address = PacketStart[p] /\ Prefix(PacketStart[p])
  \/ g_app_start_address = 0 /\ slot[0] \in BootWords /\ p # 1

(* The handler is in packet p, with i double words done.                   *)
InPacket(p) ==
  \/ Spoilt
  \/ Installed /\ g_app_start_address >= ImageSize + i
  \/ g_app_start_address = PacketStart[p] + i /\ Prefix(PacketStart[p])
  \/ /\ g_app_start_address = i /\ p # 1
     /\ IF i = 0 THEN slot[0] \in BootWords
                 ELSE \E failed \in 1 .. i : l_pass_count = Count(i, failed)

(* Packet p was answered with PASS.                                        *)
Landed(p) ==
  \/ Spoilt
  \/ Installed /\ g_app_start_address >= ImageSize
  \/ g_app_start_address = PacketStart[p + 1] /\ Prefix(PacketStart[p + 1])

Loaded ==
  \/ Spoilt
  \/ Installed /\ (g_app_start_address = 0 \/ g_app_start_address >= ImageSize)

(* A digest of the size of the image that boots is the image's.            *)
OfTheImage(digest) ==
  /\ DOMAIN digest = 0 .. (ImageSize - 1)
  /\ digest[0] \in BootWords => \A a \in 0 .. (ImageSize - 1) : digest[a] = Image[a + 1]

SlotInv ==
  /\ sealed = Erased \/ OfTheImage(sealed)
  /\ step \in DataStep /\ (waiting => mail = step) => Ready(step - 2)
  /\ step \in {Sign, Verify} => Loaded
  /\ pc = "erase" => g_app_start_address = 0
  /\ pc = "data" => InPacket(step - 2)
  /\ replies # <<>> =>
       /\ replies[1] = "UC_FLASH_ERASE_SUCCESS" => g_app_start_address = 0
       /\ replies[1] = "APP_WR_DATA_PKT_ACK_PASS" => Landed(step - 2)

ImageInv == StartsOver => SlotInv

-----------------------------------------------------------------------------
(* What the metadata hold on the way to the last answer.                   *)

SignedMetadata(m) ==
  /\ m[Magic] = BOOT_METADATA_MAGIC
  /\ m[Signature] = App_Sig_Dword /\ m[Version] = INTERNAL_FLASH_VERSION

SignInv ==
  /\ step = Verify /\ (waiting => mail = step) => SignedMetadata(meta)
  /\ pc \in {"metaErase", "metaWrite"} => SignedMetadata(metadata)
  /\ replies # <<>> /\ replies[1] \in {"APP_SIG_DWORD_WR_PASS", "APP_CRC_VERIFY"} =>
       SignedMetadata(meta)
  /\ replies # <<>> /\ replies[1] = "APP_CRC_VERIFY" =>
       meta[Size] \in 0 .. SlotDwords /\ meta[CrcWord] = Crc(slot, meta[Size])
  /\ step \in {SwitchOff, Done} => Installed /\ SignedAndValid /\ InternalFlashOk

DoneInv == retry[Verify] # Verify => SignInv

IInv == ProtocolInv /\ AnswerInv /\ ImageInv /\ DoneInv

-----------------------------------------------------------------------------
(* The steps of the procedure and the packets.                             *)

LEMMA Steps ==
  /\ Packets \in Nat \ {0} /\ DataStep = 3 .. (2 + Packets)
  /\ Stay = 1 /\ Erase = 2 /\ Sign = 3 + Packets /\ Verify = 4 + Packets
  /\ SwitchOff = 5 + Packets /\ Done = 6 + Packets
  /\ Request = 1 .. (4 + Packets) /\ NoRequest = 0
BY ImageAssumption
DEF Stay, Erase, DataStep, Sign, Verify, SwitchOff, Done, Request, NoRequest

LEMMA Sizing ==
  /\ ImageSize \in Nat \ {0} /\ ImageSize \in 0 .. SlotDwords
  /\ DOMAIN Image = 1 .. ImageSize
  /\ DOMAIN PacketStart = 1 .. (Packets + 1)
  /\ PacketStart[1] = 0 /\ PacketStart[Packets + 1] = ImageSize
  /\ \A p \in 1 .. (Packets + 1) : PacketStart[p] \in 0 .. ImageSize
<1>1. ImageSize \in 0 .. SlotDwords /\ ImageSize # 0
  BY ImageAssumption, ValuesAssumption
<1>2. SlotDwords \in Nat
  BY SlotDwordsPositive
<1>3. DOMAIN Image = 1 .. ImageSize
  BY ImageAssumption DEF ImageSize
<1>4. /\ PacketStart \in Seq(0 .. ImageSize) /\ Len(PacketStart) = Packets + 1
      /\ DOMAIN PacketStart = 1 .. Len(PacketStart)
  BY ImageAssumption DEF Packets
<1>5. \A p \in 1 .. (Packets + 1) : PacketStart[p] \in 0 .. ImageSize
  BY <1>4, ElementOfSeq
<1> QED
  BY <1>1, <1>2, <1>3, <1>4, <1>5, ImageAssumption

LEMMA PacketOfImage ==
  ASSUME NEW p \in 1 .. Packets
  PROVE  /\ Len(Packet(p)) \in 1 .. NUM_OF_DWORDS
         /\ PacketStart[p] + Len(Packet(p)) = PacketStart[p + 1]
         /\ \A k \in 1 .. Len(Packet(p)) : Packet(p)[k] = Image[PacketStart[p] + k]
<1> DEFINE first == PacketStart[p]
           last == PacketStart[p + 1]
<1>1. /\ first \in 0 .. ImageSize /\ last \in 0 .. ImageSize
      /\ last - first \in 1 .. NUM_OF_DWORDS /\ ImageSize \in Nat
  <2>1. p \in 1 .. (Packets + 1) /\ p + 1 \in 1 .. (Packets + 1)
    BY Steps
  <2> QED
    BY <2>1, Sizing, ImageAssumption
<1>2. \A k \in (first + 1) .. last : Image[k] \in Code
  <2>1. \A k \in 1 .. Len(Image) : Image[k] \in Code
    BY ImageAssumption, ElementOfSeq
  <2> QED
    BY <1>1, <2>1 DEF ImageSize
<1>3. /\ Len(SubSeq(Image, first + 1, last)) = last - first
      /\ \A k \in 1 .. (last - first) :
           SubSeq(Image, first + 1, last)[k] = Image[first + 1 + k - 1]
  <2>1. first + 1 \in Int /\ last \in Int /\ first + 1 <= last
        /\ last - (first + 1) + 1 = last - first
    BY <1>1, SizesAssumption
  <2> HIDE DEF first, last
  <2> QED
    BY <1>2, <2>1, SubSeqProperties
<1>4. \A k \in 1 .. (last - first) : first + 1 + k - 1 = first + k
  BY <1>1
<1>5. Packet(p) = SubSeq(Image, first + 1, last)
  BY DEF Packet
<1>6. /\ Len(Packet(p)) = last - first
      /\ \A k \in 1 .. (last - first) : Packet(p)[k] = Image[first + 1 + k - 1]
  BY <1>3, <1>5
<1> HIDE DEF first, last
<1>7. first + (last - first) = last
  BY <1>1
<1>8. \A k \in 1 .. (last - first) : Packet(p)[k] = Image[first + k]
  BY <1>4, <1>6
<1>9. Len(Packet(p)) \in 1 .. NUM_OF_DWORDS /\ first + Len(Packet(p)) = last
  BY <1>1, <1>6, <1>7
<1> QED
  BY <1>6, <1>8, <1>9 DEF first, last

(* Every packet but the first has some of the image before it.             *)
LEMMA LaterPacket ==
  ASSUME NEW p \in 2 .. Packets
  PROVE  PacketStart[p] \in 1 .. ImageSize
<1>1. p - 1 \in 1 .. Packets /\ p - 1 \in 1 .. (Packets + 1) /\ p \in 1 .. (Packets + 1)
      /\ (p - 1) + 1 = p
  BY Steps
<1>2. PacketStart[(p - 1) + 1] - PacketStart[p - 1] \in 1 .. NUM_OF_DWORDS
  BY <1>1, ImageAssumption
<1> QED
  BY <1>1, <1>2, Sizing, SizesAssumption

(* The double word that makes the slot bootable is neither erased nor zero. *)
LEMMA FirstDword ==
  /\ Image[1] \in BootWords /\ Erased \notin BootWords /\ Torn \notin BootWords
  /\ Zero \notin BootWords /\ Torn # Erased
BY ImageAssumption, ValuesAssumption

-----------------------------------------------------------------------------
(* The board does nothing but what Bootloader says.                        *)

LEMMA BootloaderStep == [SessionNext]_sessionVars => [Next]_vars
<1> SUFFICES ASSUME [SessionNext]_sessionVars PROVE [Next]_vars
  OBVIOUS
<1>1. CASE UNCHANGED sessionVars
  BY <1>1 DEF sessionVars
<1>2. CASE Host
  BY <1>2 DEF Host, Send, GiveUp, NextBoot, Next
<1>3. CASE Poll \/ Idle
  BY <1>3 DEF Poll, Idle, Next, Main, BootAttempt
<1>4. CASE Take
  <2>1. ImageSize \in Sizes /\ INTERNAL_FLASH_VERSION \in Versions
    BY ImageAssumption, ValuesAssumption
  <2> QED
    BY <1>4, <2>1 DEF Take, Begin, Next, Main, Command
<1>5. CASE Working \/ Failing
  BY <1>5 DEF Working, Failing, Next, Main, Handler
<1>6. CASE SelfTest
  <2>1. PostDelay \/ \E othersOk \in BOOLEAN : PostVerdict(othersOk)
    BY <1>6 DEF SelfTest
  <2> QED
    BY <2>1 DEF Next, Main, BootAttempt
<1>7. CASE Breakdown \/ Dog \/ Clock
  BY <1>7 DEF Breakdown, Dog, Clock, Next
<1> QED
  BY <1>1, <1>2, <1>3, <1>4, <1>5, <1>6, <1>7 DEF SessionNext, Board

-----------------------------------------------------------------------------
(* What a handler answers and where it goes.                               *)

LEMMA StayAnswers ==
  ASSUME QuietInv, StaySetMode
  PROVE  pc' = "loop" /\ replies' = <<"CONTROLLER_IN_BOOTMODE">>
<1>1. pc = "stay" /\ Return(<<"CONTROLLER_IN_BOOTMODE">>)
  BY DEF StaySetMode
<1> QED
  BY <1>1, ReturnWord

LEMMA EraseAnswers ==
  ASSUME QuietInv, ErasePage \/ ErasePageFails
  PROVE  /\ pc' = "loop" \/ pc' = pc
         /\ replies' \in {<<>>, <<"UC_FLASH_ERASE_SUCCESS">>, <<"UC_FLASH_ERASE_FAIL">>}
<1> DEFINE Words == {"UC_FLASH_ERASE_SUCCESS", "UC_FLASH_ERASE_FAIL"}
<1>1. pc = "erase" /\ replies = <<>>
  BY DEF ErasePage, ErasePageFails, QuietInv
<1>2. ASSUME NEW n, NEW s, Return(EraseAnswer(n, s))
      PROVE  /\ pc' = "loop"
             /\ replies' \in {<<>>, <<"UC_FLASH_ERASE_SUCCESS">>, <<"UC_FLASH_ERASE_FAIL">>}
  <2>1. EraseAnswer(n, s) \in {<<>>, <<"UC_FLASH_ERASE_SUCCESS">>, <<"UC_FLASH_ERASE_FAIL">>}
    BY DEF EraseAnswer
  <2>2. /\ <<>> \in Seq(Words) /\ <<"UC_FLASH_ERASE_SUCCESS">> \in Seq(Words)
        /\ <<"UC_FLASH_ERASE_FAIL">> \in Seq(Words)
    OBVIOUS
  <2>3. EraseAnswer(n, s) \in Seq(Words)
    BY <2>1, <2>2
  <2> QED
    BY <1>1, <1>2, <2>1, <2>3, ReturnAnswers
<1>3. \/ Return(EraseAnswer(1, SectorError)) \/ Return(EraseAnswer(255, "page"))
      \/ UNCHANGED <<pc, replies>>
  BY DEF ErasePage, ErasePageFails
<1> QED
  BY <1>1, <1>2, <1>3

LEMMA DataAnswers ==
  ASSUME QuietInv, DataProgram \/ DataProgramFails \/ DataOverrun \/ DataEnd
  PROVE  /\ pc' = "loop" \/ pc' = pc
         /\ \/ replies' = <<>>
            \/ replies' = <<"APP_WR_DATA_PKT_ACK_PASS">> /\ DataEnd
            \/ replies' # <<>> /\ replies'[1] = "APP_WR_DATA_PKT_ACK_FAIL"
<1> DEFINE Words == {"APP_WR_DATA_PKT_ACK_PASS", "APP_WR_DATA_PKT_ACK_FAIL"}
<1>1. pc = "data" /\ replies = <<>>
  BY DEF DataProgram, DataProgramFails, DataOverrun, DataEnd, MoreData, QuietInv
<1>2. PICK last \in Words : DataAnswer(l_pass_count) = <<last>>
  BY DEF DataAnswer
<1>3. <<last>> \in Seq(Words) /\ <<"APP_WR_DATA_PKT_ACK_FAIL">> \in Seq(Words)
  OBVIOUS
<1>4. CASE DataProgram \/ DataProgramFails
  BY <1>1, <1>4 DEF DataProgram, DataProgramFails, NextDword
<1>5. CASE DataOverrun
  <2> DEFINE answer == <<"APP_WR_DATA_PKT_ACK_FAIL">> \o DataAnswer(l_pass_count)
  <2>1. /\ answer \in Seq(Words) /\ Len(answer) = 1 + 1
        /\ answer[1] = "APP_WR_DATA_PKT_ACK_FAIL"
    <3>1. /\ Len(<<"APP_WR_DATA_PKT_ACK_FAIL">>) = 1 /\ Len(<<last>>) = 1
          /\ <<"APP_WR_DATA_PKT_ACK_FAIL">>[1] = "APP_WR_DATA_PKT_ACK_FAIL"
      OBVIOUS
    <3> QED
      BY <1>2, <1>3, <3>1, ConcatProperties
  <2>2. Return(answer)
    BY <1>5 DEF DataOverrun
  <2> HIDE DEF answer
  <2>3. replies' = answer /\ pc' = "loop"
    BY <1>1, <2>1, <2>2, ReturnAnswers
  <2>4. answer # <<>>
    BY <2>1
  <2> QED
    BY <2>1, <2>3, <2>4
<1>6. CASE DataEnd
  <2>1. Return(<<last>>)
    BY <1>2, <1>6 DEF DataEnd
  <2>2. replies' = <<last>> /\ pc' = "loop"
    BY <1>1, <2>1, ReturnWord
  <2>3. <<last>> # <<>> /\ <<last>>[1] = last
    OBVIOUS
  <2> QED
    BY <1>6, <2>2, <2>3
<1> QED
  BY <1>4, <1>5, <1>6

LEMMA MetadataAnswers ==
  ASSUME QuietInv, SealInv, MetaErase \/ MetaEraseFails \/ MetaProgram \/ MetaProgramFails
  PROVE  \/ replies' = <<>>
         \/ replies' = <<"APP_SIG_DWORD_WR_FAIL">>
         \/ /\ MetaProgram /\ i = 5 /\ msg = "APP_SIG_DWORD"
            /\ replies' = <<"APP_SIG_DWORD_WR_PASS">>
         \/ /\ MetaProgram /\ i = 5 /\ msg = "APP_CRC_VERIFY"
            /\ replies' = <<"APP_CRC_VERIFY">>
<1> DEFINE Words == {"APP_SIG_DWORD_WR_PASS", "APP_SIG_DWORD_WR_FAIL", "APP_CRC_VERIFY"}
<1>1. /\ pc \in {"metaErase", "metaWrite"} /\ replies = <<>>
      /\ msg \in {"APP_SIG_DWORD", "APP_CRC_VERIFY"}
  BY DEF MetaErase, MetaEraseFails, MetaProgram, MetaProgramFails, QuietInv, SealInv, WriteInv
<1>2. /\ <<>> \in Seq(Words) /\ <<"APP_SIG_DWORD_WR_PASS">> \in Seq(Words)
      /\ <<"APP_SIG_DWORD_WR_FAIL">> \in Seq(Words) /\ <<"APP_CRC_VERIFY">> \in Seq(Words)
  OBVIOUS
<1>3. CASE MetaErase \/ (MetaProgram /\ i # 5)
  BY <1>1, <1>3 DEF MetaErase, MetaProgram
<1>4. CASE MetaEraseFails \/ MetaProgramFails
  <2>1. WriteAnswer(FALSE) \in {<<>>, <<"APP_SIG_DWORD_WR_FAIL">>}
    BY DEF WriteAnswer
  <2>2. WriteAnswer(FALSE) \in Seq(Words)
    BY <1>2, <2>1
  <2>3. Return(WriteAnswer(FALSE))
    BY <1>4 DEF MetaEraseFails, MetaProgramFails
  <2> QED
    BY <1>1, <2>1, <2>2, <2>3, ReturnAnswers
<1>5. CASE MetaProgram /\ i = 5
  <2>1. Return(WriteAnswer(TRUE))
    BY <1>5 DEF MetaProgram
  <2>2. \/ msg = "APP_SIG_DWORD" /\ WriteAnswer(TRUE) = <<"APP_SIG_DWORD_WR_PASS">>
        \/ msg = "APP_CRC_VERIFY" /\ WriteAnswer(TRUE) = <<"APP_CRC_VERIFY">>
    BY <1>1 DEF WriteAnswer
  <2>3. WriteAnswer(TRUE) \in Seq(Words)
    BY <1>2, <2>2
  <2>4. replies' = WriteAnswer(TRUE)
    BY <1>1, <2>1, <2>3, ReturnAnswers
  <2> QED
    BY <1>5, <2>2, <2>4
<1> QED
  BY <1>3, <1>4, <1>5

-----------------------------------------------------------------------------
(* The host.                                                               *)

LEMMA Retries ==
  ASSUME ProtocolInv, step \in Request
  PROVE  retry[step] \in Request /\ retry[step] <= step
BY HostsAssumption DEF ProtocolInv

LEMMA Received ==
  ASSUME waiting, NEW reply, Receive(reply)
  PROVE  /\ waiting' = FALSE
         /\ \/ Satisfied(reply) /\ step' = step + 1
            \/ step' = Stay
            \/ step' = retry[step]
<1>1. /\ waiting' = FALSE
      /\ step' = CASE ~waiting          -> step
                   [] Satisfied(reply)  -> step + 1
                   [] step = Verify /\ reply = Expected(step) -> Stay
                   [] OTHER             -> retry[step]
  BY DEF Receive
<1>2. CASE Satisfied(reply)
  <2>1. ~(step = Verify /\ reply = Expected(step)) \/ step = Verify
    OBVIOUS
  <2>2. step' \in {step + 1, Stay}
    BY <1>1, <1>2
  <2> QED
    BY <1>1, <1>2, <2>2
<1>3. CASE ~Satisfied(reply)
  BY <1>1, <1>3
<1> QED
  BY <1>2, <1>3

LEMMA ExpectedWords ==
  ASSUME step \in Request
  PROVE  /\ step = Erase => Expected(step) = "UC_FLASH_ERASE_SUCCESS"
         /\ step \in DataStep => Expected(step) = "APP_WR_DATA_PKT_ACK_PASS"
         /\ step = Sign => Expected(step) = "APP_SIG_DWORD_WR_PASS"
         /\ step = Verify => Expected(step) = "APP_CRC_VERIFY"
<1>1. /\ Packets \in Nat \ {0} /\ DataStep = 3 .. (2 + Packets)
      /\ Stay = 1 /\ Erase = 2 /\ Sign = 3 + Packets /\ Verify = 4 + Packets
  BY Steps
<1>2. CASE step = Erase
  <2>1. step # Stay /\ step \notin DataStep /\ step # Sign /\ step # Verify
    BY <1>1, <1>2
  <2> QED
    BY <1>2, <2>1 DEF Expected
<1>3. CASE step \in DataStep
  <2>1. step # Stay /\ step # Erase /\ step # Sign /\ step # Verify
    BY <1>1, <1>3
  <2> QED
    BY <1>3, <2>1 DEF Expected
<1>4. CASE step = Sign
  <2>1. step # Stay /\ step # Erase /\ step \notin DataStep /\ step # Verify
    BY <1>1, <1>4
  <2> QED
    BY <1>4, <2>1 DEF Expected
<1>5. CASE step = Verify
  <2>1. step # Stay /\ step # Erase /\ step \notin DataStep /\ step # Sign
    BY <1>1, <1>5
  <2> QED
    BY <1>5, <2>1 DEF Expected
<1> QED
  BY <1>2, <1>3, <1>4, <1>5

-----------------------------------------------------------------------------
(* One request at a time.                                                  *)

LEMMA HandlerStep ==
  ASSUME QuietInv, Handler
  PROVE  /\ pc \in Handling
         /\ \/ pc' = "loop"
            \/ /\ UNCHANGED <<Dword, msg, metadata>>
               /\ \/ pc' = pc
                  \/ pc = "metaErase" /\ pc' = "metaWrite"
<1>1. CASE StaySetMode
  BY <1>1 DEF StaySetMode, Return, Handling
<1>2. CASE ErasePage \/ ErasePageFails
  BY <1>2 DEF ErasePage, ErasePageFails, Return, Handling
<1>3. CASE DataProgram \/ DataProgramFails
  BY <1>3 DEF DataProgram, DataProgramFails, MoreData, NextDword, Handling
<1>4. CASE DataOverrun \/ DataEnd
  BY <1>4 DEF DataOverrun, DataEnd, MoreData, Return, Handling
<1>5. CASE MetaErase \/ MetaEraseFails
  BY <1>5 DEF MetaErase, MetaEraseFails, Unwritten, Return, Handling
<1>6. CASE MetaProgram \/ MetaProgramFails
  BY <1>6 DEF MetaProgram, MetaProgramFails, Unwritten, Return, Handling
<1> QED
  BY <1>1, <1>2, <1>3, <1>4, <1>5, <1>6 DEF Handler

LEMMA HandlerKeepsProtocol ==
  ASSUME SealInv, QuietInv, ProtocolInv, AnswerInv, Handler,
         UNCHANGED <<retry, step, waiting, mail>>
  PROVE  ProtocolInv' /\ AnswerInv'
<1>1. /\ pc \in Handling /\ waiting /\ mail = NoRequest
      /\ \/ pc' = "loop"
         \/ /\ UNCHANGED <<Dword, msg, metadata>>
            /\ \/ pc' = pc
               \/ pc = "metaErase" /\ pc' = "metaWrite"
  BY HandlerStep DEF ProtocolInv
<1>2. HandlerInv'
  BY <1>1 DEF ProtocolInv, HandlerInv, Packet
<1>3. ProtocolInv'
  BY <1>1, <1>2 DEF ProtocolInv
<1>4. AnswerInv'
  <2>1. CASE StaySetMode
    <3>1. pc = "stay" /\ replies' = <<"CONTROLLER_IN_BOOTMODE">>
      BY <2>1, StayAnswers DEF StaySetMode
    <3> QED
      BY <3>1 DEF AnswerInv, ProtocolInv, HandlerInv
  <2>2. CASE ErasePage \/ ErasePageFails
    <3>1. pc = "erase"
      BY <2>2 DEF ErasePage, ErasePageFails
    <3>2. replies' \in {<<>>, <<"UC_FLASH_ERASE_SUCCESS">>, <<"UC_FLASH_ERASE_FAIL">>}
      BY <2>2, EraseAnswers
    <3> QED
      BY <3>1, <3>2 DEF AnswerInv, ProtocolInv, HandlerInv
  <2>3. CASE DataProgram \/ DataProgramFails \/ DataOverrun \/ DataEnd
    <3>1. pc = "data"
      BY <2>3 DEF DataProgram, DataProgramFails, DataOverrun, DataEnd, MoreData
    <3>2. \/ replies' = <<>>
          \/ replies' = <<"APP_WR_DATA_PKT_ACK_PASS">>
          \/ replies' # <<>> /\ replies'[1] = "APP_WR_DATA_PKT_ACK_FAIL"
      BY <2>3, DataAnswers
    <3> QED
      BY <3>1, <3>2 DEF AnswerInv, ProtocolInv, HandlerInv
  <2>4. CASE MetaErase \/ MetaEraseFails \/ MetaProgram \/ MetaProgramFails
    <3>1. pc \in {"metaErase", "metaWrite"}
      BY <2>4 DEF MetaErase, MetaEraseFails, MetaProgram, MetaProgramFails
    <3>2. \/ replies' \in {<<>>, <<"APP_SIG_DWORD_WR_FAIL">>}
          \/ msg = "APP_SIG_DWORD" /\ replies' = <<"APP_SIG_DWORD_WR_PASS">>
          \/ msg = "APP_CRC_VERIFY" /\ replies' = <<"APP_CRC_VERIFY">>
      BY <2>4, MetadataAnswers
    <3> QED
      BY <3>1, <3>2 DEF AnswerInv, ProtocolInv, HandlerInv
  <2> QED
    BY <2>1, <2>2, <2>3, <2>4 DEF Handler
<1> QED
  BY <1>3, <1>4

(* Nothing is being done and nothing is on its way.                        *)
LEMMA AtEase ==
  ASSUME retry' \in Hosts, step' \in 1 .. Done, waiting' \in BOOLEAN,
         mail' \in {NoRequest, step'},
         waiting' => step' \in Request, mail' # NoRequest => waiting',
         pc' \notin Handling, replies' = <<>>
  PROVE  ProtocolInv' /\ AnswerInv'
BY DEF ProtocolInv, HandlerInv, AnswerInv, Handling

LEMMA Taken ==
  ASSUME QuietInv, ProtocolInv, Take
  PROVE  /\ pc = "usb" /\ replies = <<>> /\ mail # NoRequest /\ mail = step /\ waiting
         /\ mail' = NoRequest /\ UNCHANGED <<retry, step, waiting>>
<1>1. pc = "usb" /\ mail # NoRequest
  BY Steps
  DEF Take, Begin, BadCrc, EraseRefused, StayInBootloaderMode, EraseBegin, DataBegin,
      AppSigDword, AppCrcVerify, Dispatch
<1> QED
  BY <1>1 DEF Take, QuietInv, ProtocolInv

LEMMA ProtocolNext ==
  ASSUME TypeInv, SealInv, QuietInv, QuietInv', ProtocolInv, AnswerInv,
         [SessionNext]_sessionVars
  PROVE  ProtocolInv' /\ AnswerInv'
<1>s. /\ Packets \in Nat \ {0} /\ Request = 1 .. (4 + Packets) /\ Done = 6 + Packets
      /\ Stay = 1 /\ SwitchOff = 5 + Packets /\ NoRequest = 0
  BY Steps
<1>p. /\ retry \in Hosts /\ step \in 1 .. Done /\ waiting \in BOOLEAN
      /\ mail \in {NoRequest, step} /\ (waiting => step \in Request)
      /\ (mail # NoRequest => waiting)
      /\ pc \in Handling \/ replies # <<>> => waiting /\ mail = NoRequest
  BY DEF ProtocolInv
<1>1. CASE UNCHANGED sessionVars
  <2>1. UNCHANGED <<retry, step, waiting, mail, pc, replies, Dword, msg, metadata>>
    BY <1>1 DEF sessionVars, session, vars, locals
  <2> QED
    BY <2>1 DEF ProtocolInv, HandlerInv, AnswerInv, Packet
<1>2. CASE Send
  <2>1. /\ step \in Request /\ ~waiting /\ waiting' = TRUE /\ mail' \in {step, mail}
        /\ UNCHANGED <<retry, step, pc, replies>>
    BY <1>2 DEF Send, vars
  <2>2. pc \notin Handling /\ replies = <<>>
    BY <1>p, <2>1
  <2> QED
    BY <1>p, <2>1, <2>2, AtEase
<1>3. CASE GiveUp
  <2>1. /\ waiting /\ mail = NoRequest /\ pc \in {"loop", "usb"} /\ replies = <<>>
        /\ waiting' = FALSE /\ step' = retry[step] /\ UNCHANGED <<retry, mail, pc, replies>>
    BY <1>3 DEF GiveUp, vars
  <2>2. step' \in 1 .. Done
    BY <1>s, <1>p, <2>1, Retries
  <2> QED
    BY <1>p, <2>1, <2>2, AtEase DEF Handling
<1>4. CASE NextBoot
  <2>1. /\ step = SwitchOff /\ step' = Done /\ pc' = "loop" /\ replies' = <<>>
        /\ UNCHANGED <<retry, waiting, mail>>
    BY <1>4 DEF NextBoot, PowerCycle, Reboot
  <2>2. ~waiting /\ mail = NoRequest /\ step' \in 1 .. Done
    BY <1>s, <1>p, <2>1
  <2> QED
    BY <1>p, <2>1, <2>2, AtEase DEF Handling
<1>5. CASE Poll
  <2>1. /\ pc' \notin Handling /\ replies' = <<>> /\ UNCHANGED <<retry, mail>>
        /\ \/ UNCHANGED <<step, waiting>>
           \/ replies # <<>> /\ Receive(replies[1])
    BY <1>5 DEF Poll, Deliver, LoopHead, PostBegin, Forget, Handling
  <2>2. CASE UNCHANGED <<step, waiting>>
    BY <1>p, <2>1, <2>2, AtEase
  <2>3. CASE replies # <<>> /\ Receive(replies[1])
    <3>1. waiting /\ mail = NoRequest /\ step \in Request
      BY <1>p, <2>3
    <3>2. waiting' = FALSE /\ step' \in {step + 1, Stay, retry[step]}
      BY <2>3, <3>1, Received
    <3>3. step' \in 1 .. Done
      BY <1>s, <3>1, <3>2, Retries
    <3> QED
      BY <1>p, <2>1, <3>1, <3>2, <3>3, AtEase
  <2> QED
    BY <2>1, <2>2, <2>3
<1>6. CASE Idle
  <2>1. pc = "usb" /\ pc' = "loop" /\ UNCHANGED <<retry, step, waiting, mail, replies>>
    BY <1>6 DEF Idle, NoFrame, session
  <2>2. replies = <<>>
    BY <2>1 DEF QuietInv
  <2> QED
    BY <1>p, <2>1, <2>2, AtEase DEF Handling
<1>7. CASE Take
  <2>1. /\ pc = "usb" /\ replies = <<>> /\ mail # NoRequest /\ mail = step /\ waiting
        /\ mail' = NoRequest /\ UNCHANGED <<retry, step, waiting>>
    BY <1>7, Taken
  <2>2. CASE Begin
    <3>1. replies' = <<>> /\ HandlerInv'
      <4>1. CASE mail = Stay /\ StayInBootloaderMode
        BY <2>1, <4>1 DEF StayInBootloaderMode, HandlerInv
      <4>2. CASE mail = Erase /\ EraseBegin
        BY <2>1, <4>2 DEF EraseBegin, HandlerInv
      <4>3. CASE mail \in DataStep /\ DataBegin /\ Dword' = Packet(mail - 2)
        BY <2>1, <4>3 DEF DataBegin, HandlerInv, Packet
      <4>4. CASE mail = Sign /\ AppSigDword(INTERNAL_FLASH_VERSION)
        <5>1. /\ msg' = "APP_SIG_DWORD" /\ pc' = "metaErase" /\ replies' = replies
              /\ step' = Sign
          BY <2>1, <4>4 DEF AppSigDword, Dispatch
        <5> QED
          BY <2>1, <5>1 DEF HandlerInv
      <4>5. CASE mail = Verify /\ AppCrcVerify(ImageSize)
        <5>1. /\ msg' = "APP_CRC_VERIFY" /\ pc' = "metaErase" /\ replies' = replies
              /\ metadata' = Measured(LoadOrDefault(meta), ImageSize) /\ step' = Verify
          BY <2>1, <4>5 DEF AppCrcVerify, Dispatch
        <5>2. DOMAIN LoadOrDefault(meta) = Fields
          BY DEF TypeInv, TypeOK, FlashOK, IsMetadata, LoadOrDefault, NoMetadata
        <5>3. metadata'[Size] = ImageSize
          BY <5>1, <5>2 DEF Measured, Fields, Size, CrcWord
        <5> QED
          BY <2>1, <5>1, <5>3 DEF HandlerInv
      <4> QED
        BY <2>2, <4>1, <4>2, <4>3, <4>4, <4>5 DEF Begin
    <3> QED
      BY <1>p, <2>1, <3>1 DEF ProtocolInv, AnswerInv
  <2>3. CASE BadCrc
    <3>1. pc' = "loop" /\ replies' = <<"CRC_CHECK_FAIL">>
      BY <2>3 DEF BadCrc
    <3> QED
      BY <1>p, <2>1, <3>1 DEF ProtocolInv, HandlerInv, AnswerInv
  <2>4. CASE mail = Erase /\ EraseRefused
    <3>1. pc' = "loop" /\ replies' \in {<<>>, <<"UC_FLASH_ERASE_FAIL">>}
      BY <2>4 DEF EraseRefused, EraseAnswer
    <3> QED
      BY <1>p, <2>1, <3>1 DEF ProtocolInv, HandlerInv, AnswerInv
  <2> QED
    BY <1>7, <2>2, <2>3, <2>4 DEF Take
<1>8. CASE Working \/ Failing
  <2>1. Handler /\ UNCHANGED <<retry, step, waiting, mail>>
    BY <1>8 DEF Working, Failing, Handler, session
  <2> QED
    BY <2>1, HandlerKeepsProtocol
<1>9. CASE SelfTest
  <2>1. /\ pc = "post" /\ pc' \in {"post", "hang", "app", "usb"}
        /\ UNCHANGED <<retry, step, waiting, mail, replies>>
    BY <1>9 DEF SelfTest, PostDelay, PostVerdict, Hang
  <2>2. replies = <<>>
    BY <2>1 DEF QuietInv
  <2> QED
    BY <1>p, <2>1, <2>2, AtEase DEF Handling
<1>10. CASE Breakdown \/ Dog
  <2>1. /\ pc' \in {"loop", "hang"} /\ UNCHANGED <<retry, step, waiting>>
        /\ mail' \in {NoRequest, mail}
        /\ replies' = <<>>
    BY <1>10 DEF Breakdown, Dog, EccError, PowerCycle, WatchdogReset, Reboot, Hang
  <2> QED
    BY <1>p, <2>1, AtEase DEF Handling
<1>11. CASE Clock
  <2>1. UNCHANGED <<retry, step, waiting, mail, pc, replies, Dword, msg, metadata>>
    BY <1>11 DEF Clock, session, Second, Tim5Interrupt, locals
  <2> QED
    BY <2>1 DEF ProtocolInv, HandlerInv, AnswerInv, Packet
<1> QED
  BY <1>1, <1>2, <1>3, <1>4, <1>5, <1>6, <1>7, <1>8, <1>9, <1>10, <1>11
  DEF SessionNext, Host, Board

-----------------------------------------------------------------------------
(* How the slot stands to the image.                                       *)

LEMMA InstalledBoots ==
  Installed => slot[0] = Image[1] /\ slot[0] \in BootWords
<1>1. 0 \in 0 .. (ImageSize - 1) /\ 0 + 1 = 1
  BY Sizing
<1> QED
  BY <1>1, FirstDword DEF Installed

LEMMA PrefixBoots ==
  ASSUME NEW n \in Nat \ {0}, Prefix(n)
  PROVE  slot[0] \in BootWords
<1>1. 0 \in 0 .. (n - 1) /\ 0 + 1 = 1
  OBVIOUS
<1> QED
  BY <1>1, FirstDword DEF Prefix

LEMMA LoadedIsReady ==
  ASSUME Loaded, NEW p \in 1 .. Packets
  PROVE  Ready(p)
<1>1. CASE Spoilt
  BY <1>1 DEF Ready
<1>2. CASE Installed /\ g_app_start_address >= ImageSize
  BY <1>2 DEF Ready
<1>3. CASE Installed /\ g_app_start_address = 0
  <2>1. CASE p = 1
    <3>1. Prefix(0)
      BY DEF Prefix
    <3> QED
      BY <1>3, <2>1, <3>1, Sizing DEF Ready
  <2>2. CASE p # 1
    BY <1>3, <2>2, InstalledBoots DEF Ready
  <2> QED
    BY <2>1, <2>2
<1> QED
  BY <1>1, <1>2, <1>3 DEF Loaded

LEMMA SlotAsItWas ==
  ASSUME UNCHANGED slot
  PROVE  /\ Spoilt => Spoilt'
         /\ Installed => Installed'
         /\ \A n : Prefix(n) => Prefix(n)'
BY DEF Spoilt, Installed, Prefix

(* A reset puts the address back to the beginning.                         *)
LEMMA ReadyAfterReset ==
  ASSUME UNCHANGED slot, g_app_start_address' = 0, NEW p \in 1 .. Packets, Ready(p)
  PROVE  Ready(p)'
<1>1. CASE Spoilt
  BY <1>1, SlotAsItWas DEF Ready
<1>2. CASE p = 1
  <2>1. Prefix(0)'
    BY DEF Prefix
  <2> QED
    BY <1>2, <2>1, Sizing DEF Ready
<1>3. CASE ~Spoilt /\ p # 1
  <2>1. p \in 2 .. Packets
    BY <1>3
  <2>2. PacketStart[p] \in Nat \ {0}
    BY <2>1, LaterPacket, Sizing
  <2>3. slot[0] \in BootWords
    BY <1>3, <2>2, InstalledBoots, PrefixBoots DEF Ready
  <2> QED
    BY <1>3, <2>3 DEF Ready
<1> QED
  BY <1>1, <1>2, <1>3

LEMMA LoadedAfterReset ==
  ASSUME UNCHANGED slot, g_app_start_address' = 0, Loaded
  PROVE  Loaded'
BY SlotAsItWas DEF Loaded

(* APP_CRC_VERIFY seals the image or what does not boot.                   *)
LEMMA LoadedSeals ==
  ASSUME Loaded
  PROVE  OfTheImage(Crc(slot, ImageSize))
<1> DEFINE digest == Crc(slot, ImageSize)
<1>1. /\ DOMAIN digest = 0 .. (ImageSize - 1)
      /\ \A a \in 0 .. (ImageSize - 1) : digest[a] = slot[a]
  BY DEF Crc
<1>2. 0 \in 0 .. (ImageSize - 1)
  BY Sizing
<1>3. CASE Spoilt
  BY <1>1, <1>2, <1>3 DEF Spoilt, OfTheImage
<1>4. CASE Installed
  BY <1>1, <1>4 DEF Installed, OfTheImage
<1> QED
  BY <1>3, <1>4 DEF Loaded

-----------------------------------------------------------------------------
(* APPLICATION_DATA.                                                       *)

LEMMA PacketBegins ==
  ASSUME NEW p \in 1 .. Packets, Ready(p), i = 0,
         UNCHANGED <<slot, g_app_start_address, i>>
  PROVE  InPacket(p)'
<1>1. /\ PacketStart[p] \in Nat /\ ImageSize \in Nat
      /\ PacketStart[p] + i = PacketStart[p] /\ ImageSize + i = ImageSize
  BY Steps, Sizing
<1>2. CASE Spoilt
  BY <1>2, SlotAsItWas DEF InPacket
<1>3. CASE Installed /\ g_app_start_address >= ImageSize
  BY <1>1, <1>3, SlotAsItWas DEF InPacket
<1>4. CASE g_app_start_address = PacketStart[p] /\ Prefix(PacketStart[p])
  <2>1. Prefix(PacketStart[p])'
    BY <1>4, SlotAsItWas
  <2> QED
    BY <1>1, <1>4, <2>1 DEF InPacket
<1>5. CASE g_app_start_address = 0 /\ slot[0] \in BootWords /\ p # 1
  BY <1>5 DEF InPacket
<1> QED
  BY <1>2, <1>3, <1>4, <1>5 DEF Ready

(* What a program can do to the slot at the address, which is not inside   *)
(* the first n double words.                                               *)
LEMMA PrefixKept ==
  ASSUME NEW n \in Nat, NEW a \in Nat, n <= a, NEW x, slot' = [slot EXCEPT ![a] = x],
         Prefix(n)
  PROVE  Prefix(n)'
BY DEF Prefix

LEMMA PacketGoesOn ==
  ASSUME TypeInv, DataInv, MoreData, NEW p \in 1 .. Packets, InPacket(p), i \in 0 .. 126,
         i' = i + 1, g_app_start_address' = g_app_start_address + 1,
         \/ /\ l_pass_count' = (l_pass_count + 1) % 256
            /\ Programmable(g_app_start_address)
            /\ slot' = [slot EXCEPT ![g_app_start_address] = Dword[i + 1]]
         \/ /\ l_pass_count' = (l_pass_count + 255) % 256
            /\ Programmable(g_app_start_address)
            /\ slot' = [slot EXCEPT ![g_app_start_address] = Torn]
         \/ /\ l_pass_count' = (l_pass_count + 255) % 256
            /\ slot' = slot
  PROVE  InPacket(p)'
<1>t. /\ slot \in [Addr -> Word] /\ 0 \in Addr /\ i \in Nat
      /\ g_app_start_address \in Nat /\ g_app_start_address \in Addr
      /\ ImageSize \in Nat /\ PacketStart[p] \in Nat
  BY Steps, Sizing, SlotDwordsPositive DEF TypeInv, TypeOK, FlashOK, GlobalsOK, Addr
<1>1. PICK x : /\ slot' = slot \/ slot' = [slot EXCEPT ![g_app_start_address] = x]
               /\ slot' # slot => /\ Programmable(g_app_start_address)
                                  /\ x \in {Dword[i + 1], Torn}
  OBVIOUS
<1>d. Dword[i + 1] \in Code
  <2>1. Dword \in Seq(Code) /\ i + 1 \in 1 .. Len(Dword)
    BY <1>t DEF TypeInv, TypeOK, LocalsOK, MoreData
  <2> QED
    BY <2>1, ElementOfSeq
(* The first double word, once it is programmed, is only ever spoilt.      *)
<1>2. ASSUME slot[0] # Erased, g_app_start_address = 0, Programmable(g_app_start_address),
             NEW y \in {Dword[i + 1], Torn}, slot' = [slot EXCEPT ![g_app_start_address] = y]
      PROVE  Spoilt'
  <2>1. y \in {Zero, Torn}
    BY <1>2 DEF Programmable
  <2>2. slot'[0] = y
    BY <1>t, <1>2
  <2>3. Zero # Erased
    BY <1>2, <1>d, ValuesAssumption DEF Programmable
  <2> QED
    BY <2>1, <2>2, <2>3, FirstDword DEF Spoilt
<1>3. CASE Spoilt
  <2>1. CASE slot' = slot
    BY <1>3, <2>1, SlotAsItWas DEF InPacket
  <2>2. CASE slot' # slot /\ g_app_start_address = 0
    BY <1>1, <1>2, <1>3, <2>2 DEF Spoilt, InPacket
  <2>3. CASE slot' # slot /\ g_app_start_address # 0
    <3>1. slot'[0] = slot[0]
      BY <1>t, <1>1, <2>3
    <3> QED
      BY <1>3, <3>1 DEF Spoilt, InPacket
  <2> QED
    BY <2>1, <2>2, <2>3
<1>4. ASSUME NEW n \in Nat, Prefix(n), n <= g_app_start_address
      PROVE  Prefix(n)'
  BY <1>t, <1>1, <1>4, PrefixKept, SlotAsItWas
<1>5. CASE Installed /\ g_app_start_address >= ImageSize + i
  <2>1. Prefix(ImageSize)
    BY <1>5 DEF Installed, Prefix
  <2>2. ImageSize <= g_app_start_address /\ g_app_start_address' >= ImageSize + i'
    BY <1>t, <1>5
  <2>3. Prefix(ImageSize)'
    BY <1>t, <1>4, <2>1, <2>2
  <2>4. Installed'
    BY <2>3 DEF Installed, Prefix
  <2> QED
    BY <2>2, <2>4 DEF InPacket
<1>6. CASE g_app_start_address = PacketStart[p] + i /\ Prefix(PacketStart[p])
  <2>1. /\ PacketStart[p] <= g_app_start_address
        /\ g_app_start_address' = PacketStart[p] + i'
    BY <1>t, <1>6
  <2>2. Prefix(PacketStart[p])'
    BY <1>t, <1>4, <1>6, <2>1
  <2> QED
    BY <2>1, <2>2 DEF InPacket
<1>7. CASE /\ g_app_start_address = i /\ p # 1
           /\ IF i = 0 THEN slot[0] \in BootWords
                       ELSE \E failed \in 1 .. i : l_pass_count = Count(i, failed)
  <2>t. /\ i \in 0 .. 127 /\ i + 1 \in 0 .. 127 /\ i' # 0
        /\ g_app_start_address' = i'
    BY <1>t, <1>7
  <2>1. CASE i = 0
    <3>1. slot[0] # Erased /\ g_app_start_address = 0 /\ p # 1
      BY <1>7, <2>1, FirstDword
    <3>2. ASSUME NEW y \in {Dword[i + 1], Torn}, Programmable(g_app_start_address),
                 slot' = [slot EXCEPT ![g_app_start_address] = y]
          PROVE  InPacket(p)'
      BY <1>2, <3>1, <3>2 DEF InPacket
    <3>3. CASE l_pass_count' = (l_pass_count + 255) % 256
      <4>1. PICK failed \in 0 .. i : l_pass_count = Count(i, failed)
        BY DEF DataInv, Written, MoreData
      <4>2. failed \in 0 .. 0 /\ failed = 0
        BY <2>1, <4>1
      <4>3. (l_pass_count + 255) % 256 = Count(i + 1, 0 + 1)
        BY <4>1, <4>2, CountFails
      <4>4. \E f \in 1 .. i' : l_pass_count' = Count(i', f)
        BY <2>1, <3>3, <4>3
      <4> QED
        BY <2>t, <3>1, <4>4 DEF InPacket
    <3> QED
      BY <3>2, <3>3
  <2>2. CASE i # 0
    <3>1. PICK failed \in 1 .. i : l_pass_count = Count(i, failed)
      BY <1>7, <2>2
    <3>2. failed \in 0 .. i
      BY <1>t, <3>1
    <3>3. /\ (Count(i, failed) + 1) % 256 = Count(i + 1, failed)
          /\ (Count(i, failed) + 255) % 256 = Count(i + 1, failed + 1)
      <4>1. (Count(i, failed) + 1) % 256 = Count(i + 1, failed)
        BY <2>t, <3>2, CountPasses
      <4>2. (Count(i, failed) + 255) % 256 = Count(i + 1, failed + 1)
        BY <2>t, <3>2, CountFails
      <4> QED
        BY <4>1, <4>2
    <3>4. failed \in 1 .. (i + 1) /\ failed + 1 \in 1 .. (i + 1)
      BY <1>t, <3>1
    <3>5. \E f \in 1 .. (i + 1) : l_pass_count' = Count(i + 1, f)
      BY <3>1, <3>3, <3>4
    <3> QED
      BY <1>7, <2>t, <3>5 DEF InPacket
  <2> QED
    BY <2>1, <2>2
<1> QED
  BY <1>3, <1>5, <1>6, <1>7 DEF InPacket

(* With PASS, the packet lies where its place in the image is, or the slot *)
(* does not boot anyway.                                                   *)
LEMMA PacketLands ==
  ASSUME TypeInv, QuietInv, PassMeansStored', NEW p \in 1 .. Packets, Dword = Packet(p),
         InPacket(p), DataEnd, replies' = <<"APP_WR_DATA_PKT_ACK_PASS">>
  PROVE  Landed(p)'
<1> DEFINE n == PacketStart[p]
<1>t. /\ i = Len(Dword) /\ pc = "data" /\ UNCHANGED <<slot, g_app_start_address, Dword>>
      /\ g_app_start_address \in Nat /\ ImageSize \in Nat /\ n \in Nat
      /\ Return(DataAnswer(l_pass_count))
  BY Steps, Sizing, SlotDwordsPositive
  DEF DataEnd, flash, globals, TypeInv, TypeOK, GlobalsOK
<1>p. /\ i \in 1 .. NUM_OF_DWORDS /\ i \in Nat /\ n + i = PacketStart[p + 1]
      /\ \A k \in 1 .. i : Dword[k] = Image[n + k]
  <2>1. /\ Len(Packet(p)) \in 1 .. NUM_OF_DWORDS
        /\ PacketStart[p] + Len(Packet(p)) = PacketStart[p + 1]
        /\ \A k \in 1 .. Len(Packet(p)) : Packet(p)[k] = Image[PacketStart[p] + k]
    BY PacketOfImage
  <2>2. i = Len(Packet(p)) /\ Dword = Packet(p)
    BY <1>t
  <2> QED
    BY <2>1, <2>2, SizesAssumption
<1>1. CASE Spoilt
  BY <1>t, <1>1, SlotAsItWas DEF Landed
<1>2. CASE Installed /\ g_app_start_address >= ImageSize + i
  <2>1. g_app_start_address >= ImageSize
    BY <1>t, <1>p, <1>2
  <2> QED
    BY <1>t, <1>2, <2>1, SlotAsItWas DEF Landed
<1>3. CASE g_app_start_address = n + i /\ Prefix(n)
  <2>1. \A k \in 1 .. i : slot[g_app_start_address - i + (k - 1)] = Dword[k]
    BY <1>t DEF PassMeansStored
  <2>2. \A k \in 1 .. i : slot[n + (k - 1)] = Image[n + k]
    <3>1. g_app_start_address - i = n
      BY <1>t, <1>p, <1>3
    <3> QED
      BY <1>p, <2>1, <3>1
  <2>3. ASSUME NEW a \in 0 .. ((n + i) - 1)
        PROVE  slot[a] = Image[a + 1]
    <3>1. CASE a < n
      BY <1>t, <1>3, <3>1 DEF Prefix
    <3>2. CASE ~(a < n)
      <4>1. /\ a - n + 1 \in 1 .. i /\ n + ((a - n + 1) - 1) = a
            /\ n + (a - n + 1) = a + 1
        BY <1>t, <1>p, <3>2
      <4> QED
        BY <2>2, <4>1
    <3> QED
      BY <3>1, <3>2
  <2>4. Prefix(n + i)
    BY <2>3 DEF Prefix
  <2>5. Prefix(PacketStart[p + 1])'
    BY <1>t, <1>p, <2>4, SlotAsItWas
  <2> QED
    BY <1>t, <1>p, <1>3, <2>5 DEF Landed
<1>4. CASE /\ g_app_start_address = i /\ p # 1
           /\ IF i = 0 THEN slot[0] \in BootWords
                       ELSE \E failed \in 1 .. i : l_pass_count = Count(i, failed)
  <2>1. l_pass_count = i
    <3>1. ASSUME l_pass_count # i
          PROVE  FALSE
      <4>1. Return(<<"APP_WR_DATA_PKT_ACK_FAIL">>)
        BY <1>t, <3>1 DEF DataAnswer
      <4>2. replies' = <<"APP_WR_DATA_PKT_ACK_FAIL">>
        BY <1>t, <4>1, ReturnWord
      <4> QED
        BY <4>2
    <3> QED
      BY <3>1
  <2>2. PICK failed \in 1 .. i : l_pass_count = Count(i, failed)
    BY <1>p, <1>4
  <2>3. i \in 0 .. 127 /\ failed \in 0 .. i /\ failed # 0
    BY <1>p, SizesAssumption
  <2> QED
    BY <2>1, <2>2, <2>3, CountAll
<1> QED
  BY <1>1, <1>2, <1>3, <1>4 DEF InPacket

LEMMA LandedIsReady ==
  ASSUME NEW p \in 1 .. Packets, Landed(p)
  PROVE  /\ p # Packets => Ready(p + 1)
         /\ p = Packets => Loaded
<1>1. Ready(p + 1)
  BY DEF Landed, Ready
<1>2. CASE p = Packets
  <2>1. PacketStart[p + 1] = ImageSize /\ ImageSize \in Nat
    BY <1>2, Sizing
  <2>2. Prefix(ImageSize) => Installed
    BY DEF Prefix, Installed
  <2>3. ImageSize >= ImageSize
    BY <2>1
  <2> QED
    BY <1>1, <2>1, <2>2, <2>3 DEF Landed, Loaded
<1> QED
  BY <1>1, <1>2

-----------------------------------------------------------------------------
(* Nothing but the image.                                                  *)

(* Steps that leave the slot and the address alone.                        *)
LEMMA SlotKept ==
  ASSUME SlotInv, UNCHANGED <<slot, sealed, g_app_start_address, step>>,
         (waiting' => mail' = step') => (waiting => mail = step),
         pc' \notin {"erase", "data"},
         \/ replies' = <<>>
         \/ replies'[1] \notin {"UC_FLASH_ERASE_SUCCESS", "APP_WR_DATA_PKT_ACK_PASS"}
  PROVE  SlotInv'
<1>1. sealed' = Erased \/ OfTheImage(sealed)'
  BY DEF SlotInv, OfTheImage
<1>2. Loaded => Loaded'
  BY SlotAsItWas DEF Loaded
<1>3. Ready(step - 2) => Ready(step - 2)'
  BY DEF Ready, Spoilt, Installed, Prefix
<1> QED
  BY <1>1, <1>2, <1>3 DEF SlotInv

LEMMA HostKeepsRetry ==
  ASSUME [SessionNext]_sessionVars
  PROVE  retry' = retry
BY DEF SessionNext, sessionVars, session, Host, Send, GiveUp, NextBoot, Board, Poll,
       Deliver, Idle, Take, Working, SelfTest, Failing, Breakdown, Dog, Clock

(* The host goes on, with Ready where it sends data next.                  *)
LEMMA HostGoesTo ==
  ASSUME SlotInv, UNCHANGED <<slot, sealed, g_app_start_address>>,
         pc' \notin {"erase", "data"}, replies' = <<>>,
         step' \in DataStep => \E p \in 1 .. Packets : p = step' - 2 /\ Ready(p),
         step' \in {Sign, Verify} => Loaded
  PROVE  SlotInv'
<1>1. sealed' = Erased \/ OfTheImage(sealed)'
  BY DEF SlotInv, OfTheImage
<1>2. Loaded => Loaded'
  BY SlotAsItWas DEF Loaded
<1>3. step' \in DataStep => Ready(step - 2)'
  BY DEF Ready, Spoilt, Installed, Prefix
<1> QED
  BY <1>1, <1>2, <1>3 DEF SlotInv

LEMMA PacketOfStep ==
  ASSUME NEW s \in DataStep
  PROVE  s - 2 \in 1 .. Packets
BY Steps

(* After a failure a host that starts over is not at a data packet, unless *)
(* the image was in the slot.                                              *)
LEMMA HostGoesBack ==
  ASSUME ProtocolInv, StartsOver, SlotInv, step \in Request,
         UNCHANGED <<slot, sealed, g_app_start_address>>,
         pc' \notin {"erase", "data"}, replies' = <<>>,
         step' \in {retry[step], Stay}
  PROVE  SlotInv'
<1>s. /\ Packets \in Nat \ {0} /\ DataStep = 3 .. (2 + Packets)
      /\ Stay = 1 /\ Erase = 2 /\ Sign = 3 + Packets /\ Verify = 4 + Packets
      /\ Request = 1 .. (4 + Packets)
  BY Steps
<1>r. step' \in Request /\ step' <= step
  BY <1>s, Retries
<1>1. ASSUME step' \in DataStep \cup {Sign, Verify}
      PROVE  Loaded
  <2>1. step \notin {Stay, Erase}
    BY <1>s, <1>r, <1>1
  <2>2. step \notin DataStep
    <3>1. step' \notin {Stay, Erase}
      BY <1>s, <1>1
    <3> QED
      BY <3>1 DEF StartsOver
  <2>3. step \in {Sign, Verify}
    BY <1>s, <2>1, <2>2
  <2> QED
    BY <2>3 DEF SlotInv
<1>2. ASSUME step' \in DataStep
      PROVE  \E p \in 1 .. Packets : p = step' - 2 /\ Ready(p)
  <2>1. PICK p \in 1 .. Packets : p = step' - 2
    BY <1>2, PacketOfStep
  <2>2. Loaded
    BY <1>1, <1>2
  <2> QED
    BY <2>1, <2>2, LoadedIsReady
<1> QED
  BY <1>1, <1>2, HostGoesTo

(* After the expected answer.                                              *)
LEMMA HostGoesOn ==
  ASSUME ProtocolInv, AnswerInv, SlotInv, step \in Request, replies # <<>>,
         Satisfied(replies[1]), step' = step + 1,
         UNCHANGED <<slot, sealed, g_app_start_address>>,
         pc' \notin {"erase", "data"}, replies' = <<>>
  PROVE  SlotInv'
<1>s. /\ Packets \in Nat \ {0} /\ DataStep = 3 .. (2 + Packets)
      /\ Stay = 1 /\ Erase = 2 /\ Sign = 3 + Packets /\ Verify = 4 + Packets
      /\ Request = 1 .. (4 + Packets)
  BY Steps
<1>r. replies[1] = Expected(step)
  BY DEF Satisfied
<1>1. CASE step = Stay
  <2>1. step' \notin DataStep /\ step' \notin {Sign, Verify}
    BY <1>s, <1>1
  <2> QED
    BY <2>1, HostGoesTo
<1>2. CASE step = Erase
  <2>1. g_app_start_address = 0
    BY <1>r, <1>2, ExpectedWords DEF SlotInv
  <2>2. Ready(1)
    <3>1. Prefix(0)
      BY DEF Prefix
    <3> QED
      BY <2>1, <3>1, Sizing DEF Ready
  <2>3. step' = 3 /\ 1 \in 1 .. Packets /\ 1 = 3 - 2 /\ step' \notin {Sign, Verify}
    BY <1>s, <1>2
  <2> QED
    BY <2>2, <2>3, HostGoesTo
<1>3. CASE step \in DataStep
  <2>1. PICK p \in 1 .. Packets : p = step - 2
    BY <1>3, PacketOfStep
  <2>2. Landed(p)
    <3>1. Landed(step - 2)
      BY <1>r, <1>3, ExpectedWords DEF SlotInv
    <3> QED
      BY <2>1, <3>1
  <2>3. CASE p # Packets
    <3>1. /\ Ready(p + 1) /\ p + 1 \in 1 .. Packets /\ p + 1 = step' - 2
          /\ step' \notin {Sign, Verify}
      BY <1>s, <2>1, <2>2, <2>3, LandedIsReady
    <3> QED
      BY <3>1, HostGoesTo
  <2>4. CASE p = Packets
    <3>1. Loaded /\ step' \notin DataStep
      BY <1>s, <2>1, <2>2, <2>4, LandedIsReady
    <3> QED
      BY <3>1, HostGoesTo
  <2> QED
    BY <2>3, <2>4
<1>4. CASE step \in {Sign, Verify}
  <2>1. Loaded /\ step' \notin DataStep
    BY <1>s, <1>4 DEF SlotInv
  <2> QED
    BY <2>1, HostGoesTo
<1> QED
  BY <1>s, <1>1, <1>2, <1>3, <1>4

(* While a request is in work no packet is due.                            *)
LEMMA InWork ==
  ASSUME ProtocolInv, pc \in Handling
  PROVE  waiting /\ mail # step /\ step \in Request
BY Steps DEF ProtocolInv

LEMMA EraseKeepsSlotInv ==
  ASSUME QuietInv, ProtocolInv, SlotInv, ErasePage \/ ErasePageFails,
         UNCHANGED <<step, waiting, mail>>
  PROVE  SlotInv'
<1>1. /\ pc = "erase" /\ step = Erase /\ g_app_start_address = 0
      /\ UNCHANGED <<sealed, g_app_start_address>>
  BY DEF ErasePage, ErasePageFails, globals, ProtocolInv, HandlerInv, SlotInv
<1>2. /\ pc' \in {"loop", "erase"}
      /\ replies' \in {<<>>, <<"UC_FLASH_ERASE_SUCCESS">>, <<"UC_FLASH_ERASE_FAIL">>}
  BY <1>1, EraseAnswers
<1>3. step' \notin DataStep /\ step' \notin {Sign, Verify}
  BY <1>1, Steps
<1> QED
  BY <1>1, <1>2, <1>3 DEF SlotInv, OfTheImage

LEMMA DataKeepsSlotInv ==
  ASSUME TypeInv, ReplyInv, ReplyInv', ProtocolInv, SlotInv,
         DataProgram \/ DataProgramFails \/ DataOverrun \/ DataEnd,
         UNCHANGED <<step, waiting, mail>>
  PROVE  SlotInv'
<1>1. /\ pc = "data" /\ UNCHANGED sealed
      /\ step \in DataStep /\ Dword = Packet(step - 2) /\ InPacket(step - 2)
  BY DEF DataProgram, DataProgramFails, DataOverrun, DataEnd, MoreData, NextDword, flash,
         ProtocolInv, HandlerInv, SlotInv
<1>2. waiting' /\ mail' # step'
  BY <1>1, InWork DEF Handling
<1>3. step' \notin {Sign, Verify}
  BY <1>1, Steps
<1>4. PICK p \in 1 .. Packets : p = step - 2
  BY <1>1, PacketOfStep
<1>5. Dword = Packet(p) /\ InPacket(p)
  BY <1>1, <1>4
<1>6. sealed' = Erased \/ OfTheImage(sealed)'
  BY <1>1 DEF SlotInv, OfTheImage
<1>7. CASE DataProgram \/ DataProgramFails
  <2>1. /\ MoreData /\ i' = i + 1 /\ g_app_start_address' = g_app_start_address + 1
        /\ UNCHANGED <<pc, replies>>
    BY <1>7 DEF DataProgram, DataProgramFails, NextDword
  <2>2. i \in 0 .. 126 /\ DataInv
    BY <1>1, <2>1, SizesAssumption
    DEF ReplyInv, WorkInv, DataInv, MoreData, TypeInv, TypeOK, LocalsOK
  <2>3. Tear(slot, {g_app_start_address}) = [slot EXCEPT ![g_app_start_address] = Torn]
    BY DEF Tear, TypeInv, TypeOK, FlashOK
  <2>4. \/ /\ l_pass_count' = (l_pass_count + 1) % 256
           /\ Programmable(g_app_start_address)
           /\ slot' = [slot EXCEPT ![g_app_start_address] = Dword[i + 1]]
        \/ /\ l_pass_count' = (l_pass_count + 255) % 256
           /\ Programmable(g_app_start_address)
           /\ slot' = [slot EXCEPT ![g_app_start_address] = Torn]
        \/ /\ l_pass_count' = (l_pass_count + 255) % 256
           /\ slot' = slot
    BY <1>7, <2>3 DEF DataProgram, DataProgramFails, NextDword
  <2>5. InPacket(p)'
    BY <1>5, <2>1, <2>2, <2>4, PacketGoesOn
  <2>6. InPacket(step - 2)'
    BY <1>4, <2>5 DEF InPacket
  <2>7. pc' = "data" /\ replies' = <<>>
    BY <1>1, <2>1 DEF ReplyInv, QuietInv
  <2> QED
    BY <1>2, <1>3, <1>6, <2>6, <2>7 DEF SlotInv
<1>8. CASE DataOverrun \/ DataEnd
  <2>1. pc' = "loop" /\ UNCHANGED <<slot, g_app_start_address>>
    BY <1>8 DEF DataOverrun, DataEnd, Return, flash, globals
  <2>2. CASE \/ replies' = <<>>
             \/ replies' # <<>> /\ replies'[1] = "APP_WR_DATA_PKT_ACK_FAIL"
    BY <1>1, <1>2, <2>1, <2>2, SlotKept
  <2>3. CASE DataEnd /\ replies' = <<"APP_WR_DATA_PKT_ACK_PASS">>
    <3>1. Landed(p)'
      BY <1>5, <2>3, PacketLands DEF ReplyInv, Truthful
    <3>2. Landed(step - 2)'
      BY <1>4, <3>1 DEF Landed
    <3>3. replies'[1] = "APP_WR_DATA_PKT_ACK_PASS"
      BY <2>3
    <3> QED
      BY <1>2, <1>3, <1>6, <2>1, <3>2, <3>3 DEF SlotInv
  <2> QED
    BY <1>8, <2>2, <2>3, DataAnswers DEF ReplyInv
<1> QED
  BY <1>7, <1>8

LEMMA MetadataKeepsSlotInv ==
  ASSUME SealInv, ReplyInv, ProtocolInv, SlotInv,
         MetaErase \/ MetaEraseFails \/ MetaProgram \/ MetaProgramFails,
         UNCHANGED <<step, waiting, mail>>
  PROVE  SlotInv'
<1>1. /\ pc \in {"metaErase", "metaWrite"} /\ pc' \notin {"erase", "data"}
      /\ UNCHANGED <<slot, g_app_start_address>>
  BY DEF MetaErase, MetaEraseFails, MetaProgram, MetaProgramFails, Unwritten, Return, globals
<1>2. replies' = <<>> \/ replies'[1] \notin {"UC_FLASH_ERASE_SUCCESS", "APP_WR_DATA_PKT_ACK_PASS"}
  BY MetadataAnswers DEF ReplyInv
<1>3. sealed' = sealed => SlotInv'
  BY <1>1, <1>2, SlotKept
<1>4. CASE MetaErase /\ msg = "APP_CRC_VERIFY"
  <2>1. sealed' = metadata[CrcWord] /\ pc = "metaErase"
    BY <1>4 DEF MetaErase
  <2>2. step = Verify /\ metadata[Size] = ImageSize
    BY <1>4, <2>1 DEF ProtocolInv, HandlerInv
  <2>3. metadata[CrcWord] = Crc(slot, ImageSize)
    BY <1>4, <2>1, <2>2 DEF ReplyInv, WorkInv, VerifyInv
  <2>4. Loaded /\ step' \notin DataStep
    BY <2>2, Steps DEF SlotInv
  <2>5. OfTheImage(sealed')
    BY <2>1, <2>3, <2>4, LoadedSeals
  <2>6. Loaded'
    BY <1>1, <2>4, SlotAsItWas DEF Loaded
  <2> QED
    BY <1>1, <1>2, <2>4, <2>5, <2>6 DEF SlotInv, OfTheImage
<1>5. CASE ~(MetaErase /\ msg = "APP_CRC_VERIFY")
  <2>1. sealed' = sealed
    BY <1>5 DEF MetaErase, MetaEraseFails, MetaProgram, MetaProgramFails
  <2> QED
    BY <1>3, <2>1
<1> QED
  BY <1>4, <1>5

LEMMA SameKeepsSlotInv ==
  ASSUME SlotInv,
         UNCHANGED <<slot, sealed, g_app_start_address, i, l_pass_count, pc, replies,
                     step, waiting, mail>>
  PROVE  SlotInv'
BY DEF SlotInv, OfTheImage, Ready, InPacket, Landed, Loaded, Spoilt, Installed, Prefix

LEMMA TakeKeepsSlotInv ==
  ASSUME ReplyInv, ProtocolInv, SlotInv, Take
  PROVE  SlotInv'
<1>1. /\ pc = "usb" /\ replies = <<>> /\ mail = step /\ waiting /\ mail # NoRequest
      /\ waiting' /\ mail' # step' /\ step' = step
  BY Taken DEF ReplyInv
<1>2. CASE \/ StayInBootloaderMode \/ BadCrc
           \/ AppSigDword(INTERNAL_FLASH_VERSION) \/ AppCrcVerify(ImageSize)
  <2>1. /\ UNCHANGED <<slot, sealed, g_app_start_address>> /\ pc' \notin {"erase", "data"}
        /\ replies' \in {<<>>, <<"CRC_CHECK_FAIL">>}
    BY <1>1, <1>2
    DEF StayInBootloaderMode, BadCrc, AppSigDword, AppCrcVerify, flash, globals
  <2> QED
    BY <1>1, <2>1, SlotKept
<1>3. CASE mail = Erase /\ (EraseBegin \/ EraseRefused)
  <2>1. /\ UNCHANGED sealed /\ g_app_start_address' = 0 /\ pc' \in {"erase", "loop"}
        /\ replies' \in {<<>>, <<"UC_FLASH_ERASE_FAIL">>}
    BY <1>1, <1>3 DEF EraseBegin, EraseRefused, EraseAnswer, flash
  <2>2. step' \notin DataStep /\ step' \notin {Sign, Verify}
    BY <1>1, <1>3, Steps
  <2> QED
    BY <2>1, <2>2 DEF SlotInv, OfTheImage
<1>4. CASE mail \in DataStep /\ DataBegin
  <2>1. /\ UNCHANGED <<slot, sealed, g_app_start_address, i>> /\ i = 0
        /\ pc' = "data" /\ replies' = <<>>
    BY <1>1, <1>4 DEF DataBegin, flash, globals, ReplyInv, QuietInv
  <2>2. PICK p \in 1 .. Packets : p = step - 2
    BY <1>1, <1>4, PacketOfStep
  <2>3. Ready(p)
    <3>1. Ready(step - 2)
      BY <1>1, <1>4 DEF SlotInv
    <3> QED
      BY <2>2, <3>1
  <2>4. InPacket(p)'
    BY <2>1, <2>3, PacketBegins
  <2>5. InPacket(step - 2)'
    BY <1>1, <2>2, <2>4 DEF InPacket
  <2>6. step' \notin {Sign, Verify}
    BY <1>1, <1>4, Steps
  <2> QED
    BY <1>1, <2>1, <2>5, <2>6 DEF SlotInv, OfTheImage
<1> QED
  BY <1>2, <1>3, <1>4 DEF Take, Begin

LEMMA ResetKeepsSlotInv ==
  ASSUME TypeInv, ProtocolInv, SlotInv, Reboot, mail' = NoRequest, UNCHANGED <<step, waiting>>,
         \/ UNCHANGED slot
         \/ \E lost \in SUBSET SlotAtRisk : slot' = Tear(slot, lost)
  PROVE  SlotInv'
<1>1. /\ g_app_start_address' = 0 /\ pc' = "loop" /\ replies' = <<>> /\ UNCHANGED sealed
  BY DEF Reboot
<1>2. ASSUME step \in DataStep \cup {Sign, Verify}, pc # "data"
      PROVE  UNCHANGED slot
  <2>1. pc # "erase"
    BY <1>2, Steps DEF ProtocolInv, HandlerInv
  <2>2. SlotAtRisk = {}
    BY <1>2, <2>1 DEF SlotAtRisk, MoreData
  <2>3. Tear(slot, {}) = slot
    BY DEF Tear, TypeInv, TypeOK, FlashOK
  <2> QED
    BY <2>2, <2>3
<1>3. ASSUME step' \in DataStep, waiting' => mail' = step'
      PROVE  Ready(step - 2)'
  <2>1. mail' # step'
    BY <1>3, Steps
  <2>2. ~waiting
    BY <1>3, <2>1
  <2>3. pc # "data"
    BY <2>2, InWork DEF Handling
  <2>4. PICK p \in 1 .. Packets : p = step - 2
    BY <1>3, PacketOfStep
  <2>5. Ready(p)
    <3>1. Ready(step - 2)
      BY <1>3, <2>2 DEF SlotInv
    <3> QED
      BY <2>4, <3>1
  <2>6. Ready(p)'
    BY <1>1, <1>2, <1>3, <2>3, <2>5, ReadyAfterReset
  <2> QED
    BY <2>4, <2>6 DEF Ready
<1>4. ASSUME step' \in {Sign, Verify}
      PROVE  Loaded'
  <2>1. pc # "data"
    BY <1>4, Steps DEF ProtocolInv, HandlerInv
  <2> QED
    BY <1>1, <1>2, <1>4, <2>1, LoadedAfterReset DEF SlotInv
<1> QED
  BY <1>1, <1>3, <1>4 DEF SlotInv, OfTheImage

LEMMA ImageNext ==
  ASSUME TypeInv, SealInv, ReplyInv, ReplyInv', ProtocolInv, AnswerInv, ImageInv,
         [SessionNext]_sessionVars
  PROVE  ImageInv'
<1> SUFFICES ASSUME StartsOver, SlotInv
             PROVE  SlotInv'
  BY HostKeepsRetry DEF ImageInv, StartsOver
<1>q. QuietInv
  BY DEF ReplyInv
<1>1. CASE UNCHANGED sessionVars
  BY <1>1, SameKeepsSlotInv DEF sessionVars, session, vars, flash, locals, globals
<1>2. CASE Send
  <2>1. /\ UNCHANGED <<slot, sealed, g_app_start_address, step, pc, replies>> /\ ~waiting
    BY <1>2 DEF Send, vars, flash, globals
  <2>2. pc \notin Handling /\ replies = <<>>
    BY <2>1 DEF ProtocolInv
  <2> QED
    BY <2>1, <2>2, SlotKept DEF Handling
<1>3. CASE GiveUp
  <2>1. /\ UNCHANGED <<slot, sealed, g_app_start_address, pc, replies>> /\ waiting
        /\ pc \in {"loop", "usb"} /\ replies = <<>> /\ step' = retry[step]
    BY <1>3 DEF GiveUp, vars, flash, globals
  <2>2. step \in Request
    BY <2>1 DEF ProtocolInv
  <2> QED
    BY <2>1, <2>2, HostGoesBack
<1>4. CASE NextBoot
  <2>1. step' = Done /\ pc' = "loop" /\ replies' = <<>> /\ UNCHANGED sealed
    BY <1>4 DEF NextBoot, PowerCycle, Reboot
  <2>2. step' \notin DataStep /\ step' \notin {Sign, Verify}
    BY <2>1, Steps
  <2> QED
    BY <2>1, <2>2 DEF SlotInv, OfTheImage
<1>5. CASE Poll
  <2>1. /\ pc' \in {"usb", "post"} /\ replies' = <<>> /\ UNCHANGED mail
        /\ UNCHANGED <<slot, sealed, g_app_start_address>>
        /\ \/ UNCHANGED <<step, waiting>>
           \/ replies # <<>> /\ Receive(replies[1])
    BY <1>5 DEF Poll, Deliver, LoopHead, PostBegin, Forget, flash, globals
  <2>2. CASE UNCHANGED <<step, waiting>>
    BY <2>1, <2>2, SlotKept
  <2>3. CASE replies # <<>> /\ Receive(replies[1])
    <3>1. waiting /\ step \in Request
      BY <2>3 DEF ProtocolInv
    <3>2. CASE Satisfied(replies[1]) /\ step' = step + 1
      BY <2>1, <2>3, <3>1, <3>2, HostGoesOn
    <3>3. CASE step' \in {retry[step], Stay}
      BY <2>1, <3>1, <3>3, HostGoesBack
    <3> QED
      BY <2>3, <3>1, <3>2, <3>3, Received
  <2> QED
    BY <2>1, <2>2, <2>3
<1>6. CASE Idle
  <2>1. /\ UNCHANGED <<slot, sealed, g_app_start_address, step, waiting, mail, replies>>
        /\ pc = "usb" /\ pc' = "loop"
    BY <1>6 DEF Idle, NoFrame, flash, globals, session
  <2> QED
    BY <1>q, <2>1, SlotKept DEF QuietInv
<1>7. CASE Take
  BY <1>7, TakeKeepsSlotInv
<1>8. CASE Working \/ Failing
  <2>1. UNCHANGED <<step, waiting, mail>>
    BY <1>8 DEF Working, Failing, session
  <2>2. CASE StaySetMode
    <3>1. UNCHANGED <<slot, sealed, g_app_start_address>>
      BY <2>2 DEF StaySetMode, flash
    <3>2. pc' = "loop" /\ replies' = <<"CONTROLLER_IN_BOOTMODE">>
      BY <1>q, <2>2, StayAnswers
    <3> QED
      BY <2>1, <3>1, <3>2, SlotKept
  <2>3. CASE ErasePage \/ ErasePageFails
    BY <1>q, <2>1, <2>3, EraseKeepsSlotInv
  <2>4. CASE DataProgram \/ DataProgramFails \/ DataOverrun \/ DataEnd
    BY <2>1, <2>4, DataKeepsSlotInv
  <2>5. CASE MetaErase \/ MetaEraseFails \/ MetaProgram \/ MetaProgramFails
    BY <2>1, <2>5, MetadataKeepsSlotInv
  <2> QED
    BY <1>8, <2>2, <2>3, <2>4, <2>5 DEF Working, Failing
<1>9. CASE SelfTest
  <2>1. /\ UNCHANGED <<slot, sealed, g_app_start_address, step, waiting, mail, replies>>
        /\ pc = "post" /\ pc' \in {"post", "hang", "app", "usb"}
    BY <1>9 DEF SelfTest, PostDelay, PostVerdict, Hang, flash, globals
  <2> QED
    BY <1>q, <2>1, SlotKept DEF QuietInv
<1>10. CASE Breakdown \/ Dog
  <2>1. CASE EccError /\ UNCHANGED <<step, waiting, mail>>
    <3>1. /\ UNCHANGED <<slot, sealed, g_app_start_address>>
          /\ replies' = <<>> /\ pc' = "hang"
      BY <2>1 DEF EccError, Hang, flash, globals
    <3> QED
      BY <1>q, <2>1, <3>1, SlotKept
  <2>2. CASE /\ PowerCycle \/ WatchdogReset
             /\ mail' = NoRequest /\ UNCHANGED <<step, waiting>>
    BY <2>2, ResetKeepsSlotInv DEF PowerCycle, WatchdogReset
  <2> QED
    BY <1>10, <2>1, <2>2 DEF Breakdown, Dog
<1>11. CASE Clock
  <2>1. UNCHANGED <<slot, sealed, g_app_start_address, i, l_pass_count, pc, replies,
                    step, waiting, mail>>
    BY <1>11 DEF Clock, Second, Tim5Interrupt, session, flash, locals, globals
  <2> QED
    BY <2>1, SameKeepsSlotInv
<1> QED
  BY <1>1, <1>2, <1>3, <1>4, <1>5, <1>6, <1>7, <1>8, <1>9, <1>10, <1>11
  DEF SessionNext, Host, Board

-----------------------------------------------------------------------------
(* The procedure leaves a board that boots.                                *)

Sealing == {"APP_SIG_DWORD_WR_PASS", "APP_CRC_VERIFY"}

SameFlash == slot' = slot /\ \A f \in Fields : meta'[f] = meta[f]

LEMMA ReadyToBootStays ==
  ASSUME SameFlash
  PROVE  /\ Installed => Installed'
         /\ SignedAndValid => SignedAndValid'
         /\ InternalFlashOk => InternalFlashOk'
         /\ SignedMetadata(meta) => SignedMetadata(meta')
<1>1. /\ slot' = slot /\ meta'[Magic] = meta[Magic] /\ meta'[Signature] = meta[Signature]
      /\ meta'[Version] = meta[Version] /\ meta'[Size] = meta[Size]
      /\ meta'[CrcWord] = meta[CrcWord]
  BY DEF SameFlash, Fields, Magic, Signature, Version, Size, CrcWord
<1>2. LoadOrDefault(meta)'[Signature] = LoadOrDefault(meta)[Signature]
  BY <1>1 DEF LoadOrDefault
<1> QED
  BY <1>1, <1>2 DEF Installed, SignedAndValid, IsValidApplication, InternalFlashOk,
     SignedMetadata, Crc

(* Steps that leave flash alone.                                           *)
LEMMA SignKept ==
  ASSUME SignInv, SameFlash, UNCHANGED step,
         (waiting' => mail' = step') => (waiting => mail = step),
         pc' \notin {"metaErase", "metaWrite"},
         replies' = <<>> \/ replies'[1] \notin Sealing
  PROVE  SignInv'
BY ReadyToBootStays DEF SignInv, Sealing

LEMMA SameKeepsSignInv ==
  ASSUME SignInv, UNCHANGED <<slot, meta, pc, metadata, replies, step, waiting, mail>>
  PROVE  SignInv'
<1>1. SameFlash
  BY DEF SameFlash
<1> QED
  BY <1>1, ReadyToBootStays DEF SignInv, SignedMetadata, Crc

(* Steps to where nothing is said of the metadata.                         *)
LEMMA NothingSigned ==
  ASSUME step' \notin {SwitchOff, Done}, step' = Verify => waiting' /\ mail' # step',
         pc' \notin {"metaErase", "metaWrite"},
         replies' = <<>> \/ replies'[1] \notin Sealing
  PROVE  SignInv'
BY DEF SignInv, Sealing

LEMMA GoesBackUnsigned ==
  ASSUME ProtocolInv, retry[Verify] # Verify, step \in Request, step' \in {retry[step], Stay},
         pc' \notin {"metaErase", "metaWrite"}, replies' = <<>>
  PROVE  SignInv'
<1>1. step' < Verify
  <2>1. /\ retry[step] \in Request /\ retry[step] <= step /\ step \in Request
        /\ step = Verify => retry[step] # Verify
    BY Retries
  <2> QED
    BY <2>1, Steps
<1>2. step' \in Request
  BY Retries, Steps
<1>3. step' \notin {Verify, SwitchOff, Done}
  BY <1>1, <1>2, Steps
<1> QED
  BY <1>3, NothingSigned

LEMMA GoesOnSigned ==
  ASSUME TypeInv, SignInv, step \in Request, replies # <<>>, Satisfied(replies[1]),
         step' = step + 1, UNCHANGED <<slot, meta>>,
         pc' \notin {"metaErase", "metaWrite"}, replies' = <<>>
  PROVE  SignInv'
<1>r. replies[1] = Expected(step) /\ (step = Verify => Installed)
  BY DEF Satisfied
<1>1. CASE step = Verify
  <2>1. replies[1] = "APP_CRC_VERIFY" /\ Installed
    BY <1>r, <1>1, ExpectedWords
  <2>2. /\ SignedMetadata(meta)
        /\ meta[Size] \in 0 .. SlotDwords /\ meta[CrcWord] = Crc(slot, meta[Size])
    BY <2>1 DEF SignInv
  <2>3. SignedAndValid
    BY <2>1, <2>2, InstalledBoots
    DEF SignedAndValid, SignedMetadata, LoadOrDefault, IsValidApplication
  <2>4. InternalFlashOk
    BY <2>2, ValuesAssumption DEF InternalFlashOk, SignedMetadata
  <2>5. SameFlash
    BY DEF SameFlash
  <2>6. Installed' /\ SignedAndValid' /\ InternalFlashOk'
    BY <2>1, <2>3, <2>4, <2>5, ReadyToBootStays
  <2>7. step' # Verify
    BY <1>1, Steps
  <2> QED
    BY <2>6, <2>7 DEF SignInv
<1>2. CASE step = Sign
  <2>1. SignedMetadata(meta)
    BY <1>r, <1>2, ExpectedWords DEF SignInv
  <2>2. step' \notin {SwitchOff, Done}
    BY <1>2, Steps
  <2> QED
    BY <2>1, <2>2 DEF SignInv, SignedMetadata
<1>3. CASE step \notin {Sign, Verify}
  <2>1. step' \notin {Verify, SwitchOff, Done}
    BY <1>3, Steps
  <2> QED
    BY <2>1, NothingSigned
<1> QED
  BY <1>1, <1>2, <1>3

LEMMA TakeKeepsSignInv ==
  ASSUME TypeInv, QuietInv, ProtocolInv, SignInv, Take
  PROVE  SignInv'
<1>1. /\ replies = <<>> /\ mail = step /\ waiting' /\ mail' # step' /\ step' = step
      /\ waiting /\ step \notin {SwitchOff, Done}
  <2>1. /\ replies = <<>> /\ mail = step /\ waiting /\ mail # NoRequest
        /\ mail' = NoRequest /\ UNCHANGED <<step, waiting>>
    BY Taken
  <2>2. step \in Request
    BY <2>1 DEF ProtocolInv
  <2> QED
    BY <2>1, <2>2, Steps
<1>2. CASE \/ StayInBootloaderMode \/ BadCrc \/ DataBegin
           \/ EraseBegin \/ EraseRefused
  <2>1. /\ pc' \notin {"metaErase", "metaWrite"}
        /\ replies' \in {<<>>, <<"CRC_CHECK_FAIL">>, <<"UC_FLASH_ERASE_FAIL">>}
    BY <1>1, <1>2
    DEF StayInBootloaderMode, BadCrc, DataBegin, EraseBegin, EraseRefused, EraseAnswer
  <2> QED
    BY <1>1, <2>1, NothingSigned DEF Sealing
<1>d. /\ IsMetadata(LoadOrDefault(meta)) /\ DOMAIN LoadOrDefault(meta) = Fields
      /\ LoadOrDefault(meta)[Magic] = BOOT_METADATA_MAGIC
  BY LoadOrDefaultIsMetadata DEF TypeInv, TypeOK, FlashOK, IsMetadata, LoadOrDefault,
     NoMetadata, Fields, Magic
<1>3. CASE mail = Sign /\ AppSigDword(INTERNAL_FLASH_VERSION)
  <2>1. /\ metadata' = Signed(LoadOrDefault(meta), INTERNAL_FLASH_VERSION)
        /\ replies' = <<>>
    BY <1>1, <1>3 DEF AppSigDword
  <2>2. SignedMetadata(metadata')
    BY <1>d, <2>1 DEF SignedMetadata, Signed, Fields, Magic, Signature, Version
  <2> QED
    BY <1>1, <2>1, <2>2 DEF SignInv, SignedMetadata
<1>4. CASE mail = Verify /\ AppCrcVerify(ImageSize)
  <2>1. metadata' = Measured(LoadOrDefault(meta), ImageSize) /\ replies' = <<>>
    BY <1>1, <1>4 DEF AppCrcVerify
  <2>2. SignedMetadata(meta)
    BY <1>1, <1>4 DEF SignInv
  <2>3. LoadOrDefault(meta) = meta
    BY <2>2 DEF SignedMetadata, LoadOrDefault
  <2>4. SignedMetadata(metadata')
    BY <1>d, <2>1, <2>2, <2>3
    DEF SignedMetadata, Measured, Fields, Magic, Signature, Version, Size, CrcWord
  <2> QED
    BY <1>1, <2>1, <2>4 DEF SignInv, SignedMetadata
<1> QED
  BY <1>2, <1>3, <1>4 DEF Take, Begin

(* metadata_write and its answer.                                          *)
LEMMA WriteKeepsSignInv ==
  ASSUME TypeInv, SealInv, QuietInv, Truthful', ProtocolInv, SignInv,
         MetaErase \/ MetaEraseFails \/ MetaProgram \/ MetaProgramFails,
         UNCHANGED <<step, waiting, mail>>
  PROVE  SignInv'
<1>1. pc \in {"metaErase", "metaWrite"} /\ SignedMetadata(metadata)
  BY DEF MetaErase, MetaEraseFails, MetaProgram, MetaProgramFails, SignInv
<1>2. waiting' /\ mail' # step' /\ step' \notin {SwitchOff, Done}
  BY <1>1, InWork, Steps DEF Handling
<1>3. pc' = "loop" \/ metadata' = metadata
  BY DEF MetaErase, MetaEraseFails, MetaProgram, MetaProgramFails, Return
<1>4. CASE replies' \in {<<>>, <<"APP_SIG_DWORD_WR_FAIL">>}
  BY <1>1, <1>2, <1>3, <1>4 DEF SignInv, SignedMetadata
<1>5. CASE MetaProgram /\ i = 5
  <2>1. pc = "metaWrite" /\ meta' = [meta EXCEPT ![5] = metadata[5]] /\ pc' = "loop"
    BY <1>5 DEF MetaProgram, Return
  <2>2. \A f \in Fields : meta[f] = IF f < 5 THEN metadata[f] ELSE Erased
    BY <1>5, <2>1 DEF SealInv, WriteInv
  <2>3. \A f \in 1 .. 4 : meta'[f] = metadata[f]
    BY <2>1, <2>2 DEF Fields
  <2>4. SignedMetadata(meta)'
    BY <1>1, <2>3 DEF SignedMetadata, Magic, Signature, Version
  <2>5. replies' = <<"APP_CRC_VERIFY">> =>
          (meta[Size] \in 0 .. SlotDwords /\ meta[CrcWord] = Crc(slot, meta[Size]))'
    BY DEF Truthful, CrcReplyMeansSealed
  <2>6. replies' = <<"APP_SIG_DWORD_WR_PASS">> \/ replies' = <<"APP_CRC_VERIFY">>
        \/ replies' \in {<<>>, <<"APP_SIG_DWORD_WR_FAIL">>}
    BY MetadataAnswers
  <2> QED
    BY <1>2, <1>4, <2>1, <2>4, <2>5, <2>6 DEF SignInv
<1> QED
  BY <1>4, <1>5, MetadataAnswers

(* Nothing is at risk in a reset while no handler runs.                    *)
LEMMA IdleReset ==
  ASSUME TypeInv, pc \notin Handling, PowerCycle
  PROVE  SameFlash
<1>1. SlotAtRisk = {} /\ MetaAtRisk = {}
  BY DEF SlotAtRisk, MetaAtRisk, MoreData, Handling
<1>2. Tear(slot, {}) = slot
  BY DEF Tear, TypeInv, TypeOK, FlashOK
<1>3. \A f \in Fields : Tear(meta, {})[f] = meta[f]
  BY DEF Tear, TypeInv, TypeOK, FlashOK, IsMetadata
<1> QED
  BY <1>1, <1>2, <1>3 DEF PowerCycle, SameFlash

LEMMA ResetKeepsSignInv ==
  ASSUME TypeInv, ProtocolInv, SignInv, PowerCycle \/ WatchdogReset,
         mail' = NoRequest, UNCHANGED <<step, waiting>>
  PROVE  SignInv'
<1>1. pc' = "loop" /\ replies' = <<>>
  BY DEF PowerCycle, WatchdogReset, Reboot
<1>2. CASE waiting
  <2>1. step \in Request
    BY <1>2 DEF ProtocolInv
  <2>2. step' \notin {SwitchOff, Done} /\ mail' # step'
    BY <2>1, Steps
  <2> QED
    BY <1>1, <1>2, <2>2, NothingSigned
<1>3. CASE ~waiting
  <2>1. SameFlash
    BY <1>3, InWork, IdleReset DEF WatchdogReset, SameFlash
  <2> QED
    BY <1>1, <1>3, <2>1, SignKept
<1> QED
  BY <1>2, <1>3

LEMMA DoneNext ==
  ASSUME TypeInv, SealInv, ReplyInv, ReplyInv', ProtocolInv, DoneInv,
         [SessionNext]_sessionVars
  PROVE  DoneInv'
<1> SUFFICES ASSUME retry[Verify] # Verify, SignInv
             PROVE  SignInv'
  BY HostKeepsRetry, Steps DEF DoneInv, Verify, Packets
<1>q. QuietInv
  BY DEF ReplyInv
<1>1. CASE UNCHANGED sessionVars
  BY <1>1, SameKeepsSignInv DEF sessionVars, session, vars, flash, locals
<1>2. CASE Send
  <2>1. UNCHANGED <<slot, meta, step, pc, replies>> /\ ~waiting
    BY <1>2 DEF Send, vars, flash
  <2>2. pc \notin Handling /\ replies = <<>>
    BY <2>1 DEF ProtocolInv
  <2> QED
    BY <2>1, <2>2, SignKept DEF SameFlash, Handling
<1>3. CASE GiveUp
  <2>1. /\ UNCHANGED <<pc, replies>> /\ waiting /\ pc \in {"loop", "usb"}
        /\ replies = <<>> /\ step' = retry[step]
    BY <1>3 DEF GiveUp, vars
  <2>2. step \in Request
    BY <2>1 DEF ProtocolInv
  <2> QED
    BY <2>1, <2>2, GoesBackUnsigned
<1>4. CASE NextBoot
  <2>1. /\ step = SwitchOff /\ step' = Done /\ pc' = "loop" /\ replies' = <<>> /\ PowerCycle
        /\ pc \in {"loop", "usb"}
    BY <1>4 DEF NextBoot, PowerCycle, Reboot
  <2>2. SameFlash
    BY <2>1, IdleReset DEF Handling
  <2>3. Installed' /\ SignedAndValid' /\ InternalFlashOk'
    BY <2>1, <2>2, ReadyToBootStays DEF SignInv
  <2>4. step' # Verify
    BY <2>1, Steps
  <2> QED
    BY <2>1, <2>3, <2>4 DEF SignInv
<1>5. CASE Poll
  <2>1. /\ pc' \in {"usb", "post"} /\ replies' = <<>> /\ UNCHANGED <<slot, meta, mail>>
        /\ \/ UNCHANGED <<step, waiting>>
           \/ replies # <<>> /\ Receive(replies[1])
    BY <1>5 DEF Poll, Deliver, LoopHead, PostBegin, Forget, flash
  <2>2. CASE UNCHANGED <<step, waiting>>
    BY <2>1, <2>2, SignKept DEF SameFlash
  <2>3. CASE replies # <<>> /\ Receive(replies[1])
    <3>1. waiting /\ step \in Request
      BY <2>3 DEF ProtocolInv
    <3>2. CASE Satisfied(replies[1]) /\ step' = step + 1
      BY <2>1, <2>3, <3>1, <3>2, GoesOnSigned
    <3>3. CASE step' \in {retry[step], Stay}
      BY <2>1, <3>1, <3>3, GoesBackUnsigned
    <3> QED
      BY <2>3, <3>1, <3>2, <3>3, Received
  <2> QED
    BY <2>1, <2>2, <2>3
<1>6. CASE Idle
  <2>1. /\ UNCHANGED <<slot, meta, step, waiting, mail, replies>>
        /\ pc = "usb" /\ pc' = "loop"
    BY <1>6 DEF Idle, NoFrame, flash, session
  <2> QED
    BY <1>q, <2>1, SignKept DEF SameFlash, QuietInv
<1>7. CASE Take
  BY <1>q, <1>7, TakeKeepsSignInv
<1>8. CASE Working \/ Failing
  <2>1. UNCHANGED <<step, waiting, mail>>
    BY <1>8 DEF Working, Failing, session
  <2>2. ASSUME pc \in Handling, pc' \notin {"metaErase", "metaWrite"},
               replies' = <<>> \/ replies'[1] \notin Sealing
        PROVE  SignInv'
    <3>1. waiting' /\ mail' # step' /\ step' \notin {SwitchOff, Done}
      BY <2>1, <2>2, InWork, Steps
    <3> QED
      BY <2>2, <3>1, NothingSigned
  <2>3. CASE StaySetMode
    <3>1. pc = "stay" /\ pc' = "loop" /\ replies' = <<"CONTROLLER_IN_BOOTMODE">>
      BY <1>q, <2>3, StayAnswers DEF StaySetMode
    <3> QED
      BY <2>2, <3>1 DEF Handling, Sealing
  <2>4. CASE ErasePage \/ ErasePageFails
    <3>1. pc = "erase"
      BY <2>4 DEF ErasePage, ErasePageFails
    <3>2. /\ pc' \in {"loop", "erase"}
          /\ replies' \in {<<>>, <<"UC_FLASH_ERASE_SUCCESS">>, <<"UC_FLASH_ERASE_FAIL">>}
      BY <1>q, <2>4, <3>1, EraseAnswers
    <3> QED
      BY <2>2, <3>1, <3>2 DEF Handling, Sealing
  <2>5. CASE DataProgram \/ DataProgramFails \/ DataOverrun \/ DataEnd
    <3>1. pc = "data"
      BY <2>5 DEF DataProgram, DataProgramFails, DataOverrun, DataEnd, MoreData
    <3>2. /\ pc' \in {"loop", "data"}
          /\ \/ replies' = <<>>
             \/ replies'[1] \in {"APP_WR_DATA_PKT_ACK_PASS", "APP_WR_DATA_PKT_ACK_FAIL"}
      BY <1>q, <2>5, <3>1, DataAnswers
    <3> QED
      BY <2>2, <3>1, <3>2 DEF Handling, Sealing
  <2>6. CASE MetaErase \/ MetaEraseFails \/ MetaProgram \/ MetaProgramFails
    BY <1>q, <2>1, <2>6, WriteKeepsSignInv DEF ReplyInv
  <2> QED
    BY <1>8, <2>3, <2>4, <2>5, <2>6 DEF Working, Failing
<1>9. CASE SelfTest
  <2>1. /\ UNCHANGED <<slot, meta, step, waiting, mail, replies>>
        /\ pc = "post" /\ pc' \in {"post", "hang", "app", "usb"}
    BY <1>9 DEF SelfTest, PostDelay, PostVerdict, Hang, flash
  <2> QED
    BY <1>q, <2>1, SignKept DEF SameFlash, QuietInv
<1>10. CASE Breakdown \/ Dog
  <2>1. CASE EccError /\ UNCHANGED <<step, waiting, mail>>
    <3>1. /\ UNCHANGED <<slot, meta>> /\ replies' = <<>> /\ pc' = "hang"
      BY <2>1 DEF EccError, Hang, flash
    <3> QED
      BY <1>q, <2>1, <3>1, SignKept DEF SameFlash
  <2>2. CASE /\ PowerCycle \/ WatchdogReset
             /\ mail' = NoRequest /\ UNCHANGED <<step, waiting>>
    BY <2>2, ResetKeepsSignInv
  <2> QED
    BY <1>10, <2>1, <2>2 DEF Breakdown, Dog
<1>11. CASE Clock
  <2>1. UNCHANGED <<slot, meta, pc, metadata, replies, step, waiting, mail>>
    BY <1>11 DEF Clock, Second, Tim5Interrupt, session, flash, locals
  <2> QED
    BY <2>1, SameKeepsSignInv
<1> QED
  BY <1>1, <1>2, <1>3, <1>4, <1>5, <1>6, <1>7, <1>8, <1>9, <1>10, <1>11
  DEF SessionNext, Host, Board

-----------------------------------------------------------------------------
(* A session is a run of the board alone: every theorem about Bootloader   *)
(* holds in it, whatever the host does and whatever is lost on the way.    *)
THEOREM SessionIsBootloader == SessionSpec => Spec
BY BootloaderStep, PTL DEF SessionSpec, SessionInit, Spec

LEMMA BoardInv == SessionSpec => [](TypeInv /\ SealInv /\ ReplyInv)
BY SessionIsBootloader, SealInvHolds, ReplyInvHolds, PTL

LEMMA IInvInit == SessionInit => IInv
<1> SUFFICES ASSUME SessionInit PROVE IInv
  OBVIOUS
<1>1. /\ pc = "loop" /\ replies = <<>> /\ sealed = Erased
      /\ step = Stay /\ waiting = FALSE /\ mail = NoRequest /\ retry \in Hosts
  BY DEF SessionInit, Init, BootState
<1>2. /\ step \in 1 .. Done /\ step \notin DataStep
      /\ step \notin {Sign, Verify, SwitchOff, Done}
  BY <1>1, Steps
<1>3. ProtocolInv /\ AnswerInv
  BY <1>1, <1>2 DEF ProtocolInv, HandlerInv, AnswerInv, Handling
<1>4. SlotInv /\ SignInv
  BY <1>1, <1>2 DEF SlotInv, SignInv
<1> QED
  BY <1>3, <1>4 DEF IInv, ImageInv, DoneInv

LEMMA IInvNext ==
  ASSUME TypeInv, SealInv, ReplyInv, ReplyInv', IInv, [SessionNext]_sessionVars
  PROVE  IInv'
BY ProtocolNext, ImageNext, DoneNext DEF IInv, ReplyInv

LEMMA IInvHolds == SessionSpec => []IInv
BY BoardInv, IInvInit, IInvNext, PTL DEF SessionSpec

(* The CRC under which POST lets the slot boot is that of an image that    *)
(* boots, and the only such image of the session is Image.                 *)
LEMMA SealedIsInstalled ==
  ASSUME TypeInv, SealInv, SignedAndValid, Checked, OfTheImage(sealed)
  PROVE  Installed
<1>1. /\ slot[0] \in BootWords /\ meta[Size] \in 0 .. SlotDwords
      /\ Crc(slot, meta[Size]) = sealed
  BY CheckedIsSealed DEF IsValidApplication
<1>2. /\ DOMAIN sealed = 0 .. (meta[Size] - 1)
      /\ \A a \in 0 .. (meta[Size] - 1) : sealed[a] = slot[a]
  BY <1>1 DEF Crc
<1>3. DOMAIN sealed = 0 .. (ImageSize - 1)
  BY DEF OfTheImage
<1>4. \A a \in 0 .. (ImageSize - 1) : sealed[a] = slot[a]
  BY <1>2, <1>3
<1>5. 0 \in 0 .. (ImageSize - 1)
  BY Sizing
<1>6. \A a \in 0 .. (ImageSize - 1) : sealed[a] = Image[a + 1]
  BY <1>1, <1>4, <1>5 DEF OfTheImage
<1> QED
  BY <1>4, <1>6 DEF Installed

(* Whatever messages are lost, whatever operations fail and wherever power *)
(* is cut, with a host that starts over when it does not know how a packet *)
(* ended (main.c:586), nothing is launched (main.c:311-341) but the image, *)
(* all of it.                                                              *)
THEOREM OnlyTheImage == SessionSpec => []OnlyTheImageRuns
<1>1. TypeInv /\ SealInv /\ IInv => OnlyTheImageRuns
  <2> SUFFICES ASSUME TypeInv, SealInv, IInv, pc = "app", StartsOver
               PROVE  Installed
    BY DEF OnlyTheImageRuns, StartsOver
  <2>1. SignedAndValid /\ Checked
    BY DEF SealInv, VerdictInv
  <2>2. sealed \in Digests
    <3>1. Crc(slot, meta[Size]) = sealed /\ meta[Size] \in 0 .. SlotDwords
      BY <2>1, CheckedIsSealed
    <3> QED
      BY <3>1, CrcIsDigest DEF TypeInv, TypeOK, FlashOK
  <2>3. OfTheImage(sealed)
    BY <2>2, BlankAssumption DEF IInv, ImageInv, SlotInv
  <2> QED
    BY <2>1, <2>3, SealedIsInstalled
<1> QED
  BY <1>1, BoardInv, IInvHolds, PTL

(* A host that got the answer it waits for to every request leaves a board *)
(* with the image in the slot, valid, signed and sealed (main.h:497-508),  *)
(* unless it repeats APP_CRC_VERIFY after that failed: the answer          *)
(* to the second one says nothing of the signature, which went with the    *)
(* metadata page the first one erased (main.c:703-742).                    *)
THEOREM DoneCorrect ==
  ASSUME \A h \in Hosts : h[Verify] # Verify
  PROVE  SessionSpec => []DoneMeansBootable
<1>1. IInv => DoneMeansBootable
  BY DEF IInv, ProtocolInv, DoneInv, SignInv, DoneMeansBootable
<1> QED
  BY <1>1, IInvHolds, PTL

=============================================================================
