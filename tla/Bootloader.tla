------------------------------ MODULE Bootloader ------------------------------
(***************************************************************************)
(* The firmware-update and boot path of Core/Src/main.c with the parts of  *)
(* Post.c it depends on: Slot A, the metadata page, the main loop and the  *)
(* handlers that program them, the TIM5 interrupt, the power-on self test, *)
(* the jump to the application, and resets at every point of all that.     *)
(*                                                                         *)
(* Flash is counted in 64-bit double words, the unit it is programmed in.  *)
(* g_app_start_address is an index into Slot A.  The CRC of n double words *)
(* is the sequence of those double words: two images with different        *)
(* contents are taken to have different CRCs.                              *)
(*                                                                         *)
(* An operator that stands right before another of the same parameters and *)
(* that no step uses (Tim5LeftOn, AnyPass, SignedOrValid, ...) is a slip   *)
(* the code could have in that place, kept to see that a property catches  *)
(* it.                                                                     *)
(***************************************************************************)
EXTENDS Integers, Sequences

CONSTANTS
  Pages, PageDwords,        \* Slot A is Pages flash pages of PageDwords each
  Code,                     \* double words a host can send
  BootWords,                \* those whose two halves is_valid_application accepts
  Erased, Torn,             \* all ones; the result of an interrupted operation
  Zero,                     \* all zeros
  Versions,                 \* values of SOFT_VER
  Sizes,                    \* values of appCode_size, in double words, within the slot
  INTERNAL_FLASH_VERSION,   \* the one postCheck accepts (0xC00)
  BOOT_METADATA_MAGIC, App_Sig_Dword,
  NUM_OF_DWORDS,            \* most double words of one APPLICATION_DATA packet
  BootTicks,                \* TIM5 periods before the boot attempt (5)
  PostLimit                 \* seconds after reset POST may still run (10)

SlotDwords == Pages * PageDwords
Addr == 0 .. (SlotDwords - 1)
Word == Code \cup {Erased, Torn}

ASSUME SizesAssumption ==
  /\ Pages \in Nat \ {0} /\ PageDwords \in Nat \ {0}
  /\ NUM_OF_DWORDS \in 1 .. 127
  /\ BootTicks \in 1 .. 255 /\ PostLimit \in Nat

ASSUME ValuesAssumption ==
  /\ Erased # Torn /\ Erased \notin Code /\ Torn \notin Code
  /\ BootWords \subseteq Code /\ Zero \notin BootWords
  /\ INTERNAL_FLASH_VERSION \in Versions
  /\ Sizes \subseteq 0 .. SlotDwords
  /\ Erased \notin Versions /\ Torn \notin Versions
  /\ BOOT_METADATA_MAGIC \notin {Erased, Torn}
  /\ App_Sig_Dword \notin {Erased, Torn}
  /\ Erased \notin 0 .. SlotDwords /\ Torn \notin 0 .. SlotDwords


-----------------------------------------------------------------------------
(* The metadata page: five double words, in the order they are programmed. *)

Magic == 1
Signature == 2
Version == 3
Size == 4
CrcWord == 5
Fields == 1 .. 5

(* g_CRC_calc over the first n double words of the slot.                   *)
Crc(mem, n) == [a \in 0 .. (n - 1) |-> mem[a]]
Digests == UNION {[0 .. (n - 1) -> Word] : n \in 0 .. SlotDwords}

Blank == {Erased, Torn}
IsMetadata(m) ==
  /\ DOMAIN m = Fields
  /\ m[Magic] \in Blank \cup {BOOT_METADATA_MAGIC}
  /\ m[Signature] \in Blank \cup {App_Sig_Dword}
  /\ m[Version] \in Blank \cup Versions
  /\ m[Size] \in Blank \cup (0 .. SlotDwords)
  /\ m[CrcWord] \in Blank \cup Digests

ASSUME BlankAssumption == Erased \notin Digests /\ Torn \notin Digests

NoMetadata == [f \in Fields |-> Erased]

(* What metadata_load_or_default leaves in RAM.                            *)
LoadOrDefault(m) ==
  IF m[Magic] = BOOT_METADATA_MAGIC THEN m
  ELSE [NoMetadata EXCEPT ![Magic] = BOOT_METADATA_MAGIC]

(* is_valid_application: stack pointer and reset vector are in the first   *)
(* double word of the slot.                                                *)
IsValidApplication(mem) == mem[0] \in BootWords

PageOf(p) == {a \in Addr : p * PageDwords <= a /\ a < (p + 1) * PageDwords}

(* The double words in lost no longer hold what they held.                 *)
Tear(mem, lost) == [a \in DOMAIN mem |-> IF a \in lost THEN Torn ELSE mem[a]]
ErasePageOf(mem, p) == [a \in Addr |-> IF a \in PageOf(p) THEN Erased ELSE mem[a]]

-----------------------------------------------------------------------------

VARIABLES
  slot, meta,               \* flash: Slot A and the metadata page
  pc,                       \* where the main loop is
  g_CTRL_MODE,              \* "BOOTLOADER_CODE" or "APPLICATION_CODE"
  g_app_start_address, SectorError, loopSwitch,
  tim5, pend, l_time_count, \* TIM5 runs; its update is pending; periods seen
  now,                      \* HAL_GetTick in seconds, up to PostLimit + 1
  i, l_pass_count,          \* loop index and counter of the running handler
  Dword, metadata, msg,     \* its packet, its metadata buffer, its MsgID
  postStep, bootable, intFlash, \* postCheck: step, branch it was called in, verdict so far
  replies,                  \* g_tx_buffer contents sent for the latest command
  sealed,                   \* ghost: digest of the last APP_CRC_VERIFY that
                            \* replaced the metadata
  stayed                    \* ghost: CONTROLLER_IN_BOOTMODE sent since reset

flash == <<slot, meta, sealed>>
clock == <<tim5, pend, l_time_count, now>>
locals == <<i, l_pass_count, Dword, metadata, msg>>
post == <<postStep, bootable, intFlash, loopSwitch>>
globals == <<g_CTRL_MODE, g_app_start_address, SectorError, stayed>>
vars == <<flash, clock, locals, post, globals, pc, replies>>

(* The RAM and the peripherals after main's initialisation (l. 243-304).   *)
BootState ==
  /\ pc = "loop" /\ g_CTRL_MODE = "BOOTLOADER_CODE"
  /\ g_app_start_address = 0 /\ SectorError = "page" /\ loopSwitch = FALSE
  /\ tim5 = TRUE /\ pend = FALSE /\ l_time_count = 0 /\ now = 0
  /\ i = 0 /\ l_pass_count = 0 /\ Dword = <<>>
  /\ metadata = NoMetadata /\ msg = "none"
  /\ postStep = 0 /\ bootable = FALSE /\ intFlash = FALSE
  /\ replies = <<>> /\ stayed = FALSE

(* A new board: nothing programmed, no metadata.                           *)
Init ==
  /\ slot = [a \in Addr |-> Erased] /\ meta = NoMetadata
  /\ sealed = Erased
  /\ BootState

-----------------------------------------------------------------------------
(* Time.  TIM5 and SysTick run on the same clock.  An update that comes    *)
(* while the previous one is still pending (the core stalls while flash is *)
(* erased) is lost: TIM5 has one update flag; elsewhere it is served before *)
(* the next one comes.  The head of the loop takes no time to speak of.    *)
(* Time is not followed once TIM5 is off and no boot attempt is due:       *)
(* nobody reads it before the next reset.                                  *)

Elapse == /\ now' = IF now > PostLimit THEN now ELSE now + 1
          /\ pend' = (pend \/ tim5)

Second ==
  /\ pc \notin {"app", "hang", "loop"}
  /\ tim5 \/ g_CTRL_MODE = "APPLICATION_CODE"
  /\ pend => pc = "erase"
  /\ Elapse
  /\ UNCHANGED <<flash, tim5, l_time_count, locals, post, globals, pc, replies>>

(* HAL_TIM_PeriodElapsedCallback.                                          *)
Tim5Interrupt ==
  /\ tim5 /\ pend /\ pc \notin {"app", "hang"}
  /\ pend' = FALSE
  /\ l_time_count' = (l_time_count + 1) % 256
  /\ IF l_time_count' = BootTicks
       THEN g_CTRL_MODE' = "APPLICATION_CODE" /\ tim5' = FALSE
       ELSE UNCHANGED <<g_CTRL_MODE, tim5>>
  /\ UNCHANGED <<flash, now, locals, post, pc, replies,
                 g_app_start_address, SectorError, stayed>>

-----------------------------------------------------------------------------
(* The main loop.  "loop" is its head, "usb" the test of g_USB_CDC_flag.   *)

Hang == pc' = "hang"

(* A handler returns: its locals go out of scope.                          *)
Return(answer) ==
  /\ pc' = "loop" /\ replies' = replies \o answer
  /\ i' = 0 /\ l_pass_count' = 0
  /\ metadata' = NoMetadata /\ msg' = "none"

(* The frame that was answered is forgotten when the loop comes round.     *)
Forget == replies' = <<>> /\ Dword' = <<>>

LoopHead ==
  /\ pc = "loop" /\ g_CTRL_MODE = "BOOTLOADER_CODE"
  /\ pc' = "usb" /\ Forget
  /\ UNCHANGED <<flash, clock, i, l_pass_count, metadata, msg, post, globals>>

NoFrame ==
  /\ pc = "usb"
  /\ pc' = "loop"
  /\ UNCHANGED <<flash, clock, locals, post, globals, replies>>

(* Dispatch of a frame on its MsgID, up to the packet's own CRC check.     *)
Dispatch(m) ==
  /\ pc = "usb"
  /\ msg' = m

BadCrc ==
  /\ pc = "usb"
  /\ pc' = "loop" /\ replies' = <<"CRC_CHECK_FAIL">>
  /\ UNCHANGED <<flash, clock, locals, post, globals>>

(* STAY_IN_BOOTLOADER_MODE stops TIM5, then sets the mode: TIM5 can        *)
(* interrupt before the first and not after it.                            *)
Tim5LeftOn == UNCHANGED <<tim5, pend>>
StopTim5 == tim5' = FALSE /\ pend' = FALSE

StayInBootloaderMode ==
  /\ Dispatch("STAY_IN_BOOTLOADER_MODE")
  /\ StopTim5
  /\ pc' = "stay"
  /\ UNCHANGED <<flash, l_time_count, now, i, l_pass_count, Dword, metadata,
                 post, globals, replies>>

StaySetMode ==
  /\ pc = "stay"
  /\ g_CTRL_MODE' = "BOOTLOADER_CODE" /\ stayed' = TRUE
  /\ Return(<<"CONTROLLER_IN_BOOTMODE">>)
  /\ UNCHANGED <<flash, clock, Dword, post, g_app_start_address, SectorError>>

-----------------------------------------------------------------------------
(* UC_FLASH_ERASE.  HAL_FLASHEx_Erase reports the failing page in          *)
(* SectorError; when it fails before its first page, SectorError keeps its *)
(* old value.  l_pass_count is 1 or, decremented from 0, 255.              *)

AnyPass(passCount, sectorError) ==
  IF passCount > 0 THEN <<"UC_FLASH_ERASE_SUCCESS">> ELSE <<"UC_FLASH_ERASE_FAIL">>
EraseAnswer(passCount, sectorError) ==
  IF passCount # 1 /\ sectorError # "none" THEN <<"UC_FLASH_ERASE_FAIL">>
  ELSE IF passCount = 1 /\ sectorError = "none" THEN <<"UC_FLASH_ERASE_SUCCESS">>
  ELSE <<>>

EraseBegin ==
  /\ Dispatch("UC_FLASH_ERASE")
  /\ g_app_start_address' = 0 /\ SectorError' = "none"
  /\ pc' = "erase"
  /\ UNCHANGED <<flash, clock, i, l_pass_count, Dword, metadata, post,
                 g_CTRL_MODE, stayed, replies>>

EraseRefused ==
  /\ pc = "usb"
  /\ g_app_start_address' = 0
  /\ replies' = EraseAnswer(255, SectorError)
  /\ pc' = "loop"
  /\ UNCHANGED <<flash, clock, locals, post, g_CTRL_MODE, SectorError, stayed>>

LastPage(p) == p + 1 = Pages

ErasePage ==
  /\ pc = "erase"
  /\ slot' = ErasePageOf(slot, i)
  /\ IF LastPage(i)
       THEN Return(EraseAnswer(1, SectorError))
       ELSE /\ i' = i + 1
            /\ UNCHANGED <<pc, replies, l_pass_count, metadata, msg>>
  /\ UNCHANGED <<meta, sealed, clock, Dword, post, globals>>

ErasePageFails ==
  /\ pc = "erase"
  /\ \E lost \in SUBSET PageOf(i) : slot' = Tear(slot, lost)
  /\ SectorError' = "page"
  /\ Return(EraseAnswer(255, "page"))
  /\ UNCHANGED <<meta, sealed, clock, Dword, post, g_CTRL_MODE,
                 g_app_start_address, stayed>>

-----------------------------------------------------------------------------
(* APPLICATION_DATA.  Dword_cnt is Len(Dword) - 1.  The loop runs for      *)
(* i <= Dword_cnt; the address advances whether or not the program         *)
(* succeeded.                                                              *)

DataBegin ==
  /\ Dispatch("APPLICATION_DATA")
  /\ \E n \in 1 .. NUM_OF_DWORDS : Dword' \in [1 .. n -> Code]
  /\ pc' = "data"
  /\ UNCHANGED <<flash, clock, i, l_pass_count, metadata, post, globals,
                 replies>>

(* (g_app_start_address + 8) > SLOT_A_END_ADDRESS, the end being the       *)
(* address of the slot's last byte.                                        *)
OneDwordTooMany(a) == 8 * a > 8 * SlotDwords - 1
BeyondSlotEnd(a) == 8 * a + 8 > 8 * SlotDwords - 1

SomeWritten(passCount) ==
  IF passCount > 0 THEN <<"APP_WR_DATA_PKT_ACK_PASS">>
                   ELSE <<"APP_WR_DATA_PKT_ACK_FAIL">>
DataAnswer(passCount) ==
  IF passCount = Len(Dword) THEN <<"APP_WR_DATA_PKT_ACK_PASS">>
                            ELSE <<"APP_WR_DATA_PKT_ACK_FAIL">>

MoreData == pc = "data" /\ i < Len(Dword)

NextDword(passCount) ==
  /\ l_pass_count' = passCount % 256
  /\ i' = i + 1
  /\ g_app_start_address' = g_app_start_address + 1
  /\ UNCHANGED <<meta, sealed, clock, Dword, metadata, msg, post, g_CTRL_MODE,
                 SectorError, stayed, pc, replies>>

(* HAL_FLASH_Program succeeds only on an erased double word, except that   *)
(* any double word can be turned into zeros.                               *)
Programmable(a) == slot[a] = Erased \/ Dword[i + 1] = Zero

DataProgram ==
  /\ MoreData /\ ~BeyondSlotEnd(g_app_start_address)
  /\ Programmable(g_app_start_address)
  /\ slot' = [slot EXCEPT ![g_app_start_address] = Dword[i + 1]]
  /\ NextDword(l_pass_count + 1)

DataProgramFails ==
  /\ MoreData /\ ~BeyondSlotEnd(g_app_start_address)
  /\ \/ slot' = slot
     \/ /\ Programmable(g_app_start_address)
        /\ slot' = Tear(slot, {g_app_start_address})
  /\ NextDword(l_pass_count + 255)

(* Both replies are handed to CDC_Transmit_FS.                             *)
DataOverrun ==
  /\ MoreData /\ BeyondSlotEnd(g_app_start_address)
  /\ Return(<<"APP_WR_DATA_PKT_ACK_FAIL">> \o DataAnswer(l_pass_count))
  /\ UNCHANGED <<flash, clock, Dword, post, globals>>

DataEnd ==
  /\ pc = "data" /\ i = Len(Dword)
  /\ Return(DataAnswer(l_pass_count))
  /\ UNCHANGED <<flash, clock, Dword, post, globals>>

-----------------------------------------------------------------------------
(* APP_SIG_DWORD and APP_CRC_VERIFY: read the metadata page, change two    *)
(* fields of the copy, write it back with metadata_write.                  *)

Signed(m, version) ==
  [m EXCEPT ![Signature] = App_Sig_Dword, ![Version] = version]
SizeForgotten(m, size) == [m EXCEPT ![CrcWord] = Crc(slot, size)]
Measured(m, size) == [m EXCEPT ![Size] = size, ![CrcWord] = Crc(slot, size)]

AppSigDword(version) ==
  /\ Dispatch("APP_SIG_DWORD")
  /\ metadata' = Signed(LoadOrDefault(meta), version)
  /\ pc' = "metaErase"
  /\ UNCHANGED <<flash, clock, i, l_pass_count, Dword, post, globals, replies>>

AppCrcVerify(size) ==
  /\ Dispatch("APP_CRC_VERIFY")
  /\ metadata' = Measured(LoadOrDefault(meta), size)
  /\ pc' = "metaErase"
  /\ UNCHANGED <<flash, clock, i, l_pass_count, Dword, post, globals, replies>>

(* An appCode_size beyond the mapped flash: g_CRC_calc faults, and the     *)
(* fault handlers loop forever.                                            *)
AppCrcVerifyFaults ==
  /\ Dispatch("APP_CRC_VERIFY")
  /\ Hang
  /\ UNCHANGED <<flash, clock, i, l_pass_count, Dword, metadata, post, globals,
                 replies>>

(* Only APP_SIG_DWORD answers when metadata_write fails.                   *)
AlwaysConfirmed(ok) ==
  IF msg = "APP_SIG_DWORD" THEN <<"APP_SIG_DWORD_WR_PASS">>
                           ELSE <<"APP_CRC_VERIFY">>
WriteAnswer(ok) ==
  CASE msg = "APP_SIG_DWORD" /\ ok  -> <<"APP_SIG_DWORD_WR_PASS">>
    [] msg = "APP_SIG_DWORD" /\ ~ok -> <<"APP_SIG_DWORD_WR_FAIL">>
    [] msg = "APP_CRC_VERIFY" /\ ok -> <<"APP_CRC_VERIFY">>
    [] OTHER                        -> <<>>

Unwritten == UNCHANGED <<slot, clock, Dword, post, globals>>

(* The old metadata is gone; what is sealed from now on is what metadata   *)
(* says when this is an APP_CRC_VERIFY.                                    *)
MetaErase ==
  /\ pc = "metaErase"
  /\ meta' = NoMetadata
  /\ sealed' = IF msg = "APP_CRC_VERIFY" THEN metadata[CrcWord] ELSE sealed
  /\ pc' = "metaWrite" /\ i' = 1
  /\ UNCHANGED <<replies, l_pass_count, metadata, msg>> /\ Unwritten

MetaEraseFails ==
  /\ pc = "metaErase"
  /\ \E lost \in SUBSET Fields : meta' = Tear(meta, lost)
  /\ sealed' = sealed
  /\ Return(WriteAnswer(FALSE)) /\ Unwritten

(* Program one double word and read it back.                               *)
MetaProgram ==
  /\ pc = "metaWrite"
  /\ meta' = [meta EXCEPT ![i] = metadata[i]]
  /\ sealed' = sealed
  /\ IF i = 5 THEN Return(WriteAnswer(TRUE))
     ELSE i' = i + 1 /\ UNCHANGED <<pc, replies, l_pass_count, metadata, msg>>
  /\ Unwritten

MetaProgramFails ==
  /\ pc = "metaWrite"
  /\ \E lost \in SUBSET {i} : meta' = Tear(meta, lost)
  /\ sealed' = sealed
  /\ Return(WriteAnswer(FALSE)) /\ Unwritten

-----------------------------------------------------------------------------
(* The boot attempt: the APPLICATION_CODE branch of the main loop.         *)

SignedOrValid ==
  \/ LoadOrDefault(meta)[Signature] = App_Sig_Dword
  \/ IsValidApplication(slot)
SignedAndValid ==
  /\ LoadOrDefault(meta)[Signature] = App_Sig_Dword
  /\ IsValidApplication(slot)

PostBegin ==
  /\ pc = "loop" /\ g_CTRL_MODE = "APPLICATION_CODE"
  /\ bootable' = SignedAndValid
  /\ loopSwitch' = FALSE /\ intFlash' = FALSE
  /\ postStep' = 1 /\ pc' = "post" /\ Forget
  /\ UNCHANGED <<flash, clock, i, l_pass_count, metadata, msg, globals>>

(* postCheck takes slot_a.size and slot_a.crc as they stand in flash,      *)
(* whatever the magic says; a size that was never written reads as         *)
(* 0xFFFFFFFF, a torn one as some size whose CRC is not the stored one.    *)
CrcFaults == meta[Size] = Erased

VersionOnly == meta[Version] = INTERNAL_FLASH_VERSION
CrcPresent == VersionOnly /\ meta[CrcWord] \notin Blank
InternalFlashOk ==
  /\ meta[Version] = INTERNAL_FLASH_VERSION
  /\ meta[Size] # Torn
  /\ meta[CrcWord] = Crc(slot, meta[Size])

NeverTimesOut(t) == FALSE
PostTimedOut(t) == t > PostLimit

(* Four times HAL_Delay(1000); Check_POST_Timeout(); the checks of the     *)
(* internal flash come after the first.                                    *)
PostDelay ==
  /\ pc = "post" /\ postStep \in 1 .. 4
  /\ Elapse
  /\ postStep' = postStep + 1
  /\ IF PostTimedOut(now') \/ (postStep = 1 /\ CrcFaults)
       THEN Hang /\ UNCHANGED intFlash
       ELSE /\ intFlash' = IF postStep = 1 THEN InternalFlashOk ELSE intFlash
            /\ UNCHANGED pc
  /\ UNCHANGED <<flash, tim5, l_time_count, locals, bootable, loopSwitch,
                 globals, replies>>

(* The external flash version, the UART loopback and the voltages, then    *)
(* the comparison with POST_SUCCESS; what main does with the verdict.      *)
PostVerdict(othersOk) ==
  /\ pc = "post" /\ postStep = 5
  /\ IF PostTimedOut(now)
       THEN Hang /\ UNCHANGED <<post, g_CTRL_MODE>>
       ELSE /\ loopSwitch' = (intFlash /\ othersOk)
            /\ pc' = IF bootable /\ loopSwitch' THEN "app" ELSE "usb"
            /\ g_CTRL_MODE' = IF bootable THEN g_CTRL_MODE
                                          ELSE "BOOTLOADER_CODE"
            /\ postStep' = 0 /\ bootable' = FALSE /\ intFlash' = FALSE
  /\ UNCHANGED <<flash, clock, locals, replies,
                 g_app_start_address, SectorError, stayed>>

(* Reading a torn double word may raise an uncorrectable ECC error;        *)
(* NMI_Handler does not return.  The slot is read in POST, before metadata *)
(* are written, and for the CRC that UC_FLASH_ERASE and APP_SIG_DWORD take *)
(* after their answer.  That answer is lost here; when it still gets out,  *)
(* what follows is LoopHead and a reset.                                   *)
CrcFollows == { <<"UC_FLASH_ERASE_SUCCESS">>, <<"UC_FLASH_ERASE_FAIL">>,
                <<"APP_SIG_DWORD_WR_PASS">>, <<"APP_SIG_DWORD_WR_FAIL">> }

ReadsSlot == pc \in {"post", "metaErase"} \/ (pc = "loop" /\ replies \in CrcFollows)
ReadsMetadata == pc \in {"post", "metaErase"}

EccError ==
  /\ \/ ReadsSlot /\ \E a \in Addr : slot[a] = Torn
     \/ ReadsMetadata /\ \E f \in Fields : meta[f] = Torn
  /\ Hang /\ replies' = <<>>
  /\ UNCHANGED <<flash, clock, locals, post, globals>>

-----------------------------------------------------------------------------
(* Resets.  Power fails between any two steps, or in the middle of the     *)
(* flash operation that is the next step.                                  *)

SlotAtRisk == IF pc = "erase" THEN PageOf(i)
              ELSE IF MoreData THEN Addr \cap {g_app_start_address}
              ELSE {}
MetaAtRisk == IF pc = "metaErase" THEN Fields
              ELSE IF pc = "metaWrite" THEN {i}
              ELSE {}

Reboot ==
  /\ pc' = "loop" /\ g_CTRL_MODE' = "BOOTLOADER_CODE"
  /\ g_app_start_address' = 0 /\ SectorError' = "page" /\ loopSwitch' = FALSE
  /\ tim5' = TRUE /\ pend' = FALSE /\ l_time_count' = 0 /\ now' = 0
  /\ i' = 0 /\ l_pass_count' = 0 /\ Dword' = <<>>
  /\ metadata' = NoMetadata /\ msg' = "none"
  /\ postStep' = 0 /\ bootable' = FALSE /\ intFlash' = FALSE
  /\ replies' = <<>> /\ stayed' = FALSE
  /\ UNCHANGED sealed

PowerCycle ==
  /\ \E lost \in SUBSET SlotAtRisk : slot' = Tear(slot, lost)
  /\ \E lost \in SUBSET MetaAtRisk : meta' = Tear(meta, lost)
  /\ Reboot

(* HAL_IWDG_Refresh is at the head of the loop only.                       *)
NoWatchdog == FALSE
WatchdogReset ==
  /\ pc = "hang"
  /\ Reboot
  /\ UNCHANGED <<slot, meta>>

-----------------------------------------------------------------------------

Handler ==
  \/ StaySetMode
  \/ ErasePage \/ ErasePageFails
  \/ DataProgram \/ DataProgramFails \/ DataOverrun \/ DataEnd
  \/ MetaErase \/ MetaEraseFails \/ MetaProgram \/ MetaProgramFails

Command ==
  \/ BadCrc
  \/ StayInBootloaderMode
  \/ EraseBegin \/ EraseRefused
  \/ DataBegin
  \/ \E v \in Versions : AppSigDword(v)
  \/ \E n \in Sizes : AppCrcVerify(n)
  \/ AppCrcVerifyFaults

BootAttempt ==
  \/ PostBegin \/ PostDelay
  \/ \E othersOk \in BOOLEAN : PostVerdict(othersOk)

Main == LoopHead \/ NoFrame \/ Command \/ Handler \/ BootAttempt

Next ==
  \/ Main \/ EccError
  \/ Second \/ Tim5Interrupt
  \/ PowerCycle \/ WatchdogReset

Spec == Init /\ [][Next]_vars

(* The processor keeps executing main, the clock runs, and the watchdog,   *)
(* once started, cannot be stopped.                                        *)
Fairness ==
  WF_vars(Main) /\ WF_vars(Second) /\ WF_vars(Tim5Interrupt)
    /\ WF_vars(WatchdogReset)

FairSpec == Spec /\ Fairness

-----------------------------------------------------------------------------
(* Properties.                                                             *)

(* The parts of TypeOK.                                                    *)
FlashOK ==
  /\ slot \in [Addr -> Word] /\ IsMetadata(meta)
  /\ sealed \in {Erased} \cup Digests
ClockOK ==
  /\ tim5 \in BOOLEAN /\ pend \in BOOLEAN
  /\ l_time_count \in 0 .. BootTicks /\ (tim5 => l_time_count < BootTicks)
  /\ now \in 0 .. (PostLimit + 1)
LocalsOK ==
  /\ i \in Nat /\ l_pass_count \in 0 .. 255 /\ Dword \in Seq(Code)
  /\ IsMetadata(metadata)
  /\ msg \in {"none", "STAY_IN_BOOTLOADER_MODE", "UC_FLASH_ERASE",
              "APPLICATION_DATA", "APP_SIG_DWORD", "APP_CRC_VERIFY"}
PostOK ==
  /\ postStep \in 0 .. 5
  /\ bootable \in BOOLEAN /\ intFlash \in BOOLEAN /\ loopSwitch \in BOOLEAN
GlobalsOK ==
  /\ g_CTRL_MODE \in {"BOOTLOADER_CODE", "APPLICATION_CODE"}
  /\ g_app_start_address \in 0 .. (SlotDwords - 1)
  /\ SectorError \in {"none", "page"} /\ stayed \in BOOLEAN

(* Every variable keeps its type; in particular the address programmed     *)
(* next never leaves Slot A (main.c:559).                                  *)
TypeOK ==
  /\ FlashOK /\ ClockOK /\ LocalsOK /\ PostOK /\ GlobalsOK
  /\ pc \in {"loop", "usb", "stay", "erase", "data", "metaErase",
             "metaWrite", "post", "app", "hang"}

(* The application is entered only when the slot holds, up to the recorded *)
(* size, what the last committed APP_CRC_VERIFY read there, under the      *)
(* signature, whatever erases, writes, failures and power cuts came since. *)
BootsOnlySealedImage ==
  pc = "app" =>
    /\ IsValidApplication(slot)
    /\ meta[Signature] = App_Sig_Dword /\ meta[Version] = INTERNAL_FLASH_VERSION
    /\ meta[Size] \in 0 .. SlotDwords
    /\ Crc(slot, meta[Size]) = sealed

(* A CRC and a size that can be read in the metadata page come from one    *)
(* and the same APP_CRC_VERIFY, however its writing was cut short.         *)
CrcCommitsSize ==
  meta[CrcWord] \in Digests /\ meta[Size] # Torn =>
    /\ meta[CrcWord] = sealed
    /\ meta[Size] \in 0 .. SlotDwords
    /\ DOMAIN meta[CrcWord] = 0 .. (meta[Size] - 1)

(* An APPLICATION_DATA packet acknowledged with PASS is in the slot, all   *)
(* of it, in order, right below the next address.                          *)
PassMeansStored ==
  replies = <<"APP_WR_DATA_PKT_ACK_PASS">> =>
    /\ Len(Dword) <= g_app_start_address
    /\ \A k \in 1 .. Len(Dword) :
         slot[g_app_start_address - Len(Dword) + (k - 1)] = Dword[k]

(* UC_FLASH_ERASE_SUCCESS: no double word of the slot is left unerased.    *)
EraseSuccessMeansBlank ==
  replies = <<"UC_FLASH_ERASE_SUCCESS">> =>
    /\ g_app_start_address = 0
    /\ \A a \in Addr : slot[a] = Erased

(* The APP_CRC_VERIFY reply means that a reset now would find the slot     *)
(* sealed: magic, size and CRC are in flash and the CRC is the slot's.     *)
CrcReplyMeansSealed ==
  replies = <<"APP_CRC_VERIFY">> =>
    /\ meta[Magic] = BOOT_METADATA_MAGIC
    /\ meta[Size] \in 0 .. SlotDwords
    /\ meta[CrcWord] = Crc(slot, meta[Size])

(* Once the host was told CONTROLLER_IN_BOOTMODE, neither TIM5 nor         *)
(* anything else starts a boot attempt before the next reset.              *)
StayHolds ==
  stayed => g_CTRL_MODE = "BOOTLOADER_CODE" /\ pc \notin {"post", "app"}

(* Whatever happens, main gets back to polling the host, or has jumped.    *)
KeepsPolling == []<>(pc \in {"usb", "app"})

(* main.h:420 "If Slot A is not valid, the bootloader stays in boot mode." *)
InvalidSlotStaysInBootMode == pc = "hang" /\ postStep > 0 => bootable

(* main.h:390 "0x08020000 - 0x0807FFFF : application image (Slot A only)": *)
(* a double word inside that range is not turned away.                     *)
WholeSlotIsProgrammable ==
  [][MoreData /\ g_app_start_address \in Addr /\ pc' = "loop" => now' = 0]_vars

(* main.h:419 "If Slot A is valid, goto_application() jumps to it.": main  *)
(* does not come back to polling the host from a self test that succeeded  *)
(* over a slot that is_valid_application accepts.                          *)
ValidSlotBoots ==
  [][pc = "post" /\ pc' = "usb" /\ loopSwitch' => ~IsValidApplication(slot)]_vars

(* Bootloader implements SafeBoot: the slot is its image, the digest of    *)
(* the last committed APP_CRC_VERIFY its seal.                             *)
Abstract == INSTANCE SafeBoot WITH
  Dwords <- SlotDwords, None <- Erased,
  image <- slot, seal <- sealed, running <- (pc = "app")

RefinesSafeBoot == Abstract!Spec
=============================================================================
