---------------------------- MODULE UpdateSession ----------------------------
(***************************************************************************)
(* Bootloader together with a host that carries out the procedure of       *)
(* section 9 of main.h: stay in boot mode, erase, program, sign, verify,   *)
(* then switch the board off and on.  Requests and answers get lost, flash *)
(* operations fail, power is cut at any point, and the host, which learns  *)
(* of all that only from the answers, goes on from where its retry says.   *)
(*                                                                         *)
(* The host waits for an answer until the board is back at its loop (how   *)
(* frames meet that are sent too early is the subject of CommandLink), and *)
(* it compares the CRC in the answer to APP_CRC_VERIFY with its own.       *)
(***************************************************************************)
EXTENDS Bootloader

CONSTANTS
  Image,            \* the double words of the image
  PacketStart,      \* how many of them go before each packet, and in all
  Hosts,            \* for each host, the step to go on from by the step that failed
  MaxFaults

ImageSize == Len(Image)
Packets == Len(PacketStart) - 1
Packet(p) == SubSeq(Image, PacketStart[p] + 1, PacketStart[p + 1])

Stay == 1
Erase == 2
DataStep == 3 .. (2 + Packets)
Sign == 3 + Packets
Verify == 4 + Packets
SwitchOff == 5 + Packets
Done == 6 + Packets
Request == Stay .. Verify
NoRequest == 0

Installed == \A a \in 0 .. (ImageSize - 1) : slot[a] = Image[a + 1]

ASSUME ImageAssumption ==
  /\ Image \in Seq(Code) /\ ImageSize \in Sizes \ {0} /\ Image[1] \in BootWords
  /\ PacketStart \in Seq(0 .. ImageSize) /\ Packets \in Nat \ {0}
  /\ PacketStart[1] = 0 /\ PacketStart[Packets + 1] = ImageSize
  /\ \A p \in 1 .. Packets :
       PacketStart[p + 1] - PacketStart[p] \in 1 .. NUM_OF_DWORDS

(* No host goes on past a step that failed.                                *)
ASSUME HostsAssumption ==
  /\ Hosts \subseteq [Request -> Request]
  /\ \A h \in Hosts : \A s \in Request : h[s] <= s
  /\ MaxFaults \in Nat

VARIABLES
  retry,            \* the host of this session
  step,             \* host: the step of the procedure it is at
  waiting,          \* host: it waits for the answer to that step's request
  mail,             \* the request in g_rx_buffer that main has not taken yet
  faults

session == <<retry, step, waiting, mail, faults>>
sessionVars == <<vars, session>>

SessionInit ==
  /\ Init
  /\ retry \in Hosts
  /\ step = Stay /\ waiting = FALSE /\ mail = NoRequest /\ faults = 0

Fault == faults < MaxFaults /\ faults' = faults + 1
NoFault == faults' = faults

-----------------------------------------------------------------------------
(* The host.                                                               *)

Send ==
  /\ step \in Request /\ ~waiting
  /\ waiting' = TRUE
  /\ \/ mail' = step /\ NoFault
     \/ mail' = mail /\ Fault
  /\ UNCHANGED <<vars, retry, step>>

Expected(s) ==
  CASE s = Stay         -> "CONTROLLER_IN_BOOTMODE"
    [] s = Erase        -> "UC_FLASH_ERASE_SUCCESS"
    [] s \in DataStep   -> "APP_WR_DATA_PKT_ACK_PASS"
    [] s = Sign         -> "APP_SIG_DWORD_WR_PASS"
    [] s = Verify       -> "APP_CRC_VERIFY"

(* Nothing has touched the slot since the CRC of the answer was taken.     *)
Satisfied(reply) ==
  reply = Expected(step) /\ (step = Verify => Installed)

Receive(reply) ==
  /\ waiting' = FALSE
  /\ step' = CASE ~waiting          -> step
               [] Satisfied(reply)  -> step + 1
               [] step = Verify /\ reply = Expected(step) -> Stay
               [] OTHER             -> retry[step]

GiveUp ==
  /\ waiting /\ mail = NoRequest
  /\ pc \in {"loop", "usb"} /\ replies = <<>>
  /\ waiting' = FALSE /\ step' = retry[step]
  /\ UNCHANGED <<vars, retry, mail, faults>>

(* What the procedure calls the next boot.                                 *)
NextBoot ==
  /\ step = SwitchOff /\ pc \in {"loop", "usb"}
  /\ PowerCycle
  /\ step' = Done
  /\ UNCHANGED <<retry, waiting, mail, faults>>

Host == Send \/ GiveUp \/ NextBoot

-----------------------------------------------------------------------------
(* The board.  By the time main comes round, CDC_Transmit_FS has sent the   *)
(* first of the answers; a second one found it busy.                       *)

Deliver ==
  /\ UNCHANGED <<retry, mail>>
  /\ \/ replies = <<>> /\ NoFault /\ UNCHANGED <<step, waiting>>
     \/ replies # <<>> /\ NoFault /\ Receive(replies[1])
     \/ replies # <<>> /\ Fault /\ UNCHANGED <<step, waiting>>

Poll == (LoopHead \/ PostBegin) /\ Deliver

Idle == NoFrame /\ mail = NoRequest /\ UNCHANGED session

Begin ==
  \/ mail = Stay /\ StayInBootloaderMode
  \/ mail = Erase /\ EraseBegin
  \/ mail \in DataStep /\ DataBegin /\ Dword' = Packet(mail - 2)
  \/ mail = Sign /\ AppSigDword(INTERNAL_FLASH_VERSION)
  \/ mail = Verify /\ AppCrcVerify(ImageSize)
Take ==
  /\ mail' = NoRequest /\ UNCHANGED <<retry, step, waiting>>
  /\ \/ Begin /\ NoFault
     \/ mail # NoRequest /\ BadCrc /\ Fault
     \/ mail = Erase /\ EraseRefused /\ Fault

Working ==
  /\ \/ StaySetMode \/ ErasePage \/ DataOverrun \/ DataEnd \/ MetaErase \/ MetaProgram
     \/ DataProgram
     \/ DataProgramFails /\ ~Programmable(g_app_start_address)
  /\ UNCHANGED session
Failing ==
  /\ \/ ErasePageFails \/ MetaEraseFails \/ MetaProgramFails
     \/ DataProgramFails /\ Programmable(g_app_start_address)
  /\ Fault /\ UNCHANGED <<retry, step, waiting, mail>>

SelfTest ==
  /\ UNCHANGED <<retry, step, waiting, mail>>
  /\ \/ (PostDelay \/ PostVerdict(TRUE)) /\ NoFault
     \/ PostVerdict(FALSE) /\ Fault

Board == Poll \/ Idle \/ Take \/ Working \/ SelfTest

(* g_rx_buffer and the flag are cleared by a reset.                        *)
Breakdown ==
  /\ Fault /\ UNCHANGED <<retry, step, waiting>>
  /\ \/ EccError /\ mail' = mail
     \/ PowerCycle /\ mail' = NoRequest

Dog == WatchdogReset /\ mail' = NoRequest /\ UNCHANGED <<retry, step, waiting, faults>>

(* main and the host act, and the host gives up an answer that does not    *)
(* come, in much less than a second; seconds pass in HAL_Delay, in a       *)
(* handler and while the host has nothing to ask.                          *)
Timely ==
  now' > now => /\ g_CTRL_MODE = "BOOTLOADER_CODE"
                /\ step \notin Request \/ pc \notin {"loop", "usb"}

Clock == (Second \/ Tim5Interrupt) /\ UNCHANGED session

SessionNext == Host \/ Board \/ Failing \/ Breakdown \/ Dog \/ Clock

SessionSpec == SessionInit /\ [][SessionNext]_sessionVars

(* The processor, its clock, the watchdog and the host go on.  A second    *)
(* passes although main keeps moving between the two points of its loop:   *)
(* hence strong fairness.                                                  *)
FairSessionSpec ==
  /\ SessionSpec
  /\ WF_sessionVars(Send) /\ WF_sessionVars(GiveUp) /\ WF_sessionVars(NextBoot)
  /\ WF_sessionVars(Board) /\ WF_sessionVars(Dog)
  /\ SF_sessionVars(Clock /\ Timely)

-----------------------------------------------------------------------------

(* Whatever is lost or fails on the way, and wherever power is cut, no     *)
(* application runs but the image of the session, if the host starts over  *)
(* when it does not know how a data packet ended (main.c:586).  One that   *)
(* sends the packet again shifts the image, and APP_CRC_VERIFY seals what  *)
(* the slot holds, right or wrong.                                         *)
OnlyTheImageRuns ==
  pc = "app" /\ (\A s \in DataStep : retry[s] \in {Stay, Erase}) => Installed

(* Any host that has been through the procedure leaves a board that boots: *)
(* the image is in the slot, valid, signed and sealed.                     *)
DoneMeansBootable ==
  step \in {SwitchOff, Done} => Installed /\ SignedAndValid /\ InternalFlashOk

(* A host that starts from STAY_IN_BOOTLOADER_MODE whenever something went *)
(* wrong ends its session with the application running, once nobody but    *)
(* the clock holds it up.                                                  *)
EndsRunning ==
  (\A s \in Request : retry[s] = Stay) /\ <>[][Timely]_sessionVars => <>(pc = "app")

(* main.h:506-508 "APP_SIG_DWORD updates signature/version for Slot A",    *)
(* "APP_CRC_VERIFY updates size/crc for Slot A", "on next boot, the        *)
(* bootloader checks Slot A and jumps to it if valid": a host that had a   *)
(* PASS for either step has a signed slot.                                 *)
ProcedureMeansSigned ==
  step = SwitchOff => LoadOrDefault(meta)[Signature] = App_Sig_Dword
=============================================================================
