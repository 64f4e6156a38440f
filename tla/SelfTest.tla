------------------------------- MODULE SelfTest -------------------------------
(***************************************************************************)
(* The measurements behind the verdict of postCheck: external flash, RS422 *)
(* loopback, internal and external ADC (Post.c, usart.c, External_ADC.c),  *)
(* on top of Bootloader, whose PostVerdict takes their outcome from here.  *)
(* What postCheck compares lies in RAM and outlives the attempt that       *)
(* measured it, and parts fail and recover while it runs.                  *)
(*                                                                         *)
(* An image is installed and no host talks to the board: the commands do   *)
(* not touch the state of this module.  AdcReadout justifies that a sweep  *)
(* of a working ADC renews every voltage.                                  *)
(*                                                                         *)
(* WithoutEnd is a slip in the operator that follows it.                   *)
(***************************************************************************)
EXTENDS Bootloader

CONSTANTS
  Supplies,         \* the voltages compared with limits, Dig3P3 apart
  SIZE,             \* bytes of one loopback message (5)
  MaxFaults         \* events of the surroundings

Names == {"extFlash", "adc1", "externalAdc", "Dig3P3", "rx1_data", "rx2_data",
          "ExtFlashVer", "POSITIVE_DIGITAL3P3V", "RS422_CH1_Status", "RS422_CH2_Status"}

ASSUME SelfTestAssumption ==
  /\ SIZE \in Nat \ {0} /\ MaxFaults \in Nat
  /\ Supplies # {} /\ Supplies \cap Names = {}

(* The boot window and two attempts of four seconds take longer than a     *)
(* self test may: 5 + 4 + 4 > 10.                                          *)
ASSUME OneAttempt == BootTicks + 8 > PostLimit

Receivers == {"rx1_data", "rx2_data"}
Parts == {"extFlash", "adc1", "externalAdc", "Dig3P3"} \cup Receivers \cup Supplies

(* The bits of POST_Status that Bootloader leaves open.  Channel 1 sends   *)
(* to the receiver of channel 2 and the other way round.                   *)
Channel(r) == IF r = "rx2_data" THEN "RS422_CH1_Status" ELSE "RS422_CH2_Status"
Checks == {"ExtFlashVer", "POSITIVE_DIGITAL3P3V"}
            \cup {Channel(r) : r \in Receivers} \cup Supplies

VARIABLES
  broken,           \* the parts that do not work at present
  faults,           \* events so far
  worked,           \* ghost: parts that worked at some time since PostBegin
  rx,               \* reception of five bytes: where it is, whether the
                    \* buffer holds the message, whether it is still armed
  volts, dig,       \* g_ExtADC_Value: within the limits?
  g_POST_Status,    \* the checks that are SET
  stage             \* what postCheck does after its last delay

surroundings == <<broken, faults>>
measured == <<rx, volts, dig, g_POST_Status, stage>>
selfVars == <<vars, surroundings, worked, measured>>

Armed == [pos |-> 0, same |-> FALSE, on |-> TRUE]

SelfInit ==
  /\ BootState
  /\ slot \in [Addr -> Code] /\ IsValidApplication(slot)
  /\ \E n \in Sizes :
       /\ sealed = Crc(slot, n)
       /\ meta = Signed(Measured(LoadOrDefault(NoMetadata), n), INTERNAL_FLASH_VERSION)
  /\ broken \in SUBSET Parts /\ faults = 0 /\ worked = {}
  /\ rx = [r \in Receivers |-> Armed]
  /\ volts = [s \in Supplies |-> FALSE] /\ dig = FALSE
  /\ g_POST_Status = {} /\ stage = "none"

-----------------------------------------------------------------------------
(* postCheck.                                                              *)

SetIf(check, passed) ==
  g_POST_Status' = IF passed THEN g_POST_Status \cup {check}
                             ELSE g_POST_Status \ {check}

Begin ==
  /\ PostBegin
  /\ g_POST_Status' = {} /\ stage' = "none"
  /\ worked' = Parts \ broken
  /\ UNCHANGED <<surroundings, rx, volts, dig>>

(* The external flash is read after the second delay.                      *)
Delay ==
  /\ PostDelay
  /\ IF postStep = 2 /\ pc' # "hang"
       THEN SetIf("ExtFlashVer", "extFlash" \notin broken)
       ELSE UNCHANGED g_POST_Status
  /\ stage' = IF postStep = 4 /\ pc' # "hang" THEN "loopback" ELSE stage
  /\ UNCHANGED <<surroundings, worked, rx, volts, dig>>

At(s) == pc = "post" /\ postStep = 5 /\ stage = s /\ ~PostTimedOut(now)
Go(s) == stage' = s /\ UNCHANGED <<vars, surroundings, worked>>

(* SIZE bytes arrive; UART_RxISR_8BIT fills the buffer, and the callback   *)
(* arms it again when it is full.  Unless it was at its beginning, the     *)
(* message ends up rotated.  A line that does not work loses or garbles    *)
(* bytes; what it leaves alone may be an earlier message.                  *)
WithoutEnd(pos, bytes) == pos + bytes
Advance(pos, bytes) == (pos + bytes) % SIZE

Received(r) ==
  IF ~rx[r].on THEN {rx[r]}
  ELSE IF r \notin broken THEN {[rx[r] EXCEPT !.same = (rx[r].pos = 0)]}
  ELSE {[pos |-> Advance(rx[r].pos, n), same |-> s, on |-> TRUE] :
          n \in 0 .. (SIZE - 1), s \in {FALSE, rx[r].same}}

Loopback ==
  /\ At("loopback") /\ Go("internal")
  /\ \E rx1 \in Received("rx1_data"), rx2 \in Received("rx2_data") :
       rx' = [r \in Receivers |-> IF r = "rx1_data" THEN rx1 ELSE rx2]
  /\ g_POST_Status' = (g_POST_Status \ {Channel(r) : r \in Receivers})
                        \cup {Channel(r) : r \in {q \in Receivers : rx'[q].same}}
  /\ UNCHANGED <<volts, dig>>

(* A conversion that fails clears the bit and leaves the value.            *)
InternalAdc ==
  /\ At("internal") /\ Go("sweep")
  /\ IF "adc1" \in broken
       THEN SetIf("POSITIVE_DIGITAL3P3V", FALSE) /\ UNCHANGED dig
       ELSE dig' = ("Dig3P3" \notin broken) /\ UNCHANGED g_POST_Status
  /\ UNCHANGED <<rx, volts>>

(* An ADC that does not answer leaves all values, or spoils one of them.   *)
Sweep ==
  /\ At("sweep") /\ Go("compare")
  /\ IF "externalAdc" \in broken
       THEN \/ UNCHANGED volts
            \/ \E s \in Supplies : volts' = [volts EXCEPT ![s] = FALSE]
       ELSE volts' = [s \in Supplies |-> s \notin broken]
  /\ UNCHANGED <<rx, dig, g_POST_Status>>

(* Every voltage is compared, whatever became of its measurement.          *)
Compare ==
  /\ At("compare")
  /\ g_POST_Status' =
       (g_POST_Status \ (Supplies \cup {"POSITIVE_DIGITAL3P3V"}))
         \cup {s \in Supplies : volts[s]}
         \cup (IF dig THEN {"POSITIVE_DIGITAL3P3V"} ELSE {})
  /\ PostVerdict(g_POST_Status' = Checks)
  /\ stage' = "none"
  /\ UNCHANGED <<surroundings, worked, rx, volts, dig>>

(* Check_POST_Timeout between any two of these steps.                      *)
TimeOut ==
  /\ PostTimedOut(now) /\ PostVerdict(FALSE)
  /\ UNCHANGED <<surroundings, worked, measured>>

-----------------------------------------------------------------------------
(* The surroundings.                                                       *)

Event == faults < MaxFaults /\ pc # "app" /\ faults' = faults + 1

Break(p) ==
  /\ Event /\ p \notin broken
  /\ broken' = broken \cup {p}
  /\ UNCHANGED <<vars, worked, measured>>

Repair(p) ==
  /\ Event /\ p \in broken
  /\ broken' = broken \ {p} /\ worked' = worked \cup {p}
  /\ UNCHANGED <<vars, measured>>

(* A byte comes in from outside.                                           *)
Noise(r) ==
  /\ Event /\ rx[r].on
  /\ rx' = [rx EXCEPT ![r].pos = Advance(@, 1), ![r].same = FALSE]
  /\ UNCHANGED <<vars, broken, worked, volts, dig, g_POST_Status, stage>>

(* An overrun: HAL_UART_IRQHandler ends the reception, and no completion   *)
(* will ever arm it again.                                                 *)
Overrun(r) ==
  /\ Event /\ rx[r].on
  /\ rx' = [rx EXCEPT ![r].on = FALSE]
  /\ UNCHANGED <<vars, broken, worked, volts, dig, g_POST_Status, stage>>

(* The RAM of this module after a reset.                                   *)
Cleared ==
  /\ rx' = [r \in Receivers |-> Armed]
  /\ volts' = [s \in Supplies |-> FALSE] /\ dig' = FALSE

Restart == g_POST_Status' = {} /\ stage' = "none" /\ Cleared /\ worked' = {}

Lose == PowerCycle /\ Event /\ Restart /\ UNCHANGED broken
Bite == WatchdogReset /\ Restart /\ UNCHANGED surroundings

-----------------------------------------------------------------------------

Testing ==
  \/ (LoopHead \/ NoFrame) /\ UNCHANGED <<surroundings, worked, measured>>
  \/ Begin \/ Delay \/ Loopback \/ InternalAdc \/ Sweep \/ Compare \/ TimeOut

Tick == (Second \/ Tim5Interrupt) /\ UNCHANGED <<surroundings, worked, measured>>

Surroundings ==
  \/ \E p \in Parts : Break(p) \/ Repair(p)
  \/ \E r \in Receivers : Noise(r) \/ Overrun(r)
  \/ Lose

SelfNext == Testing \/ Tick \/ Surroundings \/ Bite

SelfSpec == SelfInit /\ [][SelfNext]_selfVars

(* From the end of the boot window on, main spends next to no time outside *)
(* HAL_Delay; before, seconds pass although it keeps moving.               *)
Timely == now' > now => g_CTRL_MODE = "BOOTLOADER_CODE" \/ postStep' > postStep

FairSelfSpec ==
  SelfSpec /\ WF_selfVars(Testing) /\ SF_selfVars(Tick /\ Timely) /\ WF_selfVars(Bite)

-----------------------------------------------------------------------------

SelfTestTypeOK ==
  /\ broken \subseteq Parts /\ worked \subseteq Parts /\ faults \in 0 .. MaxFaults
  /\ rx \in [Receivers -> [pos : 0 .. (SIZE - 1), same : BOOLEAN, on : BOOLEAN]]
  /\ volts \in [Supplies -> BOOLEAN] /\ dig \in BOOLEAN
  /\ g_POST_Status \subseteq Checks
  /\ stage \in {"none", "loopback", "internal", "sweep", "compare"}

(* The application is not started with a part that did not work at any     *)
(* time of the self test that let it through: no measurement of an earlier *)
(* attempt counts, although none of them is erased (Post.c:208, 231, 430). *)
NothingUntestedRuns == pc = "app" => worked = Parts

(* A board that is whole in the end, and no longer held up, runs its       *)
(* application, whatever state noise, overruns and failed attempts have    *)
(* left its receivers and its RAM in: the boot window and four delays fit  *)
(* into PostLimit (Post.c:499), and what is stuck is cured by the reset.   *)
HealthyBoardBoots ==
  <>[](broken = {}) /\ <>[][Timely]_selfVars => <>(pc = "app")
=============================================================================
