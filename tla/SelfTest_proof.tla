---------------------------- MODULE SelfTest_proof ----------------------------
(***************************************************************************)
(* No part goes untested into the application, for any set of supplies,    *)
(* any message length and any number of faults.                            *)
(*                                                                         *)
(* What an attempt measured is not erased: what keeps it from being used   *)
(* by the next one is the clock.  The first attempt finds RAM as the reset *)
(* left it; the second one cannot be over in time (OneAttempt).            *)
(***************************************************************************)
EXTENDS SelfTest, Bootloader_proof

InTime == now <= PostLimit

(* TIM5 has counted no more seconds than passed, and each delay of         *)
(* postCheck is one more.                                                  *)
ClockInv ==
  /\ pc = "post" => g_CTRL_MODE = "APPLICATION_CODE" /\ postStep \in 1 .. 5
  /\ InTime =>
       /\ l_time_count + (IF pend THEN 1 ELSE 0) <= now
       /\ g_CTRL_MODE = "APPLICATION_CODE" => BootTicks <= now
       /\ pc = "post" => BootTicks + (postStep - 1) <= now

(* A part that works has worked.                                           *)
WorkedInv ==
  /\ pc = "post" => Parts \ broken \subseteq worked
  /\ pc = "app" => worked = Parts

StageInv == stage # "none" /\ InTime => pc = "post" /\ postStep = 5

(* This is the second attempt or later, or the first one is over.          *)
Late == BootTicks + 4 + (IF pc = "post" THEN postStep - 1 ELSE 0) <= now

(* Everything measured was measured in this attempt, at a part that works. *)
Measurements ==
  /\ \A r \in Receivers : rx[r].same => stage \in {"internal", "sweep", "compare"}
  /\ dig => stage \in {"sweep", "compare"} /\ {"adc1", "Dig3P3"} \subseteq worked
  /\ \A s \in Supplies : volts[s] => stage = "compare" /\ {"externalAdc", s} \subseteq worked

RamInv == InTime => Late \/ Measurements

StatusInv ==
  pc = "post" =>
    /\ "ExtFlashVer" \in g_POST_Status => "extFlash" \in worked
    /\ stage \in {"internal", "sweep", "compare"} /\ InTime =>
         \A r \in Receivers : Channel(r) \in g_POST_Status => r \in worked

IInv ==
  /\ TypeInv /\ SelfTestTypeOK
  /\ ClockInv /\ WorkedInv /\ StageInv /\ RamInv /\ StatusInv
-----------------------------------------------------------------------------
(* A step of the self test is a step of Bootloader.                        *)

LEMMA BaseStep ==
  ASSUME [SelfNext]_selfVars
  PROVE  \/ UNCHANGED vars
         \/ LoopHead \/ NoFrame \/ PostBegin \/ PostDelay
         \/ \E othersOk \in BOOLEAN : PostVerdict(othersOk)
         \/ Second \/ Tim5Interrupt \/ Lose \/ Bite
<1>1. CASE Testing
  <2>1. CASE Compare
    <3>1. (g_POST_Status' = Checks) \in BOOLEAN
      OBVIOUS
    <3> QED
      BY <2>1, <3>1 DEF Compare
  <2>2. CASE TimeOut
    BY <2>2 DEF TimeOut
  <2> QED
    BY <1>1, <2>1, <2>2 DEF Testing, Begin, Delay, Loopback, InternalAdc, Sweep, Go
<1>2. CASE Tick
  BY <1>2 DEF Tick
<1>3. CASE Surroundings \/ Bite
  BY <1>3 DEF Surroundings, Break, Repair, Noise, Overrun
<1>4. CASE UNCHANGED selfVars
  BY <1>4 DEF selfVars
<1> QED
  BY <1>1, <1>2, <1>3, <1>4 DEF SelfNext

LEMMA BootloaderStep ==
  ASSUME [SelfNext]_selfVars
  PROVE  [Next]_vars
BY BaseStep DEF Next, Main, BootAttempt, Lose, Bite

LEMMA InitSelfType == SelfInit => TypeInv
<1> SUFFICES ASSUME SelfInit PROVE TypeInv
  OBVIOUS
<1>1. slot \in [Addr -> Word] /\ BootState
  BY DEF SelfInit, Word
<1>2. PICK n \in Sizes :
        /\ sealed = Crc(slot, n)
        /\ meta = Signed(Measured(LoadOrDefault(NoMetadata), n), INTERNAL_FLASH_VERSION)
  BY DEF SelfInit
<1>3. sealed \in Digests
  BY <1>1, <1>2, CrcIsDigest, ValuesAssumption
<1>4. IsMetadata(meta)
  <2>1. IsMetadata(LoadOrDefault(NoMetadata))
    BY NoMetadataIsMetadata, LoadOrDefaultIsMetadata
  <2>2. IsMetadata(Measured(LoadOrDefault(NoMetadata), n))
    BY <1>1, <2>1, MeasuredIsMetadata
  <2> QED
    BY <1>2, <2>2, SignedIsMetadata, ValuesAssumption
<1> QED
  BY <1>1, <1>3, <1>4, BootStateTypes DEF TypeInv, TypeOK, FlashOK

-----------------------------------------------------------------------------
(* Types.                                                                  *)

Positions == 0 .. (SIZE - 1)
Receptions == [pos : Positions, same : BOOLEAN, on : BOOLEAN]

LEMMA AdvanceStays ==
  ASSUME NEW pos \in Positions, NEW bytes \in Nat
  PROVE  Advance(pos, bytes) \in Positions
BY SelfTestAssumption DEF Advance, Positions

LEMMA ReceivedType ==
  ASSUME SelfTestTypeOK, NEW r \in Receivers, NEW q \in Received(r)
  PROVE  q \in Receptions
<1>1. rx[r] \in Receptions
  BY DEF SelfTestTypeOK, Receptions, Positions
<1>2. \A n \in Positions : Advance(rx[r].pos, n) \in Positions
  <2>1. Positions \subseteq Nat /\ rx[r].pos \in Positions
    BY <1>1, SelfTestAssumption DEF Receptions, Positions
  <2> QED
    BY <2>1, AdvanceStays
<1>3. CASE q = rx[r]
  BY <1>1, <1>3
<1>4. CASE q = [rx[r] EXCEPT !.same = (rx[r].pos = 0)]
  BY <1>1, <1>4 DEF Receptions
<1>5. CASE \E n \in Positions, s \in {FALSE, rx[r].same} :
             q = [pos |-> Advance(rx[r].pos, n), same |-> s, on |-> TRUE]
  <2>1. PICK n \in Positions, s \in {FALSE, rx[r].same} :
          q = [pos |-> Advance(rx[r].pos, n), same |-> s, on |-> TRUE]
    BY <1>5
  <2>2. rx[r].same \in BOOLEAN
    BY <1>1 DEF Receptions
  <2>3. s \in BOOLEAN
    BY <2>2, Zenon
  <2>4. Advance(rx[r].pos, n) \in Positions /\ TRUE \in BOOLEAN
    BY <1>2
  <2> QED
    BY <2>1, <2>3, <2>4, Zenon DEF Receptions
<1> QED
  BY <1>3, <1>4, <1>5 DEF Received, Positions

LEMMA SelfTypeNext ==
  ASSUME SelfTestTypeOK, [SelfNext]_selfVars
  PROVE  SelfTestTypeOK'
<1> USE DEF SelfTestTypeOK
<1>1. CASE Testing \/ Tick
  <2>1. CASE Begin
    BY <2>1 DEF Begin, surroundings
  <2>2. CASE Delay
    BY <2>2 DEF Delay, SetIf, surroundings, Checks
  <2>3. CASE Loopback
    <3>1. rx' \in [Receivers -> Receptions]
      BY <2>3, ReceivedType DEF Loopback, Receivers
    <3> QED
      BY <2>3, <3>1 DEF Loopback, Go, surroundings, Checks, Receptions, Positions
  <2>4. CASE InternalAdc
    BY <2>4 DEF InternalAdc, Go, SetIf, surroundings
  <2>5. CASE Sweep
    BY <2>5 DEF Sweep, Go, surroundings
  <2>6. CASE Compare
    BY <2>6 DEF Compare, Checks, surroundings
  <2>7. CASE TimeOut \/ Tick \/ ((LoopHead \/ NoFrame) /\ UNCHANGED <<surroundings, worked, measured>>)
    BY <2>7 DEF TimeOut, Tick, surroundings, measured
  <2> QED
    BY <1>1, <2>1, <2>2, <2>3, <2>4, <2>5, <2>6, <2>7 DEF Testing
<1>2. CASE Surroundings \/ Bite
  <2>1. ASSUME Event PROVE faults' \in 0 .. MaxFaults
    BY <2>1, SelfTestAssumption DEF Event
  <2>2. CASE \E p \in Parts : Break(p) \/ Repair(p)
    BY <2>1, <2>2 DEF Break, Repair, measured
  <2>3. CASE \E r \in Receivers : Noise(r)
    <3>1. PICK r \in Receivers : Noise(r)
      BY <2>3
    <3>2. rx' \in [Receivers -> Receptions]
      <4>1. rx[r] \in Receptions /\ Advance(rx[r].pos, 1) \in Positions
        BY AdvanceStays DEF Receptions, Positions
      <4> QED
        BY <3>1, <4>1 DEF Noise, Receptions, Positions
    <3> QED
      BY <2>1, <3>1, <3>2 DEF Noise, Receptions, Positions
  <2>4. CASE \E r \in Receivers : Overrun(r)
    BY <2>1, <2>4 DEF Overrun
  <2>5. ASSUME Restart
        PROVE  /\ rx' \in [Receivers -> Receptions] /\ volts' \in [Supplies -> BOOLEAN]
               /\ dig' \in BOOLEAN /\ g_POST_Status' = {} /\ stage' = "none" /\ worked' = {}
    <3>1. Armed \in Receptions
      BY SelfTestAssumption DEF Armed, Receptions, Positions
    <3>2. \A s \in Supplies : FALSE \in BOOLEAN
      OBVIOUS
    <3> QED
      BY <2>5, <3>1, <3>2 DEF Restart, Cleared
  <2>6. CASE Lose \/ Bite
    BY <2>1, <2>5, <2>6 DEF Lose, Bite, surroundings, Receptions, Positions
  <2> QED
    BY <1>2, <2>2, <2>3, <2>4, <2>6 DEF Surroundings
<1>3. CASE UNCHANGED selfVars
  BY <1>3 DEF selfVars, surroundings, measured
<1> QED
  BY <1>1, <1>2, <1>3 DEF SelfNext

-----------------------------------------------------------------------------
(* The clock.                                                              *)

LEMMA ClockTypes ==
  ASSUME TypeInv
  PROVE  /\ now \in Nat /\ l_time_count \in Nat /\ pend \in BOOLEAN /\ postStep \in 0 .. 5
         /\ l_time_count <= BootTicks /\ now <= PostLimit + 1
         /\ tim5 => l_time_count < BootTicks
         /\ BootTicks \in 1 .. 255 /\ PostLimit \in Nat
BY SizesAssumption DEF TypeInv, TypeOK, ClockOK, PostOK

LEMMA ClockNext ==
  ASSUME TypeInv, ClockInv, [SelfNext]_selfVars
  PROVE  ClockInv'
<1> USE ClockTypes DEF ClockInv, InTime
<1>1. CASE UNCHANGED vars
  BY <1>1 DEF vars, clock, post, globals
<1>2. CASE LoopHead \/ NoFrame
  BY <1>2 DEF LoopHead, NoFrame, clock, post, globals
<1>3. CASE PostBegin
  BY <1>3 DEF PostBegin, clock, globals
<1>4. CASE PostDelay
  <2>1. /\ pc = "post" /\ postStep' = postStep + 1 /\ postStep \in 1 .. 4
        /\ l_time_count' = l_time_count /\ g_CTRL_MODE' = g_CTRL_MODE
        /\ pend' = (pend \/ tim5) /\ now' = IF now > PostLimit THEN now ELSE now + 1
    BY <1>4 DEF PostDelay, Elapse, globals
  <2> QED
    BY <2>1
<1>5. CASE \E othersOk \in BOOLEAN : PostVerdict(othersOk)
  <2>1. pc' # "post" /\ UNCHANGED <<now, pend, l_time_count>>
    BY <1>5 DEF PostVerdict, Hang, clock
  <2>2. g_CTRL_MODE' \in {g_CTRL_MODE, "BOOTLOADER_CODE"}
    BY <1>5 DEF PostVerdict
  <2> QED
    BY <2>1, <2>2
<1>6. CASE Second
  <2>1. /\ UNCHANGED <<pc, postStep, l_time_count, g_CTRL_MODE>>
        /\ pend' = (pend \/ tim5) /\ now' = IF now > PostLimit THEN now ELSE now + 1
    BY <1>6 DEF Second, Elapse, post, globals
  <2> QED
    BY <2>1
<1>7. CASE Tim5Interrupt
  <2>1. /\ pend /\ pend' = FALSE /\ UNCHANGED <<pc, postStep, now>>
        /\ l_time_count < BootTicks /\ l_time_count' = (l_time_count + 1) % 256
        /\ g_CTRL_MODE' = IF l_time_count' = BootTicks THEN "APPLICATION_CODE"
                                                       ELSE g_CTRL_MODE
    BY <1>7 DEF Tim5Interrupt, post
  <2>2. l_time_count' = l_time_count + 1
    BY <2>1
  <2>3. InTime' => InTime /\ l_time_count' <= now'
    BY <2>1, <2>2
  <2> QED
    BY <2>1, <2>2, <2>3
<1>8. CASE Lose \/ Bite
  <2>1. /\ pc' = "loop" /\ g_CTRL_MODE' = "BOOTLOADER_CODE"
        /\ pend' = FALSE /\ l_time_count' = 0 /\ now' = 0
    BY <1>8 DEF Lose, Bite, PowerCycle, WatchdogReset, Reboot
  <2> QED
    BY <2>1
<1> QED
  BY <1>1, <1>2, <1>3, <1>4, <1>5, <1>6, <1>7, <1>8, BaseStep

(* Time does not run back within an attempt, nor between two.              *)
LEMMA LateStays ==
  ASSUME TypeInv, ClockInv, ClockInv', Late, [SelfNext]_selfVars,
         ~Lose, ~Bite, now' <= PostLimit
  PROVE  Late'
<1> USE ClockTypes DEF ClockInv, InTime, Late
<1>1. CASE UNCHANGED vars
  BY <1>1 DEF vars, clock, post
<1>2. CASE LoopHead \/ NoFrame \/ PostBegin
  BY <1>2 DEF LoopHead, NoFrame, PostBegin, clock, post
<1>3. CASE PostDelay
  <2>1. /\ pc = "post" /\ postStep' = postStep + 1
        /\ now' = IF now > PostLimit THEN now ELSE now + 1
    BY <1>3 DEF PostDelay, Elapse
  <2> QED
    BY <2>1
<1>4. CASE \E othersOk \in BOOLEAN : PostVerdict(othersOk)
  <2>1. pc = "post" /\ postStep = 5 /\ pc' # "post" /\ now' = now
    BY <1>4 DEF PostVerdict, Hang, clock
  <2> QED
    BY <2>1
<1>5. CASE Second \/ Tim5Interrupt
  <2>1. /\ UNCHANGED <<pc, postStep>>
        /\ now' = now \/ now' = IF now > PostLimit THEN now ELSE now + 1
    BY <1>5 DEF Second, Tim5Interrupt, Elapse, post
  <2> QED
    BY <2>1
<1> QED
  BY <1>1, <1>2, <1>3, <1>4, <1>5, BaseStep

-----------------------------------------------------------------------------
(* What was measured.                                                      *)

LEMMA PartsOf ==
  /\ Receivers \subseteq Parts /\ Supplies \subseteq Parts
  /\ {"extFlash", "adc1", "externalAdc", "Dig3P3"} \subseteq Parts
  /\ Parts = {"extFlash", "adc1", "externalAdc", "Dig3P3"} \cup Receivers \cup Supplies
BY DEF Parts

LEMMA NamesApart ==
  /\ \A r \in Receivers : /\ Channel(r) \notin Supplies
                          /\ Channel(r) \notin {"ExtFlashVer", "POSITIVE_DIGITAL3P3V"}
  /\ \A r, q \in Receivers : Channel(r) = Channel(q) => r = q
  /\ "ExtFlashVer" \notin Supplies /\ "POSITIVE_DIGITAL3P3V" \notin Supplies
BY SelfTestAssumption DEF Names, Channel, Receivers

(* The steps of the measurements themselves, and all others.               *)
LEMMA StepKinds ==
  ASSUME [SelfNext]_selfVars
  PROVE  \/ Begin \/ Delay \/ Loopback \/ InternalAdc \/ Sweep \/ Compare \/ TimeOut
         \/ (LoopHead \/ NoFrame \/ Second \/ Tim5Interrupt)
              /\ UNCHANGED <<surroundings, worked, measured>>
         \/ \E p \in Parts : Break(p) \/ Repair(p)
         \/ \E r \in Receivers : Noise(r) \/ Overrun(r)
         \/ Lose \/ Bite \/ UNCHANGED selfVars
BY DEF SelfNext, Testing, Tick, Surroundings

LEMMA WorkedNext ==
  ASSUME TypeInv, TypeInv', SelfTestTypeOK, SelfTestTypeOK', WorkedInv,
         StatusInv, RamInv, StageInv, ClockInv, [SelfNext]_selfVars
  PROVE  WorkedInv'
<1> USE DEF WorkedInv
<1>1. CASE Begin
  BY <1>1 DEF Begin, PostBegin, surroundings
<1>2. CASE Delay
  BY <1>2 DEF Delay, PostDelay, Hang, surroundings
<1>3. CASE Loopback \/ InternalAdc \/ Sweep
  BY <1>3 DEF Loopback, InternalAdc, Sweep, Go, vars, surroundings
<1>4. CASE Compare
  <2>1. /\ pc = "post" /\ postStep = 5 /\ stage = "compare" /\ InTime
        /\ worked' = worked
    BY <1>4, ClockTypes DEF Compare, At, PostTimedOut, InTime
  <2>2. pc' = "app" => g_POST_Status' = Checks
    BY <1>4, <2>1 DEF Compare, PostVerdict, Hang, PostTimedOut, InTime
  <2>3. pc' # "post"
    BY <1>4, <2>1 DEF Compare, PostVerdict, Hang
  <2>4. ~Late
    BY <2>1, ClockTypes, OneAttempt DEF Late, InTime
  <2>5. Measurements
    BY <2>1, <2>4 DEF RamInv
  <2>6. g_POST_Status' =
          (g_POST_Status \ (Supplies \cup {"POSITIVE_DIGITAL3P3V"}))
            \cup {s \in Supplies : volts[s]}
            \cup (IF dig THEN {"POSITIVE_DIGITAL3P3V"} ELSE {})
    BY <1>4 DEF Compare
  <2>7. ASSUME pc' = "app"
        PROVE  Parts \subseteq worked
    <3>1. "extFlash" \in worked /\ Receivers \subseteq worked
      <4>1. /\ "ExtFlashVer" \in Checks
            /\ \A r \in Receivers : Channel(r) \in Checks
        BY DEF Checks
      <4>2. /\ "ExtFlashVer" \in g_POST_Status
            /\ \A r \in Receivers : Channel(r) \in g_POST_Status
        BY <2>2, <2>6, <2>7, <4>1, NamesApart
      <4> QED
        BY <2>1, <4>2 DEF StatusInv
    <3>2. {"adc1", "Dig3P3"} \subseteq worked
      <4>1. "POSITIVE_DIGITAL3P3V" \in Checks
        BY DEF Checks
      <4>2. dig
        BY <2>2, <2>6, <2>7, <4>1, NamesApart
      <4> QED
        BY <2>5, <4>2 DEF Measurements
    <3>3. "externalAdc" \in worked /\ Supplies \subseteq worked
      <4>1. ASSUME NEW s \in Supplies PROVE volts[s]
        <5>1. s \in g_POST_Status'
          BY <2>2, <2>7 DEF Checks
        <5> QED
          BY <2>6, <5>1, NamesApart
      <4> QED
        BY <2>5, <4>1, SelfTestAssumption DEF Measurements
    <3> QED
      BY <3>1, <3>2, <3>3, PartsOf
  <2> QED
    BY <2>1, <2>3, <2>7 DEF SelfTestTypeOK
<1>5. CASE TimeOut
  BY <1>5 DEF TimeOut, PostVerdict, Hang
<1>6. CASE (LoopHead \/ NoFrame \/ Second \/ Tim5Interrupt)
             /\ UNCHANGED <<surroundings, worked, measured>>
  BY <1>6 DEF LoopHead, NoFrame, Second, Tim5Interrupt, surroundings
<1>7. CASE \E p \in Parts : Break(p) \/ Repair(p)
  BY <1>7 DEF Break, Repair, Event, vars
<1>8. CASE \E r \in Receivers : Noise(r) \/ Overrun(r)
  BY <1>8 DEF Noise, Overrun, vars
<1>9. CASE Lose \/ Bite
  BY <1>9 DEF Lose, Bite, PowerCycle, WatchdogReset, Reboot
<1>10. CASE UNCHANGED selfVars
  BY <1>10 DEF selfVars, vars, surroundings
<1> QED
  BY <1>1, <1>2, <1>3, <1>4, <1>5, <1>6, <1>7, <1>8, <1>9, <1>10, StepKinds

LEMMA StageNext ==
  ASSUME TypeInv, StageInv, [SelfNext]_selfVars
  PROVE  StageInv'
<1> USE ClockTypes DEF StageInv, InTime
<1>1. CASE Begin
  BY <1>1 DEF Begin
<1>2. CASE Delay
  <2>1. pc = "post" /\ postStep \in 1 .. 4 /\ postStep' = postStep + 1
        /\ (now' <= PostLimit => now <= PostLimit) /\ pc' \in {pc, "hang"}
        /\ stage' = IF postStep = 4 /\ pc' # "hang" THEN "loopback" ELSE stage
    BY <1>2 DEF Delay, PostDelay, Elapse, Hang
  <2> QED
    BY <2>1
<1>3. CASE Loopback \/ InternalAdc \/ Sweep
  BY <1>3 DEF Loopback, InternalAdc, Sweep, Go, At, vars, post, clock
<1>4. CASE Compare
  BY <1>4 DEF Compare
<1>5. CASE TimeOut
  BY <1>5 DEF TimeOut, PostTimedOut, PostVerdict, clock
<1>6. CASE (LoopHead \/ NoFrame \/ Second \/ Tim5Interrupt)
             /\ UNCHANGED <<surroundings, worked, measured>>
  <2>1. stage' = stage /\ (now' <= PostLimit => now <= PostLimit)
        /\ postStep' = postStep
    BY <1>6 DEF LoopHead, NoFrame, Second, Tim5Interrupt, Elapse, measured, clock, post
  <2>2. pc = "post" => pc' = "post"
    BY <1>6 DEF LoopHead, NoFrame, Second, Tim5Interrupt
  <2> QED
    BY <2>1, <2>2
<1>7. CASE (\E p \in Parts : Break(p) \/ Repair(p)) \/ (\E r \in Receivers : Noise(r) \/ Overrun(r))
  BY <1>7 DEF Break, Repair, Noise, Overrun, measured, vars, clock, post
<1>8. CASE Lose \/ Bite
  BY <1>8 DEF Lose, Bite, Restart
<1>9. CASE UNCHANGED selfVars
  BY <1>9 DEF selfVars, vars, clock, post, measured
<1> QED
  BY <1>1, <1>2, <1>3, <1>4, <1>5, <1>6, <1>7, <1>8, <1>9, StepKinds

(* The part whose reception a message passed works.                        *)
LEMMA ReceivedNew ==
  ASSUME NEW r \in Receivers, ~rx[r].same, rx \in [Receivers -> Receptions],
         NEW q \in Received(r), q.same
  PROVE  r \notin broken
<1>1. q # rx[r]
  OBVIOUS
<1>2. ~\E n \in 0 .. (SIZE - 1), s \in {FALSE, rx[r].same} :
         q = [pos |-> Advance(rx[r].pos, n), same |-> s, on |-> TRUE]
  OBVIOUS
<1> QED
  BY <1>1, <1>2 DEF Received

LEMMA StatusNext ==
  ASSUME TypeInv, TypeInv', SelfTestTypeOK, SelfTestTypeOK', WorkedInv,
         StatusInv, RamInv, StageInv, ClockInv, [SelfNext]_selfVars
  PROVE  StatusInv'
<1> USE DEF StatusInv
<1>1. CASE Begin
  BY <1>1 DEF Begin
<1>2. CASE Delay
  <2>1. pc = "post" /\ worked' = worked /\ UNCHANGED surroundings
    BY <1>2 DEF Delay, PostDelay
  <2>2. "ExtFlashVer" \in g_POST_Status' =>
          "ExtFlashVer" \in g_POST_Status \/ "extFlash" \notin broken
    BY <1>2 DEF Delay, SetIf
  <2>3. "extFlash" \notin broken => "extFlash" \in worked
    BY <2>1, PartsOf DEF WorkedInv
  <2>4. InTime' => InTime
    BY <1>2, ClockTypes DEF Delay, PostDelay, Elapse, InTime
  <2>5. InTime' => stage' \in {"none", "loopback"}
    <3>1. postStep \in 1 .. 4
      BY <1>2 DEF Delay, PostDelay
    <3>2. InTime' => stage = "none"
      BY <2>4, <3>1 DEF StageInv
    <3> QED
      BY <1>2, <3>2 DEF Delay
  <2> QED
    BY <2>1, <2>2, <2>3, <2>5
<1>3. CASE Loopback
  <2>1. /\ pc = "post" /\ stage = "loopback" /\ InTime /\ postStep = 5 /\ worked' = worked
        /\ broken' = broken
    BY <1>3, ClockTypes DEF Loopback, At, Go, PostTimedOut, InTime, surroundings
  <2>2. ~Late
    BY <2>1, ClockTypes, OneAttempt DEF Late, InTime
  <2>3. \A r \in Receivers : ~rx[r].same
    BY <2>1, <2>2 DEF RamInv, Measurements
  <2>4. /\ \A r \in Receivers : rx'[r] \in Received(r)
        /\ g_POST_Status' = (g_POST_Status \ {Channel(r) : r \in Receivers})
                              \cup {Channel(r) : r \in {q \in Receivers : rx'[q].same}}
    BY <1>3 DEF Loopback, Receivers
  <2>5. rx \in [Receivers -> Receptions]
    BY DEF SelfTestTypeOK, Receptions, Positions
  <2>6. ASSUME NEW r \in Receivers, Channel(r) \in g_POST_Status'
        PROVE  r \in worked
    <3>1. rx'[r].same
      BY <2>4, <2>6, NamesApart
    <3>2. r \notin broken
      BY <2>3, <2>4, <2>5, <3>1, ReceivedNew
    <3> QED
      BY <2>1, <3>2, PartsOf DEF WorkedInv
  <2>7. "ExtFlashVer" \in g_POST_Status' => "ExtFlashVer" \in g_POST_Status
    BY <2>4, NamesApart
  <2> QED
    BY <2>1, <2>6, <2>7
<1>4. CASE InternalAdc \/ Sweep
  <2>1. /\ g_POST_Status' \subseteq g_POST_Status
        /\ UNCHANGED <<pc, worked, now>> /\ stage \in {"internal", "sweep"}
    BY <1>4 DEF InternalAdc, Sweep, Go, At, SetIf, vars, clock
  <2> QED
    BY <2>1 DEF InTime
<1>5. CASE Compare
  BY <1>5 DEF Compare, PostVerdict, Hang
<1>6. CASE TimeOut
  BY <1>6 DEF TimeOut, PostVerdict, Hang
<1>7. CASE (LoopHead \/ NoFrame \/ Second \/ Tim5Interrupt)
             /\ UNCHANGED <<surroundings, worked, measured>>
  <2>1. /\ UNCHANGED <<worked, g_POST_Status, stage>> /\ (InTime' => InTime)
        /\ (pc' = "post" => pc = "post")
    BY <1>7, ClockTypes
    DEF LoopHead, NoFrame, Second, Tim5Interrupt, Elapse, measured, clock, InTime
  <2> QED
    BY <2>1
<1>8. CASE \E p \in Parts : Break(p) \/ Repair(p)
  <2>1. /\ UNCHANGED <<pc, now, stage, g_POST_Status>> /\ worked \subseteq worked'
    BY <1>8 DEF Break, Repair, measured, vars, clock
  <2> QED
    BY <2>1 DEF InTime
<1>9. CASE \E r \in Receivers : Noise(r) \/ Overrun(r)
  BY <1>9 DEF Noise, Overrun, vars, clock, InTime
<1>10. CASE Lose \/ Bite
  BY <1>10 DEF Lose, Bite, Restart
<1>11. CASE UNCHANGED selfVars
  BY <1>11 DEF selfVars, vars, clock, measured, InTime
<1> QED
  BY <1>1, <1>2, <1>3, <1>4, <1>5, <1>6, <1>7, <1>8, <1>9, <1>10, <1>11, StepKinds

(* Once more a measurement is of this attempt or comes too late.           *)
LEMMA RamNext ==
  ASSUME TypeInv, SelfTestTypeOK, ClockInv, ClockInv', WorkedInv, StageInv, RamInv,
         [SelfNext]_selfVars
  PROVE  RamInv'
<1>1. CASE Lose \/ Bite
  <2>1. Restart
    BY <1>1 DEF Lose, Bite
  <2>2. /\ \A r \in Receivers : ~rx'[r].same
        /\ \A s \in Supplies : ~volts'[s]
        /\ ~dig'
    BY <2>1 DEF Restart, Cleared, Armed
  <2> QED
    BY <2>2 DEF RamInv, Measurements
<1>2. CASE TimeOut
  <2>1. ~InTime'
    BY <1>2, ClockTypes DEF TimeOut, PostTimedOut, PostVerdict, clock, InTime
  <2> QED
    BY <2>1 DEF RamInv
<1>3. CASE Compare
  <2>1. pc = "post" /\ postStep = 5 /\ now' = now /\ pc' # "post" /\ InTime
    BY <1>3, ClockTypes DEF Compare, At, PostTimedOut, PostVerdict, Hang, clock, InTime
  <2>2. Late'
    BY <2>1, ClockTypes DEF ClockInv, Late, InTime
  <2> QED
    BY <2>2 DEF RamInv
<1>4. CASE ~Lose /\ ~Bite /\ ~TimeOut /\ ~Compare
  <2> SUFFICES ASSUME InTime', ~Late' PROVE Measurements'
    BY DEF RamInv
  <2>1. InTime
    <3>1. now' = now \/ now' = IF now > PostLimit THEN now ELSE now + 1
      BY <1>4, BaseStep
      DEF LoopHead, NoFrame, PostBegin, PostDelay, PostVerdict, Second, Tim5Interrupt,
          Elapse, vars, clock
    <3> QED
      BY <3>1, ClockTypes DEF InTime
  <2>2. Measurements
    BY <1>4, <2>1, LateStays DEF RamInv, InTime
  <2>3. ASSUME stage \notin {"internal", "sweep", "compare"}, UNCHANGED <<rx, volts, dig>>
        PROVE  Measurements'
    BY <2>2, <2>3 DEF Measurements
  <2>4. CASE Begin
    BY <2>1, <2>3, <2>4 DEF Begin, PostBegin, StageInv
  <2>5. CASE Delay
    <3>1. postStep \in 1 .. 4 /\ UNCHANGED <<rx, volts, dig>>
      BY <2>5 DEF Delay, PostDelay
    <3>2. stage = "none"
      BY <2>1, <3>1 DEF StageInv
    <3> QED
      BY <2>3, <3>1, <3>2
  <2>6. CASE Loopback
    BY <2>2, <2>6 DEF Loopback, Go, At, Measurements
  <2>7. CASE InternalAdc
    <3>1. /\ stage = "internal" /\ stage' = "sweep" /\ UNCHANGED <<rx, volts, worked>>
          /\ pc = "post"
      BY <2>7 DEF InternalAdc, Go, At
    <3>2. ~dig
      BY <2>2, <3>1 DEF Measurements
    <3>3. dig' => "adc1" \notin broken /\ "Dig3P3" \notin broken
      BY <2>7, <3>2 DEF InternalAdc
    <3> QED
      BY <2>2, <3>1, <3>3, PartsOf DEF Measurements, WorkedInv
  <2>8. CASE Sweep
    <3>1. /\ stage = "sweep" /\ stage' = "compare" /\ UNCHANGED <<rx, dig, worked>>
          /\ pc = "post"
      BY <2>8 DEF Sweep, Go, At
    <3>2. \A s \in Supplies : ~volts[s]
      BY <2>2, <3>1 DEF Measurements
    <3>3. ASSUME NEW s \in Supplies, volts'[s]
          PROVE  "externalAdc" \notin broken /\ s \notin broken
      <4>1. CASE "externalAdc" \in broken
        <5>1. volts \in [Supplies -> BOOLEAN]
          BY DEF SelfTestTypeOK
        <5>2. ~volts'[s]
          BY <2>8, <3>2, <4>1, <5>1 DEF Sweep
        <5> QED
          BY <3>3, <5>2
      <4>2. CASE "externalAdc" \notin broken
        BY <2>8, <3>3, <4>2 DEF Sweep
      <4> QED
        BY <4>1, <4>2
    <3> QED
      BY <2>2, <3>1, <3>3, PartsOf DEF Measurements, WorkedInv
  <2>9. CASE (LoopHead \/ NoFrame \/ Second \/ Tim5Interrupt)
               /\ UNCHANGED <<surroundings, worked, measured>>
    BY <2>2, <2>9 DEF Measurements, measured
  <2>10. CASE \E p \in Parts : Break(p) \/ Repair(p)
    <3>1. worked \subseteq worked' /\ UNCHANGED measured
      BY <2>10 DEF Break, Repair
    <3> QED
      BY <2>2, <3>1 DEF Measurements, measured
  <2>11. CASE \E r \in Receivers : Noise(r) \/ Overrun(r)
    <3>1. /\ UNCHANGED <<worked, volts, dig, stage>>
          /\ \A r \in Receivers : rx'[r].same => rx[r].same
      BY <2>11 DEF Noise, Overrun, SelfTestTypeOK
    <3> QED
      BY <2>2, <3>1 DEF Measurements
  <2>12. CASE UNCHANGED selfVars
    BY <2>2, <2>12 DEF Measurements, selfVars, measured
  <2> QED
    BY <1>4, <2>4, <2>5, <2>6, <2>7, <2>8, <2>9, <2>10, <2>11, <2>12, StepKinds
<1> QED
  BY <1>1, <1>2, <1>3, <1>4

-----------------------------------------------------------------------------

LEMMA InitSelfInv == SelfInit => IInv
<1> SUFFICES ASSUME SelfInit PROVE IInv
  OBVIOUS
<1>1. /\ pc = "loop" /\ g_CTRL_MODE = "BOOTLOADER_CODE" /\ now = 0 /\ l_time_count = 0
      /\ pend = FALSE /\ stage = "none" /\ g_POST_Status = {}
      /\ \A r \in Receivers : ~rx[r].same
      /\ \A s \in Supplies : ~volts[s]
      /\ ~dig
  BY DEF SelfInit, BootState, Armed
<1>2. SelfTestTypeOK
  <2>1. broken \subseteq Parts /\ worked = {} /\ faults = 0 /\ faults \in 0 .. MaxFaults
    BY SelfTestAssumption DEF SelfInit
  <2>2. rx \in [Receivers -> Receptions]
    BY SelfTestAssumption DEF SelfInit, Armed, Receptions, Positions
  <2>3. volts \in [Supplies -> BOOLEAN] /\ dig \in BOOLEAN
    BY Zenon DEF SelfInit
  <2> QED
    BY <1>1, <2>1, <2>2, <2>3 DEF SelfTestTypeOK, Receptions, Positions
<1>3. ClockInv
  BY <1>1 DEF ClockInv, InTime
<1>4. WorkedInv /\ StageInv /\ RamInv /\ StatusInv
  BY <1>1 DEF WorkedInv, StageInv, RamInv, StatusInv, Measurements
<1> QED
  BY <1>2, <1>3, <1>4, InitSelfType DEF IInv

LEMMA NextSelfInv == IInv /\ [SelfNext]_selfVars => IInv'
<1> SUFFICES ASSUME IInv, [SelfNext]_selfVars PROVE IInv'
  OBVIOUS
<1> USE DEF IInv
<1>1. TypeInv'
  BY BootloaderStep, NextType
<1>2. SelfTestTypeOK'
  BY SelfTypeNext
<1>3. ClockInv'
  BY ClockNext
<1>4. WorkedInv' /\ StatusInv'
  BY <1>1, <1>2, WorkedNext, StatusNext
<1>5. StageInv'
  BY StageNext
<1>6. RamInv'
  BY <1>3, RamNext
<1> QED
  BY <1>1, <1>2, <1>3, <1>4, <1>5, <1>6

LEMMA SelfInvHolds == SelfSpec => []IInv
BY InitSelfInv, NextSelfInv, PTL DEF SelfSpec

(* Receivers, voltages and POST_Status keep their types: reception stays   *)
(* inside the buffer of the loopback message (main.c:1533).                *)
THEOREM SelfTypeCorrect == SelfSpec => []SelfTestTypeOK
<1>1. IInv => SelfTestTypeOK
  BY DEF IInv
<1> QED
  BY <1>1, SelfInvHolds, PTL

(* The application is not started with a part that did not work during     *)
(* the self test that let it through (Post.c:208, 231, 430).               *)
THEOREM NothingUntested == SelfSpec => []NothingUntestedRuns
<1>1. IInv => NothingUntestedRuns
  BY DEF IInv, WorkedInv, NothingUntestedRuns
<1> QED
  BY <1>1, SelfInvHolds, PTL

=============================================================================
