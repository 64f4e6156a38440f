----------------------------- MODULE Drivers_proof -----------------------------
(***************************************************************************)
(* The parts of Drivers, each with the invariant that explains it: the     *)
(* handover, the USB device, the sweep of the external ADC, the CRC; and   *)
(* what FlashDriver_proof shows of the flash driver.                       *)
(***************************************************************************)
EXTENDS Drivers, SequenceTheorems, TLAPS

-----------------------------------------------------------------------------
(* The handover.                                                           *)

ToTheClock == {"start", "masked", "usb", "uarts", "adc", "tim5", "nvic"}
ClockReset == {"msi", "tick", "switch", "pll", "again"}
ToTheJump == {"icsr", "vtor", "unmask", "jump", "app"}

(* What can still raise its exception at each statement: TIM5 was stopped  *)
(* before; HAL_RCC_DeInit turns on SysTick again, and only SysTick.        *)
Sources ==
  /\ on \subseteq Jump!Uarts \cup {"OTG_FS", "SysTick"}
  /\ jumpPc = "usb" => on \subseteq Jump!Uarts \cup {"OTG_FS"}
  /\ jumpPc = "uarts" => on \subseteq Jump!Uarts
  /\ jumpPc \in {"adc", "tim5", "nvic", "msi", "tick"} => on = {}
  /\ jumpPc \in {"switch", "pll", "again"} => on \subseteq {"SysTick"}
  /\ jumpPc \in ToTheJump => on = {}

JumpInv ==
  /\ jumpPc \in ToTheClock \cup ClockReset \cup ToTheJump
  /\ Sources
  /\ pending \subseteq Jump!Peripherals \cup {"SysTick"}
  /\ jumpPc \in ClockReset \cup ToTheJump => enabled = {} /\ pending \subseteq {"SysTick"}
  /\ early # {} => jumpPc \in {"jump", "app"}
  /\ early \subseteq {"SysTick"}
  /\ VTOR = "application" => jumpPc \in {"unmask", "jump", "app"}
  /\ jumpPc \notin {"start", "jump", "app"} => PRIMASK = TRUE

-----------------------------------------------------------------------------
(* The USB device.                                                         *)

(* The state the device has or goes back to when it wakes up.              *)
Awake == IF dev_state = "SUSPENDED" THEN dev_old_state ELSE dev_state

(* An OUT transfer is over, and the class has not been told.               *)
UnderWay == GRXSTSP # "empty" \/ "OEPINT" \in events

(* A suspended device is on a suspended bus, or its wake-up or reset is on *)
(* the way; of what it would drop only the end of an OUT transfer can then *)
(* be waiting: the flag of an IN transfer was up before the call began.    *)
SuspendInv ==
  /\ dev_state = "SUSPENDED" =>
       /\ bus # "active" \/ events \cap {"WKUINT", "ENUMDNE"} # {}
       /\ "IEPINT" \notin events
       /\ UnderWay => cutOff
  /\ "IEPINT" \in events => looked \in {0, 1, 2}

(* The class and its endpoints are open exactly when the device is         *)
(* configured.                                                             *)
ClassInv ==
  /\ pClassData <=> Awake = "CONFIGURED"
  /\ in.open <=> pClassData
  /\ out.open <=> pClassData

ReceiverInv ==
  /\ out.on => out.open /\ ~cutOff /\ ~UnderWay
  /\ "OEPINT" \in events => GRXSTSP = "empty"
  /\ Awake = "CONFIGURED" => out.on \/ UnderWay \/ cutOff

(* A call that holds the transmitter stands between USBD_CDC_TransmitPacket *)
(* and USBD_LL_Transmit, and the class was not closed since.               *)
Holds == callPc = "start" /\ ~overtaken

TransmitterInv ==
  /\ "IEPINT" \in events => ~in.on
  /\ in.on /\ ~pClassData => left
  /\ callPc = "start" => pClassData \/ overtaken
  /\ overtaken => ~pClassData
  /\ pClassData /\ TxState = 1 => in.on \/ "IEPINT" \in events \/ Holds
  /\ pClassData /\ in.on => TxState = 1 \/ left
  /\ Holds => TxState = 1 \/ left
  /\ Holds /\ (in.on \/ "IEPINT" \in events) => left

UsbTypeInv ==
  /\ dev_state \in {"DEFAULT", "ADDRESSED", "CONFIGURED", "SUSPENDED"}
  /\ dev_old_state \in {"DEFAULT", "ADDRESSED", "CONFIGURED"}
  /\ TxState \in {0, 1} /\ pClassData \in BOOLEAN /\ left \in BOOLEAN
  /\ overtaken \in BOOLEAN /\ cutOff \in BOOLEAN
  /\ in \in [open : BOOLEAN, on : BOOLEAN] /\ out \in [open : BOOLEAN, on : BOOLEAN]
  /\ bus \in {"active", "suspended", "reset"}
  /\ callPc \in {"idle", "look", "packet", "start"}

HandlerTypeInv ==
  /\ events \subseteq {"USBSUSP", "WKUINT", "ENUMDNE", "OEPINT", "IEPINT"}
  /\ GRXSTSP \in {"empty", "STS_DATA_UPDT", "STS_XFER_COMP"}
  /\ looked \in {0, 1, 2, 3, 4, 5}

UsbInv == UsbTypeInv /\ HandlerTypeInv /\ SuspendInv /\ ClassInv /\ ReceiverInv /\ TransmitterInv

-----------------------------------------------------------------------------
(* The sweep.  The frames are numbered from 1 over the whole sweep; frame  *)
(* 3i + 1 selects channel i.  The answer shifted in with a frame belongs   *)
(* to the channel selected two frames earlier.                             *)

Frame(m) == IF m % 3 = 1 THEN m \div 3 ELSE Adc!Continue
IsAnswer(m, answer) ==
  IF m <= 2 THEN answer.new = FALSE
  ELSE answer.new = TRUE /\ answer.ch = (m \div 3) - 1

Looks == IF adcPc = "store" THEN 3 ELSE call - 1
Now == 3 * channel + Looks
InCall == IF adcPc = "look" THEN 1 ELSE 0
Sent == Now + InCall
Shifted == Sent - Len(tx)

SpiInv ==
  /\ Shifted \in Nat
  /\ \A k \in 1 .. Len(tx) : tx[k] = Frame(Shifted + k)
  /\ IsAnswer(Shifted + 1, selected[1]) /\ IsAnswer(Shifted + 2, selected[2])

(* Answers on their way to the core, those of the running call included.   *)
Waiting == Len(rx) + Len(tx) - InCall
(* Every call so far has found the answer to its own frame.                *)
Lead == Waiting = 0

(* read is the number of the answer in ADC_ExtReceive, first and second    *)
(* those of the r answers in the FIFO; n calls are over, t frames wait to  *)
(* be shifted, and c is 1 within a call.  An answer is lost only in a call *)
(* that finds the FIFO full.                                               *)
Order(n, c, r, t, read, first, second) ==
  LET shifted == n + c - t
      last == IF r = 2 THEN second ELSE IF r = 1 THEN first ELSE read
  IN /\ n - 3 <= read /\ (r >= 1 => n - 1 <= first) /\ (r = 2 => first < second)
     /\ shifted - 1 <= last /\ last <= shifted
     /\ r = 2 /\ (c = 0 \/ t >= 1) => last = shifted
     /\ r + t = c => read = n /\ (r = 1 => first = n + 1)
     /\ r + t # c => /\ read < n
                     /\ r >= 1 => first <= n
                     /\ r = 2 => second <= n + 1

FifoInv(read, first, second) ==
  /\ IsAnswer(read, ADC_ExtReceive)
  /\ Len(rx) >= 1 => IsAnswer(first, rx[1])
  /\ Len(rx) = 2 => IsAnswer(second, rx[2])
  /\ Order(Now, InCall, Len(rx), Len(tx), read, first, second)

SweepInv ==
  adcPc # "compare" =>
    /\ Waiting \in 0 .. 2
    /\ SpiInv
    /\ \E read, first, second \in Int : FifoInv(read, first, second)
    /\ \A c \in Voltages :
         c < channel - 1 \/ (Lead /\ c = channel - 1) => g_ExtADC_Value[c] = "sweep"

AdcInv == Adc!TypeOK /\ SweepInv /\ Adc!EveryVoltageSwept

(* Whatever channel an answer names, the switch has no case for Dig3P3.    *)
KeptInv ==
  /\ g_ExtADC_Value \in [Voltages \cup {Dig3P3} -> {"sweep", "internal", "old"}]
  /\ Adc!InternalValueKept
-----------------------------------------------------------------------------

LEMMA JumpInit == Jump!Init => JumpInv
BY DEF Jump!Init, JumpInv, Sources, ToTheClock, ClockReset, ToTheJump,
       Jump!Peripherals, Jump!Uarts

(* The statements in their order.                                          *)
LEMMA JumpStatement ==
  ASSUME JumpInv, Jump!goto_application
  PROVE  JumpInv'
<1> USE DEF JumpInv, Sources, ToTheClock, ClockReset, ToTheJump, Jump!Peripherals,
            Jump!Uarts, Jump!Goto, Jump!irqs
<1>1. CASE Jump!DisableIrq
  BY <1>1 DEF Jump!DisableIrq
<1>2. CASE Jump!StopSysTick("masked", "usb")
  BY <1>2 DEF Jump!StopSysTick
<1>3. CASE Jump!DeInit("usb", "uarts", {"OTG_FS"})
  BY <1>3 DEF Jump!DeInit
<1>4. CASE Jump!DeInit("uarts", "adc", Jump!Uarts)
  BY <1>4 DEF Jump!DeInit
<1>5. CASE Jump!Wait("adc", "tim5")
  BY <1>5 DEF Jump!Wait
<1>6. CASE Jump!DeInit("tim5", "nvic", {"TIM5"})
  BY <1>6 DEF Jump!DeInit
<1>7. CASE Jump!ClearNvic
  BY <1>7 DEF Jump!ClearNvic
<1>8. CASE Jump!HAL_RCC_DeInit
  BY <1>8 DEF Jump!HAL_RCC_DeInit, Jump!Wait, Jump!InitTick
<1>9. CASE Jump!StopSysTick("again", "icsr")
  BY <1>9 DEF Jump!StopSysTick
<1>10. CASE Jump!ClearPendSt
  BY <1>10 DEF Jump!ClearPendSt
<1>11. CASE Jump!SetVtor
  BY <1>11 DEF Jump!SetVtor
<1>12. CASE Jump!EnableIrq
  BY <1>12 DEF Jump!EnableIrq
<1>13. CASE Jump!Jump
  BY <1>13 DEF Jump!Jump
<1> QED
  BY <1>1, <1>2, <1>3, <1>4, <1>5, <1>6, <1>7, <1>8, <1>9, <1>10, <1>11, <1>12, <1>13
     DEF Jump!goto_application

(* A source raises its exception, or the processor serves it.              *)
LEMMA JumpInterrupt ==
  ASSUME JumpInv, NEW s \in Jump!Peripherals \cup {"SysTick"}, Jump!Raise(s) \/ Jump!Serve(s)
  PROVE  JumpInv'
<1> USE DEF JumpInv, Sources, ToTheClock, ClockReset, ToTheJump
<1>1. CASE Jump!Raise(s)
  <2>1. /\ s \in on /\ pending' = pending \cup {s}
        /\ UNCHANGED <<jumpPc, PRIMASK, on, enabled, VTOR, early>>
    BY <1>1 DEF Jump!Raise
  <2>2. jumpPc \in ClockReset \cup ToTheJump => s = "SysTick"
    BY <2>1
  <2> QED
    BY <2>1, <2>2
<1>2. CASE Jump!Serve(s)
  <2>1. /\ PRIMASK # TRUE /\ s \in pending \cap (enabled \cup {"SysTick"})
        /\ pending' = pending \ {s}
        /\ early' = IF VTOR = "application" THEN early \cup {s} ELSE early
        /\ UNCHANGED <<jumpPc, PRIMASK, on, enabled, VTOR>>
    BY <1>2 DEF Jump!Serve
  <2>2. VTOR = "application" => jumpPc \in {"jump", "app"} /\ s = "SysTick"
    BY <2>1
  <2> QED
    BY <2>1, <2>2
<1> QED
  BY <1>1, <1>2

LEMMA JumpNext ==
  ASSUME JumpInv, Jump!Next
  PROVE  JumpInv'
<1>1. CASE Jump!WatchdogReset
  BY <1>1 DEF Jump!WatchdogReset, JumpInv, Sources, ToTheClock, ClockReset, ToTheJump,
              Jump!Peripherals, Jump!Uarts
<1> QED
  BY <1>1, JumpStatement, JumpInterrupt DEF Jump!Next

-----------------------------------------------------------------------------

LEMMA UsbInit == Usb!Init => UsbInv
<1> SUFFICES ASSUME Usb!Init PROVE UsbInv
  OBVIOUS
<1>1. UsbTypeInv /\ HandlerTypeInv
  BY DEF Usb!Init, Usb!Closed, UsbTypeInv, HandlerTypeInv
<1>2. SuspendInv /\ ClassInv /\ ReceiverInv
  BY DEF Usb!Init, Usb!Closed, Awake, UnderWay, SuspendInv, ClassInv, ReceiverInv
<1>3. TransmitterInv
  BY DEF Usb!Init, Usb!Closed, TransmitterInv, Holds
<1> QED
  BY <1>1, <1>2, <1>3 DEF UsbInv

(* Only the host and the bus act.                                          *)
LEMMA BusStep ==
  ASSUME UsbInv,
         \/ Usb!Suspend \/ Usb!Resume \/ Usb!Reset \/ Usb!EndOfReset
         \/ Usb!HostWrites \/ Usb!HostReads
  PROVE  UsbInv'
<1> USE DEF UsbInv, UsbTypeInv, HandlerTypeInv, Awake, UnderWay, SuspendInv, ClassInv,
            ReceiverInv, Holds, TransmitterInv, Usb!Raise, Usb!device, Usb!call, Usb!class
<1>1. CASE Usb!Suspend
  BY <1>1 DEF Usb!Suspend
<1>2. CASE Usb!Resume
  BY <1>2 DEF Usb!Resume
<1>3. CASE Usb!Reset
  <2>1. /\ bus' = "reset" /\ events' \in {events, events \cup {"WKUINT"}}
        /\ UNCHANGED <<dev_state, dev_old_state, cutOff, pClassData, TxState, in, out, left,
                       GRXSTSP, looked, callPc, overtaken>>
    BY <1>3 DEF Usb!Reset
  <2>0. HandlerTypeInv'
    BY <2>1
  <2>2. UsbTypeInv' /\ SuspendInv'
    BY <2>1
  <2>3. ClassInv' /\ ReceiverInv'
    BY <2>1
  <2>4. TransmitterInv'
    BY <2>1
  <2> QED
    BY <2>0, <2>2, <2>3, <2>4
<1>4. CASE Usb!EndOfReset
  BY <1>4 DEF Usb!EndOfReset
<1>5. CASE Usb!HostWrites
  <2>0. HandlerTypeInv'
    BY <1>5 DEF Usb!HostWrites, Usb!Talking
  <2>1. UsbTypeInv' /\ SuspendInv'
    BY <1>5 DEF Usb!HostWrites, Usb!Talking
  <2>2. ClassInv' /\ ReceiverInv'
    BY <1>5 DEF Usb!HostWrites, Usb!Talking
  <2>3. TransmitterInv'
    BY <1>5 DEF Usb!HostWrites, Usb!Talking
  <2> QED
    BY <2>0, <2>1, <2>2, <2>3
<1>6. CASE Usb!HostReads
  <2>0. HandlerTypeInv'
    BY <1>6 DEF Usb!HostReads, Usb!Talking
  <2>1. UsbTypeInv'
    BY <1>6 DEF Usb!HostReads, Usb!Talking
  <2>2. SuspendInv' /\ ClassInv'
    BY <1>6 DEF Usb!HostReads, Usb!Talking
  <2>3. ReceiverInv'
    BY <1>6 DEF Usb!HostReads, Usb!Talking
  <2>4. TransmitterInv'
    BY <1>6 DEF Usb!HostReads, Usb!Talking
  <2> QED
    BY <2>0, <2>1, <2>2, <2>3, <2>4
<1> QED
  BY <1>1, <1>2, <1>3, <1>4, <1>5, <1>6

(* Which flag the call looks at tells how many it has looked at before.    *)
LEMMA Looked ==
  ASSUME looked \in {0, 1, 2, 3, 4, 5}, NEW interrupt, Usb!Look(interrupt)
  PROVE  /\ looked' \in {0, 1, 2, 3, 4, 5}
         /\ looked = 5 \/ looked' = looked + 1
         /\ interrupt = "RXFLVL" <=> looked = 0
         /\ interrupt = "OEPINT" <=> looked = 1
         /\ interrupt = "IEPINT" <=> looked = 2
         /\ interrupt = "WKUINT" <=> looked = 3
         /\ interrupt = "USBSUSP" <=> looked = 4
         /\ interrupt = "ENUMDNE" <=> looked = 5
<1> DEFINE order == <<"RXFLVL", "OEPINT", "IEPINT", "WKUINT", "USBSUSP", "ENUMDNE">>
<1>1. order[looked + 1] = interrupt /\ looked' = (looked + 1) % 6
  BY DEF Usb!Look, Usb!HandlerOrder
<1>2. CASE looked = 0
  BY <1>1, <1>2
<1>3. CASE looked = 1
  BY <1>1, <1>3
<1>4. CASE looked = 2
  BY <1>1, <1>4
<1>5. CASE looked = 3
  BY <1>1, <1>5
<1>6. CASE looked = 4
  BY <1>1, <1>6
<1>7. CASE looked = 5
  BY <1>1, <1>7
<1> QED
  BY <1>2, <1>3, <1>4, <1>5, <1>6, <1>7

LEMMA Served ==
  ASSUME UsbInv, NEW interrupt, Usb!Serve(interrupt)
  PROVE  /\ interrupt \in events /\ events' = events \ {interrupt}
         /\ UNCHANGED <<bus, GRXSTSP, callPc, hcdc>>
         /\ looked \in {0, 1, 2, 3, 4, 5} /\ looked' \in {0, 1, 2, 3, 4, 5}
         /\ looked = 5 \/ looked' = looked + 1
         /\ interrupt = "OEPINT" => looked = 1
         /\ interrupt = "IEPINT" => looked = 2
         /\ interrupt \in {"WKUINT", "USBSUSP", "ENUMDNE"} => "IEPINT" \notin events
<1>1. Usb!Look(interrupt) /\ looked \in {0, 1, 2, 3, 4, 5}
  BY DEF Usb!Serve, UsbInv, HandlerTypeInv
<1>2. interrupt \in {"WKUINT", "USBSUSP", "ENUMDNE"} => looked \notin {0, 1, 2}
  BY <1>1, Looked
<1> QED
  BY <1>1, <1>2, Looked DEF Usb!Serve, UsbInv, SuspendInv

LEMMA InterruptStep ==
  ASSUME UsbInv, Usb!OTG_FS_IRQHandler
  PROVE  UsbInv'
<1> USE DEF UsbInv, UsbTypeInv, HandlerTypeInv, Awake, UnderWay, SuspendInv, ClassInv,
            ReceiverInv, Holds, TransmitterInv
<1>1. CASE Usb!DataOutStage
  <2>0. HandlerTypeInv'
    BY <1>1, Served DEF Usb!DataOutStage, Usb!HandedToClass
  <2>1. UsbTypeInv'
    BY <1>1, Served DEF Usb!DataOutStage, Usb!HandedToClass
  <2>2. SuspendInv' /\ ClassInv'
    BY <1>1, Served DEF Usb!DataOutStage, Usb!HandedToClass
  <2>3. ReceiverInv'
    BY <1>1, Served DEF Usb!DataOutStage, Usb!HandedToClass
  <2>4. TransmitterInv'
    BY <1>1, Served DEF Usb!DataOutStage, Usb!HandedToClass
  <2> QED
    BY <2>0, <2>1, <2>2, <2>3, <2>4
<1>2. CASE Usb!DataInStage
  <2>0. HandlerTypeInv'
    BY <1>2, Served DEF Usb!DataInStage, Usb!HandedToClass, Usb!device
  <2>1. UsbTypeInv'
    BY <1>2, Served DEF Usb!DataInStage, Usb!HandedToClass, Usb!device
  <2>2. SuspendInv' /\ ClassInv'
    BY <1>2, Served DEF Usb!DataInStage, Usb!HandedToClass, Usb!device
  <2>3. ReceiverInv'
    BY <1>2, Served DEF Usb!DataInStage, Usb!HandedToClass, Usb!device
  <2>4. TransmitterInv'
    BY <1>2, Served DEF Usb!DataInStage, Usb!HandedToClass, Usb!device
  <2> QED
    BY <2>0, <2>1, <2>2, <2>3, <2>4
<1>3. CASE Usb!USBD_LL_Resume
  <2>0. HandlerTypeInv'
    BY <1>3, Served DEF Usb!USBD_LL_Resume, Usb!class
  <2>1. UsbTypeInv'
    BY <1>3, Served DEF Usb!USBD_LL_Resume, Usb!class
  <2>2. SuspendInv' /\ ClassInv'
    BY <1>3, Served DEF Usb!USBD_LL_Resume, Usb!class
  <2>3. ReceiverInv'
    BY <1>3, Served DEF Usb!USBD_LL_Resume, Usb!class
  <2>4. TransmitterInv'
    BY <1>3, Served DEF Usb!USBD_LL_Resume, Usb!class
  <2> QED
    BY <2>0, <2>1, <2>2, <2>3, <2>4
<1>4. CASE Usb!USBD_LL_Suspend
  <2>1. CASE bus = "suspended"
    <3>1. /\ dev_old_state' = Awake /\ dev_state' = "SUSPENDED"
          /\ cutOff' = (cutOff \/ UnderWay) /\ UNCHANGED <<pClassData, TxState, in, out, left,
                                                          overtaken>>
      BY <1>4, <2>1 DEF Usb!USBD_LL_Suspend, Usb!StillSuspended, Usb!class
    <3>0. HandlerTypeInv'
      BY <1>4, <2>1, <3>1, Served DEF Usb!USBD_LL_Suspend
    <3>2. UsbTypeInv' /\ SuspendInv' /\ ClassInv'
      BY <1>4, <2>1, <3>1, Served DEF Usb!USBD_LL_Suspend
    <3>3. ReceiverInv'
      BY <1>4, <3>1, Served DEF Usb!USBD_LL_Suspend
    <3>4. TransmitterInv'
      BY <1>4, <3>1, Served DEF Usb!USBD_LL_Suspend
    <3> QED
      BY <3>0, <3>2, <3>3, <3>4
  <2>2. CASE bus # "suspended"
    <3>1. UNCHANGED <<dev_state, dev_old_state, cutOff, pClassData, TxState, in, out, left,
                      overtaken>>
      BY <1>4, <2>2 DEF Usb!USBD_LL_Suspend, Usb!StillSuspended, Usb!device, Usb!class
    <3>0. HandlerTypeInv'
      BY <1>4, <3>1, Served DEF Usb!USBD_LL_Suspend
    <3>2. UsbTypeInv' /\ SuspendInv' /\ ClassInv'
      BY <1>4, <3>1, Served DEF Usb!USBD_LL_Suspend
    <3>3. ReceiverInv' /\ TransmitterInv'
      BY <1>4, <3>1, Served DEF Usb!USBD_LL_Suspend
    <3> QED
      BY <3>0, <3>2, <3>3
  <2> QED
    BY <2>1, <2>2
<1>5. CASE Usb!USBD_LL_Reset
  BY <1>5, Served DEF Usb!USBD_LL_Reset, Usb!USBD_CDC_DeInit, Usb!Closed
<1>6. CASE Usb!USBD_SetAddress
  BY <1>6 DEF Usb!USBD_SetAddress, Usb!Setup, Usb!Quiet, Usb!handler, Usb!class
<1>7. CASE Usb!USBD_SetConfig
  <2>0. /\ events = {} /\ GRXSTSP = "empty"
        /\ UNCHANGED <<bus, events, GRXSTSP, looked, callPc, dev_old_state>>
    BY <1>7 DEF Usb!USBD_SetConfig, Usb!Setup, Usb!Quiet, Usb!handler
  <2>1. CASE /\ dev_state = "ADDRESSED" /\ dev_state' = "CONFIGURED"
             /\ ~overtaken /\ Usb!USBD_CDC_Init
    <3>1. /\ pClassData' = TRUE /\ TxState' = 0 /\ cutOff' = FALSE
          /\ UNCHANGED <<left, overtaken>>
          /\ in' = [in EXCEPT !.open = TRUE] /\ out' = [open |-> TRUE, on |-> TRUE]
      BY <2>1 DEF Usb!USBD_CDC_Init
    <3>0. HandlerTypeInv'
      BY <2>0, <2>1, <3>1
    <3>2. UsbTypeInv' /\ SuspendInv'
      BY <2>0, <2>1, <3>1
    <3>3. ClassInv' /\ ReceiverInv'
      BY <2>0, <2>1, <3>1
    <3>4. TransmitterInv'
      BY <2>0, <2>1, <3>1
    <3> QED
      BY <3>0, <3>2, <3>3, <3>4
  <2>2. CASE /\ dev_state = "CONFIGURED" /\ dev_state' = "ADDRESSED"
             /\ Usb!USBD_CDC_DeInit
    <3>1. /\ pClassData' = FALSE /\ left' = FALSE /\ overtaken' = (callPc # "idle")
          /\ in' = [open |-> FALSE, on |-> FALSE] /\ out' = [open |-> FALSE, on |-> FALSE]
          /\ cutOff' = FALSE /\ UNCHANGED TxState
      BY <2>2 DEF Usb!USBD_CDC_DeInit, Usb!Closed
    <3>0. HandlerTypeInv'
      BY <2>0, <2>2, <3>1
    <3>2. UsbTypeInv' /\ SuspendInv'
      BY <2>0, <2>2, <3>1
    <3>3. ClassInv' /\ ReceiverInv'
      BY <2>0, <2>2, <3>1
    <3>4. TransmitterInv'
      BY <2>0, <2>2, <3>1
    <3> QED
      BY <3>0, <3>2, <3>3, <3>4
  <2> QED
    BY <1>7, <2>1, <2>2 DEF Usb!USBD_SetConfig
<1>8. CASE Usb!Pass
  <2>1. PICK interrupt : Usb!Look(interrupt) /\ interrupt \notin events
    BY <1>8 DEF Usb!Pass
  <2>2. "IEPINT" \in events => looked' \in {0, 1, 2}
    BY <2>1, Looked
  <2>3. looked' \in {0, 1, 2, 3, 4, 5}
    BY <2>1, Looked
  <2> QED
    BY <1>8, <2>2, <2>3 DEF Usb!Pass, Usb!device, Usb!class, Usb!call
<1>9. CASE Usb!ReadRxFifo
  <2>1. /\ GRXSTSP # "empty" /\ looked' \in {1, 2}
        /\ \/ GRXSTSP' = "STS_XFER_COMP" /\ UNCHANGED events
           \/ GRXSTSP' = "empty" /\ events' = events \cup {"OEPINT"}
        /\ UNCHANGED <<bus, dev_state, dev_old_state, cutOff, pClassData, TxState, in, out, left,
                       callPc, hcdc, overtaken>>
    BY <1>9 DEF Usb!ReadRxFifo, Usb!device, Usb!class, Usb!call
  <2>0. HandlerTypeInv'
    BY <2>1
  <2>2. UsbTypeInv' /\ SuspendInv'
    BY <2>1
  <2>3. ClassInv' /\ ReceiverInv'
    BY <2>1
  <2>4. TransmitterInv'
    BY <2>1
  <2> QED
    BY <2>0, <2>2, <2>3, <2>4
<1> QED
  BY <1>1, <1>2, <1>3, <1>4, <1>5, <1>6, <1>7, <1>8, <1>9 DEF Usb!OTG_FS_IRQHandler

LEMMA CallStep ==
  ASSUME UsbInv, Usb!CDC_Transmit_FS
  PROVE  UsbInv'
<1> USE DEF UsbInv, UsbTypeInv, HandlerTypeInv, Awake, UnderWay, SuspendInv, ClassInv,
            ReceiverInv, Holds, TransmitterInv, Usb!At, Usb!Quiet, Usb!device, Usb!handler
<1>1. CASE Usb!ReadHandle
  <2>0. HandlerTypeInv'
    BY <1>1 DEF Usb!ReadHandle, Usb!class
  <2>1. UsbTypeInv'
    BY <1>1 DEF Usb!ReadHandle, Usb!class
  <2>2. SuspendInv' /\ ClassInv'
    BY <1>1 DEF Usb!ReadHandle, Usb!class
  <2>3. ReceiverInv'
    BY <1>1 DEF Usb!ReadHandle, Usb!class
  <2>4. TransmitterInv'
    BY <1>1 DEF Usb!ReadHandle, Usb!class
  <2> QED
    BY <2>0, <2>1, <2>2, <2>3, <2>4
<1>2. CASE Usb!LookAtTxState
  <2>0. HandlerTypeInv'
    BY <1>2 DEF Usb!LookAtTxState, Usb!class
  <2>1. UsbTypeInv'
    BY <1>2 DEF Usb!LookAtTxState, Usb!class
  <2>2. SuspendInv' /\ ClassInv'
    BY <1>2 DEF Usb!LookAtTxState, Usb!class
  <2>3. ReceiverInv'
    BY <1>2 DEF Usb!LookAtTxState, Usb!class
  <2>4. TransmitterInv'
    BY <1>2 DEF Usb!LookAtTxState, Usb!class
  <2> QED
    BY <2>0, <2>1, <2>2, <2>3, <2>4
<1>3. CASE Usb!USBD_CDC_TransmitPacket
  <2>1. CASE pClassData /\ TxState = 0
    <3>1. /\ events = {} /\ callPc' = "start" /\ TxState' = 1
          /\ overtaken' = overtaken
          /\ UNCHANGED <<dev_state, dev_old_state, cutOff, bus, events, GRXSTSP, looked,
                         pClassData, in, out, left>>
      BY <1>3, <2>1 DEF Usb!USBD_CDC_TransmitPacket
    <3>0. HandlerTypeInv'
      BY <3>1
    <3>2. UsbTypeInv' /\ SuspendInv' /\ ClassInv' /\ ReceiverInv'
      BY <3>1
    <3>3. TransmitterInv'
      BY <2>1, <3>1
    <3> QED
      BY <3>0, <3>2, <3>3
  <2>2. CASE ~(pClassData /\ TxState = 0)
    <3>1. /\ events = {} /\ callPc = "packet" /\ callPc' = "idle" /\ overtaken' = FALSE
          /\ UNCHANGED <<dev_state, dev_old_state, cutOff, bus, events, GRXSTSP, looked,
                         pClassData, TxState, in, out, left>>
      BY <1>3, <2>2 DEF Usb!USBD_CDC_TransmitPacket
    <3>0. HandlerTypeInv'
      BY <3>1
    <3>2. UsbTypeInv' /\ SuspendInv' /\ ClassInv' /\ ReceiverInv'
      BY <3>1
    <3>3. TransmitterInv'
      BY <3>1
    <3> QED
      BY <3>0, <3>2, <3>3
  <2> QED
    BY <2>1, <2>2
<1>4. CASE Usb!USBD_LL_Transmit
  <2>0. HandlerTypeInv'
    BY <1>4 DEF Usb!USBD_LL_Transmit
  <2>1. UsbTypeInv'
    BY <1>4 DEF Usb!USBD_LL_Transmit
  <2>2. SuspendInv' /\ ClassInv'
    BY <1>4 DEF Usb!USBD_LL_Transmit
  <2>3. ReceiverInv'
    BY <1>4 DEF Usb!USBD_LL_Transmit
  <2>4. TransmitterInv'
    BY <1>4 DEF Usb!USBD_LL_Transmit
  <2> QED
    BY <2>0, <2>1, <2>2, <2>3, <2>4
<1> QED
  BY <1>1, <1>2, <1>3, <1>4 DEF Usb!CDC_Transmit_FS

LEMMA UsbNext ==
  ASSUME UsbInv, Usb!Next
  PROVE  UsbInv'
BY BusStep, InterruptStep, CallStep DEF Usb!Next

-----------------------------------------------------------------------------

LEMMA Thirds ==
  \A q \in Int, e \in 0 .. 2 : (3 * q + e) \div 3 = q /\ (3 * q + e) % 3 = e
OBVIOUS

LEMMA Constants ==
  /\ Channels \subseteq Nat /\ Voltages \subseteq Channels /\ Dig3P3 \in Nat
  /\ Dig3P3 \in Channels /\ Dig3P3 \notin Voltages /\ 0 .. Dig3P3 \subseteq Channels
  /\ \A c \in Voltages : c \in Nat /\ c < Dig3P3
  /\ RxFifo \in Nat /\ RxFifo >= 2 /\ Adc!Continue = -1
<1>1. Adc!ChannelsAssumption
  BY DriversAssumption
<1>2. /\ Channels \subseteq Nat /\ Voltages \subseteq Channels
      /\ Dig3P3 \in Channels /\ 0 .. Dig3P3 \subseteq Channels
      /\ \A c \in Voltages : c < Dig3P3
      /\ RxFifo \in Nat /\ RxFifo >= 2
  BY <1>1 DEF Adc!ChannelsAssumption
<1>3. \A c \in Voltages : c \in Nat
  BY <1>2
<1>4. Dig3P3 \in Nat /\ ~(Dig3P3 < Dig3P3)
  BY <1>2
<1> QED
  BY <1>2, <1>3, <1>4 DEF Adc!Continue

LEMMA ThirdOf ==
  ASSUME NEW m \in Int
  PROVE  \E q \in Int, e \in 0 .. 2 : m = 3 * q + e
<1>1. m \div 3 \in Int /\ m % 3 \in 0 .. 2
  OBVIOUS
<1>2. m = 3 * (m \div 3) + (m % 3)
  OBVIOUS
<1> QED
  BY <1>1, <1>2

(* What the ADC makes of the next frame: the frame of a channel selects    *)
(* it, the two after that repeat the answer before.                        *)
LEMMA NextAnswer ==
  ASSUME NEW m \in Nat, NEW answer, IsAnswer(m + 2, answer)
  PROVE  IsAnswer(m + 3, [ch |-> IF Frame(m + 1) = -1 THEN answer.ch ELSE Frame(m + 1),
                          new |-> TRUE])
<1>0. m \in Int
  OBVIOUS
<1>1. PICK q \in Int, e \in 0 .. 2 : m = 3 * q + e
  BY <1>0, ThirdOf
<1>2. q >= 0 /\ 3 * (q + 1) + e = m + 3
  BY <1>1
<1>3. (m + 3) \div 3 = q + 1
  BY <1>2, Thirds
<1>4. CASE e = 0
  <2>1. 3 * q + 1 = m + 1
    BY <1>1, <1>4
  <2>2. (m + 1) \div 3 = q /\ (m + 1) % 3 = 1
    BY <2>1, Thirds
  <2>3. Frame(m + 1) = q
    BY <2>2 DEF Frame
  <2> QED
    BY <1>2, <1>3, <2>3 DEF IsAnswer
<1>5. CASE e \in 1 .. 2
  <2>1. (m + 1) % 3 # 1
    <3>1. CASE e = 1
      <4>1. 3 * q + 2 = m + 1
        BY <1>1, <3>1
      <4> QED
        BY <4>1, Thirds
    <3>2. CASE e = 2
      <4>1. 3 * (q + 1) + 0 = m + 1
        BY <1>1, <3>2
      <4> QED
        BY <4>1, Thirds
    <3> QED
      BY <1>5, <3>1, <3>2
  <2>2. Frame(m + 1) = -1
    BY <2>1, Constants DEF Frame
  <2>3. 3 * (q + 1) + (e - 1) = m + 2 /\ m + 2 > 2 /\ e - 1 \in 0 .. 2
    BY <1>1, <1>2, <1>5
  <2>4. (m + 2) \div 3 = q + 1
    BY <1>1, <2>3, Thirds
  <2>5. answer.ch = q
    BY <1>1, <2>3, <2>4 DEF IsAnswer
  <2> QED
    BY <1>2, <1>3, <2>2, <2>5 DEF IsAnswer
<1> QED
  BY <1>4, <1>5

LEMMA Lengths ==
  ASSUME NEW S, NEW q \in Seq(S), NEW n \in Nat, Len(q) <= n
  PROVE  Len(q) \in 0 .. n
BY LenProperties

(* What is waiting, as far as its types tell.                              *)
LEMMA AdcTypes ==
  ASSUME RxFifo = 2, AdcInv
  PROVE  /\ tx \in Seq(Channels \cup {-1}) /\ Len(tx) \in 0 .. 3
         /\ rx \in Seq(Adc!Answers) /\ Len(rx) \in 0 .. 2
         /\ selected[1] \in Adc!Answers /\ selected[2] \in Adc!Answers
         /\ selected = <<selected[1], selected[2]>>
         /\ channel \in 0 .. Dig3P3 /\ call \in 1 .. 3
         /\ adcPc \in {"write", "look", "store", "compare"}
         /\ ADC_ExtReceive \in Adc!Answers
<1>1. Adc!TypeOK
  BY DEF AdcInv
<1>2. Len(tx) \in 0 .. 3
  BY <1>1, Lengths DEF Adc!TypeOK
<1>3. Len(rx) \in 0 .. 2
  BY <1>1, Lengths DEF Adc!TypeOK
<1> QED
  BY <1>1, <1>2, <1>3, Constants DEF Adc!TypeOK

LEMMA Numbers ==
  ASSUME channel \in Nat, call \in 1 .. 3, Len(tx) \in Nat, Len(rx) \in Nat
  PROVE  /\ InCall \in 0 .. 1 /\ Looks \in 0 .. 3 /\ Now \in Nat
         /\ Now = 3 * channel + Looks
         /\ Shifted = Now + InCall - Len(tx) /\ Shifted \in Int
         /\ Waiting = Len(rx) + Len(tx) - InCall
<1>1. InCall \in 0 .. 1
  BY DEF InCall
<1>2. Looks \in 0 .. 3
  BY DEF Looks
<1>3. Now \in Nat /\ Now = 3 * channel + Looks
  BY <1>2 DEF Now
<1> QED
  BY <1>1, <1>2, <1>3 DEF Shifted, Sent, Waiting

(* What happens to the answers on their way.                               *)
LEMMA ShiftOrder ==
  ASSUME NEW n \in Int, NEW c \in 0 .. 1, NEW r \in 0 .. 2, NEW t \in 1 .. 3,
         NEW read \in Int, NEW first \in Int, NEW second \in Int,
         r + t - c \in 0 .. 2, Order(n, c, r, t, read, first, second)
  PROVE  /\ r = 0 => Order(n, c, 1, t - 1, read, n + c - t + 1, second)
         /\ r = 1 => Order(n, c, 2, t - 1, read, first, n + c - t + 1)
         /\ r = 2 => Order(n, c, 2, t - 1, read, first, second)
BY DEF Order

LEMMA TransmitOrder ==
  ASSUME NEW n \in Int, NEW r \in 0 .. 2, NEW t \in 0 .. 3,
         NEW read \in Int, NEW first \in Int, NEW second \in Int,
         Order(n, 0, r, t, read, first, second)
  PROVE  Order(n, 1, r, t + 1, read, first, second)
BY DEF Order

LEMMA LookOrder ==
  ASSUME NEW n \in Int, NEW r \in 0 .. 2, NEW t \in 0 .. 2,
         NEW read \in Int, NEW first \in Int, NEW second \in Int,
         r + t - 1 \in 0 .. 2, Order(n, 1, r, t, read, first, second)
  PROVE  /\ r = 0 => Order(n + 1, 0, 0, t, read, first, second)
         /\ r = 1 => Order(n + 1, 0, 0, t, first, first, second)
         /\ r = 2 => Order(n + 1, 0, 1, t, first, second, second)
BY DEF Order

LEMMA StoreOrder ==
  ASSUME NEW n \in Int, NEW r \in 0 .. 2, NEW t \in 0 .. 3,
         NEW read \in Int, NEW first \in Int, NEW second \in Int,
         Order(n, 0, r, t, read, first, second)
  PROVE  n - 3 <= read /\ (r + t = 0 => read = n) /\ (r + t # 0 => read < n)
BY DEF Order

LEMMA AdcInit == Adc!Init => AdcInv
<1> SUFFICES ASSUME Adc!Init PROVE AdcInv
  OBVIOUS
<1>1. PICK c \in Channels, d \in Channels :
        /\ rx \in {<<>>, <<Adc!Old(c)>>, <<Adc!Old(d), Adc!Old(c)>>}
        /\ selected = <<Adc!Old(d), Adc!Old(c)>>
  BY DEF Adc!Init
<1>2. /\ tx = <<>> /\ channel = 0 /\ call = 1 /\ adcPc = "write"
      /\ ADC_ExtReceive = Adc!Old(0)
      /\ g_ExtADC_Value = [v \in Voltages \cup {Dig3P3} |->
                             IF v = Dig3P3 THEN "internal" ELSE "old"]
  BY DEF Adc!Init
<1>3. \A v \in Channels : /\ Adc!Old(v) \in Adc!Answers
                          /\ \A m \in Int : m <= 2 => IsAnswer(m, Adc!Old(v))
  BY DEF Adc!Old, Adc!Answers, IsAnswer
<1>4. 0 \in Channels
  BY Constants
<1>5. Adc!TypeOK
  <2>1. rx \in Seq(Adc!Answers) /\ Len(rx) <= 2
    <3>1. Adc!Old(c) \in Adc!Answers /\ Adc!Old(d) \in Adc!Answers
      BY <1>3
    <3>2. CASE rx = <<>>
      BY <3>2
    <3>3. CASE rx = <<Adc!Old(c)>>
      BY <3>1, <3>3
    <3>4. CASE rx = <<Adc!Old(d), Adc!Old(c)>>
      BY <3>1, <3>4
    <3> QED
      BY <1>1, <3>2, <3>3, <3>4
  <2> QED
    BY <1>1, <1>2, <1>3, <1>4, <2>1, Constants DEF Adc!TypeOK
<1>6. /\ Len(tx) = 0 /\ Len(rx) \in Nat /\ InCall = 0 /\ Now = 0 /\ Shifted = 0
      /\ Waiting = Len(rx)
  <2>1. Len(tx) = 0 /\ Looks = 0 /\ InCall = 0 /\ Now = 0
    BY <1>2 DEF Looks, InCall, Now
  <2>2. Len(rx) \in Nat
    BY <1>5 DEF Adc!TypeOK
  <2>3. channel \in Nat /\ call \in 1 .. 3
    BY <1>2
  <2>4. /\ Shifted = Now + InCall - Len(tx) /\ Waiting = Len(rx) + Len(tx) - InCall
    BY <2>1, <2>2, <2>3, Numbers
  <2> QED
    BY <2>1, <2>2, <2>4
<1>7. SpiInv
  BY <1>1, <1>2, <1>3, <1>6 DEF SpiInv
<1>8. \E read, first, second \in Int : FifoInv(read, first, second)
  <2>1. CASE rx = <<>>
    <3>1. FifoInv(0, 0, 0)
      BY <1>2, <1>3, <1>4, <1>6, <2>1 DEF FifoInv, Order
    <3> QED
      BY <3>1
  <2>2. CASE rx = <<Adc!Old(c)>>
    <3>1. FifoInv(-1, 0, 0)
      BY <1>2, <1>3, <1>4, <1>6, <2>2 DEF FifoInv, Order
    <3> QED
      BY <3>1
  <2>3. CASE rx = <<Adc!Old(d), Adc!Old(c)>>
    <3>1. Len(rx) = 2 /\ rx[1] = Adc!Old(d) /\ rx[2] = Adc!Old(c)
      BY <2>3
    <3>2. IsAnswer(-2, ADC_ExtReceive) /\ IsAnswer(-1, rx[1]) /\ IsAnswer(0, rx[2])
      BY <1>2, <1>3, <1>4, <3>1
    <3>3. Order(0, 0, 2, 0, -2, -1, 0)
      BY DEF Order
    <3>4. FifoInv(-2, -1, 0)
      BY <1>6, <3>1, <3>2, <3>3 DEF FifoInv
    <3> QED
      BY <3>4
  <2> QED
    BY <1>1, <2>1, <2>2, <2>3
<1>9. Waiting \in 0 .. 2
  BY <1>1, <1>6
<1>10. \A v \in Voltages : ~(v < channel - 1) /\ v # channel - 1
  BY <1>2, Constants
<1>11. Adc!EveryVoltageSwept
  BY <1>2 DEF Adc!EveryVoltageSwept
<1> QED
  BY <1>5, <1>7, <1>8, <1>9, <1>10, <1>11 DEF AdcInv, SweepInv

(* The peripheral shifts one frame, before, between or after the calls.    *)
LEMMA ShiftStep ==
  ASSUME RxFifo = 2, AdcInv, Adc!Shift
  PROVE  AdcInv'
<1>1. /\ tx # <<>> /\ tx' = Tail(tx)
      /\ rx' = IF Len(rx) < 2 THEN Append(rx, selected[1]) ELSE rx
      /\ UNCHANGED <<channel, call, adcPc, ADC_ExtReceive, g_ExtADC_Value>>
  BY DEF Adc!Shift
<1>2. /\ tx \in Seq(Channels \cup {-1}) /\ Len(tx) \in 0 .. 3
      /\ rx \in Seq(Adc!Answers) /\ Len(rx) \in 0 .. 2
      /\ selected[1] \in Adc!Answers /\ selected[2] \in Adc!Answers
      /\ channel \in Nat /\ call \in 1 .. 3
  BY AdcTypes, Constants
<1>3. /\ Len(tx) \in 1 .. 3 /\ Len(tx') = Len(tx) - 1
      /\ tx' \in Seq(Channels \cup {-1})
      /\ \A k \in 1 .. Len(tx') : tx'[k] = tx[k + 1]
      /\ Head(tx) = tx[1] /\ tx[1] \in Channels \cup {-1}
  <2>1. Len(tx) # 0
    BY <1>1, <1>2, EmptySeq
  <2>2. /\ tx' \in Seq(Channels \cup {-1}) /\ Len(tx') = Len(tx) - 1
        /\ \A k \in 1 .. Len(tx') : tx'[k] = tx[k + 1]
    BY <1>1, <1>2, HeadTailProperties
  <2>3. 1 \in 1 .. Len(tx)
    BY <1>2, <2>1
  <2>4. Head(tx) = tx[1] /\ tx[1] \in Channels \cup {-1}
    BY <1>2, <2>3, ElementOfSeq
  <2> QED
    BY <1>2, <2>1, <2>2, <2>4
<1>4. /\ rx' \in Seq(Adc!Answers)
      /\ Len(rx') = IF Len(rx) < 2 THEN Len(rx) + 1 ELSE Len(rx)
      /\ \A k \in 1 .. Len(rx) : rx'[k] = rx[k]
      /\ Len(rx) < 2 => rx'[Len(rx) + 1] = selected[1]
  <2>1. CASE Len(rx) < 2
    <3>1. rx' = Append(rx, selected[1])
      BY <1>1, <2>1
    <3> QED
      BY <1>2, <2>1, <3>1, AppendProperties
  <2>2. CASE ~(Len(rx) < 2)
    BY <1>1, <1>2, <2>2
  <2> QED
    BY <2>1, <2>2
<1> DEFINE chosen == IF tx[1] = -1 THEN selected[2].ch ELSE tx[1]
<1>5. /\ selected' = <<selected[2], [ch |-> chosen, new |-> TRUE]>>
      /\ selected' \in Adc!Answers \X Adc!Answers
  <2>1. selected' = <<selected[2], [ch |-> chosen, new |-> TRUE]>>
    BY <1>3, Constants DEF Adc!Shift
  <2>2. selected[2] \in Adc!Answers /\ chosen \in Channels
    BY <1>2, <1>3 DEF Adc!Answers
  <2> QED
    BY <2>1, <2>2 DEF Adc!Answers
<1>6. Adc!TypeOK'
  BY <1>1, <1>3, <1>4, <1>5, Constants DEF AdcInv, Adc!TypeOK
<1>7. SweepInv'
  <2> SUFFICES ASSUME adcPc # "compare"
               PROVE  SweepInv'
    BY <1>1 DEF SweepInv
  <2>1. /\ Waiting \in 0 .. 2 /\ SpiInv
        /\ \A c \in Voltages :
             c < channel - 1 \/ (Lead /\ c = channel - 1) => g_ExtADC_Value[c] = "sweep"
    BY DEF AdcInv, SweepInv
  <2>2. PICK read \in Int, first \in Int, second \in Int : FifoInv(read, first, second)
    BY DEF AdcInv, SweepInv
  <2>3. /\ InCall \in 0 .. 1 /\ Now \in Int
        /\ Shifted = Now + InCall - Len(tx) /\ Shifted \in Int
        /\ Waiting = Len(rx) + Len(tx) - InCall
    BY <1>2, Numbers
  <2>9. /\ InCall' = InCall /\ Now' = Now /\ Shifted' = Shifted + 1
        /\ Waiting' = Len(rx') + Len(tx') - InCall
    <3>1. InCall' = InCall /\ Now' = Now
      BY <1>1 DEF InCall, Now, Looks
    <3> QED
      BY <1>3, <2>3, <3>1 DEF Shifted, Sent, Waiting
  <2>4. Shifted >= 0
    BY <2>1 DEF SpiInv
  <2>5. IsAnswer(Shifted + 2, selected'[1]) /\ IsAnswer(Shifted + 3, selected'[2])
    <3>1. tx[1] = Frame(Shifted + 1) /\ IsAnswer(Shifted + 2, selected[2])
      BY <1>3, <2>1 DEF SpiInv
    <3>2. Shifted \in Nat
      BY <2>1 DEF SpiInv
    <3>3. chosen = IF Frame(Shifted + 1) = -1 THEN selected[2].ch ELSE Frame(Shifted + 1)
      BY <3>1
    <3>4. IsAnswer(Shifted + 3, [ch |-> chosen, new |-> TRUE])
      BY <3>1, <3>2, <3>3, NextAnswer
    <3>5. selected'[1] = selected[2] /\ selected'[2] = [ch |-> chosen, new |-> TRUE]
      BY <1>5
    <3> QED
      BY <3>1, <3>4, <3>5
  <2>6. SpiInv'
    <3>1. \A k \in 1 .. Len(tx') : tx'[k] = Frame(Shifted' + k)
      <4> SUFFICES ASSUME NEW k \in 1 .. Len(tx')
                   PROVE  tx'[k] = Frame(Shifted' + k)
        OBVIOUS
      <4>1. k + 1 \in 1 .. Len(tx) /\ tx'[k] = tx[k + 1] /\ Shifted + (k + 1) = Shifted' + k
        BY <1>3, <2>3, <2>9
      <4> QED
        BY <2>1, <4>1 DEF SpiInv
    <3>2. Shifted' \in Nat /\ Shifted' + 1 = Shifted + 2 /\ Shifted' + 2 = Shifted + 3
      BY <2>3, <2>9, <2>4
    <3> QED
      BY <2>5, <3>1, <3>2 DEF SpiInv
  <2>7. Waiting' \in 0 .. 2 /\ (Lead' => Lead)
    <3>1. Len(rx) < 2 => Waiting' = Waiting
      BY <1>2, <1>3, <1>4, <2>3, <2>9
    <3>2. ~(Len(rx) < 2) => Waiting' = Waiting - 1 /\ Waiting' >= 1
      BY <1>2, <1>3, <1>4, <2>3, <2>9
    <3> QED
      BY <2>1, <3>1, <3>2 DEF Lead
  <2>8. \E r, f, s \in Int : FifoInv(r, f, s)'
    <3>. Shifted + 1 \in Int
      BY <2>3
    <3>0. PICK next \in Int : next = Shifted + 1
      BY <2>3
    <3>1. /\ Order(Now, InCall, Len(rx), Len(tx), read, first, second)
          /\ IsAnswer(read, ADC_ExtReceive)
          /\ Len(rx) >= 1 => IsAnswer(first, rx[1])
          /\ Len(rx) = 2 => IsAnswer(second, rx[2])
      BY <2>2 DEF FifoInv
    <3>2. Len(rx) + Len(tx) - InCall \in 0 .. 2
      BY <2>1, <2>3
    <3>3. IsAnswer(next, selected[1])
      BY <2>1, <3>0 DEF SpiInv
    <3>4. next = Now + InCall - Len(tx) + 1
      BY <2>3, <3>0
    <3>5. /\ Len(rx) = 0 => Order(Now, InCall, 1, Len(tx) - 1, read, next, second)
          /\ Len(rx) = 1 => Order(Now, InCall, 2, Len(tx) - 1, read, first, next)
          /\ Len(rx) = 2 => Order(Now, InCall, 2, Len(tx) - 1, read, first, second)
      BY <1>2, <1>3, <2>3, <3>1, <3>2, <3>4, ShiftOrder
    <3>6. /\ Now' = Now /\ InCall' = InCall /\ Len(tx') = Len(tx) - 1
          /\ ADC_ExtReceive' = ADC_ExtReceive
      BY <1>1, <1>3, <2>9
    <3>7. CASE Len(rx) = 0
      <4>1. rx'[1] = selected[1] /\ Len(rx') = 1
        BY <1>4, <3>7
      <4>2. FifoInv(read, next, second)'
        BY <3>1, <3>5, <3>6, <3>7, <3>3, <4>1 DEF FifoInv
      <4> QED
        BY <4>2
    <3>8. CASE Len(rx) = 1
      <4>1. rx'[2] = selected[1] /\ rx'[1] = rx[1] /\ Len(rx') = 2
        BY <1>4, <3>8
      <4>2. FifoInv(read, first, next)'
        BY <3>1, <3>5, <3>6, <3>8, <3>3, <4>1 DEF FifoInv
      <4> QED
        BY <4>2
    <3>9. CASE Len(rx) = 2
      <4>1. rx' = rx
        BY <1>1, <3>9
      <4>2. FifoInv(read, first, second)'
        BY <3>1, <3>5, <3>6, <3>9, <4>1 DEF FifoInv
      <4> QED
        BY <4>2
    <3> QED
      BY <1>2, <3>7, <3>8, <3>9
  <2> QED
    BY <1>1, <2>1, <2>6, <2>7, <2>8 DEF SweepInv
<1>8. Adc!EveryVoltageSwept'
  BY <1>1 DEF AdcInv, Adc!EveryVoltageSwept
<1> QED
  BY <1>6, <1>7, <1>8 DEF AdcInv

(* What holds of the sweep until the values are compared.                  *)
LEMMA SweepParts ==
  ASSUME RxFifo = 2, AdcInv, adcPc # "compare"
  PROVE  /\ Waiting \in 0 .. 2 /\ SpiInv
         /\ \A c \in Voltages :
              c < channel - 1 \/ (Lead /\ c = channel - 1) => g_ExtADC_Value[c] = "sweep"
         /\ \E read, first, second \in Int : FifoInv(read, first, second)
         /\ InCall \in 0 .. 1 /\ Looks \in 0 .. 3 /\ Now \in Int /\ Shifted \in Int
         /\ Now = 3 * channel + Looks /\ Shifted = Now + InCall - Len(tx)
         /\ Waiting = Len(rx) + Len(tx) - InCall
<1>1. channel \in Nat /\ call \in 1 .. 3 /\ Len(tx) \in Nat /\ Len(rx) \in Nat
  BY AdcTypes, Constants
<1> QED
  BY <1>1, Numbers DEF AdcInv, SweepInv

(* The frame a call writes is the one of its number.                       *)
LEMMA FrameOfCall ==
  ASSUME channel \in Nat, call \in 1 .. 3
  PROVE  Frame(3 * channel + call) = IF call = 1 THEN channel ELSE Adc!Continue
<1>1. CASE call \in 1 .. 2
  <2>1. (3 * channel + call) \div 3 = channel /\ (3 * channel + call) % 3 = call
    BY <1>1, Thirds
  <2> QED
    BY <1>1, <2>1 DEF Frame
<1>2. CASE call = 3
  <2>1. 3 * channel + call = 3 * (channel + 1) + 0
    BY <1>2
  <2>2. (3 * channel + call) % 3 = 0
    BY <2>1, Thirds
  <2> QED
    BY <1>2, <2>2 DEF Frame
<1> QED
  BY <1>1, <1>2

LEMMA TransmitStep ==
  ASSUME RxFifo = 2, AdcInv, Adc!Transmit
  PROVE  AdcInv'
<1> DEFINE written == IF call = 1 THEN channel ELSE Adc!Continue
<1>1. /\ adcPc = "write" /\ tx' = Append(tx, written) /\ adcPc' = "look"
      /\ UNCHANGED <<rx, selected, channel, call, ADC_ExtReceive, g_ExtADC_Value>>
  BY DEF Adc!Transmit
<1>2. /\ tx \in Seq(Channels \cup {-1}) /\ Len(tx) \in 0 .. 3 /\ Len(rx) \in 0 .. 2
      /\ channel \in 0 .. Dig3P3 /\ channel \in Nat /\ call \in 1 .. 3
  BY AdcTypes, Constants
<1>3. /\ Waiting \in 0 .. 2 /\ SpiInv
      /\ Now \in Int /\ Shifted \in Int
      /\ Now = 3 * channel + Looks /\ Shifted = Now + InCall - Len(tx)
      /\ Waiting = Len(rx) + Len(tx) - InCall
  BY <1>1, SweepParts
<1>4. InCall = 0 /\ Looks = call - 1
  BY <1>1 DEF InCall, Looks
<1>5. written \in Channels \cup {-1}
  BY <1>2, Constants
<1>6. /\ tx' \in Seq(Channels \cup {-1}) /\ Len(tx') = Len(tx) + 1
      /\ \A k \in 1 .. Len(tx) : tx'[k] = tx[k]
      /\ tx'[Len(tx) + 1] = written
  BY <1>1, <1>2, <1>5, AppendProperties
<1>7. Len(tx) <= 2
  BY <1>2, <1>3, <1>4
<1>8. /\ InCall' = 1 /\ Now' = Now /\ Shifted' = Shifted /\ Waiting' = Waiting
  <2>1. InCall' = 1 /\ Now' = Now
    BY <1>1 DEF InCall, Now, Looks
  <2>2. Len(rx') = Len(rx)
    BY <1>1
  <2> QED
    BY <1>2, <1>3, <1>4, <1>6, <2>1, <2>2 DEF Shifted, Sent, Waiting
<1>9. Adc!TypeOK'
  <2>1. Len(tx') <= 3
    BY <1>2, <1>6, <1>7
  <2> QED
    BY <1>1, <1>6, <2>1, Constants DEF AdcInv, Adc!TypeOK
<1>10. SpiInv'
  <2>1. ASSUME NEW k \in 1 .. Len(tx')
        PROVE  tx'[k] = Frame(Shifted' + k)
    <3>1. CASE k \in 1 .. Len(tx)
      BY <1>3, <1>6, <1>8, <3>1 DEF SpiInv
    <3>2. CASE k = Len(tx) + 1
      <4>1. Shifted' + k = 3 * channel + call
        BY <1>2, <1>3, <1>4, <1>8, <3>2
      <4> QED
        BY <1>2, <1>6, <3>2, <4>1, FrameOfCall
    <3> QED
      BY <1>2, <1>6, <3>1, <3>2
  <2> QED
    BY <1>1, <1>3, <1>8, <2>1 DEF SpiInv
<1>11. \E r, f, s \in Int : FifoInv(r, f, s)'
  <2>1. PICK read \in Int, first \in Int, second \in Int : FifoInv(read, first, second)
    BY <1>1, SweepParts
  <2>2. Order(Now, 0, Len(rx), Len(tx), read, first, second)
    BY <1>4, <2>1 DEF FifoInv
  <2>3. Order(Now, 1, Len(rx), Len(tx) + 1, read, first, second)
    BY <1>2, <1>3, <2>2, TransmitOrder
  <2>4. FifoInv(read, first, second)'
    BY <1>1, <1>6, <1>8, <2>1, <2>3 DEF FifoInv
  <2> QED
    BY <2>4
<1>12. SweepInv'
  <2>1. Lead' <=> Lead
    BY <1>8 DEF Lead
  <2> QED
    BY <1>1, <1>3, <1>8, <1>10, <1>11, <2>1, SweepParts DEF SweepInv
<1>13. Adc!EveryVoltageSwept'
  BY <1>1 DEF AdcInv, Adc!EveryVoltageSwept
<1> QED
  BY <1>9, <1>12, <1>13 DEF AdcInv

(* The call ends with the first answer it finds, or without any.           *)
LEMMA LookStep ==
  ASSUME RxFifo = 2, AdcInv, Adc!LookOnce
  PROVE  AdcInv'
<1>1. /\ adcPc = "look" /\ Len(tx) <= 2
      /\ rx = <<>> => UNCHANGED <<rx, ADC_ExtReceive>>
      /\ rx # <<>> => ADC_ExtReceive' = Head(rx) /\ rx' = Tail(rx)
      /\ IF call < 3 THEN call' = call + 1 /\ adcPc' = "write"
                     ELSE call' = call /\ adcPc' = "store"
      /\ UNCHANGED <<tx, selected, channel, g_ExtADC_Value>>
  BY DEF Adc!LookOnce
<1>2. /\ Len(tx) \in 0 .. 2 /\ rx \in Seq(Adc!Answers) /\ Len(rx) \in 0 .. 2
      /\ channel \in 0 .. Dig3P3 /\ channel \in Nat /\ call \in 1 .. 3
      /\ ADC_ExtReceive \in Adc!Answers
  BY <1>1, AdcTypes, Constants
<1>3. /\ Waiting \in 0 .. 2 /\ SpiInv
      /\ Now \in Int /\ Shifted \in Int
      /\ Now = 3 * channel + Looks /\ Shifted = Now + InCall - Len(tx)
      /\ Waiting = Len(rx) + Len(tx) - InCall
  BY <1>1, SweepParts
<1>4. InCall = 1 /\ Looks = call - 1
  BY <1>1 DEF InCall, Looks
<1>5. /\ Len(rx) = 0 => Len(rx') = 0 /\ ADC_ExtReceive' = ADC_ExtReceive
      /\ Len(rx) >= 1 => /\ Len(rx') = Len(rx) - 1 /\ ADC_ExtReceive' = rx[1]
                        /\ ADC_ExtReceive' \in Adc!Answers
      /\ Len(rx) = 2 => rx'[1] = rx[2]
      /\ rx' \in Seq(Adc!Answers)
  <2>1. CASE rx = <<>>
    BY <1>1, <1>2, <2>1, EmptySeq
  <2>2. CASE rx # <<>>
    <3>1. Len(rx) # 0
      BY <1>2, <2>2, EmptySeq
    <3>2. /\ rx' \in Seq(Adc!Answers) /\ Len(rx') = Len(rx) - 1
          /\ \A k \in 1 .. Len(rx') : rx'[k] = rx[k + 1]
      BY <1>1, <1>2, <2>2, HeadTailProperties
    <3>3. 1 \in 1 .. Len(rx)
      BY <1>2, <3>1
    <3>4. ADC_ExtReceive' = rx[1] /\ rx[1] \in Adc!Answers
      BY <1>1, <1>2, <2>2, <3>3, ElementOfSeq
    <3>5. Len(rx) = 2 => rx'[1] = rx[2]
      BY <3>2
    <3> QED
      BY <3>1, <3>2, <3>4, <3>5
  <2> QED
    BY <2>1, <2>2
<1>6. /\ InCall' = 0 /\ Now' = Now + 1 /\ Shifted' = Shifted
      /\ Waiting' = Len(rx') + Len(tx)
  <2>1. InCall' = 0 /\ adcPc' # "compare" /\ channel' = channel /\ Len(tx') = Len(tx)
    BY <1>1 DEF InCall
  <2>2. Looks' = call
    <3>1. CASE call < 3
      BY <1>1, <1>2, <3>1 DEF Looks
    <3>2. CASE ~(call < 3)
      BY <1>1, <1>2, <3>2 DEF Looks
    <3> QED
      BY <3>1, <3>2
  <2>3. Now' = Now + 1
    BY <1>2, <1>3, <1>4, <2>1, <2>2 DEF Now
  <2>4. Len(rx') \in Nat
    BY <1>2, <1>5
  <2> QED
    BY <1>2, <1>3, <1>4, <2>1, <2>3, <2>4 DEF Shifted, Sent, Waiting
<1>7. Waiting' \in 0 .. 2 /\ (Lead' => Lead)
  <2>1. CASE Len(rx) = 0
    BY <1>2, <1>3, <1>4, <1>5, <1>6, <2>1 DEF Lead
  <2>2. CASE Len(rx) >= 1
    BY <1>2, <1>3, <1>4, <1>5, <1>6, <2>2 DEF Lead
  <2> QED
    BY <1>2, <2>1, <2>2
<1>8. Adc!TypeOK'
  <2>1. Len(rx') <= RxFifo /\ ADC_ExtReceive' \in Adc!Answers
    BY <1>2, <1>5
  <2>2. call' \in 1 .. 3 /\ adcPc' \in {"write", "look", "store", "compare"}
    <3>1. CASE call < 3
      BY <1>1, <1>2, <3>1
    <3>2. CASE ~(call < 3)
      BY <1>1, <1>2, <3>2
    <3> QED
      BY <3>1, <3>2
  <2> QED
    BY <1>1, <1>5, <2>1, <2>2, Constants DEF AdcInv, Adc!TypeOK
<1>9. SpiInv'
  BY <1>1, <1>3, <1>6 DEF SpiInv
<1>10. \E r, f, s \in Int : FifoInv(r, f, s)'
  <2>1. PICK read \in Int, first \in Int, second \in Int : FifoInv(read, first, second)
    BY <1>1, SweepParts
  <2>2. /\ Order(Now, 1, Len(rx), Len(tx), read, first, second)
        /\ IsAnswer(read, ADC_ExtReceive)
        /\ Len(rx) >= 1 => IsAnswer(first, rx[1])
        /\ Len(rx) = 2 => IsAnswer(second, rx[2])
    BY <1>4, <2>1 DEF FifoInv
  <2>3. Len(rx) + Len(tx) - 1 \in 0 .. 2
    BY <1>3, <1>4
  <2>4. /\ Len(rx) = 0 => Order(Now + 1, 0, 0, Len(tx), read, first, second)
        /\ Len(rx) = 1 => Order(Now + 1, 0, 0, Len(tx), first, first, second)
        /\ Len(rx) = 2 => Order(Now + 1, 0, 1, Len(tx), first, second, second)
    BY <1>2, <1>3, <2>2, <2>3, LookOrder
  <2>5. Now' = Now + 1 /\ InCall' = 0 /\ Len(tx') = Len(tx)
    BY <1>1, <1>6
  <2>6. CASE Len(rx) = 0
    <3>1. FifoInv(read, first, second)'
      BY <1>5, <2>2, <2>4, <2>5, <2>6 DEF FifoInv
    <3> QED
      BY <3>1
  <2>7. CASE Len(rx) = 1
    <3>1. FifoInv(first, first, second)'
      BY <1>5, <2>2, <2>4, <2>5, <2>7 DEF FifoInv
    <3> QED
      BY <3>1
  <2>8. CASE Len(rx) = 2
    <3>1. Len(rx') = 1 /\ rx'[1] = rx[2] /\ ADC_ExtReceive' = rx[1]
      BY <1>5, <2>8
    <3>2. IsAnswer(first, rx[1]) /\ IsAnswer(second, rx[2])
      BY <2>2, <2>8
    <3>3. Order(Now', InCall', 1, Len(tx'), first, second, second)
      BY <2>4, <2>5, <2>8
    <3>4. FifoInv(first, second, second)'
      BY <3>1, <3>2, <3>3 DEF FifoInv
    <3> QED
      BY <3>4
  <2> QED
    BY <1>2, <2>6, <2>7, <2>8
<1>11. SweepInv'
  BY <1>1, <1>7, <1>9, <1>10, SweepParts DEF SweepInv
<1>12. Adc!EveryVoltageSwept'
  <2>1. adcPc' # "compare"
    BY <1>1
  <2> QED
    BY <1>1, <2>1 DEF AdcInv, Adc!EveryVoltageSwept
<1> QED
  BY <1>8, <1>11, <1>12 DEF AdcInv

(* The answer that is stored for a channel is its own, or, once a call has *)
(* come too early, the one of the channel before.                          *)
LEMMA StoreStep ==
  ASSUME RxFifo = 2, AdcInv, Adc!Store
  PROVE  AdcInv'
<1> DEFINE id == ADC_ExtReceive.ch
<1>1. /\ adcPc = "store"
      /\ g_ExtADC_Value' =
           IF id \in Voltages
             THEN [g_ExtADC_Value EXCEPT ![id] = IF ADC_ExtReceive.new THEN "sweep" ELSE "old"]
             ELSE g_ExtADC_Value
      /\ channel < Dig3P3 => channel' = channel + 1 /\ call' = 1 /\ adcPc' = "write"
      /\ ~(channel < Dig3P3) => adcPc' = "compare" /\ UNCHANGED <<channel, call>>
      /\ UNCHANGED <<tx, rx, selected, ADC_ExtReceive>>
  BY DEF Adc!Store, Adc!HasCase, Adc!LastChannel, Adc!spi
<1>2. /\ Len(tx) \in 0 .. 3 /\ Len(rx) \in 0 .. 2
      /\ channel \in 0 .. Dig3P3 /\ channel \in Nat /\ call \in 1 .. 3
      /\ ADC_ExtReceive \in Adc!Answers
      /\ g_ExtADC_Value \in [Voltages \cup {Dig3P3} -> {"sweep", "internal", "old"}]
  BY AdcTypes, Constants DEF AdcInv, Adc!TypeOK
<1>3. /\ Waiting \in 0 .. 2 /\ SpiInv
      /\ Now \in Int /\ Shifted \in Int
      /\ Now = 3 * channel + Looks /\ Shifted = Now + InCall - Len(tx)
      /\ Waiting = Len(rx) + Len(tx) - InCall
  BY <1>1, SweepParts
<1>4. InCall = 0 /\ Now = 3 * channel + 3
  BY <1>1, <1>3 DEF InCall, Looks
<1>5. PICK read \in Int, first \in Int, second \in Int : FifoInv(read, first, second)
  BY <1>1, SweepParts
<1>6. /\ IsAnswer(read, ADC_ExtReceive) /\ 3 * channel <= read
      /\ Lead => read = 3 * channel + 3
      /\ ~Lead => read < 3 * channel + 3
  <2>1. IsAnswer(read, ADC_ExtReceive) /\ Order(Now, 0, Len(rx), Len(tx), read, first, second)
    BY <1>4, <1>5 DEF FifoInv
  <2>2. Waiting = Len(rx) + Len(tx)
    BY <1>2, <1>3, <1>4
  <2>3. /\ Now - 3 <= read
        /\ Len(rx) + Len(tx) = 0 => read = Now
        /\ Len(rx) + Len(tx) # 0 => read < Now
    BY <1>2, <1>3, <2>1, StoreOrder
  <2> QED
    BY <1>2, <1>4, <2>1, <2>2, <2>3 DEF Lead
<1>7. /\ Lead => id = channel /\ ADC_ExtReceive.new = TRUE
      /\ ~Lead /\ channel >= 1 => id = channel - 1 /\ ADC_ExtReceive.new = TRUE
  <2>1. CASE Lead
    <3>1. read = 3 * (channel + 1) + 0 /\ read > 2
      BY <1>2, <1>6, <2>1
    <3>2. read \div 3 = channel + 1
      BY <1>2, <3>1, Thirds
    <3> QED
      BY <1>2, <1>6, <2>1, <3>1, <3>2 DEF IsAnswer
  <2>2. CASE ~Lead /\ channel >= 1
    <3>1. PICK e \in 0 .. 2 : read = 3 * channel + e
      <4>1. read - 3 * channel \in 0 .. 2 /\ read = 3 * channel + (read - 3 * channel)
        BY <1>2, <1>6, <2>2
      <4> QED
        BY <4>1
    <3>2. read \div 3 = channel /\ read > 2
      BY <1>2, <2>2, <3>1, Thirds
    <3> QED
      BY <1>2, <1>6, <2>2, <3>2 DEF IsAnswer
  <2> QED
    BY <2>1, <2>2
<1>8. ASSUME NEW c \in Voltages, c < channel \/ (Lead /\ c = channel)
      PROVE  g_ExtADC_Value'[c] = "sweep"
  <2>1. c \in Nat /\ c \in DOMAIN g_ExtADC_Value
    BY <1>2, Constants
  <2>2. CASE c = id /\ ADC_ExtReceive.new = TRUE
    BY <1>1, <2>1, <2>2
  <2>3. CASE c # id
    <3>1. g_ExtADC_Value'[c] = g_ExtADC_Value[c]
      BY <1>1, <2>1, <2>3
    <3>2. c < channel - 1 \/ (Lead /\ c = channel - 1)
      BY <1>2, <1>7, <1>8, <2>1, <2>3
    <3> QED
      BY <1>1, <3>1, <3>2, SweepParts
  <2>4. c = id => ADC_ExtReceive.new = TRUE
    BY <1>2, <1>7, <1>8, <2>1
  <2> QED
    BY <2>2, <2>3, <2>4
<1>9. g_ExtADC_Value' \in [Voltages \cup {Dig3P3} -> {"sweep", "internal", "old"}]
  BY <1>1, <1>2
<1>10. CASE channel < Dig3P3
  <2>1. channel' = channel + 1 /\ call' = 1 /\ adcPc' = "write"
    BY <1>1, <1>10
  <2>2. /\ InCall' = InCall /\ Now' = Now /\ Shifted' = Shifted /\ Waiting' = Waiting
    <3>1. InCall' = 0 /\ Looks' = 0
      BY <2>1 DEF InCall, Looks
    <3>2. Now' = Now
      BY <1>2, <1>4, <2>1, <3>1 DEF Now
    <3> QED
      BY <1>1, <1>4, <3>1, <3>2 DEF Shifted, Sent, Waiting
  <2>3. Adc!TypeOK'
    <3>1. channel' \in 0 .. Dig3P3
      BY <1>2, <1>10, <2>1, Constants
    <3> QED
      BY <1>1, <1>9, <2>1, <3>1 DEF AdcInv, Adc!TypeOK
  <2>4. SpiInv' /\ FifoInv(read, first, second)'
    BY <1>1, <1>3, <1>5, <2>2 DEF SpiInv, FifoInv
  <2>5. ASSUME NEW c \in Voltages, c < channel' - 1 \/ (Lead' /\ c = channel' - 1)
        PROVE  g_ExtADC_Value'[c] = "sweep"
    <3>1. channel' - 1 = channel /\ (Lead' <=> Lead)
      BY <1>2, <2>1, <2>2 DEF Lead
    <3> QED
      BY <1>8, <2>5, <3>1
  <2>6. SweepInv'
    BY <1>3, <2>2, <2>4, <2>5 DEF SweepInv
  <2> QED
    BY <2>1, <2>3, <2>6 DEF AdcInv, Adc!EveryVoltageSwept
<1>11. CASE ~(channel < Dig3P3)
  <2>1. adcPc' = "compare" /\ UNCHANGED <<channel, call>>
    BY <1>1, <1>11
  <2>2. Adc!TypeOK'
    BY <1>1, <1>9, <2>1 DEF AdcInv, Adc!TypeOK
  <2>3. \A c \in Voltages : c < channel
    BY <1>2, <1>11, Constants
  <2>4. Adc!EveryVoltageSwept'
    BY <1>8, <2>3 DEF Adc!EveryVoltageSwept
  <2> QED
    BY <2>1, <2>2, <2>4 DEF AdcInv, SweepInv
<1> QED
  BY <1>10, <1>11

LEMMA AdcNext ==
  ASSUME RxFifo = 2, AdcInv, Adc!Next
  PROVE  AdcInv'
BY ShiftStep, TransmitStep, LookStep, StoreStep DEF Adc!Next

LEMMA KeptInit == Adc!Init => KeptInv
BY Constants DEF Adc!Init, KeptInv, Adc!InternalValueKept

LEMMA KeptNext ==
  ASSUME KeptInv, Adc!Next
  PROVE  KeptInv'
<1>1. CASE Adc!Store
  <2>1. PICK value \in {"sweep", "old"} :
          g_ExtADC_Value' = IF ADC_ExtReceive.ch \in Voltages
                              THEN [g_ExtADC_Value EXCEPT ![ADC_ExtReceive.ch] = value]
                              ELSE g_ExtADC_Value
    BY <1>1 DEF Adc!Store, Adc!HasCase
  <2> QED
    BY <2>1, Constants DEF KeptInv, Adc!InternalValueKept
<1>2. CASE UNCHANGED g_ExtADC_Value
  BY <1>2 DEF KeptInv, Adc!InternalValueKept
<1> QED
  BY <1>1, <1>2 DEF Adc!Next, Adc!Shift, Adc!Transmit, Adc!LookOnce

-----------------------------------------------------------------------------
(* The CRC.  Its three loops are folds; each is an instance of             *)
(* FoldTheorems.                                                           *)

Bytes == INSTANCE FoldTheorems WITH Op <- ExtCrc!g_update_crc
Bits == INSTANCE FoldTheorems WITH Op <- ExtCrc!ShiftBit
Steps == INSTANCE FoldTheorems WITH Op <- ExtCrc!Cancel

(* FoldLeft over n elements, for each of the three operators.              *)
LEMMA BytesFold ==
  ASSUME NEW base, NEW b, NEW n \in Nat, DOMAIN b = 1 .. n
  PROVE  ExtCrc!g_CRC_calc_continue(b, base) = Bytes!Fold(base, b, n)
<1> DEFINE iter == CHOOSE f : Bytes!IsFold(f, base, b, n)
<1>1. ExtCrc!g_CRC_calc_continue(b, base) = iter[1 .. n]
  BY DEF ExtCrc!g_CRC_calc_continue, ExtCrc!FoldLeft, ExtCrc!MapThenFoldSet,
         Bytes!IsFold, ExtCrc!Max, Bytes!Max
<1> QED
  BY <1>1 DEF Bytes!Fold

LEMMA BitsFold ==
  ASSUME NEW crc0, NEW data
  PROVE  ExtCrc!g_update_crc(crc0, data) =
           Bits!Fold(ExtCrc!SymDiff(crc0, {k + 8 : k \in data}), <<0, 1, 2, 3, 4, 5, 6, 7>>, 8)
<1> DEFINE base == ExtCrc!SymDiff(crc0, {k + 8 : k \in data})
           b == <<0, 1, 2, 3, 4, 5, 6, 7>>
           iter == CHOOSE f : Bits!IsFold(f, base, b, 8)
<1>0. DOMAIN b = 1 .. 8
  OBVIOUS
<1>1. ExtCrc!g_update_crc(crc0, data) = ExtCrc!FoldLeft(ExtCrc!ShiftBit, base, b)
  BY DEF ExtCrc!g_update_crc
<1> HIDE DEF base, b
<1>2. ExtCrc!FoldLeft(ExtCrc!ShiftBit, base, b) = iter[1 .. 8]
  BY <1>0 DEF ExtCrc!FoldLeft, ExtCrc!MapThenFoldSet,
         Bits!IsFold, ExtCrc!Max, Bits!Max
<1> QED
  BY <1>1, <1>2 DEF Bits!Fold, base, b

LEMMA StepsFold ==
  ASSUME NEW p, NEW n \in Nat
  PROVE  ExtCrc!Remainder(p, n + 15) = Steps!Fold(p, ExtCrc!Downto16(n + 15), n)
<1> DEFINE b == ExtCrc!Downto16(n + 15)
           iter == CHOOSE f : Steps!IsFold(f, p, b, n)
<1>0. DOMAIN b = 1 .. n
  BY DEF ExtCrc!Downto16
<1>1. ExtCrc!Remainder(p, n + 15) = ExtCrc!FoldLeft(ExtCrc!Cancel, p, b)
  BY DEF ExtCrc!Remainder
<1> HIDE DEF b
<1>2. ExtCrc!FoldLeft(ExtCrc!Cancel, p, b) = iter[1 .. n]
  BY <1>0 DEF ExtCrc!FoldLeft, ExtCrc!MapThenFoldSet,
         Steps!IsFold, ExtCrc!Max, Steps!Max
<1> QED
  BY <1>1, <1>2 DEF Steps!Fold, b

-----------------------------------------------------------------------------
(* The polynomial c times x^e.                                             *)
At(c, e) == {k + e : k \in c}

LEMMA InAt ==
  ASSUME NEW c, c \subseteq Int, NEW e \in Int
  PROVE  \A x : x \in At(c, e) <=> x \in Int /\ x - e \in c
<1>1. ASSUME NEW x, x \in At(c, e)
      PROVE  x \in Int /\ x - e \in c
  <2>1. PICK k \in c : x = k + e
    BY <1>1 DEF At
  <2>2. k \in Int /\ x - e = k
    BY <2>1
  <2> QED
    BY <2>1, <2>2
<1>2. ASSUME NEW x, x \in Int, x - e \in c
      PROVE  x \in At(c, e)
  <2>1. x = (x - e) + e
    BY <1>2
  <2> QED
    BY <1>2, <2>1 DEF At
<1> QED
  BY <1>1, <1>2

LEMMA InCancel ==
  ASSUME NEW p, NEW d
  PROVE  \A x : x \in ExtCrc!Cancel(p, d) <=>
           ((x \in p) # (d \in p /\ x \in {d, d - 4, d - 11, d - 16}))
BY DEF ExtCrc!Cancel, ExtCrc!SymDiff

LEMMA InSymDiff ==
  ASSUME NEW p, NEW q
  PROVE  \A x : x \in ExtCrc!SymDiff(p, q) <=> ((x \in p) # (x \in q))
BY DEF ExtCrc!SymDiff

(* The register c at x^e, above the rest of the message.                   *)
Below(c, e, rest) ==
  /\ c \in SUBSET (0 .. 15) /\ e \in Nat /\ e >= 1
  /\ rest \subseteq Int /\ \A x \in rest : x < e + 15

(* One shift of the register cancels the highest degree that is left of    *)
(* the message.                                                            *)
LEMMA OneShift ==
  ASSUME NEW c, NEW e, NEW rest, Below(c, e, rest), NEW i
  PROVE  /\ ExtCrc!ShiftBit(c, i) \in SUBSET (0 .. 15)
         /\ ExtCrc!Cancel(ExtCrc!SymDiff(At(c, e), rest), e + 15) =
              ExtCrc!SymDiff(At(ExtCrc!ShiftBit(c, i), e - 1), rest)
<1> DEFINE p == ExtCrc!SymDiff(At(c, e), rest)
           next == ExtCrc!ShiftBit(c, i)
           q == ExtCrc!SymDiff(At(next, e - 1), rest)
<1>0. /\ c \in SUBSET (0 .. 15) /\ e \in Nat /\ e >= 1
      /\ rest \subseteq Int /\ \A x \in rest : x < e + 15
  BY DEF Below
<1>1. next \in SUBSET (0 .. 15)
  BY <1>0 DEF ExtCrc!ShiftBit
<1>2. \A x : x \in At(c, e) <=> x \in Int /\ x - e \in c
  <2>1. c \subseteq Int /\ e \in Int
    BY <1>0
  <2> QED
    BY <2>1, InAt
<1>3. \A x : x \in At(next, e - 1) <=> x \in Int /\ x - (e - 1) \in next
  <2> HIDE DEF next
  <2>1. next \subseteq Int /\ e - 1 \in Int
    BY <1>0, <1>1
  <2> QED
    BY <2>1, InAt
<1>4. \A k \in Int : k \in next <=>
        /\ k \in 0 .. 15
        /\ (k - 1 \in c) # (15 \in c /\ k \in {12, 5, 0})
  <2>1. \A k \in Int : k \in {j + 1 : j \in c} <=> k - 1 \in c
    BY <1>0, InAt DEF At
  <2> QED
    BY <1>0, <2>1 DEF ExtCrc!ShiftBit, ExtCrc!SymDiff
<1>5. e + 15 \in p <=> 15 \in c
  <2>1. e + 15 \notin rest
    BY <1>0
  <2>2. e + 15 \in At(c, e) <=> 15 \in c
    BY <1>0, <1>2
  <2> QED
    BY <2>1, <2>2, InSymDiff
<1>6. \A x : x \in p <=> ((x \in Int /\ x - e \in c) # (x \in rest))
  BY <1>2, InSymDiff
<1>7. \A x : x \in q <=> ((x \in Int /\ x - (e - 1) \in next) # (x \in rest))
  BY <1>3, InSymDiff
<1> HIDE DEF next, p, q
<1>8. ASSUME NEW x
      PROVE  x \in ExtCrc!Cancel(p, e + 15) <=> x \in q
  <2>1. CASE x \notin Int
    <3>0. x \notin rest
      BY <1>0, <2>1
    <3>1. x \notin p /\ x \notin q
      BY <1>6, <1>7, <2>1, <3>0
    <3>2. x \notin {e + 15, e + 15 - 4, e + 15 - 11, e + 15 - 16}
      BY <1>0, <2>1
    <3> QED
      BY <1>0, <3>1, <3>2, InCancel
  <2>2. CASE x \in Int
    <3>1. x \in ExtCrc!Cancel(p, e + 15) <=>
            ((x \in p) # (15 \in c /\ x \in {e + 15, e + 15 - 4, e + 15 - 11, e + 15 - 16}))
      BY <1>0, <1>5, InCancel
    <3>2. (x - (e - 1) \in next) =
            ((x - e \in c) # (15 \in c /\ x \in {e + 15, e + 15 - 4, e + 15 - 11, e + 15 - 16}))
      <4> DEFINE k == x - (e - 1)
      <4>1. k \in Int /\ k - 1 = x - e
        BY <1>0, <2>2
      <4>2. k \in {12, 5, 0, 16} <=> x \in {e + 15, e + 15 - 4, e + 15 - 11, e + 15 - 16}
        BY <1>0, <2>2
      <4>3. k = 16 <=> k - 1 = 15
        BY <4>1
      <4>4. k - 1 \in c => k \in 1 .. 16
        BY <1>0, <4>1
      <4> HIDE DEF k
      <4>5. (k \in next) = ((k - 1 \in c) # (15 \in c /\ k \in {12, 5, 0, 16}))
        <5>1. CASE k \in 0 .. 15
          <6>1. k # 16
            BY <5>1
          <6> QED
            BY <1>4, <4>1, <5>1, <6>1
        <5>2. CASE k = 16
          BY <1>4, <4>1, <4>3, <5>2
        <5>3. CASE k \notin 0 .. 16
          <6>1. k \notin 0 .. 15 /\ k \notin {12, 5, 0, 16} /\ k - 1 \notin c
            BY <4>1, <4>4, <5>3
          <6> QED
            BY <1>4, <4>1, <6>1
        <5> QED
          BY <4>1, <5>1, <5>2, <5>3
      <4> QED
        BY <4>1, <4>2, <4>5 DEF k
    <3> QED
      BY <1>6, <1>7, <2>2, <3>1, <3>2
  <2> QED
    BY <2>1, <2>2
<1>9. ExtCrc!Cancel(p, e + 15) = q
  BY <1>8
<1> QED
  BY <1>1, <1>9 DEF p, q, next

(* As steps of the long division.                                          *)
LEMMA OneDegree ==
  ASSUME NEW c, NEW e, NEW rest, Below(c, e, rest), NEW i,
         NEW p, NEW degrees, NEW m \in Nat, degrees[m + 1] = e + 15,
         Steps!Fold(p, degrees, m) = ExtCrc!SymDiff(At(c, e), rest)
  PROVE  /\ ExtCrc!ShiftBit(c, i) \in SUBSET (0 .. 15)
         /\ Steps!Fold(p, degrees, m + 1) =
              ExtCrc!SymDiff(At(ExtCrc!ShiftBit(c, i), e - 1), rest)
<1>1. Steps!Fold(p, degrees, m + 1) = ExtCrc!Cancel(Steps!Fold(p, degrees, m), degrees[m + 1])
  BY Steps!FoldNext
<1> QED
  BY <1>1, OneShift

(* A byte is about to be added to the register reg at x^top, after done    *)
(* steps of the division; rest is what is below the byte.                  *)
ByteBelow(reg, data, top, rest, p, degrees, done) ==
  /\ reg \in SUBSET (0 .. 15) /\ data \in SUBSET (0 .. 7) /\ top \in Nat /\ top >= 8
  /\ rest \subseteq Int /\ \A x \in rest : x < top + 8
  /\ done \in Nat /\ \A k \in 1 .. 8 : degrees[done + k] = top + 16 - k
  /\ Steps!Fold(p, degrees, done) =
       ExtCrc!SymDiff(At(ExtCrc!SymDiff(reg, At(data, 8)), top), rest)

(* Eight shifts, those of one byte: degrees top + 15 to top + 8.               *)
LEMMA OneByte ==
  ASSUME NEW reg, NEW data, NEW top, NEW rest, NEW p, NEW degrees, NEW done,
         ByteBelow(reg, data, top, rest, p, degrees, done)
  PROVE  /\ ExtCrc!g_update_crc(reg, data) \in SUBSET (0 .. 15)
         /\ Steps!Fold(p, degrees, done + 8) =
              ExtCrc!SymDiff(At(ExtCrc!g_update_crc(reg, data), top - 8), rest)
<1> DEFINE first == ExtCrc!SymDiff(reg, At(data, 8))
           bits == <<0, 1, 2, 3, 4, 5, 6, 7>>
           Reg(k) == Bits!Fold(first, bits, k)
           S == {k \in Nat : k <= 8 =>
                  /\ Reg(k) \in SUBSET (0 .. 15)
                  /\ Steps!Fold(p, degrees, done + k) = ExtCrc!SymDiff(At(Reg(k), top - k), rest)}
<1>0. /\ reg \in SUBSET (0 .. 15) /\ data \in SUBSET (0 .. 7) /\ top \in Nat /\ top >= 8
      /\ rest \subseteq Int /\ \A x \in rest : x < top + 8
      /\ done \in Nat /\ \A k \in 1 .. 8 : degrees[done + k] = top + 16 - k
      /\ Steps!Fold(p, degrees, done) =
           ExtCrc!SymDiff(At(ExtCrc!SymDiff(reg, At(data, 8)), top), rest)
  BY DEF ByteBelow
<1>1. 0 \in S
  <2>1. first \in SUBSET (0 .. 15)
    <3>1. \A x : x \in At(data, 8) <=> x \in Int /\ x - 8 \in data
      <4>1. data \subseteq Int /\ 8 \in Int
        BY <1>0
      <4> QED
        BY <4>1, InAt
    <3>2. \A x : x \in At(data, 8) => x \in 0 .. 15
      BY <1>0, <3>1
    <3> QED
      BY <1>0, <3>2 DEF ExtCrc!SymDiff
  <2>2. Reg(0) = first
    BY Bits!FoldNothing
  <2>3. done + 0 = done /\ top - 0 = top
    BY <1>0
  <2> QED
    BY <1>0, <2>1, <2>2, <2>3
<1>2. ASSUME NEW k \in Nat, k \in S
      PROVE  k + 1 \in S
  <2> SUFFICES ASSUME k + 1 <= 8
               PROVE  /\ Reg(k + 1) \in SUBSET (0 .. 15)
                      /\ Steps!Fold(p, degrees, done + (k + 1)) =
                           ExtCrc!SymDiff(At(Reg(k + 1), top - (k + 1)), rest)
    OBVIOUS
  <2>1. /\ Reg(k) \in SUBSET (0 .. 15)
        /\ Steps!Fold(p, degrees, done + k) = ExtCrc!SymDiff(At(Reg(k), top - k), rest)
    BY <1>2
  <2> HIDE DEF S, first, bits
  <2>2. Reg(k + 1) = ExtCrc!ShiftBit(Reg(k), bits[k + 1])
    BY Bits!FoldNext
  <2>3. /\ top - k \in Nat /\ top - k >= 1 /\ (top - k) - 1 = top - (k + 1)
        /\ done + k \in Nat /\ (done + k) + 1 = done + (k + 1)
        /\ \A x \in rest : x < (top - k) + 15
    BY <1>0
  <2>4. degrees[done + (k + 1)] = (top - k) + 15
    <3>1. k + 1 \in 1 .. 8 /\ top + 16 - (k + 1) = (top - k) + 15
      BY <1>0
    <3> QED
      BY <1>0, <3>1
  <2>5. Below(Reg(k), top - k, rest)
    BY <1>0, <2>1, <2>3 DEF Below
  <2>6. /\ ExtCrc!ShiftBit(Reg(k), bits[k + 1]) \in SUBSET (0 .. 15)
        /\ Steps!Fold(p, degrees, (done + k) + 1) =
             ExtCrc!SymDiff(At(ExtCrc!ShiftBit(Reg(k), bits[k + 1]), (top - k) - 1), rest)
    <3>1. degrees[(done + k) + 1] = (top - k) + 15
      BY <2>3, <2>4
    <3> HIDE DEF Reg
    <3> QED
      BY <2>1, <2>3, <2>5, <3>1, OneDegree
  <2> QED
    BY <2>2, <2>3, <2>6
<1>3. Nat \subseteq S
  <2> HIDE DEF S
  <2> QED
    BY <1>1, <1>2, Bits!SetInduction
<1>4. /\ Reg(8) \in SUBSET (0 .. 15)
      /\ Steps!Fold(p, degrees, done + 8) = ExtCrc!SymDiff(At(Reg(8), top - 8), rest)
  BY <1>3
<1>5. ExtCrc!g_update_crc(reg, data) = Reg(8)
  BY BitsFold DEF At
<1> QED
  BY <1>4, <1>5

-----------------------------------------------------------------------------
(* The bytes of a message that are not read yet, as part of its polynomial.*)
Unread(bytes, n, j) == UNION {At(bytes[k], 8 * (n - k) + 16) : k \in (j + 1) .. n}

LEMMA InUnread ==
  ASSUME NEW n \in Nat, NEW j \in Nat, NEW bytes, \A k \in 1 .. n : bytes[k] \in SUBSET (0 .. 7)
  PROVE  \A x : x \in Unread(bytes, n, j) <=>
           \E k \in (j + 1) .. n : x \in Int /\ x - (8 * (n - k) + 16) \in bytes[k]
<1>1. ASSUME NEW x
      PROVE  \A k \in (j + 1) .. n :
               x \in At(bytes[k], 8 * (n - k) + 16) <=>
                 x \in Int /\ x - (8 * (n - k) + 16) \in bytes[k]
  <2>1. TAKE k \in (j + 1) .. n
  <2>2. bytes[k] \subseteq Int /\ 8 * (n - k) + 16 \in Int
    <3>1. k \in 1 .. n
      OBVIOUS
    <3>2. bytes[k] \in SUBSET (0 .. 7)
      BY <3>1
    <3> QED
      BY <3>1, <3>2
  <2> QED
    BY <2>2, InAt
<1> QED
  BY <1>1 DEF Unread

LEMMA UnreadParts ==
  ASSUME NEW n \in Nat, NEW j \in Nat, j < n,
         NEW bytes, \A k \in 1 .. n : bytes[k] \in SUBSET (0 .. 7)
  PROVE  /\ Unread(bytes, n, j) =
              ExtCrc!SymDiff(At(bytes[j + 1], 8 * (n - (j + 1)) + 16), Unread(bytes, n, j + 1))
         /\ Unread(bytes, n, j + 1) \subseteq Int
         /\ \A x \in Unread(bytes, n, j + 1) : x < 8 * (n - j) + 8
<1> DEFINE high == At(bytes[j + 1], 8 * (n - (j + 1)) + 16)
           low == Unread(bytes, n, j + 1)
<1>0. j + 1 \in Nat /\ (j + 1) + 1 \in Nat /\ j + 1 \in 1 .. n
  OBVIOUS
<1>1. \A x : x \in low => x \in Int /\ x < 8 * (n - j) + 8
  <2>1. TAKE x
  <2>2. HAVE x \in low
  <2>3. PICK k \in ((j + 1) + 1) .. n : x \in Int /\ x - (8 * (n - k) + 16) \in bytes[k]
    BY <1>0, <2>2, InUnread
  <2>4. k \in 1 .. n /\ k >= j + 2
    OBVIOUS
  <2>5. x - (8 * (n - k) + 16) <= 7
    BY <2>3, <2>4
  <2>6. 8 * (n - k) <= 8 * (n - j) - 16
    BY <2>4
  <2> QED
    BY <2>3, <2>4, <2>5, <2>6
<1>2. \A x : x \in high <=> x \in Int /\ x - (8 * (n - (j + 1)) + 16) \in bytes[j + 1]
  <2>1. bytes[j + 1] \subseteq Int /\ 8 * (n - (j + 1)) + 16 \in Int
    BY <1>0
  <2> QED
    BY <2>1, InAt
<1>3. \A x : x \in high => x >= 8 * (n - j) + 8
  BY <1>0, <1>2
<1>4. \A x : x \in Unread(bytes, n, j) <=> x \in high \/ x \in low
  <2>1. \A k : k \in (j + 1) .. n <=> k = j + 1 \/ k \in ((j + 1) + 1) .. n
    OBVIOUS
  <2>2. \A x : x \in low <=>
          \E k \in ((j + 1) + 1) .. n : x \in Int /\ x - (8 * (n - k) + 16) \in bytes[k]
    BY <1>0, InUnread
  <2>3. \A x : x \in Unread(bytes, n, j) <=>
          \E k \in (j + 1) .. n : x \in Int /\ x - (8 * (n - k) + 16) \in bytes[k]
    BY InUnread
  <2> HIDE DEF high, low
  <2> QED
    BY <1>2, <2>1, <2>2, <2>3
<1>5. \A x : ~(x \in high /\ x \in low)
  <2> HIDE DEF high, low
  <2>1. TAKE x
  <2>2. ASSUME x \in high, x \in low PROVE FALSE
    BY <1>1, <1>3, <2>2
  <2> QED
    BY <2>2
<1>6. Unread(bytes, n, j) = ExtCrc!SymDiff(high, low)
  <2> HIDE DEF high, low
  <2>1. \A x : x \in Unread(bytes, n, j) <=> x \in ExtCrc!SymDiff(high, low)
    BY <1>4, <1>5, InSymDiff
  <2> QED
    BY <2>1
<1> QED
  BY <1>1, <1>6

LEMMA SymDiffTwice ==
  ASSUME NEW p, NEW q, NEW r
  PROVE  ExtCrc!SymDiff(p, ExtCrc!SymDiff(q, r)) = ExtCrc!SymDiff(ExtCrc!SymDiff(p, q), r)
BY DEF ExtCrc!SymDiff

LEMMA AtSymDiff ==
  ASSUME NEW p, p \subseteq Int, NEW q, q \subseteq Int, NEW e \in Int
  PROVE  At(ExtCrc!SymDiff(p, q), e) = ExtCrc!SymDiff(At(p, e), At(q, e))
<1>1. ExtCrc!SymDiff(p, q) \subseteq Int
  BY DEF ExtCrc!SymDiff
<1>2. \A x : x \in At(ExtCrc!SymDiff(p, q), e) <=> x \in Int /\ x - e \in ExtCrc!SymDiff(p, q)
  BY <1>1, InAt
<1>3. \A x : x \in At(p, e) <=> x \in Int /\ x - e \in p
  BY InAt
<1>4. \A x : x \in At(q, e) <=> x \in Int /\ x - e \in q
  BY InAt
<1>5. \A x : x \in At(ExtCrc!SymDiff(p, q), e) <=> x \in ExtCrc!SymDiff(At(p, e), At(q, e))
  BY <1>2, <1>3, <1>4, InSymDiff
<1> QED
  BY <1>5

LEMMA AtAt ==
  ASSUME NEW p, p \subseteq Int, NEW d \in Int, NEW e \in Int
  PROVE  At(At(p, d), e) = At(p, d + e) /\ At(p, d) \subseteq Int
<1>1. \A x : x \in At(p, d) <=> x \in Int /\ x - d \in p
  BY InAt
<1>2. At(p, d) \subseteq Int
  BY <1>1
<1>3. \A x : x \in At(At(p, d), e) <=> x \in Int /\ x - e \in At(p, d)
  BY <1>2, InAt
<1>4. \A x : x \in At(p, d + e) <=> x \in Int /\ x - (d + e) \in p
  <2>1. d + e \in Int
    OBVIOUS
  <2> QED
    BY <2>1, InAt
<1>5. \A x \in Int : (x - e) - d = x - (d + e) /\ x - e \in Int
  OBVIOUS
<1>6. \A x : x \in At(At(p, d), e) <=> x \in At(p, d + e)
  BY <1>1, <1>3, <1>4, <1>5
<1> QED
  BY <1>2, <1>6

Register(bytes, j) == Bytes!Fold(0 .. 15, bytes, j)
Dividend(bytes, n) == ExtCrc!SymDiff(ExtCrc!Message(bytes), ExtCrc!Preset(n))
Division(p, n, steps) == Steps!Fold(p, ExtCrc!Downto16(8 * n + 15), steps)

(* After every byte the register is the highest part of what the long      *)
(* division has left; below it are the bytes to come.                      *)
LEMMA ByteByByte ==
  ASSUME NEW n \in Nat, NEW bytes, bytes \in [1 .. n -> SUBSET (0 .. 7)]
  PROVE  \A j \in Nat : j <= n =>
           /\ Register(bytes, j) \in SUBSET (0 .. 15)
           /\ Division(Dividend(bytes, n), n, 8 * j) =
                ExtCrc!SymDiff(At(Register(bytes, j), 8 * (n - j)), Unread(bytes, n, j))
<1> DEFINE p == ExtCrc!SymDiff(ExtCrc!Message(bytes), ExtCrc!Preset(n))
           R(j) == Bytes!Fold(0 .. 15, bytes, j)
           D == ExtCrc!Downto16(8 * n + 15)
           S == {j \in Nat : j <= n =>
                  /\ R(j) \in SUBSET (0 .. 15)
                  /\ Steps!Fold(p, D, 8 * j) =
                       ExtCrc!SymDiff(At(R(j), 8 * (n - j)), Unread(bytes, n, j))}
<1>1. 0 \in S
  <2>1. R(0) = 0 .. 15
    BY Bytes!FoldNothing
  <2>2. Steps!Fold(p, D, 0) = p
    BY Steps!FoldNothing
  <2>3. At(0 .. 15, 8 * n) = ExtCrc!Preset(n)
    BY DEF At, ExtCrc!Preset
  <2>4. Unread(bytes, n, 0) = ExtCrc!Message(bytes)
    <3>1. bytes \in Seq(SUBSET (0 .. 7)) /\ Len(bytes) = n /\ DOMAIN bytes = 1 .. n /\ 0 + 1 = 1
      OBVIOUS
    <3> QED
      BY <3>1 DEF Unread, ExtCrc!Message, At
  <2>5. ExtCrc!SymDiff(ExtCrc!Message(bytes), ExtCrc!Preset(n)) =
          ExtCrc!SymDiff(ExtCrc!Preset(n), ExtCrc!Message(bytes))
    BY DEF ExtCrc!SymDiff
  <2>6. 8 * 0 = 0 /\ 8 * (n - 0) = 8 * n
    OBVIOUS
  <2> QED
    BY <2>1, <2>2, <2>3, <2>4, <2>5, <2>6
<1>2. ASSUME NEW j \in Nat, j \in S
      PROVE  j + 1 \in S
  <2> SUFFICES ASSUME j + 1 <= n
               PROVE  /\ R(j + 1) \in SUBSET (0 .. 15)
                      /\ Steps!Fold(p, D, 8 * (j + 1)) =
                           ExtCrc!SymDiff(At(R(j + 1), 8 * (n - (j + 1))),
                                          Unread(bytes, n, j + 1))
    OBVIOUS
  <2> DEFINE top == 8 * (n - j)
             rest == Unread(bytes, n, j + 1)
             data == bytes[j + 1]
  <2>1. /\ R(j) \in SUBSET (0 .. 15)
        /\ Steps!Fold(p, D, 8 * j) = ExtCrc!SymDiff(At(R(j), top), Unread(bytes, n, j))
    BY <1>2
  <2> HIDE DEF S
  <2>2. /\ top \in Nat /\ top >= 8 /\ data \in SUBSET (0 .. 7) /\ 8 * j \in Nat
        /\ 8 * (n - (j + 1)) + 16 = 8 + top
        /\ top - 8 = 8 * (n - (j + 1)) /\ 8 * j + 8 = 8 * (j + 1)
    OBVIOUS
  <2>3. \A k \in 1 .. 8 : D[8 * j + k] = top + 16 - k
    <3>1. TAKE k \in 1 .. 8
    <3>2. 8 * j + k \in 1 .. (8 * n + 15 - 15)
      OBVIOUS
    <3>3. D[8 * j + k] = 8 * n + 15 - ((8 * j + k) - 1)
      BY <3>2 DEF ExtCrc!Downto16
    <3> QED
      BY <3>3
  <2>4. /\ Unread(bytes, n, j) = ExtCrc!SymDiff(At(data, 8 + top), rest)
        /\ rest \subseteq Int /\ \A x \in rest : x < top + 8
    <3>1. j < n /\ \A k \in 1 .. n : bytes[k] \in SUBSET (0 .. 7)
      OBVIOUS
    <3>2. /\ Unread(bytes, n, j) =
               ExtCrc!SymDiff(At(data, 8 * (n - (j + 1)) + 16), rest)
          /\ rest \subseteq Int /\ \A x \in rest : x < 8 * (n - j) + 8
      BY <3>1, UnreadParts
    <3> HIDE DEF rest, data
    <3> QED
      BY <2>2, <3>2
  <2> HIDE DEF rest, data
  <2>5. At(data, 8 + top) = At(At(data, 8), top) /\ At(data, 8) \subseteq Int
    <3>1. data \subseteq Int /\ 8 \in Int /\ top \in Int
      BY <2>2
    <3> HIDE DEF top
    <3> QED
      BY <3>1, AtAt
  <2>6. ExtCrc!SymDiff(At(R(j), top), At(At(data, 8), top)) =
          At(ExtCrc!SymDiff(R(j), At(data, 8)), top)
    <3>1. R(j) \subseteq Int /\ top \in Int
      BY <2>1, <2>2
    <3> HIDE DEF R, top
    <3> QED
      BY <2>5, <3>1, AtSymDiff
  <2>7. Steps!Fold(p, D, 8 * j) =
          ExtCrc!SymDiff(At(ExtCrc!SymDiff(R(j), At(data, 8)), top), rest)
    BY <2>1, <2>4, <2>5, <2>6, SymDiffTwice
  <2>8. R(j + 1) = ExtCrc!g_update_crc(R(j), data)
    BY Bytes!FoldNext DEF data
  <2>9. /\ ExtCrc!g_update_crc(R(j), data) \in SUBSET (0 .. 15)
        /\ Steps!Fold(p, D, 8 * j + 8) =
             ExtCrc!SymDiff(At(ExtCrc!g_update_crc(R(j), data), top - 8), rest)
    <3>1. ByteBelow(R(j), data, top, rest, p, D, 8 * j)
      BY <2>1, <2>2, <2>3, <2>4, <2>7 DEF ByteBelow
    <3> HIDE DEF R, D, p, top
    <3> QED
      BY <3>1, OneByte
  <2> QED
    BY <2>2, <2>8, <2>9 DEF rest
<1>3. Nat \subseteq S
  <2> HIDE DEF S
  <2> QED
    BY <1>1, <1>2, Bits!SetInduction
<1> QED
  BY <1>3 DEF Register, Division, Dividend

(* g_CRC_calc computes the remainder of the message.                       *)
LEMMA CrcIsRemainder ==
  ASSUME NEW n \in Nat, NEW bytes, bytes \in [1 .. n -> SUBSET (0 .. 7)]
  PROVE  /\ ExtCrc!g_CRC_calc(bytes) = ExtCrc!CrcOf(bytes)
         /\ ExtCrc!g_CRC_calc(bytes) = Register(bytes, n)
         /\ ExtCrc!g_CRC_calc(bytes) = Division(Dividend(bytes, n), n, 8 * n)
<1> DEFINE r == Register(bytes, n)
<1>1. bytes \in Seq(SUBSET (0 .. 7)) /\ Len(bytes) = n /\ DOMAIN bytes = 1 .. n
  OBVIOUS
<1>2. ExtCrc!g_CRC_calc(bytes) = r
  BY <1>1, BytesFold DEF ExtCrc!g_CRC_calc, Register
<1>3. /\ r \in SUBSET (0 .. 15)
      /\ Division(Dividend(bytes, n), n, 8 * n) =
           ExtCrc!SymDiff(At(r, 8 * (n - n)), Unread(bytes, n, n))
  <2>1. \A j \in Nat : j <= n =>
           /\ Register(bytes, j) \in SUBSET (0 .. 15)
           /\ Division(Dividend(bytes, n), n, 8 * j) =
                ExtCrc!SymDiff(At(Register(bytes, j), 8 * (n - j)), Unread(bytes, n, j))
    BY ByteByByte
  <2>2. n <= n
    OBVIOUS
  <2> QED
    BY <2>1, <2>2
<1>4. ExtCrc!CrcOf(bytes) = Division(Dividend(bytes, n), n, 8 * n)
  <2>1. 8 * n \in Nat
    OBVIOUS
  <2> QED
    BY <1>1, <2>1, StepsFold DEF ExtCrc!CrcOf, Division, Dividend
<1>5. Unread(bytes, n, n) = {}
  <2>1. (n + 1) .. n = {}
    OBVIOUS
  <2> QED
    BY <2>1 DEF Unread
<1>6. At(r, 8 * (n - n)) = r
  <2> HIDE DEF r
  <2>1. \A k \in r : k + 8 * (n - n) = k
    BY <1>3
  <2> QED
    BY <2>1 DEF At
<1>7. ExtCrc!SymDiff(r, {}) = r
  BY DEF ExtCrc!SymDiff
<1> QED
  BY <1>2, <1>3, <1>4, <1>5, <1>6, <1>7

-----------------------------------------------------------------------------
(* The long division is linear.                                            *)
LEMMA DivisionOfSum ==
  ASSUME NEW p, NEW q, NEW n \in Nat
  PROVE  \A m \in Nat : Division(ExtCrc!SymDiff(p, q), n, m) =
                          ExtCrc!SymDiff(Division(p, n, m), Division(q, n, m))
<1> DEFINE D == ExtCrc!Downto16(8 * n + 15)
           s == ExtCrc!SymDiff(p, q)
           S == {m \in Nat : Steps!Fold(s, D, m) =
                               ExtCrc!SymDiff(Steps!Fold(p, D, m), Steps!Fold(q, D, m))}
<1>1. 0 \in S
  BY Steps!FoldNothing
<1>2. ASSUME NEW m \in Nat, m \in S
      PROVE  m + 1 \in S
  <2> DEFINE a == Steps!Fold(p, D, m)
             b == Steps!Fold(q, D, m)
             d == D[m + 1]
  <2>1. Steps!Fold(s, D, m) = ExtCrc!SymDiff(a, b)
    BY <1>2
  <2> HIDE DEF D, s
  <2>2. /\ Steps!Fold(s, D, m + 1) = ExtCrc!Cancel(Steps!Fold(s, D, m), d)
        /\ Steps!Fold(p, D, m + 1) = ExtCrc!Cancel(a, d)
        /\ Steps!Fold(q, D, m + 1) = ExtCrc!Cancel(b, d)
    BY Steps!FoldNext
  <2>3. ExtCrc!Cancel(ExtCrc!SymDiff(a, b), d) =
          ExtCrc!SymDiff(ExtCrc!Cancel(a, d), ExtCrc!Cancel(b, d))
    <3> HIDE DEF a, b, d
    <3>1. \A x : x \in ExtCrc!Cancel(ExtCrc!SymDiff(a, b), d) <=>
                   x \in ExtCrc!SymDiff(ExtCrc!Cancel(a, d), ExtCrc!Cancel(b, d))
      BY InCancel, InSymDiff
    <3> QED
      BY <3>1
  <2> QED
    BY <2>1, <2>2, <2>3
<1>3. Nat \subseteq S
  <2> HIDE DEF S
  <2> QED
    BY <1>1, <1>2, Bits!SetInduction
<1> QED
  BY <1>3 DEF Division

(* A polynomial with terms, none above x^d, all within sixteen neighbouring *)
(* degrees.                                                                *)
Narrow(r, d) == r # {} /\ r \subseteq 0 .. d /\ \A x \in r, y \in r : x - y <= 15

LEMMA NarrowStep ==
  ASSUME NEW r, NEW d \in Nat, d >= 16, Narrow(r, d)
  PROVE  Narrow(ExtCrc!Cancel(r, d), d - 1)
<1> DEFINE t == ExtCrc!Cancel(r, d)
<1>0. r # {} /\ r \subseteq 0 .. d /\ \A x \in r, y \in r : x - y <= 15
  BY DEF Narrow
<1>1. CASE d \notin r
  <2>1. t = r
    BY <1>1 DEF ExtCrc!Cancel
  <2>2. \A x \in r : x \in 0 .. (d - 1)
    BY <1>0, <1>1
  <2> QED
    BY <1>0, <2>1, <2>2 DEF Narrow
<1>2. CASE d \in r
  <2>1. \A x \in r : x \in Int /\ x <= d /\ x >= d - 15
    BY <1>0, <1>2
  <2>2. \A x : x \in t <=> ((x \in r) # (x \in {d, d - 4, d - 11, d - 16}))
    BY <1>2, InCancel
  <2> HIDE DEF t
  <2>3. d - 16 \in t
    BY <2>1, <2>2
  <2>4. \A x \in t : x \in Int /\ x <= d - 1 /\ x >= d - 16
    <3>1. TAKE x \in t
    <3>2. x # d
      BY <1>2, <2>2
    <3> QED
      BY <2>1, <2>2, <3>2
  <2>5. t # {} /\ t \subseteq 0 .. (d - 1) /\ \A x \in t, y \in t : x - y <= 15
    BY <2>3, <2>4
  <2> QED
    BY <2>5 DEF Narrow, t
<1> QED
  BY <1>1, <1>2

(* No multiple of the generator is that narrow.                            *)
LEMMA NarrowRemains ==
  ASSUME NEW n \in Nat, NEW q, Narrow(q, 8 * n + 15)
  PROVE  Division(q, n, 8 * n) # {}
<1> DEFINE D == ExtCrc!Downto16(8 * n + 15)
           S == {m \in Nat : m <= 8 * n => Narrow(Steps!Fold(q, D, m), 8 * n + 15 - m)}
<1>1. 0 \in S
  <2>1. 8 * n + 15 - 0 = 8 * n + 15
    OBVIOUS
  <2> QED
    BY <2>1, Steps!FoldNothing
<1>2. ASSUME NEW m \in Nat, m \in S
      PROVE  m + 1 \in S
  <2> SUFFICES ASSUME m + 1 <= 8 * n
               PROVE  Narrow(Steps!Fold(q, D, m + 1), 8 * n + 15 - (m + 1))
    OBVIOUS
  <2> DEFINE d == 8 * n + 15 - m
  <2>1. d \in Nat /\ d >= 16 /\ d - 1 = 8 * n + 15 - (m + 1) /\ m <= 8 * n
    OBVIOUS
  <2>2. D[m + 1] = d
    BY DEF ExtCrc!Downto16
  <2>3. Narrow(Steps!Fold(q, D, m), d)
    BY <1>2, <2>1
  <2> HIDE DEF S, D, d
  <2>4. Steps!Fold(q, D, m + 1) = ExtCrc!Cancel(Steps!Fold(q, D, m), d)
    BY <2>2, Steps!FoldNext
  <2>5. Narrow(ExtCrc!Cancel(Steps!Fold(q, D, m), d), d - 1)
    BY <2>1, <2>3, NarrowStep
  <2> QED
    BY <2>1, <2>4, <2>5
<1>3. Nat \subseteq S
  <2> HIDE DEF S
  <2> QED
    BY <1>1, <1>2, Bits!SetInduction
<1>4. 8 * n \in S
  BY <1>3
<1> QED
  BY <1>4 DEF Narrow, Division

-----------------------------------------------------------------------------
(* The bits a disturbance turns over in byte k of n.                       *)
Flips(disturbance, n, k) == {b \in 0 .. 7 : 8 * (n - k) + b \in disturbance}
Disturbed(bytes, n, disturbance) ==
  [k \in 1 .. n |-> ExtCrc!SymDiff(bytes[k], Flips(disturbance, n, k))]

LEMMA InMessage ==
  ASSUME NEW n \in Nat, NEW bytes, bytes \in [1 .. n -> SUBSET (0 .. 7)]
  PROVE  \A x : x \in ExtCrc!Message(bytes) <=>
           \E k \in 1 .. n : x \in Int /\ x - (8 * (n - k) + 16) \in bytes[k]
<1>1. bytes \in Seq(SUBSET (0 .. 7)) /\ Len(bytes) = n /\ DOMAIN bytes = 1 .. n /\ 0 + 1 = 1
  OBVIOUS
<1>2. ExtCrc!Message(bytes) = Unread(bytes, n, 0)
  BY <1>1 DEF Unread, ExtCrc!Message, At
<1>3. \A k \in 1 .. n : bytes[k] \in SUBSET (0 .. 7)
  OBVIOUS
<1>4. \A x : x \in Unread(bytes, n, 0) <=>
        \E k \in (0 + 1) .. n : x \in Int /\ x - (8 * (n - k) + 16) \in bytes[k]
  BY <1>3, InUnread
<1> QED
  BY <1>1, <1>2, <1>4

LEMMA DisturbedMessage ==
  ASSUME NEW n \in Nat, NEW bytes, bytes \in [1 .. n -> SUBSET (0 .. 7)],
         NEW disturbance, disturbance \subseteq 0 .. (8 * n - 1)
  PROVE  /\ Disturbed(bytes, n, disturbance) \in [1 .. n -> SUBSET (0 .. 7)]
         /\ ExtCrc!Message(Disturbed(bytes, n, disturbance)) =
              ExtCrc!SymDiff(ExtCrc!Message(bytes), At(disturbance, 16))
<1> DEFINE new == Disturbed(bytes, n, disturbance)
<1>1. new \in [1 .. n -> SUBSET (0 .. 7)]
  BY DEF Disturbed, Flips, ExtCrc!SymDiff
<1>2. ASSUME NEW x
      PROVE  x \in ExtCrc!Message(new) <=>
               x \in ExtCrc!SymDiff(ExtCrc!Message(bytes), At(disturbance, 16))
  <2>1. x \in ExtCrc!Message(new) <=>
          \E k \in 1 .. n : x \in Int /\ x - (8 * (n - k) + 16) \in new[k]
    BY <1>1, InMessage
  <2>2. x \in ExtCrc!Message(bytes) <=>
          \E k \in 1 .. n : x \in Int /\ x - (8 * (n - k) + 16) \in bytes[k]
    BY InMessage
  <2>3. x \in At(disturbance, 16) <=> x \in Int /\ x - 16 \in disturbance
    <3>1. disturbance \subseteq Int /\ 16 \in Int
      OBVIOUS
    <3> QED
      BY <3>1, InAt
  <2>4. \A k \in 1 .. n : x \in Int => (x - (8 * (n - k) + 16) \in new[k] <=>
          /\ x - (8 * (n - k) + 16) \in 0 .. 7
          /\ ((x - (8 * (n - k) + 16) \in bytes[k]) # (x - 16 \in disturbance)))
    <3>1. TAKE k \in 1 .. n
    <3> DEFINE y == x - (8 * (n - k) + 16)
    <3>2. HAVE x \in Int
    <3>3. y \in Int /\ 8 * (n - k) + y = x - 16
      BY <3>2
    <3>4. bytes[k] \subseteq 0 .. 7
      OBVIOUS
    <3>5. y \in new[k] <=> ((y \in bytes[k]) # (y \in Flips(disturbance, n, k)))
      BY InSymDiff DEF Disturbed
    <3> HIDE DEF y
    <3>6. y \in Flips(disturbance, n, k) <=> y \in 0 .. 7 /\ x - 16 \in disturbance
      BY <3>3 DEF Flips
    <3>7. y \in new[k] <=> y \in 0 .. 7 /\ ((y \in bytes[k]) # (x - 16 \in disturbance))
      BY <3>4, <3>5, <3>6
    <3> QED
      BY <3>7 DEF y
  <2>5. CASE x \notin Int
    BY <2>1, <2>2, <2>3, <2>5, InSymDiff
  <2>6. CASE x \in Int /\ ~(x - 16 \in 0 .. (8 * n - 1))
    <3>1. \A k \in 1 .. n : x - (8 * (n - k) + 16) \notin 0 .. 7
      BY <2>6
    <3>2. \A k \in 1 .. n : bytes[k] \subseteq 0 .. 7
      OBVIOUS
    <3>3. x - 16 \notin disturbance
      BY <2>6
    <3> HIDE DEF new
    <3> QED
      BY <2>1, <2>2, <2>3, <2>4, <2>6, <3>1, <3>2, <3>3, InSymDiff
  <2>7. CASE x \in Int /\ x - 16 \in 0 .. (8 * n - 1)
    <3> DEFINE k == n - ((x - 16) \div 8)
    <3>1. k \in 1 .. n /\ x - (8 * (n - k) + 16) \in 0 .. 7
      <4>1. x - 16 \in Nat /\ x - 16 < 8 * n
        BY <2>7
      <4>2. \A z \in Nat : z \div 8 \in Nat /\ 8 * (z \div 8) <= z /\ z < 8 * (z \div 8) + 8
        OBVIOUS
      <4>3. /\ (x - 16) \div 8 \in Nat /\ 8 * ((x - 16) \div 8) <= x - 16
            /\ x - 16 < 8 * ((x - 16) \div 8) + 8
        BY <4>1, <4>2
      <4> DEFINE q == (x - 16) \div 8
      <4> HIDE DEF q
      <4>4. q \in Nat /\ 8 * q <= x - 16 /\ x - 16 < 8 * q + 8 /\ k = n - q
        BY <4>3 DEF q
      <4> HIDE DEF k
      <4> QED
        BY <2>7, <4>1, <4>4
    <3> HIDE DEF k
    <3>2. \A j \in 1 .. n : x - (8 * (n - j) + 16) \in 0 .. 7 => j = k
      BY <2>7, <3>1
    <3>3. \A j \in 1 .. n : bytes[j] \subseteq 0 .. 7 /\ new[j] \subseteq 0 .. 7
      BY <1>1
    <3> HIDE DEF new
    <3>4. x \in ExtCrc!Message(new) <=> x - (8 * (n - k) + 16) \in new[k]
      BY <2>1, <2>7, <3>1, <3>2, <3>3
    <3>5. x \in ExtCrc!Message(bytes) <=> x - (8 * (n - k) + 16) \in bytes[k]
      BY <2>2, <2>7, <3>1, <3>2, <3>3
    <3>6. x - (8 * (n - k) + 16) \in new[k] <=>
            ((x - (8 * (n - k) + 16) \in bytes[k]) # (x - 16 \in disturbance))
      BY <2>4, <2>7, <3>1
    <3> QED
      BY <2>3, <2>7, <3>4, <3>5, <3>6, InSymDiff
  <2> QED
    BY <2>5, <2>6, <2>7
<1>3. ExtCrc!Message(new) = ExtCrc!SymDiff(ExtCrc!Message(bytes), At(disturbance, 16))
  BY <1>2
<1> QED
  BY <1>1, <1>3

(* Bits turned over, within sixteen neighbouring ones.                     *)
IsBurst(disturbance, n) ==
  /\ disturbance # {} /\ disturbance \subseteq 0 .. (8 * n - 1)
  /\ \A x \in disturbance, y \in disturbance : x - y <= 15

LEMMA BurstChangesCrc ==
  ASSUME NEW n \in Nat, NEW bytes, bytes \in [1 .. n -> SUBSET (0 .. 7)],
         NEW disturbance, IsBurst(disturbance, n)
  PROVE  ExtCrc!g_CRC_calc(Disturbed(bytes, n, disturbance)) # ExtCrc!g_CRC_calc(bytes)
<1> DEFINE new == Disturbed(bytes, n, disturbance)
           q == At(disturbance, 16)
<1>0. disturbance # {} /\ disturbance \subseteq 0 .. (8 * n - 1)
      /\ \A x \in disturbance, y \in disturbance : x - y <= 15
  BY DEF IsBurst
<1>1. /\ new \in [1 .. n -> SUBSET (0 .. 7)]
      /\ ExtCrc!Message(new) = ExtCrc!SymDiff(ExtCrc!Message(bytes), q)
  BY <1>0, DisturbedMessage
<1>2. Dividend(new, n) = ExtCrc!SymDiff(Dividend(bytes, n), q)
  <2> HIDE DEF q, new
  <2> QED
    BY <1>1 DEF Dividend, ExtCrc!SymDiff
<1>3. Narrow(q, 8 * n + 15)
  <2>1. \A x : x \in q <=> x \in Int /\ x - 16 \in disturbance
    <3>1. disturbance \subseteq Int /\ 16 \in Int
      BY <1>0
    <3> QED
      BY <3>1, InAt
  <2>2. q # {}
    BY <1>0 DEF At
  <2> HIDE DEF q
  <2>3. \A x \in q : x \in 0 .. (8 * n + 15)
    BY <1>0, <2>1
  <2>4. \A x \in q, y \in q : x - y <= 15
    <3>1. TAKE x \in q, y \in q
    <3>2. x \in Int /\ y \in Int /\ (x - 16) - (y - 16) <= 15
      BY <1>0, <2>1
    <3> QED
      BY <3>2
  <2> QED
    BY <2>2, <2>3, <2>4 DEF Narrow
<1> DEFINE old == Division(Dividend(bytes, n), n, 8 * n)
           difference == Division(q, n, 8 * n)
<1>4. ExtCrc!g_CRC_calc(bytes) = old
  BY CrcIsRemainder
<1>5. ExtCrc!g_CRC_calc(new) = Division(Dividend(new, n), n, 8 * n)
  <2> HIDE DEF new
  <2> QED
    BY <1>1, CrcIsRemainder
<1>6. Division(Dividend(new, n), n, 8 * n) = ExtCrc!SymDiff(old, difference)
  <2>1. 8 * n \in Nat
    OBVIOUS
  <2> QED
    BY <1>2, <2>1, DivisionOfSum
<1>7. difference # {}
  BY <1>3, NarrowRemains
<1>8. ExtCrc!SymDiff(old, difference) # old
  <2> HIDE DEF old, difference
  <2>1. PICK x : x \in difference
    BY <1>7
  <2>2. (x \in ExtCrc!SymDiff(old, difference)) # (x \in old)
    BY <2>1, InSymDiff
  <2> QED
    BY <2>2
<1> QED
  BY <1>4, <1>5, <1>6, <1>8

-----------------------------------------------------------------------------
(* What calculate_flash_crc was asked to read.                             *)
Asked == [k \in 1 .. size |-> flash[start + k - 1]]

(* The chunks so far and the CRC of them.                                  *)
ChunkInv ==
  /\ flash \in [0 .. (FlashSize - 1) -> SUBSET (0 .. 7)]
  /\ crcPc \in {"idle", "reading", "done"}
  /\ crcPc # "idle" =>
       /\ start \in Nat /\ size \in Nat /\ start + size <= FlashSize
       /\ remaining \in 0 .. size
       /\ addr = start + (size - remaining)
       /\ crc = Register(Asked, size - remaining)
  /\ crcPc = "done" => remaining = 0

(* What was read before differs from what is there now by a burst.         *)
BeforeInv ==
  crcBefore # <<>> =>
    /\ crcPc # "idle"
    /\ \E old \in [1 .. size -> SUBSET (0 .. 7)], disturbance \in SUBSET (0 .. (8 * size - 1)) :
         /\ IsBurst(disturbance, size)
         /\ Asked = Disturbed(old, size, disturbance)
         /\ crcBefore = <<ExtCrc!g_CRC_calc(old)>>

CrcInv == ChunkInv /\ BeforeInv

LEMMA CrcConstants ==
  /\ {} \in Byte /\ \A byte \in Byte : byte \subseteq 0 .. 7
  /\ FlashSize \in Nat /\ CHUNK_SIZE \in Nat \ {0}
  /\ \A burst \in Bursts : burst # {} /\ burst \subseteq 0 .. 15
BY DriversAssumption DEF DriversAssumption, ExtCrc!CrcAssumption

LEMMA AskedType ==
  ASSUME ChunkInv, crcPc # "idle"
  PROVE  Asked \in [1 .. size -> SUBSET (0 .. 7)]
<1>1. \A k \in 1 .. size : start + k - 1 \in 0 .. (FlashSize - 1)
  BY CrcConstants DEF ChunkInv
<1> QED
  BY <1>1 DEF Asked, ChunkInv

LEMMA CrcInit == ExtCrc!Init => CrcInv
<1> SUFFICES ASSUME ExtCrc!Init PROVE CrcInv
  OBVIOUS
<1>1. flash \in [0 .. (FlashSize - 1) -> SUBSET (0 .. 7)]
  BY CrcConstants DEF ExtCrc!Init
<1> QED
  BY <1>1 DEF ExtCrc!Init, CrcInv, ChunkInv, BeforeInv

LEMMA CallCrc ==
  ASSUME CrcInv, NEW first \in 0 .. FlashSize, NEW count \in 0 .. FlashSize,
         first + count <= FlashSize, ExtCrc!Call(first, count)
  PROVE  CrcInv'
<1>1. /\ crcPc = "idle" /\ crcPc' = "reading"
      /\ start' = first /\ size' = count /\ addr' = first /\ remaining' = count
      /\ crc' = 0 .. 15 /\ flash' = flash /\ crcBefore' = crcBefore
  BY DEF ExtCrc!Call
<1>2. crcBefore = <<>>
  BY <1>1 DEF CrcInv, BeforeInv
<1>3. crc' = Register(Asked', size' - remaining')
  <2>1. size' - remaining' = 0
    BY <1>1, CrcConstants
  <2>2. Register(Asked', 0) = 0 .. 15
    BY Bytes!FoldNothing DEF Register
  <2> QED
    BY <1>1, <2>1, <2>2
<1>4. /\ start' \in Nat /\ size' \in Nat /\ start' + size' <= FlashSize
      /\ remaining' \in 0 .. size' /\ addr' = start' + (size' - remaining')
  BY <1>1, CrcConstants
<1>5. ChunkInv'
  BY <1>1, <1>3, <1>4 DEF CrcInv, ChunkInv
<1>6. BeforeInv'
  BY <1>1, <1>2 DEF BeforeInv
<1> QED
  BY <1>5, <1>6 DEF CrcInv

LEMMA ChunkStep ==
  ASSUME CrcInv, ExtCrc!NextChunk
  PROVE  CrcInv'
<1> DEFINE n == ExtCrc!ChunkSize(remaining)
           i == size - remaining
           chunk == ExtCrc!SubSeq(buffer', 1, n)
<1>1. /\ crcPc = "reading" /\ remaining > 0 /\ crcPc' = crcPc
      /\ flash' = flash /\ start' = start /\ size' = size /\ crcBefore' = crcBefore
      /\ addr' = addr + n /\ remaining' = remaining - n
      /\ crc' = ExtCrc!g_CRC_calc_continue(chunk, crc)
      /\ buffer' = [k \in 1 .. CHUNK_SIZE |->
                      IF k <= n /\ addr + (k - 1) \in DOMAIN flash
                        THEN flash[addr + (k - 1)] ELSE buffer[k]]
  BY DEF ExtCrc!NextChunk
<1>2. /\ flash \in [0 .. (FlashSize - 1) -> SUBSET (0 .. 7)]
      /\ start \in Nat /\ size \in Nat /\ start + size <= FlashSize
      /\ remaining \in 0 .. size /\ addr = start + i
      /\ crc = Register(Asked, i)
  BY <1>1 DEF CrcInv, ChunkInv
<1>3. n \in Nat /\ n <= CHUNK_SIZE /\ n <= remaining
  BY <1>1, <1>2, CrcConstants DEF ExtCrc!ChunkSize
<1> HIDE DEF n
<1>4. DOMAIN chunk = 1 .. n /\ \A k \in 1 .. n : chunk[k] = Asked[i + k]
  <2>1. chunk = [k \in 1 .. n |-> buffer'[k]]
    <3>1. 1 + n - 1 = n /\ \A k \in 1 .. n : k + 1 - 1 = k
      BY <1>3
    <3> QED
      BY <1>3, <3>1
  <2>2. ASSUME NEW k \in 1 .. n
        PROVE  buffer'[k] = Asked[i + k]
    <3>1. /\ k \in 1 .. CHUNK_SIZE /\ k <= n
          /\ addr + (k - 1) \in 0 .. (FlashSize - 1)
          /\ i + k \in 1 .. size /\ addr + (k - 1) = start + (i + k) - 1
      BY <1>1, <1>2, <1>3, CrcConstants
    <3>2. buffer'[k] = flash[addr + (k - 1)]
      BY <1>1, <1>2, <3>1
    <3> QED
      BY <3>1, <3>2 DEF Asked
  <2> QED
    BY <2>1, <2>2
<1>5. crc' = Register(Asked, i + n)
  <2>1. i \in Nat
    BY <1>2
  <2> HIDE DEF chunk, i
  <2>2. crc' = Bytes!Fold(crc, chunk, n)
    BY <1>1, <1>3, <1>4, BytesFold
  <2>3. Bytes!Fold(0 .. 15, Asked, i + n) = Bytes!Fold(Bytes!Fold(0 .. 15, Asked, i), chunk, n)
    <3>1. \A k \in 1 .. n : Asked[i + k] = chunk[k]
      BY <1>4
    <3>2. \A k \in 1 .. i : Asked[k] = Asked[k]
      OBVIOUS
    <3> HIDE DEF Asked
    <3> QED
      BY <1>3, <2>1, <3>1, <3>2, Bytes!FoldConcat
  <2> QED
    BY <1>2, <2>2, <2>3 DEF Register
<1>6. Asked' = Asked
  BY <1>1 DEF Asked
<1>7. /\ remaining' \in 0 .. size /\ addr' = start + (size - remaining')
      /\ size - remaining' = i + n
  BY <1>1, <1>2, <1>3
<1>8. ChunkInv'
  BY <1>1, <1>2, <1>5, <1>6, <1>7 DEF ChunkInv
<1>9. BeforeInv'
  BY <1>1, <1>6 DEF CrcInv, BeforeInv
<1> QED
  BY <1>8, <1>9 DEF CrcInv

LEMMA ReturnStep ==
  ASSUME CrcInv, ExtCrc!Return
  PROVE  CrcInv'
<1>1. /\ crcPc = "reading" /\ ~(remaining > 0) /\ crcPc' = "done"
      /\ UNCHANGED <<flash, start, size, addr, remaining, crc, crcBefore>>
  BY DEF ExtCrc!Return
<1>2. Asked' = Asked
  BY <1>1 DEF Asked
<1>3. remaining = 0
  BY <1>1 DEF CrcInv, ChunkInv
<1>4. ChunkInv'
  BY <1>1, <1>2, <1>3 DEF CrcInv, ChunkInv
<1>5. BeforeInv'
  BY <1>1, <1>2 DEF CrcInv, BeforeInv
<1> QED
  BY <1>4, <1>5 DEF CrcInv

LEMMA DisturbStep ==
  ASSUME CrcInv, ExtCrc!Disturb
  PROVE  CrcInv'
<1>1. /\ crcPc = "done" /\ crcBefore = <<>> /\ crcPc' = "reading" /\ crcBefore' = <<crc>>
      /\ addr' = start /\ remaining' = size /\ crc' = 0 .. 15
      /\ start' = start /\ size' = size
  BY DEF ExtCrc!Disturb
<1>2. PICK lowest \in 0 .. (8 * size - 1), burst \in Bursts :
        LET disturbance == {lowest + k : k \in burst}
        IN /\ disturbance \subseteq 0 .. (8 * size - 1)
           /\ flash' = [a \in DOMAIN flash |->
                IF a \in start .. (start + size - 1)
                  THEN ExtCrc!SymDiff(flash[a], ExtCrc!BitsOf(a, disturbance))
                  ELSE flash[a]]
  BY DEF ExtCrc!Disturb
<1> DEFINE disturbance == {lowest + k : k \in burst}
<1>3. /\ flash \in [0 .. (FlashSize - 1) -> SUBSET (0 .. 7)]
      /\ start \in Nat /\ size \in Nat /\ start + size <= FlashSize
      /\ remaining = 0 /\ crc = Register(Asked, size)
  <2>1. /\ flash \in [0 .. (FlashSize - 1) -> SUBSET (0 .. 7)]
        /\ start \in Nat /\ size \in Nat /\ start + size <= FlashSize
        /\ remaining = 0 /\ crc = Register(Asked, size - remaining)
    BY <1>1 DEF CrcInv, ChunkInv
  <2>2. size - remaining = size
    BY <2>1
  <2> QED
    BY <2>1, <2>2
<1>4. flash' \in [0 .. (FlashSize - 1) -> SUBSET (0 .. 7)]
  BY <1>2, <1>3 DEF ExtCrc!BitsOf, ExtCrc!SymDiff
<1>5. IsBurst(disturbance, size)
  <2>1. burst # {} /\ burst \subseteq 0 .. 15
    BY CrcConstants
  <2>2. disturbance # {} /\ disturbance \subseteq 0 .. (8 * size - 1)
    BY <1>2, <2>1
  <2>3. \A x \in disturbance, y \in disturbance : x - y <= 15
    <3>1. TAKE x \in disturbance, y \in disturbance
    <3>2. PICK j \in burst, k \in burst : x = lowest + j /\ y = lowest + k
      BY DEF disturbance
    <3>3. lowest \in Int /\ j \in 0 .. 15 /\ k \in 0 .. 15
      BY <1>3, <2>1
    <3> HIDE DEF disturbance
    <3> QED
      BY <3>2, <3>3
  <2> QED
    BY <2>2, <2>3 DEF IsBurst
<1> HIDE DEF disturbance
<1>6. Asked' = Disturbed(Asked, size, disturbance)
  <2>1. ASSUME NEW k \in 1 .. size
        PROVE  flash'[start + k - 1] =
                 ExtCrc!SymDiff(Asked[k], Flips(disturbance, size, k))
    <3> DEFINE a == start + k - 1
    <3>1. /\ a \in 0 .. (FlashSize - 1) /\ a \in start .. (start + size - 1)
          /\ start + size - 1 - a = size - k
      BY <1>3, CrcConstants
    <3>2. flash'[a] = ExtCrc!SymDiff(flash[a], ExtCrc!BitsOf(a, disturbance))
      BY <1>2, <1>3, <3>1 DEF disturbance
    <3>3. ExtCrc!BitsOf(a, disturbance) = Flips(disturbance, size, k)
      BY <3>1 DEF ExtCrc!BitsOf, Flips
    <3> QED
      BY <3>2, <3>3 DEF Asked
  <2>2. Asked' = [k \in 1 .. size |-> flash'[start + k - 1]]
    BY <1>1 DEF Asked
  <2> QED
    BY <2>1, <2>2 DEF Disturbed
<1>7. Asked \in [1 .. size -> SUBSET (0 .. 7)]
  BY <1>1, AskedType DEF CrcInv
<1>8. crcBefore' = <<ExtCrc!g_CRC_calc(Asked)>>
  BY <1>1, <1>3, <1>7, CrcIsRemainder
<1>9. crc' = Register(Asked', size' - remaining')
  <2>1. size' - remaining' = 0
    BY <1>1, <1>3
  <2>2. Register(Asked', 0) = 0 .. 15
    BY Bytes!FoldNothing DEF Register
  <2> QED
    BY <1>1, <2>1, <2>2
<1>10. ChunkInv'
  <2>1. /\ start' \in Nat /\ size' \in Nat /\ start' + size' <= FlashSize
        /\ remaining' \in 0 .. size' /\ addr' = start' + (size' - remaining')
    BY <1>1, <1>3
  <2> QED
    BY <1>1, <1>4, <1>9, <2>1 DEF ChunkInv
<1>11. BeforeInv'
  <2>1. disturbance \in SUBSET (0 .. (8 * size - 1))
    BY <1>5 DEF IsBurst
  <2>2. crcPc' # "idle" /\ size' = size
    BY <1>1
  <2> QED
    BY <1>5, <1>6, <1>7, <1>8, <2>1, <2>2 DEF BeforeInv
<1> QED
  BY <1>10, <1>11 DEF CrcInv

LEMMA CrcNext == CrcInv /\ ExtCrc!Next => CrcInv'
BY CallCrc, ChunkStep, ReturnStep, DisturbStep DEF ExtCrc!Next

LEMMA CrcRight ==
  ASSUME CrcInv
  PROVE  FlashCrcIsRemainder /\ BurstIsNoticed
<1> SUFFICES ASSUME crcPc = "done"
             PROVE  /\ crc = ExtCrc!g_CRC_calc(Asked) /\ crc = ExtCrc!CrcOf(Asked)
                    /\ crcBefore # <<crc>>
  BY DEF FlashCrcIsRemainder, BurstIsNoticed, ExtCrc!FlashCrcIsRemainder,
         ExtCrc!BurstIsNoticed, Asked
<1>1. size \in Nat /\ remaining = 0 /\ crc = Register(Asked, size - remaining)
  BY DEF CrcInv, ChunkInv
<1>2. Asked \in [1 .. size -> SUBSET (0 .. 7)]
  BY AskedType DEF CrcInv
<1>3. size - remaining = size
  BY <1>1
<1>4. crc = ExtCrc!g_CRC_calc(Asked) /\ crc = ExtCrc!CrcOf(Asked)
  BY <1>1, <1>2, <1>3, CrcIsRemainder
<1>5. CASE crcBefore = <<>>
  BY <1>4, <1>5
<1>6. CASE crcBefore # <<>>
  <2>1. PICK old \in [1 .. size -> SUBSET (0 .. 7)], disturbance \in SUBSET (0 .. (8 * size - 1)) :
          /\ IsBurst(disturbance, size)
          /\ Asked = Disturbed(old, size, disturbance)
          /\ crcBefore = <<ExtCrc!g_CRC_calc(old)>>
    BY <1>6 DEF CrcInv, BeforeInv
  <2>2. ExtCrc!g_CRC_calc(Asked) # ExtCrc!g_CRC_calc(old)
    BY <1>1, <2>1, BurstChangesCrc
  <2> QED
    BY <1>4, <2>1, <2>2
<1> QED
  BY <1>4, <1>5, <1>6

-----------------------------------------------------------------------------
(* The flash driver.  FlashP is the instance FlashDriver_proof is about,   *)
(* Flash the one of Drivers: their definitions are the same.               *)

FlashP == INSTANCE FlashDriver_proof WITH pc <- flashPc, before <- flashBefore

LEMMA SameAssumption == FlashP!FlashAssumption
<1>1. Flash!FlashAssumption
  BY DriversAssumption
<1> QED
  BY <1>1 DEF Flash!FlashAssumption, FlashP!FlashAssumption

LEMMA SameInit == Flash!Init <=> FlashP!Init
BY DEF Flash!Init, FlashP!Init, Flash!Addr, FlashP!Addr, Flash!NoLines, FlashP!NoLines,
       Flash!Visible, FlashP!Visible, Flash!View, FlashP!View

LEMMA SameView == Flash!View = FlashP!View /\ Flash!Visible = FlashP!Visible
BY DEF Flash!Visible, FlashP!Visible, Flash!View, FlashP!View, Flash!Addr, FlashP!Addr

LEMMA SameNext == Flash!Next => FlashP!Next
<1> USE DEF Flash!Addr, FlashP!Addr, Flash!PageOf, FlashP!PageOf, Flash!cache, FlashP!cache,
            Flash!caller, FlashP!caller
<1>1. ASSUME NEW a \in Flash!Addr, Flash!Read(a)
      PROVE  FlashP!Read(a)
  BY <1>1, SameView DEF Flash!Read, FlashP!Read
<1>2. ASSUME NEW o, Flash!Call(o)
      PROVE  FlashP!Call(o)
  BY <1>2, SameView DEF Flash!Call, FlashP!Call
<1>3. Flash!Begin => FlashP!Begin
  BY DEF Flash!Begin, FlashP!Begin, Flash!WaitForLastOperation, FlashP!WaitForLastOperation
<1>4. Flash!FLASH_Program_DoubleWord => FlashP!FLASH_Program_DoubleWord
  BY DEF Flash!FLASH_Program_DoubleWord, FlashP!FLASH_Program_DoubleWord,
         Flash!Operated, FlashP!Operated, Flash!Programmable, FlashP!Programmable
<1>5. Flash!FLASH_PageErase => FlashP!FLASH_PageErase
  BY DEF Flash!FLASH_PageErase, FlashP!FLASH_PageErase, Flash!Operated, FlashP!Operated
<1>6. Flash!Finish => FlashP!Finish
  BY DEF Flash!Finish, FlashP!Finish, Flash!WaitForLastOperation, FlashP!WaitForLastOperation
<1>7. Flash!FLASH_FlushCaches => FlashP!FLASH_FlushCaches
  BY DEF Flash!FLASH_FlushCaches, FlashP!FLASH_FlushCaches, Flash!NoLines, FlashP!NoLines
<1> QED
  BY <1>1, <1>2, <1>3, <1>4, <1>5, <1>6, <1>7 DEF Flash!Next, FlashP!Next

LEMMA SameSeen == Flash!Seen = FlashP!Seen /\ Flash!Seen' = FlashP!Seen'
BY DEF Flash!Seen, FlashP!Seen, Flash!Visible, FlashP!Visible, Flash!View, FlashP!View,
       Flash!Addr, FlashP!Addr

LEMMA SamePromise ==
  /\ FlashP!Promise!Init => Flash!Promise!Init
  /\ [FlashP!Promise!Next]_(FlashP!Promise!vars) => [Flash!Promise!Next]_(Flash!Promise!vars)
<1>1. FlashP!Promise!Init => Flash!Promise!Init
  BY SameSeen DEF Flash!Promise!Init, FlashP!Promise!Init, Flash!Promise!Addr, FlashP!Promise!Addr
<1>2. Flash!Promise!vars = FlashP!Promise!vars /\ Flash!Promise!vars' = FlashP!Promise!vars'
  BY SameSeen DEF Flash!Promise!vars, FlashP!Promise!vars
<1>3. FlashP!Promise!Next => Flash!Promise!Next
  <2> USE SameSeen
      DEF Flash!Promise!Addr, FlashP!Promise!Addr, Flash!Promise!PageOf, FlashP!Promise!PageOf,
          Flash!Promise!Programmable, FlashP!Promise!Programmable
  <2>1. ASSUME NEW a, NEW d, FlashP!Promise!ProgramOk(a, d)
        PROVE  Flash!Promise!ProgramOk(a, d)
    BY <2>1 DEF Flash!Promise!ProgramOk, FlashP!Promise!ProgramOk
  <2>2. ASSUME NEW a, NEW d, FlashP!Promise!ProgramError(a, d)
        PROVE  Flash!Promise!ProgramError(a, d)
    BY <2>2 DEF Flash!Promise!ProgramError, FlashP!Promise!ProgramError
  <2>3. ASSUME NEW first, NEW n, FlashP!Promise!EraseOk(first, n)
        PROVE  Flash!Promise!EraseOk(first, n)
    BY <2>3 DEF Flash!Promise!EraseOk, FlashP!Promise!EraseOk
  <2>4. ASSUME NEW first, NEW n, FlashP!Promise!EraseError(first, n)
        PROVE  Flash!Promise!EraseError(first, n)
    BY <2>4 DEF Flash!Promise!EraseError, FlashP!Promise!EraseError,
                Flash!Promise!ErasedUpTo, FlashP!Promise!ErasedUpTo
  <2>5. FlashP!Promise!EraseRefused => Flash!Promise!EraseRefused
    BY DEF Flash!Promise!EraseRefused, FlashP!Promise!EraseRefused
  <2> QED
    BY <2>1, <2>2, <2>3, <2>4, <2>5 DEF Flash!Promise!Next, FlashP!Promise!Next
<1> QED
  BY <1>1, <1>2, <1>3

-----------------------------------------------------------------------------
(* A step of Drivers is a step of one part, and leaves the others alone.   *)

LEMMA JumpHolds == Spec => []JumpInv
<1>1. Init => JumpInv
  BY JumpInit DEF Init
<1>2. JumpInv /\ [Next]_vars => JumpInv'
  <2> SUFFICES ASSUME JumpInv, [Next]_vars PROVE JumpInv'
    OBVIOUS
  <2>1. CASE Leave
    BY <2>1, JumpNext DEF Leave
  <2>2. CASE UNCHANGED processor
    BY <2>2 DEF processor, JumpInv, Sources
  <2> QED
    BY <2>1, <2>2 DEF Next, Sweep, Measure, Operate, Communicate, vars
<1> QED
  BY <1>1, <1>2, PTL DEF Spec

LEMMA UsbHolds == Spec => []UsbInv
<1>1. Init => UsbInv
  BY UsbInit DEF Init
<1>2. UsbInv /\ [Next]_vars => UsbInv'
  <2> SUFFICES ASSUME UsbInv, [Next]_vars PROVE UsbInv'
    OBVIOUS
  <2>1. CASE Communicate
    BY <2>1, UsbNext DEF Communicate
  <2>2. CASE UNCHANGED usb
    BY <2>2 DEF usb, UsbInv, UsbTypeInv, HandlerTypeInv, SuspendInv, ClassInv, ReceiverInv, TransmitterInv,
                Awake, UnderWay, Holds
  <2> QED
    BY <2>1, <2>2 DEF Next, Sweep, Measure, Operate, Leave, Others, vars
<1> QED
  BY <1>1, <1>2, PTL DEF Spec

LEMMA AdcHolds == RxFifo = 2 => (Spec => []AdcInv)
<1> SUFFICES ASSUME RxFifo = 2 PROVE Spec => []AdcInv
  OBVIOUS
<1>1. Init => AdcInv
  BY AdcInit DEF Init
<1>2. AdcInv /\ [Next]_vars => AdcInv'
  <2> SUFFICES ASSUME AdcInv, [Next]_vars PROVE AdcInv'
    OBVIOUS
  <2>1. CASE Sweep
    BY <2>1, AdcNext DEF Sweep
  <2>2. CASE UNCHANGED adc
    BY <2>2 DEF adc, AdcInv, Adc!TypeOK, Adc!EveryVoltageSwept, SweepInv, SpiInv, FifoInv,
                Waiting, Lead, Shifted, Sent, InCall, Now, Looks
  <2> QED
    BY <2>1, <2>2 DEF Next, Measure, Operate, Communicate, Leave, Others, vars
<1> QED
  BY <1>1, <1>2, PTL DEF Spec

LEMMA KeptHolds == Spec => []KeptInv
<1>1. Init => KeptInv
  BY KeptInit DEF Init
<1>2. KeptInv /\ [Next]_vars => KeptInv'
  <2> SUFFICES ASSUME KeptInv, [Next]_vars PROVE KeptInv'
    OBVIOUS
  <2>1. CASE Sweep
    BY <2>1, KeptNext DEF Sweep
  <2>2. CASE UNCHANGED adc
    BY <2>2 DEF adc, KeptInv, Adc!InternalValueKept
  <2> QED
    BY <2>1, <2>2 DEF Next, Measure, Operate, Communicate, Leave, Others, vars
<1> QED
  BY <1>1, <1>2, PTL DEF Spec

LEMMA CrcHolds == Spec => []CrcInv
<1>1. Init => CrcInv
  BY CrcInit DEF Init
<1>2. CrcInv /\ [Next]_vars => CrcInv'
  <2> SUFFICES ASSUME CrcInv, [Next]_vars PROVE CrcInv'
    OBVIOUS
  <2>1. CASE Measure
    BY <2>1, CrcNext DEF Measure
  <2>2. CASE UNCHANGED extCrc
    BY <2>2 DEF extCrc, CrcInv, ChunkInv, BeforeInv, Asked
  <2> QED
    BY <2>1, <2>2 DEF Next, Sweep, Operate, Communicate, Leave, Others, vars
<1> QED
  BY <1>1, <1>2, PTL DEF Spec

LEMMA FlashHolds == Spec => FlashP!Spec
<1>1. Init => FlashP!Init
  BY SameInit DEF Init
<1>2. [Next]_vars => [FlashP!Next]_(FlashP!vars)
  <2> SUFFICES ASSUME [Next]_vars PROVE [FlashP!Next]_(FlashP!vars)
    OBVIOUS
  <2>1. CASE Operate
    BY <2>1, SameNext DEF Operate
  <2>2. CASE UNCHANGED driver
    BY <2>2 DEF driver, FlashP!vars, FlashP!cache, FlashP!caller
  <2> QED
    BY <2>1, <2>2 DEF Next, Sweep, Measure, Communicate, Leave, Others, vars
<1> QED
  BY <1>1, <1>2, PTL DEF Spec, FlashP!Spec

-----------------------------------------------------------------------------

(* The application finds every source of an interrupt turned off, its      *)
(* exception disabled and its latch cleared, whatever was ready, pending   *)
(* or served on the way (main.c:1381); SysTick's latch is the one that may *)
(* be left.                                                                *)
THEOREM HandoverCorrect == Spec => []NothingLeftBehind
<1>1. JumpInv => NothingLeftBehind
  BY DEF JumpInv, Sources, ToTheClock, ClockReset, ToTheJump, NothingLeftBehind,
         Jump!NothingLeftBehind
<1> QED
  BY <1>1, JumpHolds, PTL

(* However suspensions, wake-ups and resets follow each other, the device  *)
(* does not stay suspended on a bus that is not (stm32l4xx_hal_pcd.c:1299). *)
THEOREM AwakeCorrect == Spec => []AwakeWithTheBus
<1>1. UsbInv => AwakeWithTheBus
  BY DEF UsbInv, UsbTypeInv, SuspendInv, AwakeWithTheBus, Usb!AwakeWithTheBus, Usb!AllServed,
         Usb!Quiet
<1> QED
  BY <1>1, UsbHolds, PTL

(* A configured device has its OUT endpoint open, and enabled unless a     *)
(* suspension was served between the data and the end of a transfer, which *)
(* USBD_LL_DataOutStage then dropped (usbd_core.c:655).                    *)
THEOREM ReceiverCorrect == Spec => []ReceiverLostOnlyIfCutOff
<1>1. UsbInv => ReceiverLostOnlyIfCutOff
  BY DEF UsbInv, UsbTypeInv, ClassInv, ReceiverInv, Awake, UnderWay, ReceiverLostOnlyIfCutOff,
         Usb!ReceiverLostOnlyIfCutOff, Usb!Configured, Usb!AllServed, Usb!Quiet
<1> QED
  BY <1>1, UsbHolds, PTL

(* TxState says whether a reply is to be read, wherever in CDC_Transmit_FS *)
(* the interrupts come (usbd_cdc_if.c:337).                                *)
THEOREM TransmitterCorrect == Spec => []TransmitterMatchesEndpoint
<1>1. UsbInv => TransmitterMatchesEndpoint
  BY DEF UsbInv, UsbTypeInv, ClassInv, TransmitterInv, Awake, Holds,
         TransmitterMatchesEndpoint, Usb!TransmitterMatchesEndpoint, Usb!Configured,
         Usb!AllServed, Usb!Quiet
<1> QED
  BY <1>1, UsbHolds, PTL

(* The transfers of a sweep do not overrun what the peripheral queues, and *)
(* nothing is written beyond the array of voltages, for a receive FIFO of  *)
(* two frames (32 bits) and any number of channels.                        *)
THEOREM SweepTypesCorrect == RxFifo = 2 => (Spec => []SweepTypeOK)
<1>1. AdcInv => SweepTypeOK
  BY DEF AdcInv, SweepTypeOK
<1> QED
  BY <1>1, AdcHolds, PTL

(* However late the answers come and whatever is lost, every voltage       *)
(* postCheck compares was converted in this sweep (Post.c:262): the sweep  *)
(* of one channel more than there are voltages makes up for being behind.  *)
THEOREM SweepCorrect == RxFifo = 2 => (Spec => []EveryVoltageSwept)
<1>1. AdcInv => EveryVoltageSwept
  BY DEF AdcInv, EveryVoltageSwept
<1> QED
  BY <1>1, AdcHolds, PTL

(* The measurement of the internal ADC outlives the sweep                  *)
(* (External_ADC.c:102), whatever the size of the FIFO.                    *)
THEOREM InternalValueCorrect == Spec => []InternalValueKept
<1>1. KeptInv => InternalValueKept
  BY DEF KeptInv, InternalValueKept
<1> QED
  BY <1>1, KeptHolds, PTL

(* What calculate_flash_crc returns is the remainder of the bytes it was   *)
(* asked for by x^16 + x^12 + x^5 + 1, for every flash, every chunk size   *)
(* and every length (Post.c:62, main.c:1478).                              *)
THEOREM FlashCrcCorrect == Spec => []FlashCrcIsRemainder
<1>1. CrcInv => FlashCrcIsRemainder
  BY CrcRight
<1> QED
  BY <1>1, CrcHolds, PTL

(* In an image of any length, up to sixteen neighbouring bits turned over  *)
(* change the CRC (Post.c:50, main.c:1485).                                *)
THEOREM BurstCorrect == Spec => []BurstIsNoticed
<1>1. CrcInv => BurstIsNoticed
  BY CrcRight
<1> QED
  BY <1>1, CrcHolds, PTL

(* An operation of the flash that failed does not make the next one fail.  *)
THEOREM FlashErrorsCorrect == Spec => []ErrorsStayWithTheirCall
<1>1. FlashP!Spec => []FlashP!ErrorsStayWithTheirCall
  BY SameAssumption, FlashP!ErrorsCorrect
<1>2. FlashP!ErrorsStayWithTheirCall => ErrorsStayWithTheirCall
  BY DEF FlashP!ErrorsStayWithTheirCall, ErrorsStayWithTheirCall, Flash!ErrorsStayWithTheirCall
<1> QED
  BY <1>1, <1>2, FlashHolds, PTL

(* The flash driver, its error flags and the data cache keep the promise   *)
(* main.c relies on (main.c:218), beside the other parts as alone.         *)
THEOREM FlashRefines == Spec => RefinesFlashPromise
<1>1. FlashP!Spec => FlashP!RefinesFlashPromise
  BY SameAssumption, FlashP!DriverRefines
<1> QED
  BY <1>1, FlashHolds, SamePromise, PTL
     DEF RefinesFlashPromise, Flash!RefinesFlashPromise, FlashP!RefinesFlashPromise,
         Flash!Promise!Spec, FlashP!Promise!Spec
=============================================================================
