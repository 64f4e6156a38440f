------------------------------- MODULE Handover -------------------------------
(***************************************************************************)
(* goto_application and deinit_bootloader_context of Core/Src/main.c: how  *)
(* the bootloader turns off what can interrupt the processor before the    *)
(* application, with its own vector table, takes over.  Bootloader has all *)
(* of this as the one step to pc = "app".                                  *)
(*                                                                         *)
(* A source of interrupts raises its exception while it is on; the NVIC    *)
(* latches it.  Between __disable_irq and __enable_irq none is served, so  *)
(* HAL_GetTick stands still, the timeouts of ADC_ConversionStop and        *)
(* HAL_RCC_DeInit never expire, and a conversion that does not stop or a   *)
(* clock that does not get ready is left to the watchdog.                  *)
(*                                                                         *)
(* KeepsLatches and NoWatchdog are slips in the definition after them.     *)
(***************************************************************************)

Uarts == {"USART1", "USART2"}
Peripherals == Uarts \cup {"OTG_FS", "TIM5"}
Waits == {"adc", "msi", "switch", "pll"}

VARIABLES
  pc,
  PRIMASK,          \* __disable_irq was called
  on,               \* sources that can raise their exception
  enabled,          \* NVIC_ISER
  pending,          \* NVIC_ISPR, and PENDSTSET of SCB_ICSR
  VTOR,             \* whose vector table is in use
  ready,            \* what the HAL waits for and comes true
  early             \* ghost: served with the application's table before its reset handler

irqs == <<on, enabled, pending>>
vars == <<pc, PRIMASK, irqs, VTOR, ready, early>>

(* The TIM5 update that asked for the boot attempt has stopped TIM5.       *)
Init ==
  /\ pc = "start" /\ PRIMASK = FALSE
  /\ on = (Peripherals \ {"TIM5"}) \cup {"SysTick"}
  /\ enabled = Peripherals /\ pending = {}
  /\ VTOR = "bootloader"
  /\ ready \in SUBSET Waits
  /\ early = {}

-----------------------------------------------------------------------------
(* The processor.                                                          *)

Raise(s) ==
  /\ s \in on \ pending /\ pc # "app"
  /\ pending' = pending \cup {s}
  /\ UNCHANGED <<pc, PRIMASK, on, enabled, VTOR, ready, early>>

Serve(s) ==
  /\ ~PRIMASK /\ pc # "app"
  /\ s \in pending \cap (enabled \cup {"SysTick"})
  /\ pending' = pending \ {s}
  /\ early' = IF VTOR = "application" THEN early \cup {s} ELSE early
  /\ UNCHANGED <<pc, PRIMASK, on, enabled, VTOR, ready>>

-----------------------------------------------------------------------------
(* The statements of the two functions that bear on interrupts, in their   *)
(* order.                                                                  *)

Goto(from, to) ==
  /\ pc = from /\ pc' = to
  /\ UNCHANGED <<ready, early>>

StopSysTick(from, to) ==
  /\ Goto(from, to)
  /\ on' = on \ {"SysTick"}
  /\ UNCHANGED <<PRIMASK, enabled, pending, VTOR>>

(* The driver silences the peripheral, its MspDeInit the interrupt; what   *)
(* is latched stays latched.                                               *)
DeInit(from, to, sources) ==
  /\ Goto(from, to)
  /\ on' = on \ sources /\ enabled' = enabled \ sources
  /\ UNCHANGED <<PRIMASK, pending, VTOR>>

DisableIrq ==
  /\ Goto("start", "masked")
  /\ PRIMASK' = TRUE
  /\ UNCHANGED <<irqs, VTOR>>

KeepsLatches ==
  /\ Goto("nvic", "msi")
  /\ enabled' = {} /\ UNCHANGED pending
  /\ UNCHANGED <<PRIMASK, on, VTOR>>
ClearNvic ==
  /\ Goto("nvic", "msi")
  /\ enabled' = {} /\ pending' = pending \ Peripherals
  /\ UNCHANGED <<PRIMASK, on, VTOR>>

Wait(for, to) ==
  /\ for \in ready
  /\ Goto(for, to)
  /\ UNCHANGED <<PRIMASK, irqs, VTOR>>

(* HAL_RCC_DeInit sets up SysTick for the new clock: it runs again.        *)
InitTick ==
  /\ Goto("tick", "switch")
  /\ on' = on \cup {"SysTick"}
  /\ UNCHANGED <<PRIMASK, enabled, pending, VTOR>>

HAL_RCC_DeInit == Wait("msi", "tick") \/ InitTick \/ Wait("switch", "pll") \/ Wait("pll", "again")

(* SCB->ICSR |= PENDSTCLR: with SysTick pending, the value read and        *)
(* written back has PENDSTSET as well; the architecture leaves open which  *)
(* of the two prevails.                                                    *)
ClearPendSt ==
  /\ Goto("icsr", "vtor")
  /\ pending' \in {pending, pending \ {"SysTick"}}
  /\ UNCHANGED <<PRIMASK, on, enabled, VTOR>>

SetVtor ==
  /\ Goto("vtor", "unmask")
  /\ VTOR' = "application"
  /\ UNCHANGED <<PRIMASK, irqs>>

EnableIrq ==
  /\ Goto("unmask", "jump")
  /\ PRIMASK' = FALSE
  /\ UNCHANGED <<irqs, VTOR>>

Jump ==
  /\ Goto("jump", "app")
  /\ UNCHANGED <<PRIMASK, irqs, VTOR>>

goto_application ==
  \/ DisableIrq
  \/ StopSysTick("masked", "usb")
  \/ DeInit("usb", "uarts", {"OTG_FS"})
  \/ DeInit("uarts", "adc", Uarts)
  \/ Wait("adc", "tim5")
  \/ DeInit("tim5", "nvic", {"TIM5"})
  \/ ClearNvic
  \/ HAL_RCC_DeInit
  \/ StopSysTick("again", "icsr")
  \/ ClearPendSt \/ SetVtor \/ EnableIrq \/ Jump

(* The watchdog is not refreshed on the way; a later boot attempt gets     *)
(* here again, and the wait may end then.                                  *)
NoWatchdog == FALSE
WatchdogReset ==
  /\ pc \in Waits /\ pc \notin ready
  /\ pc' = "start" /\ PRIMASK' = FALSE
  /\ on' = (Peripherals \ {"TIM5"}) \cup {"SysTick"}
  /\ enabled' = Peripherals /\ pending' = {}
  /\ VTOR' = "bootloader" /\ early' = {}
  /\ ready' \in SUBSET Waits

Next ==
  \/ goto_application
  \/ \E s \in Peripherals \cup {"SysTick"} : Raise(s) \/ Serve(s)
  \/ WatchdogReset

Spec == Init /\ [][Next]_vars /\ WF_vars(goto_application) /\ WF_vars(WatchdogReset)

-----------------------------------------------------------------------------

(* The application finds no source of interrupts running, none enabled and *)
(* no peripheral interrupt latched from before; the one exception it may   *)
(* have to serve early, or finds latched, is SysTick (main.c:1381).        *)
NothingLeftBehind ==
  pc = "app" => /\ on = {} /\ enabled = {}
                /\ pending \cup early \subseteq {"SysTick"}

(* A processor that runs with the bootloader's interrupts masked and its   *)
(* tick frozen gets out of that state: by the jump or by the watchdog.     *)
HandoverEnds == []<>(pc \in {"app", "start"})
=============================================================================
