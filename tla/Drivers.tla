-------------------------------- MODULE Drivers --------------------------------
(***************************************************************************)
(* The parts below the protocols that share no state: the sweep of the     *)
(* external ADC, the CRC over the external flash, the internal flash       *)
(* driver, the USB device, and the handover to the application.  main      *)
(* never runs two of them at the same time.  A behaviour of this module is *)
(* one of any one of them, while the others stay as they are in a given    *)
(* initial state.                                                          *)
(***************************************************************************)
EXTENDS Integers

CONSTANTS
  Channels, Voltages, Dig3P3, RxFifo,                   \* AdcReadout
  Byte, FlashSize, CHUNK_SIZE, Bursts,                  \* FlashCrc
  Pages, PageDwords, Data, Erased, Torn, Zero, None     \* FlashDriver

VARIABLES
  running,          \* the part whose behaviour this is
  tx, rx, selected, channel, call, adcPc, ADC_ExtReceive, g_ExtADC_Value,
  flash, crcPc, start, size, addr, remaining, crc, buffer, crcBefore,
  array, lines, DCEN, CacheToReactivate, SR, flashPc, op,
  page_index, PageError, status, flashBefore,
  dev_state, dev_old_state, pClassData, TxState, in, out, bus, events,
  GRXSTSP, looked, callPc, hcdc, overtaken, left, cutOff,
  jumpPc, PRIMASK, on, enabled, pending, VTOR, ready, early

Adc == INSTANCE AdcReadout WITH pc <- adcPc
ExtCrc == INSTANCE FlashCrc WITH pc <- crcPc, before <- crcBefore
Flash == INSTANCE FlashDriver WITH pc <- flashPc, before <- flashBefore
Usb == INSTANCE UsbDevice WITH pending <- events, pc <- callPc
Jump == INSTANCE Handover WITH pc <- jumpPc

ASSUME DriversAssumption ==
  Adc!ChannelsAssumption /\ ExtCrc!CrcAssumption /\ Flash!FlashAssumption

adc == <<tx, rx, selected, channel, call, adcPc, ADC_ExtReceive, g_ExtADC_Value>>
extCrc == <<flash, crcPc, start, size, addr, remaining, crc, buffer, crcBefore>>
driver == <<array, lines, DCEN, CacheToReactivate, SR, flashPc, op,
            page_index, PageError, status, flashBefore>>
usb == <<dev_state, dev_old_state, pClassData, TxState, in, out, bus, events,
         GRXSTSP, looked, callPc, hcdc, overtaken, left, cutOff>>
processor == <<jumpPc, PRIMASK, on, enabled, pending, VTOR, ready, early>>
vars == <<running, adc, extCrc, driver, usb, processor>>

Init ==
  /\ running \in {"adc", "crc", "flash", "usb", "jump"}
  /\ Adc!Init /\ (running # "adc" => rx = <<>> /\ selected = <<Adc!Old(0), Adc!Old(0)>>)
  /\ ExtCrc!Init /\ (running # "crc" => \A a \in DOMAIN flash : flash[a] = {})
  /\ Flash!Init /\ (running # "flash" => SR = {} /\ \A a \in DOMAIN array : array[a] = Erased)
  /\ Usb!Init
  /\ Jump!Init /\ (running # "jump" => ready = {})

Sweep ==
  /\ running = "adc" /\ Adc!Next
  /\ UNCHANGED <<running, extCrc, driver, usb, processor>>

Measure ==
  /\ running = "crc" /\ ExtCrc!Next
  /\ UNCHANGED <<running, adc, driver, usb, processor>>

Operate ==
  /\ running = "flash" /\ Flash!Next
  /\ UNCHANGED <<running, adc, extCrc, usb, processor>>

Communicate ==
  /\ running = "usb" /\ Usb!Next
  /\ UNCHANGED <<running, adc, extCrc, driver, processor>>

Others == UNCHANGED <<running, adc, extCrc, driver, usb>>
Leave == running = "jump" /\ Jump!Next /\ Others

Next == Sweep \/ Measure \/ Operate \/ Communicate \/ Leave

(* The processor goes on, and the watchdog runs.                           *)
Spec ==
  /\ Init /\ [][Next]_vars
  /\ WF_vars(running = "jump" /\ Jump!goto_application /\ Others)
  /\ WF_vars(running = "jump" /\ Jump!WatchdogReset /\ Others)

-----------------------------------------------------------------------------

(* The limits of the SPI FIFO and of the array of voltages.                *)
SweepTypeOK == Adc!TypeOK

(* Every voltage postCheck compares with its limits was converted in the   *)
(* sweep it has just made (Post.c:262).                                    *)
EveryVoltageSwept == Adc!EveryVoltageSwept

(* The sweep leaves the measurement of the internal ADC alone              *)
(* (External_ADC.c:102).                                                   *)
InternalValueKept == Adc!InternalValueKept

(* calculate_flash_crc returns the CRC of the bytes it was asked for, chunk *)
(* by chunk, as the polynomial defines it (Post.c:62).                     *)
FlashCrcIsRemainder == ExtCrc!FlashCrcIsRemainder

(* A disturbance of up to sixteen neighbouring bits changes the CRC.       *)
BurstIsNoticed == ExtCrc!BurstIsNoticed

(* The flash driver, its registers and the data cache keep the promise the *)
(* callers in main.c rely on.                                              *)
RefinesFlashPromise == Flash!RefinesFlashPromise

(* No operation of the flash fails for the error of an earlier one.        *)
ErrorsStayWithTheirCall == Flash!ErrorsStayWithTheirCall

(* TxState is set as long as there is a reply to be read, whatever the     *)
(* host has done to the device and wherever in CDC_Transmit_FS             *)
(* (usbd_cdc_if.c:337).                                                    *)
TransmitterMatchesEndpoint == Usb!TransmitterMatchesEndpoint

(* A configured device can be written to, unless a suspension was served   *)
(* before the end of a transfer (usbd_core.c:655).                         *)
ReceiverLostOnlyIfCutOff == Usb!ReceiverLostOnlyIfCutOff

(* The device is not suspended longer than the bus                         *)
(* (stm32l4xx_hal_pcd.c:1299).                                             *)
AwakeWithTheBus == Usb!AwakeWithTheBus

(* The application starts with the bootloader's interrupts off, disabled   *)
(* and cleared, SysTick's latch apart (main.c:1381).                       *)
NothingLeftBehind == Jump!NothingLeftBehind

(* goto_application ends in the jump or in a reset.                        *)
HandoverEnds == Jump!HandoverEnds
=============================================================================
