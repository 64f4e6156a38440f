# A verification of the STM32L496 bootloader

TLA+ models of the bootloader in `src/Core` and `src/USB_DEVICE` and of the
drivers it relies on: the update of Slot A, the decision to enter it, the self
test before that, the hand-over to the application, the command link to the
host, a host's whole update session, and the storage of test points in the
external flash. TLC checks the models on small instances; TLAPS proves their
safety properties for every instance, one of them with a restriction (section 4).

Run inside this directory, for example,

    tlc -workers 2 -config MCBootloader.cfg MCBootloader
    tlc -workers 2 -config MCSelfTest.cfg SelfTest
    tlc -workers 2 -config MCDrivers.cfg Drivers
    tlapm Bootloader_proof.tla
    tlapm UpdateSession_proof.tla
    tlapm SelfTest_proof.tla
    tlapm ExtFlash_proof.tla
    tlapm CommandLink_proof.tla
    tlapm FlashDriver_proof.tla
    tlapm FoldTheorems.tla
    tlapm Drivers_proof.tla

`PROJECT.json` lists all runs with their modules and configurations, the lines of
the source each definition stands for, the hazards of the code with the
properties that watch them, and for every property a slip in the modelled code
that it catches.

## 1. The system

The firmware is one endless loop in `main` with interrupts around it. There is
no operating system, no heap and no thread; concurrency is `main` against the
USB interrupt, the TIM5 interrupt, the UART interrupts, peripherals that go on
after a call has returned, and everything against the reset.

| component | state it keeps | operations | talks to |
|---|---|---|---|
| Slot A programming (`main.c` 466-636) | Slot A in flash, `g_app_start_address`, `SectorError` | `UC_FLASH_ERASE`, `APPLICATION_DATA` | internal flash through the HAL, host through replies |
| Boot metadata and boot decision (`main.c` 170-235, 311-344, 637-760, 1368-1454) | the metadata page: magic, signature, version, size, CRC | `APP_SIG_DWORD`, `APP_CRC_VERIFY`, `metadata_write`, the boot attempt | POST for its verdict, the application by a jump |
| Boot window (`tim.c`, `main.c` 1522-1531) | TIM5, `l_time_count`, `g_CTRL_MODE` | the TIM5 interrupt, `STAY_IN_BOOTLOADER_MODE` | main loop through `g_CTRL_MODE` |
| Power-on self test (`Post.c`) | `g_POST_Status`, `loopSwitch`, measurements that outlive an attempt | `postCheck`, `Check_POST_Timeout`, `calculate_flash_crc` | metadata page, Slot A, external flash, ADCs, UARTs |
| UART loopback, ADCs (`usart.c`, `External_ADC.c`, `main.c` 1533-1560) | `rx1_data`, `rx2_data`, `g_ExtADC_Value`, the SPI FIFOs | reception by interrupt, `ExADC_ReadChannel`, `Read_AnaVoltages` | `postCheck` |
| Hand-over (`main.c` 1372-1454) | PRIMASK, NVIC, SysTick, VTOR | `deinit_bootloader_context`, `goto_application` | the application |
| Watchdog and fault handlers (`iwdg.c`, `stm32l4xx_it.c`) | - | refresh at the head of the loop, reset after 20 s, endless loops on faults | everything, by reset |
| Internal flash driver (`stm32l4xx_hal_flash*.c`) | error flags, data cache, running operation | `HAL_FLASH_Program`, `HAL_FLASHEx_Erase` | the handlers, `metadata_write` |
| USB command reception (`usbd_cdc_if.c`, `main.c` 345-417) | `g_rx_buffer`, `g_USB_CDC_flag`, the statics of `CDC_Receive_FS`, `TxState` | `CDC_Receive_FS` (interrupt), frame checks, dispatch, `CDC_Transmit_FS` | handlers through `g_rx_buffer` |
| USB device stack (`usbd_core.c`, `usbd_cdc.c`, `usbd_conf.c`, `hal_pcd.c`) | `dev_state`, `dev_old_state`, `pClassData`, two bulk endpoints | `OTG_FS_IRQHandler`, the class's open, close and transfers | reception and `CDC_Transmit_FS`, the host's controller |
| Test point storage (`main.c` 761-1289, `s25FL512S.c`) | external flash: test points, their CRC and version in sector 20 | `EXT_FLASH_ERASE`, `SEND_TP_PKT_ID`, `EXT_FLASH_CRC`, `READ_EXT_FLASH` | S25FL512S over SPI; POST reads the version |
| CRC (`main.c` 1456-1496, `Post.c` 62-84, `crc_utils.c`) | - | `g_CRC_calc`, `g_CRC_calc_continue`, `calculate_flash_crc` | handlers, POST |
| The host (`main.h` section 9) | where it is in the procedure | stay, erase, program, sign, verify, switch off | everything above, by commands |
| DAC, display, pins, clocks, the rest of the HAL | peripherals | register set-up, generated or vendored | - |

What is hard about it:

* *Power cuts.* Slot and metadata live in pages that are erased and programmed
  again; there is one copy of each. `metadata_write` erases the only record
  before it writes the new one, and the slot is rewritten under the signature of
  the image before.
* *Retries without sequence numbers.* An `APPLICATION_DATA` packet carries no
  address. The address advances also when programming failed, and starts again
  with a reset of which the host learns nothing.
* *Interrupts.* TIM5 changes `g_CTRL_MODE` at any point; the USB interrupt
  writes into the buffer from which `main` reads and closes the class
  `CDC_Transmit_FS` is working with; while a flash page is erased the processor
  serves nothing, and then everything at once, in another order.
* *What is kept.* RAM keeps the measurements of a failed self test, the UARTs
  their position in a message, the SPI FIFO late answers, the flash controller
  error flags, the data cache old double words, the NVIC latches.
* *Liveness.* Faults, timeouts and endless waits all end in a loop; only the
  watchdog gets the board out of it.
* *Boundaries.* `l_pass_count` is a byte that is decremented below zero, the end
  of the slot is an inclusive address, sizes come from the host unchecked.

What makes each component correct: the slot is entered only with the contents
that were sealed (boot decision); PASS, SUCCESS and CRC replies are true of the
flash (programming), and the calls of the flash driver do what they say; a board
that was told to stay does stay, one that is whole boots (boot window, self
test); nothing boots that was not tested in this attempt; a host that has been
through the procedure leaves a board that boots its image (session); the host is
served again whatever happened (watchdog, hand-over); nothing is executed that
was not sent, intact frames get through (reception); a configured device can
send, and receive when no transfer was cut off (USB); acknowledged test points survive (storage).

## 2. The modules

| module | what it is |
|---|---|
| `SafeBoot` | what the boot path promises: an image that can be rewritten at will, a prefix of which can be sealed, entered only while the sealed prefix is unchanged |
| `Bootloader` | the update and boot path: main loop, five handlers, metadata, TIM5, POST, watchdog, power cuts |
| `MCBootloader` | instances of it, the bound on torn double words |
| `Bootloader_proof` | type correctness, `StayHolds`; the seal invariant, `BootsOnlySealedImage`, `CrcCommitsSize`, refinement of `SafeBoot`; the handlers' invariant, `EraseSuccessMeansBlank`, `PassMeansStored`, `CrcReplyMeansSealed` |
| `SelfTest` | `Bootloader` with the measurements behind the verdict of POST |
| `SelfTest_proof` | `SelfTestTypeOK`, `NothingUntestedRuns` |
| `UpdateSession`, `MCUpdateSession` | `Bootloader` with a host that carries out the programming procedure; the hosts |
| `UpdateSession_proof` | a session is a run of `Bootloader`; `OnlyTheImageRuns`, `DoneMeansBootable` |
| `CommandLink`, `MCCommandLink` | reception, frame checks, replies, a host |
| `CommandLink_proof` | `TypeOK`, `WholeFramesAccepted`, `RunsWhatWasSent` while no frame was left unfinished |
| `ExtFlash`, `MCExtFlash` | the test points in external flash |
| `ExtFlash_proof` | `AckedStaysReadable`, `CrcReplyMeansStored`, `VersionComesLast`, `TestPointsWrittenOnce` |
| `FlashPromise` | what the callers rely on of the flash driver: each call one step |
| `FlashDriver` | program and erase of the HAL with status register and data cache; implements `FlashPromise` |
| `FlashDriver_proof` | the refinement of `FlashPromise`, `ErrorsStayWithTheirCall` |
| `AdcReadout` | the sweep of the external ADC over SPI |
| `FlashCrc` | the CRC, and the chunks of `calculate_flash_crc` |
| `UsbDevice` | device states, CDC class and endpoints, between USB interrupt and `CDC_Transmit_FS` |
| `Handover` | `goto_application` and `deinit_bootloader_context` |
| `Drivers` | `AdcReadout`, `FlashCrc`, `FlashDriver`, `UsbDevice` and `Handover`, side by side |
| `FoldTheorems` | induction over numbers, and what `FoldLeft` computes, for any operator |
| `Drivers_proof` | the safety properties and the refinement of `Drivers`, part by part |

`SelfTest` and `UpdateSession` extend `Bootloader` and use its actions unchanged,
each joined with what the measurements or the host do at the same moment.
`FlashDriver` and `AdcReadout` justify what `Bootloader` and `SelfTest` take for
granted of flash operations and sweeps, `FlashCrc` says how far a digest can stand
for an image, `UsbDevice` is what lies below `CommandLink`, and `Handover` is the
inside of one step of `Bootloader`.

### Bootloader

Flash is counted in 64-bit double words, the unit in which it is programmed; an
address is an index. `slot` and `meta` are the flash; `meta` has the five fields
in the order `metadata_write` programs them. `pc` says where `main` is: `loop` and
`usb` are the two tests of the main loop, `stay`, `erase`, `data`, `metaErase`,
`metaWrite` the points inside handlers at which something else can happen,
`post` the self test, `app` the application, `hang` any endless loop.

One step is the stretch of code up to the next flash operation, delay or write
to a variable that an interrupt also writes. So `UC_FLASH_ERASE` is
`EraseBegin` and one `ErasePage` per page; `APPLICATION_DATA` is `DataBegin`, one
`DataProgram`, `DataProgramFails` or `DataOverrun` per double word, and `DataEnd`;
`metadata_write` is `MetaErase` and five `MetaProgram`. Every flash operation has
a failing variant that leaves any of the bytes at stake torn or untouched.
A double word can be programmed when it is erased, or with `Zero`, which clears
all its bits whatever it held (`Programmable`).
`PowerCycle` is enabled in every state and tears any part of the operation that
would have been next. `WatchdogReset` leaves `hang` only: `main` refreshes the
watchdog at the head of the loop and each handler, short of an endless loop,
is taken to return within 20 s.

`Torn` is a double word of which one cannot tell what it reads as. It is equal
to nothing the host or the code compares it with, and reading it may raise an
ECC error, which `NMI_Handler` does not survive (`EccError`): in POST, before the
metadata are written, and in the CRC that `UC_FLASH_ERASE` and `APP_SIG_DWORD` take
of the slot after they have answered (`CrcFollows`).

`sealed` and `stayed` are history variables. `sealed` takes the digest
`APP_CRC_VERIFY` computed when its `metadata_write` has erased the old record.

### SelfTest

`PostVerdict` of `Bootloader` takes the outcome of the other checks as a parameter;
here it comes from `g_POST_Status`, bit by bit, and the bits come from what
the RAM holds: `rx` for the two loopback receivers, `volts` and `dig` for
`g_ExtADC_Value`. A value is abstracted to whether it is within its limits.
The checks are made in the order of `postCheck`, with `Check_POST_Timeout` between
any two. A receiver has a position in its buffer, which a byte of noise shifts,
and can lose its arming for good (`Overrun`); parts break and are repaired.
`worked` is a history variable: the parts that worked at some time since the
attempt began.

### UpdateSession

The host has an `Image`, cut into packets before the double words `PacketStart`
names. It is at a `step` of the procedure, sends its request, and takes the answer
or gives up. `retry` says for every step where it goes on when the answer was not
the expected one; no host goes on past a step that failed (`HostsAssumption`), and
otherwise it may be any function: three are in `MCUpdateSession`. A fault is
a lost request or answer, a failed flash operation, an ECC error, a power cut,
or a failed self test. `NextBoot` is the power cycle the procedure ends with.

### CommandLink

`CDC_Receive_FS` is taken byte by byte; `burst` counts the bytes left of the USB
packet, and `main` does not move before the interrupt is done. `main` is cut at
each of its reads of `g_rx_buffer` (size, start, end, MsgID, copy), so that the
interrupt can fall between any two. The host sends the next frame when it
has its answer or, without a PASS, when nothing has moved for a while; `Cut`
is a host program that ends in the middle of a frame. A handler's work is any
outcome: PASS, failure, silence, or the two replies of `APPLICATION_DATA` at the
end of the slot.

### ExtFlash

One step per driver operation: a sector erase, the program of a byte; reads and
the replies that follow belong to the last step of a handler. A program can only
clear bits: programming over something else leaves `Torn`. The chip may not
carry out an operation (`Ignore`), never finish it (`StaysBusy`), or lose power
in it (`PowerCycle`); these faults are counted in `faults` and bounded by
`MaxFaults`. An operation cut short leaves each byte as it was or `Torn`, an erase also
`Blank` (`Interrupted`). Test point packets are stored with their CRC field zeroed, as the
handler does; `Records` holds them in that form. `acked`, `ignored` and `eraseCut` (the
erase of sector 20 was cut short) are history variables.

### FlashDriver

A call is begun, waits, operates and waits again, and flushes the cache; between calls `Read` fills a
line of the data cache. An error flag
that is still set makes the next wait fail; `OPTVERR` may be there from the reset.
`Seen` is the refinement mapping: what the caller saw before a running call until
it returns, what reading through the cache yields afterwards. The mapping
hides the call, so that its effect appears at its return as one step of
`FlashPromise`.

### AdcReadout, FlashCrc, Handover

`AdcReadout`: `HAL_SPI_TransmitReceive` with timeout 0 is `Transmit` and
`LookOnce`; the peripheral shifts whenever it likes (`Shift`). A value is
abstracted to whether it was converted in this sweep.

`FlashCrc`: a byte or a `uint16_t` is the set of its bits that are 1, which loses
nothing of it; `ShiftBit` is the shift with the top bit falling out,
`calculate_flash_crc` one step per chunk. The reference is the remainder of the
message polynomial, as the set of its exponents. `Disturb` turns bits over and has
the CRC taken again.

`Handover`: a source raises an interrupt while it is `on`, the NVIC latches it in
`pending`, and it is served when it is enabled and PRIMASK is clear. With PRIMASK
set the tick stands still, and the three waits of the HAL and the wait for the
ADC have no limit.

### UsbDevice

The bus raises interrupts into `pending` by `Suspend`, `Resume`, `Reset`,
`EndOfReset` and the two transfers; `OTG_FS_IRQHandler` serves them in the order of
its own tests, one step per test: `looked` counts those the running call has made, and the
handler is called again as long as something is pending. A call takes one entry
from the receive FIFO (`ReadRxFifo`): the data of an OUT packet, and in another call
the end of its transfer, which only then raises `OEPINT`. The bus can change between
any two tests; a transfer that ends during a call is taken as one that ends before or
after it. `cutOff` is a history variable: a suspension was served between
the data of a transfer and its end. `CDC_Transmit_FS` is cut at its reads and writes, and an interrupt
precedes it everywhere. The buffer of `pClassData` is static memory, so a
pointer that was read before the class was closed still points to `TxState`. A null
pointer reads a word of the vector table: `Busy` or `Free`.

Two assumptions about time are built in. A host leaves a device alone for 30 ms
after the end of a suspension (20 ms of resume and 10 ms of recovery in
the USB specification), and a page erase stops the processor for at most 25 ms; so
the host is `Talking` only when the wake-up or reset has been served. To configure
a device again takes it several control transfers, which is longer than
`CDC_Transmit_FS` runs: no `USBD_CDC_Init` in a call that was `overtaken`.

### Drivers

Each behaviour is one of one part, chosen in the initial state; the others stand
still in one given state. The parts share no state and `main` never runs two of
them at once. The module restates their properties under their own names.

## 3. The runs

| run | module, configuration | checks | states |
|---|---|---|---|
| `update` | `MCBootloader`, `MCBootloader.cfg` | `TypeOK`, `BootsOnlySealedImage`, `PassMeansStored`, `EraseSuccessMeansBlank`, `StayHolds`, `RefinesSafeBoot` | 1.6 million |
| `power_cuts` | `MCBootloader`, `MCBootloaderCuts.cfg` | `BootsOnlySealedImage`, `CrcCommitsSize`, `CrcReplyMeansSealed`, `KeepsPolling` with torn flash | 2.0 million |
| `self_test` | `SelfTest`, `MCSelfTest.cfg` | `SelfTestTypeOK`, `NothingUntestedRuns`, `HealthyBoardBoots` | 900,000 |
| `session` | `MCUpdateSession`, `MCUpdateSession.cfg` | `OnlyTheImageRuns`, `DoneMeansBootable`, `EndsRunning` | 1.5 million |
| `link` | `MCCommandLink`, `MCCommandLink.cfg` | `TypeOK`, `RunsWhatWasSent`, `WholeFramesAccepted`, `KeepsListening` | 950,000 |
| `test_points` | `MCExtFlash`, `MCExtFlash.cfg` | `AckedStaysReadable`, `TestPointsWrittenOnce`, `CrcReplyMeansStored`, `VersionComesLast`, `KeepsServing` | 2.7 million |
| `drivers` | `Drivers`, `MCDrivers.cfg` | `SweepTypeOK`, `EveryVoltageSwept`, `InternalValueKept`, `FlashCrcIsRemainder`, `BurstIsNoticed`, `ErrorsStayWithTheirCall`, `RefinesFlashPromise`, `TransmitterMatchesEndpoint`, `ReceiverLostOnlyIfCutOff`, `AwakeWithTheBus`, `NothingLeftBehind`, `HandoverEnds` | 840,000 |
| `invalid_slot`, `whole_slot`, `valid_slot` | `MCBootloader`, `MCBootloaderInvalid/Whole/Valid.cfg` | sentences of `main.h` the code does not keep (section 6) | - |
| `session_verify_again` | `MCUpdateSession`, `MCUpdateSessionAgain.cfg` | likewise | - |
| `usb_receiver` | `UsbDevice`, `MCUsbDevice.cfg` | `AlwaysReceiving`: comments of the USB code that do not hold (section 6) | - |

What they show:

* `update`: in every order of commands, interrupts, failures and resets, what is
  entered is what was sealed; PASS and SUCCESS replies are true; STAY holds
  against TIM5; the bootloader implements `SafeBoot`.
* `power_cuts`: a metadata record whose writing was cut at any point, any of its
  fields torn, is never taken for a complete one, and the reply to
  `APP_CRC_VERIFY` comes when the record is complete; and whatever fails or hangs, the
  host is polled again or the application runs.
* `self_test`: the measurements that outlive an attempt do no harm, since each is
  renewed or its part is found broken before it is compared; and a board that is
  whole in the end boots, whatever noise, overruns and failed attempts came before.
* `session`: the procedure of `main.h` does what it is for. A host that has its
  last answer leaves a board that boots its image, even one that repeats every
  request; nothing else than its image boots in between if it starts over after a
  data packet of unknown fate; and starting over gets to the end.
* `link`: no frame is executed twice, under another handler's name or with other
  contents than were sent; frames sent whole are not turned away, whatever
  their payload; an unfinished frame does not shut the host out.
* `test_points`: a record the board acknowledged stays as it is; nothing is
  programmed twice; a CRC reply is true; the version POST looks at is the last
  thing written, so that none of the four writes can be cut short and leave it beside
  less than a CRC, which only a cut erase of the sector can; no fault of the chip
  stops the board for good.
* `drivers`: calls of the flash driver are what the protocol models take them for,
  through the cache and after errors; every voltage is renewed although the SPI
  transfers return before they are done; the chunked CRC is the remainder
  it should be, and notices a burst; after every order of suspensions and resets the
  USB device can send, and receive unless a suspension has cut off a transfer; of the bootloader's interrupts nothing
  is left to the application but SysTick's latch.

Bounds, and why they are enough:

* `update`: three pages of one double word, two words of code (one a valid
  vector table, one zero), packets of up to two double words, one size that covers part
  of the slot (`power_cuts` has several). Erasing is interruptible between pages, a
  packet can run over the end of the slot in its middle, and the part beyond the
  size can differ from what was sealed. The boot window is one TIM5 period and the
  POST limit five seconds: enough for one attempt (four seconds), too short for a
  second.
* `power_cuts`: smaller slot, one torn double word at a time (a constraint). Every operation
  that may tear has an outcome that does not, so that the constraint leaves every fair action
  something to do, and `KeepsPolling` is checked of all behaviours with so few torn
  words. One is enough to break each of the five fields
  and any word of the slot; what several torn fields add is covered by the
  proofs, which have no such bound.
* `self_test`: the real numbers of the window and the limit (5 and 10 s), one supply
  voltage for the thirteen, which are treated alike, both receivers with messages of
  two bytes, and two events. Two events are a part that breaks and is
  repaired at the worst moments, or noise and an overrun.
* `session`: two pages of two double words, an image of two packets, three hosts,
  two faults: a failure and one in its retry. Slot and image are no larger
  because a third packet repeats the second.
* `link`: four frames, two of one layout, two longer than a USB packet (of 4
  bytes) with `$` and `;#` in their payload. Four unfinished frames are enough to fill
  the buffer of 16 bytes, so that the overflow happens. As in the code, the buffer is
  longer than the largest number a size byte can be; `KeepsListening` depends on it.
* `test_points`: three test points, two of them in sector 0, records of two bytes of
  which the second may be 0xFF, two faults in each behaviour. Two faults are an
  ignored erase followed by a reset, or a reset of a retry. An interruption spoils
  or erases one byte of a sector (`MaxSpoilt`), so that two faults can take both bytes of
  the CRC; the proofs have no such bound.
* `drivers`: all sixteen channels and the FIFO of two frames of the real ADC; chunks
  of 2 bytes in a flash of 4, so that there are empty, partial and several
  chunks, with all messages of the bytes 0 and 0xA5; three pages of one double word;
  the USB device and the hand-over have no bound.

Fairness. `main` and its interrupts are executed as long as the processor runs;
the clock runs (`Second`); the independent watchdog, once started, cannot be stopped
(`WatchdogReset`). The host is never assumed to send a particular command, except
where the property is about a host that goes on: `KeepsListening`, and `Send`,
`GiveUp` and `NextBoot` of `UpdateSession`.

Seconds pass while `main` goes round its loop, which takes strong fairness of the
clock, and they pass neither too fast nor too slow: `HealthyBoardBoots` and
`EndsRunning` have `<>[][Timely]` on their left. `Timely` says that from some time on a
second passes only where the code waits for one: in the boot window and in the
delays of `postCheck` (and, for a session, not between two requests of a host
that is busy). What it leaves out is a board whose loop takes seconds between two
statements. `KeepsListening` has `<>[]` that frames have their first footer at
their end; with `;#` in payloads a receiver that is out of step can stay so for
as long as the host repeats itself, and TLC finds that behaviour without
the assumption.

`HandoverEnds` needs no more than that the processor goes on and the watchdog
runs: each wait ends or does not, as chosen at the reset.

`CHECK_DEADLOCK FALSE` is used where the system really stops: in `self_test` and
`session` the application runs at the end and nothing of the bootloader moves any
more, and in `drivers` a sweep is compared, a CRC returned, a jump made. `usb_receiver` has
it like `drivers`.

## 4. The proofs

For all constants that satisfy the `ASSUME`s of the modules (a slot of any size,
pages of any size, any code, any packet length up to 127, any window and limit, any
set of hosts, supplies, frames or test points, any number of faults, channels,
flash bytes and bytes in a chunk):

| theorem | says |
|---|---|
| `TypeCorrect` (`Bootloader_proof`) | `Spec => []TypeOK`; the program address stays inside Slot A |
| `StayCorrect` | `Spec => []StayHolds` |
| `BootsCorrect` | `Spec => []BootsOnlySealedImage` |
| `CommitCorrect` | `Spec => []CrcCommitsSize` |
| `BootloaderRefines` | `Spec => RefinesSafeBoot`: each step of the bootloader is a step of `SafeBoot` or changes nothing there |
| `EraseAnswerCorrect` | `Spec => []EraseSuccessMeansBlank` |
| `DataAnswerCorrect` | `Spec => []PassMeansStored` |
| `CrcAnswerCorrect` | `Spec => []CrcReplyMeansSealed` |
| `SessionIsBootloader` | `SessionSpec => Spec`: all of the above holds in a session |
| `OnlyTheImage` | `SessionSpec => []OnlyTheImageRuns` |
| `DoneCorrect` | `SessionSpec => []DoneMeansBootable` if no host repeats `APP_CRC_VERIFY` after it failed |
| `SelfTypeCorrect` | `SelfSpec => []SelfTestTypeOK` |
| `NothingUntested` | `SelfSpec => []NothingUntestedRuns` |
| `AckedCorrect` | `Spec => []AckedStaysReadable` of `ExtFlash` |
| `CrcReplyCorrect` | `Spec => []CrcReplyMeansStored` |
| `VersionCorrect` | `Spec => []VersionComesLast` |
| `WrittenOnce` | `Spec => TestPointsWrittenOnce` |
| `TypeCorrect` (`CommandLink_proof`) | `Spec => []TypeOK`; no byte is written outside `g_rx_buffer` |
| `FramesAccepted` | `Spec => []WholeFramesAccepted` |
| `RunsWhatWasSentUncut` | `Spec => [](cuts = 0 => RunsWhatWasSent)` |
| `DriverRefines` | `FlashAssumption => (Spec => RefinesFlashPromise)` of `FlashDriver` |
| `ErrorsCorrect` | `FlashAssumption => (Spec => []ErrorsStayWithTheirCall)` |
| `HandoverCorrect` (`Drivers_proof`) | `Spec => []NothingLeftBehind` |
| `AwakeCorrect` | `Spec => []AwakeWithTheBus` |
| `ReceiverCorrect` | `Spec => []ReceiverLostOnlyIfCutOff` |
| `TransmitterCorrect` | `Spec => []TransmitterMatchesEndpoint` |
| `SweepTypesCorrect` | `RxFifo = 2 => (Spec => []SweepTypeOK)` |
| `SweepCorrect` | `RxFifo = 2 => (Spec => []EveryVoltageSwept)` |
| `InternalValueCorrect` | `Spec => []InternalValueKept` |
| `FlashCrcCorrect` | `Spec => []FlashCrcIsRemainder` |
| `BurstCorrect` | `Spec => []BurstIsNoticed` |
| `FlashErrorsCorrect`, `FlashRefines` | `Spec => []ErrorsStayWithTheirCall` and `Spec => RefinesFlashPromise` of `Drivers` |

### Bootloader

`TypeOK` is inductive as it stands, with the digests bounded by the slot.
`StayHolds` is not: that the mode stays `BOOTLOADER_CODE` follows from TIM5 being
off, which `StayInv` adds, together with its state inside the handler.

`BootsOnlySealedImage` speaks of the state `app` and of a comparison made
seconds before. `SealInv` is the inductive form. Its parts say:

* `Commits`: a record whose CRC can be read either has no readable size or is that
  of the last `APP_CRC_VERIFY`, and its CRC covers exactly the recorded size;
* `WriteInv`: while `metadata_write` programs field `i`, the fields before it
  hold what the RAM copy holds and those after it are erased: as the CRC is the
  last field, a record that was cut short has none;
* `Checked`, `VerdictInv`: once POST has found the internal flash in order, and
  up to the jump, the slot has the digest that was sealed; nothing writes the
  flash in between, since POST runs in `main` like every handler.

The refinement follows from the same invariant: only `MetaErase` of an
`APP_CRC_VERIFY` is a `Seal`, the verdict of POST is a `Launch`, handlers and
power cuts are `Rewrite`s.

The three answers to the host hold in the one state in which a handler has
answered; what makes them hold happens in the many steps before. `ReplyInv` adds
what is true in between:

* `QuietInv`: while a handler works nothing has been answered, and it starts with its
  locals cleared;
* `EraseInv`: the pages before the one that comes next are blank, the address is
  the beginning of the slot, no page has failed yet;
* `DataInv`: after `n` double words `l_pass_count` is `Count(n, failed)` for some number
  of failures: it goes up for a success and down for a failure, modulo 256, so
  `n - 2 * failed` or, below zero, that plus 256. When `failed` is 0 the first `n` double
  words are in the slot right below the address. `Count(n, failed) = n` only for
  `failed = 0` as long as `n` is at most 127; at 128 double words of which all fail
  the counter would be 128 again, and this is why `SizesAssumption` bounds
  `NUM_OF_DWORDS` (7 in the code, `main.h` 197);
* `VerifyInv`: from the measurement of `APP_CRC_VERIFY` to the last field, the RAM copy
  has the magic, a size within the slot and the digest of that prefix of the slot as
  it is. With `WriteInv`, all five fields in flash are those of the copy at the end.

### UpdateSession

Each step of a session is a step of `Bootloader`, so `TypeInv`, `SealInv` and `ReplyInv`
come for free, and with them that an answer says the truth. What is to be shown
is that true answers are enough. `ProtocolInv` and `AnswerInv` say that there is one
request at a time: the handler that runs, and the answer on its way, belong to the
`step` the host is at.

`ImageInv` says what the slot can hold, for a host that starts over (`StartsOver`)
when it does not know how a packet ended. The address of a packet is not
in it, so a packet that arrives after a reset goes to the beginning of the slot:
the invariant cannot be that the slot is a prefix of the image. What is true
at packet `p` (`Ready`, `InPacket`, `Landed`) is one of four things:

* the slot is a prefix of the image and the address stands behind it;
* the image is in the slot, all of it, and the address is behind it or after a
  reset, at 0;
* the address is 0 although the first double word is programmed. Then the
  first program fails, or clears it, and the packet cannot be answered with PASS;
* the first double word holds what does not boot (`Spoilt`): a torn one, or
  zeros. Only an erase makes this slot bootable again, and an erase is
  followed by the first packet.

When the host is past the last packet the slot is `Loaded`: it holds the image or
does not boot. So what `APP_CRC_VERIFY` seals is a digest which, if its first
double word boots, is the image's (`OfTheImage`), and this is what is kept in
`sealed` through anything that happens later, the next session's erase
included: by `SealInv` the application that starts has the sealed digest and
boots, so it is the image. A host that repeats a packet of unknown fate breaks the
first of the four; `OnlyTheImageRuns` is about the others.

`DoneInv` follows the signature: from the PASS of `APP_SIG_DWORD` to the answer of
`APP_CRC_VERIFY` the metadata, in flash or in the copy that is being written, is
signed. A host that goes from a failed `APP_CRC_VERIFY` back to any earlier step is
signed again on its way; one that sends it again is not, and this is the one
hypothesis `DoneCorrect` has and the run `session_verify_again` (section 6) shows to be
necessary.

### SelfTest

Nothing that was measured is erased before the next attempt. The first attempt
finds the RAM as the reset left it: `Measurements` says that what is found good was
measured in this attempt, at a part that has worked during it. A later attempt would
find what the earlier one left, and a receiver whose reception was overrun would
show its old message. What excludes it is the clock: `RamInv` is
`Measurements` or `Late`, and `ClockInv` says that a second attempt is not over
within `PostLimit`, by which `Check_POST_Timeout` has ended it. This
is the assumption `OneAttempt`, `BootTicks + 8 > PostLimit` (5 + 8 and 10 in the code); with a
window of one second TLC finds the stale message compared and the application
started over a dead receiver. The two numbers are in different files and
nothing in the code says that they belong together.

### ExtFlash

The argument is about which bytes a step can change at all: `OnlyAtRisk` says that
it is those of the sector or the byte the handler is at. Records of different test
points have no byte in common (`RecordsApart`), and none is in sector 20. With
`WriteInv` (what a packet goes to is blank and nothing acknowledged) an acknowledged
record can be changed by the erase of sector 0 only, which withdraws
the acknowledgement first. `CrcInv` follows the CRC and the version through the
four bytes of sector 20: the bytes written so far are right, the rest is blank,
unless the chip ignored something. So `VersionComesLast` holds wherever the writes are cut.
A cut erase is the other way to a version without its CRC: nothing in the code prevents
it, since the version, which POST trusts alone, lies in the sector that is erased. The
property has it as an exception of its own (`eraseCut`), and says that even then the two
bytes, where both can be read, are halves of one CRC (`CutChanges`: an erase
brings no new byte but `Blank`). `HalvesAssumption` says that no half of a CRC is
0xFF, which cannot be told from an erased byte, or `Torn`; such a record is outside
the model.

### CommandLink

`Uncut` says, for every position in `main` and in the interrupt, that `g_rx_buffer` holds
what has come of the frame sent last, that its index and size are that
frame's, and that the host does not send again before `main` is through with it. It
holds until a frame is left unfinished. After that the buffer can hold the
beginning of one frame and the end of another, and whether the mixture
passes for a frame is a question about its CRC; that it does not, for the frames of
the run, stays with TLC.

### FlashDriver

In the middle of a call the flash is neither what it was nor what it will be, and the
mapping of `FlashPromise` hides it behind `before`. The invariant says how far the flash
has come from `before.memory`: `OperateInv` and `WaitInv` that the pages up to
`page_index` are erased and no other is touched, `FlushInv` that the status about to be
returned is true; `CacheInv` that a line of the data cache is right whenever the cache
is on. The step that returns is then a step of `FlashPromise`, every other one changes
nothing there. The runs check both properties through `Drivers`, under the same
names.

### Drivers

A step of `Drivers` is a step of one part, so each part has its own invariant. What
`FlashDriver_proof` shows is taken over by instantiating it (`FlashP`).

*The hand-over.* `NothingLeftBehind` speaks of the end; `JumpInv` says for every
statement of `goto_application` what can still raise its exception there
(`Sources`). Each source goes off before its latch is cleared, except
SysTick: `HAL_RCC_DeInit` configures it again, and its latch is what can be left.

*The USB device.* What the USB interrupt finds depends on what was raised while the
processor was busy, and the handler serves it in an order of its own.
`SuspendInv`: a device that is suspended is on a suspended bus, or its wake-up or
reset is on the way, and of what it would drop nothing is waiting but the end of an
OUT transfer, and then `cutOff` is set: the end of an IN transfer has its flag up before
the call that serves the suspension, which looks at it first. `ReceiverInv`: the OUT
endpoint of a device that is configured, or will be when it wakes up, is armed, or
its transfer is `UnderWay` through the FIFO, or it was cut off. `ClassInv`: the
class and its endpoints are open exactly when the device is configured, or will be
when it wakes up. `TransmitterInv` goes through `CDC_Transmit_FS`: it holds the
transmitter (`Holds`) between `USBD_CDC_TransmitPacket` and `USBD_LL_Transmit` unless
the class has been closed since, and then it does not matter what it starts.

*The sweep of the ADC.* Frames are numbered over the whole sweep. An answer belongs to
the channel that was selected two frames earlier (`IsAnswer`), and what is on its way,
in either FIFO, is never more than two (`Waiting`). `Order` says which answer
is where: as long as every call has found an answer (`Lead`) it is that of its own
frame; once a call has come too early the sweep is behind, by one channel at
the most, because an answer is lost only in a call that finds the FIFO full. So
the value stored for a channel is its own or that of the one before; the code sweeps
one channel more than there are voltages, and so the last one is there too.
The theorems have `RxFifo = 2`, which is what the hardware's 32 bits make of frames of
sixteen: with a deeper FIFO the sweep could be further behind.

*The CRC.* Three loops in each other: chunks, bytes, shifts. All are folds, and
`FoldLeft` is a recursive function, of which nothing is known before it is
shown to exist. `FoldTheorems` does this for any operator, by an induction in the form
of sets (a set of numbers that has 0 and with `n` also `n + 1` has all), which follows
from `WFMin` of the library and needs no theorem with an operator parameter; the three
operators come in by `INSTANCE FoldTheorems WITH Op <- ...`.

`OneShift`: if the register stands at `x^e`, above all that is left of the message, a
shift of the register is the step of the long division that cancels the degree
`e + 15`. `ByteByByte`: after every byte the register, in its place, together with the
bytes to come, is what the long division has left. At the end it is the
remainder (`CrcIsRemainder`). `ChunkInv` carries it through the calls of
`calculate_flash_crc`: the CRC is that of the bytes before `addr`, whatever is left
in the buffer from the chunk before.

`BurstIsNoticed`: the long division is linear (`DivisionOfSum`), so the CRCs differ by
the remainder of the disturbance alone. That is never empty: something whose
degrees all lie within sixteen neighbouring ones stays so, and is not emptied, when the
highest is cancelled, because the generator is one wider (`NarrowStep`). `BeforeInv`
keeps, for the second measurement, that what is in the flash is what was there at the
first but for the burst.

### Only model-checked

* what rests on fairness, which is beyond the proof system: `KeepsPolling`,
  `KeepsListening`, `KeepsServing`, `HealthyBoardBoots`, `EndsRunning`, `HandoverEnds`;
* `RunsWhatWasSent` after unfinished frames, as said above: it depends on the frames.

Every other invariant, action property and refinement of the runs is a theorem. The
runs remain what shows that the constants of the theorems can be satisfied, and that
the properties can be violated by a slip in the code.

## 5. What is left out

* CRC collisions in the protocol models: a digest is the contents it was computed
  from. `BurstIsNoticed` is the part of that which sixteen bits bear out for certain; two
  images that differ in more places have the same CRC with one chance in
  65536. Records whose CRC bytes are both 0xFF are outside the models.
* A data double word of all ones: it cannot be told from an erased one.
* A torn cell that happens to read as fully erased or as its old value on one
  read and differently on the next. A torn cell that reads as it did before is
  the case that it was not torn.
* `appCode_size` between the end of the slot and the end of the mapped flash. Within
  the slot every size is a value of `Sizes`; beyond the mapped flash it faults.
* `Dword_cnt` of 7 and more, which reads past the packet.
* `g_app_size` and `g_APP_Code_CRC`, which nothing reads after the handler.
* The external PWM watchdog fed by `Enable_PWM`/`Disable_PWM`; execution times, in
  particular whether `EXT_FLASH_CRC` ends within 20 s; the 5 s limit in
  `EXT_FLASH_ERASE` (the driver has already waited when it begins); the 50 s timeout
  of the flash driver, which the watchdog precedes.
* Hosts that send the next frame without waiting: `g_rx_buffer` then changes
  under `main`, frames are lost, and a frame can be copied half old and half new. Nothing
  arrives during the `memcpy` of a handler (`main.c` 421) but bytes behind a frame that
  was left unfinished, and what that mixes is left to the packet's CRC: `Handle` copies in one
  step. It compares the low byte of `packetSize` only, which is two bytes wide in most packets.
* The two replies `CommandLink` is about reach it only while the device below can
  receive: `KeepsListening` takes for granted that packets get to `CDC_Receive_FS`,
  and after a cut-off transfer (`usb_receiver`) they do so again only when the host
  configures the device anew.
* The status byte of the answer to a test point (`main.c` 1030): the handler overwrites it with
  the CRC of the answer (1036), so that success and failure differ for the host by
  that CRC alone. `ExtFlash` has them as different answers.
* An ECC error in the CRC `UC_FLASH_ERASE` takes after an erase that was refused without an
  answer; for every other CRC over the slot `EccError` has it.
* Measurements as numbers: a value is within its limits or not, fresh or not. The
  DAC and the display, which nothing reads back; the LEDs; PWM.
* USB descriptors, the stages of control transfers, the line coding requests,
  which change nothing the bootloader looks at; and a reply that was started on a
  closed endpoint, which the next configuration may find there (`left`).
* Mass erase, fast programming, option bytes and the interrupt variants of the
  flash driver, which nobody calls.
* Pins, clocks and buses: straight-line initialisation generated by STM32CubeMX.
* `FTU_TestNo` of `READ_EXT_FLASH` above 999: it reads elsewhere in the chip and
  changes nothing.
* `SerialFlash_ChipErase`, `SerialFlash_ReadID`, `SerialFlash_Init`; the host-side
  unit tests of copies of small functions; `.bak` files.

How much of the tree that is: nearly all of the repository's quarter of a million
lines are vendored (the STM32 HAL and its low-layer headers, CMSIS register maps, the
USB library, googletest). The bootloader's own logic is `main.c`, `Post.c`,
`usbd_cdc_if.c`, `s25FL512S.c`, `External_ADC.c` and parts of `usart.c`, `tim.c`,
`iwdg.c` and the interrupt handlers, about three thousand lines; of these the
models stand for what decides, and leave out what formats, blinks or initialises.
Of the vendored code the models take the functions the bootloader calls and
whose state can go wrong between calls: flash, USB device and CDC class, UART
reception, SPI transfers, clock de-initialisation. Register definitions and unused
drivers have no behaviour of this system in them.

## 6. Where code and comments disagree

* `main.h` 420 says that the bootloader stays in boot mode when Slot A is not
  valid. The self test that runs first takes the size from the metadata page
  without looking at the magic; on a board without metadata it computes a CRC over 4 GB,
  faults and is reset (`invalid_slot`). A host that sends
  `STAY_IN_BOOTLOADER_MODE` within the boot window is not affected.
* `main.h` 390 gives the image as 0x08020000 to 0x0807FFFF; the last double word
  of it is refused (`whole_slot`).
* `main.h` 419 says a valid Slot A is entered. The signature is required too: when it alone
  is spoilt, by a cut erase of the metadata page, `main` goes back to polling after a self
  test that found everything in order (`valid_slot`).
* `main.h` 507-508 describes the last two steps of the procedure as independent updates
  of the metadata, after which the next boot enters the slot. `APP_CRC_VERIFY`
  rewrites the page from a copy; when a reset falls between its erase and its
  writes, the signature that was acknowledged before is gone. A host that then sends
  `APP_CRC_VERIFY` again has a success, and a slot that will not be entered
  (`session_verify_again`). `Careful` and `Stubborn` in `MCUpdateSession` go
  back to `APP_SIG_DWORD` instead, and `session` shows that this is enough.
* `usbd_cdc_if.c` 248-249 and `usbd_cdc.c` 589-590 say that packets are answered with NAK
  until the application is through with the one it has. When the host suspends the bus
  behind a packet and both are found at the end of a page erase, the handler's first call
  takes the data and serves the suspension, and its second finds the end of the transfer,
  which `USBD_LL_DataOutStage` drops in a suspended device (`usbd_core.c` 655). The endpoint
  stays disabled, and every packet after the suspension is answered with NAK until the device is reset or
  configured (`usb_receiver`). `ReceiverLostOnlyIfCutOff` shows that there is no other way.
* Not run: that POST trusts the version in sector 20 although a cut erase can leave it
  without its CRC (`Post.c` 174-185; no comment says otherwise), and that the status byte of
  `SEND_TP_PKT_ID`'s answer is overwritten (`main.c` 1030, 1036).
* Not run: `main.h` 482-484 says the received signature is written; the
  handler writes its own constant (`main.c` 642, 650).

## 7. Plan

Done: `SafeBoot`, `Bootloader` with its proofs, `CommandLink`, `ExtFlash`; then
`SelfTest`, `UpdateSession`, and the drivers with `FlashPromise`; then the proofs
about all of these.

Not planned: `OnlyTheImageRuns` with the real self test. `SelfTest` and `UpdateSession`
extend `Bootloader` each for itself, and in `UpdateSession` the self test may have
any outcome at any time, so the measurements would add nothing to what can happen.

Left: a host that sends frames without waiting for answers, which needs a variant of
`CommandLink` in which `g_rx_buffer` changes under `main`; and `RunsWhatWasSent` after
unfinished frames for every set of frames of which no mixture has a valid CRC.
