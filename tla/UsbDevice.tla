------------------------------ MODULE UsbDevice ------------------------------
(***************************************************************************)
(* The USB device below CommandLink: the device state, the CDC class and   *)
(* its two bulk endpoints, as OTG_FS_IRQHandler and CDC_Transmit_FS share  *)
(* them, while the host configures, suspends, resumes and resets the       *)
(* device.                                                                 *)
(*                                                                         *)
(* The processor stands still while a page of its own flash bank is        *)
(* erased, up to 25 ms: events pile up and are served in the order of the  *)
(* interrupt handler, not in their own.  A call of the handler looks at    *)
(* each flag once and takes one entry from the receive FIFO.               *)
(*                                                                         *)
(* Replies are 7, 11 and 68 bytes long: USBD_CDC_DataIn never has to send  *)
(* a packet of length zero.                                                *)
(*                                                                         *)
(* KeepsTxState and NotAsked are slips in the operator that follows each.  *)
(***************************************************************************)
EXTENDS Integers, Sequences

VARIABLES
  dev_state, dev_old_state,
  pClassData,       \* it is not NULL
  TxState,          \* in memory that USBD_static_malloc hands out each time
  in, out,          \* the endpoints: activated? a transfer enabled?
  bus,              \* "active", "suspended" or "reset"
  pending,          \* interrupts of the peripheral not served yet
  GRXSTSP,          \* what the receive FIFO of the OUT endpoint shows next
  looked,           \* flags the running call has looked at; 0: none runs
  pc, hcdc,         \* CDC_Transmit_FS: its next statement; hcdc is not NULL
  overtaken,        \* ghost: the class was closed during this call
  cutOff,           \* ghost: suspended before the end of an OUT transfer
  left              \* ghost: a transfer was enabled on the closed endpoint

device == <<dev_state, dev_old_state, cutOff>>
class == <<pClassData, TxState, in, out, left>>
call == <<pc, hcdc, overtaken>>
handler == <<GRXSTSP, looked>>
vars == <<device, class, bus, pending, handler, call>>

Closed == [open |-> FALSE, on |-> FALSE]

Init ==
  /\ dev_state = "DEFAULT" /\ dev_old_state = "DEFAULT" /\ cutOff = FALSE
  /\ pClassData = FALSE /\ TxState = 0
  /\ in = Closed /\ out = Closed /\ left = FALSE
  /\ bus = "active" /\ pending = {} /\ GRXSTSP = "empty" /\ looked = 0
  /\ pc = "idle" /\ hcdc = FALSE /\ overtaken = FALSE

-----------------------------------------------------------------------------
(* The bus.  A host that ends a suspension waits 30 ms before it talks to  *)
(* the device, longer than the processor ever stands still; and it does    *)
(* not get anywhere with a device whose reset has not been served.         *)

Raise(interrupts) ==
  pending' = pending \cup interrupts /\ UNCHANGED <<device, looked, call>>

Suspend ==
  /\ bus = "active" /\ bus' = "suspended"
  /\ Raise({"USBSUSP"}) /\ UNCHANGED <<class, GRXSTSP>>

Resume ==
  /\ bus = "suspended" /\ bus' = "active"
  /\ Raise({"WKUINT"}) /\ UNCHANGED <<class, GRXSTSP>>

Reset ==
  /\ bus \in {"active", "suspended"} /\ bus' = "reset"
  /\ \/ Raise({})
     \/ bus = "suspended" /\ Raise({"WKUINT"})
  /\ UNCHANGED <<class, GRXSTSP>>

EndOfReset ==
  /\ bus = "reset" /\ bus' = "active"
  /\ Raise({"ENUMDNE"}) /\ UNCHANGED <<class, GRXSTSP>>

(* A transfer that ends while the handler runs is as good as one that ends *)
(* before or after the call; a suspension is 3 ms behind it at least.      *)
Talking ==
  bus = "active" /\ looked = 0 /\ pending \cap {"WKUINT", "ENUMDNE"} = {} /\ UNCHANGED bus

HostWrites ==
  /\ Talking /\ out.open /\ out.on
  /\ out' = [out EXCEPT !.on = FALSE]
  /\ GRXSTSP' = "STS_DATA_UPDT"
  /\ Raise({}) /\ UNCHANGED <<pClassData, TxState, in, left>>

HostReads ==
  /\ Talking /\ in.open /\ in.on
  /\ in' = [in EXCEPT !.on = FALSE]
  /\ Raise({"IEPINT"}) /\ UNCHANGED <<pClassData, TxState, out, left, GRXSTSP>>

-----------------------------------------------------------------------------
(* OTG_FS_IRQHandler.                                                      *)

HandlerOrder == <<"RXFLVL", "OEPINT", "IEPINT", "WKUINT", "USBSUSP", "ENUMDNE">>

Look(interrupt) ==
  /\ HandlerOrder[looked + 1] = interrupt
  /\ looked' = (looked + 1) % Len(HandlerOrder)

Serve(interrupt) ==
  /\ Look(interrupt) /\ interrupt \in pending /\ pending' = pending \ {interrupt}
  /\ UNCHANGED <<bus, GRXSTSP, pc, hcdc>>

Pass ==
  /\ \E interrupt \in {HandlerOrder[k] : k \in DOMAIN HandlerOrder} :
       Look(interrupt) /\ interrupt \notin pending
  /\ looked = 0 => GRXSTSP = "empty" /\ pending # {}
  /\ UNCHANGED <<device, class, bus, pending, GRXSTSP, call>>

(* One entry of the receive FIFO: the data, then the end of the transfer,  *)
(* which raises the flag of the endpoint only now, for this call to see or *)
(* too late for it.                                                        *)
ReadRxFifo ==
  /\ looked = 0
  /\ \/ /\ GRXSTSP = "STS_DATA_UPDT" /\ GRXSTSP' = "STS_XFER_COMP"
        /\ looked' = 1 /\ UNCHANGED pending
     \/ /\ GRXSTSP = "STS_XFER_COMP" /\ GRXSTSP' = "empty"
        /\ looked' \in {1, 2} /\ pending' = pending \cup {"OEPINT"}
  /\ UNCHANGED <<device, class, bus, call>>

KeepsTxState ==
  /\ pClassData' = TRUE
  /\ in' = [in EXCEPT !.open = TRUE]
  /\ out' = [open |-> TRUE, on |-> TRUE]
  /\ cutOff' = FALSE /\ UNCHANGED <<TxState, left, overtaken>>
USBD_CDC_Init ==
  /\ pClassData' = TRUE /\ TxState' = 0
  /\ in' = [in EXCEPT !.open = TRUE]
  /\ out' = [open |-> TRUE, on |-> TRUE]
  /\ cutOff' = FALSE /\ UNCHANGED <<left, overtaken>>

USBD_CDC_DeInit ==
  /\ pClassData' = FALSE /\ in' = Closed /\ out' = Closed /\ left' = FALSE
  /\ overtaken' = (pc # "idle")
  /\ cutOff' = FALSE /\ UNCHANGED TxState

HandedToClass == dev_state = "CONFIGURED" /\ pClassData

DataOutStage ==
  /\ Serve("OEPINT")
  /\ out' = [out EXCEPT !.on = @ \/ HandedToClass]
  /\ cutOff' = (cutOff /\ ~HandedToClass)
  /\ UNCHANGED <<dev_state, dev_old_state, pClassData, TxState, in, left, overtaken>>

DataInStage ==
  /\ Serve("IEPINT")
  /\ TxState' = IF HandedToClass THEN 0 ELSE TxState
  /\ UNCHANGED <<device, pClassData, in, out, left, overtaken>>

USBD_LL_Resume ==
  /\ Serve("WKUINT")
  /\ dev_state' = IF dev_state = "SUSPENDED" THEN dev_old_state ELSE dev_state
  /\ UNCHANGED <<dev_old_state, cutOff, class, overtaken>>

(* The status register is asked whether the bus is suspended still.        *)
NotAsked == TRUE
StillSuspended == bus = "suspended"

USBD_LL_Suspend ==
  /\ Serve("USBSUSP")
  /\ IF StillSuspended
       THEN /\ dev_old_state' = IF dev_state = "SUSPENDED" THEN dev_old_state ELSE dev_state
            /\ dev_state' = "SUSPENDED"
            /\ cutOff' = (cutOff \/ GRXSTSP # "empty" \/ "OEPINT" \in pending)
       ELSE UNCHANGED device
  /\ UNCHANGED <<class, overtaken>>

USBD_LL_Reset ==
  /\ Serve("ENUMDNE")
  /\ dev_state' = "DEFAULT" /\ UNCHANGED dev_old_state
  /\ USBD_CDC_DeInit

(* Requests of the host, which waits for the answer to each.  To configure *)
(* the device again takes it several frames of a millisecond: longer than  *)
(* CDC_Transmit_FS.                                                        *)
Quiet == pending = {} /\ GRXSTSP = "empty" /\ looked = 0
Setup ==
  bus = "active" /\ Quiet /\ UNCHANGED <<bus, pending, handler, pc, hcdc, dev_old_state>>

USBD_SetAddress ==
  /\ Setup
  /\ dev_state \in {"DEFAULT", "ADDRESSED"} /\ dev_state' = "ADDRESSED"
  /\ UNCHANGED <<class, cutOff, overtaken>>

USBD_SetConfig ==
  /\ Setup
  /\ \/ /\ dev_state = "ADDRESSED" /\ dev_state' = "CONFIGURED"
        /\ ~overtaken /\ USBD_CDC_Init
     \/ /\ dev_state = "CONFIGURED" /\ dev_state' = "ADDRESSED"
        /\ USBD_CDC_DeInit

OTG_FS_IRQHandler ==
  \/ Pass \/ ReadRxFifo
  \/ DataOutStage \/ DataInStage \/ USBD_LL_Resume \/ USBD_LL_Suspend \/ USBD_LL_Reset
  \/ USBD_SetAddress \/ USBD_SetConfig

-----------------------------------------------------------------------------
(* CDC_Transmit_FS in main, which an interrupt precedes.                   *)

At(here, next) ==
  /\ pc = here /\ Quiet /\ pc' = next
  /\ overtaken' = (overtaken /\ next # "idle")
  /\ UNCHANGED <<device, bus, pending, handler>>

ReadHandle ==
  /\ At("idle", "look")
  /\ hcdc' = pClassData
  /\ UNCHANGED class

(* Through a null pointer, a word of the flash is read for TxState.        *)
Busy == IF hcdc THEN TxState # 0 ELSE TRUE
Free == IF hcdc THEN TxState = 0 ELSE TRUE
LookAtTxState ==
  /\ \/ Busy /\ At("look", "idle")
     \/ Free /\ At("look", "packet")
  /\ UNCHANGED <<hcdc, class>>

USBD_CDC_TransmitPacket ==
  /\ IF pClassData /\ TxState = 0
       THEN At("packet", "start") /\ TxState' = 1
       ELSE At("packet", "idle") /\ UNCHANGED TxState
  /\ UNCHANGED <<hcdc, pClassData, in, out, left>>

USBD_LL_Transmit ==
  /\ At("start", "idle")
  /\ in' = [in EXCEPT !.on = TRUE] /\ left' = (left \/ ~in.open)
  /\ UNCHANGED <<hcdc, pClassData, TxState, out>>

CDC_Transmit_FS ==
  ReadHandle \/ LookAtTxState \/ USBD_CDC_TransmitPacket \/ USBD_LL_Transmit

Next ==
  \/ Suspend \/ Resume \/ Reset \/ EndOfReset \/ HostWrites \/ HostReads
  \/ OTG_FS_IRQHandler \/ CDC_Transmit_FS

Spec == Init /\ [][Next]_vars

-----------------------------------------------------------------------------

AllServed == bus = "active" /\ Quiet
Configured == AllServed /\ dev_state = "CONFIGURED"

(* The transmitter is taken exactly as long as there is a reply for the    *)
(* host to read, whatever the host has done to the device meanwhile and    *)
(* wherever in CDC_Transmit_FS it was done (usbd_cdc_if.c:337): no reply   *)
(* is refused for ever, none overwrites another, and no host reads what    *)
(* was meant for the one before it.  Only a call during which the class    *)
(* was closed can leave a reply behind.                                    *)
TransmitterMatchesEndpoint ==
  Configured /\ pc # "start" =>
    /\ TxState = 1 => in.open /\ in.on
    /\ in.on => TxState = 1 \/ left

(* A configured device can always be written to: the end of every transfer *)
(* reaches CDC_Receive_FS, which enables the next (usbd_cdc_if.c:253).  It *)
(* does not: USBD_LL_DataOutStage drops it when the device takes itself    *)
(* for suspended by then (usbd_core.c:655).                                *)
AlwaysReceiving == Configured => out.open /\ out.on

(* That is the only way to lose the receiver: of a configured device it is *)
(* disabled exactly if a suspension was served after the data of a         *)
(* transfer arrived and before its end was handed over, one call of the    *)
(* handler for each, and nobody has configured the device since.           *)
ReceiverLostOnlyIfCutOff == Configured => out.open /\ (out.on <=> ~cutOff)

(* However suspensions, their ends and resets follow each other while the  *)
(* processor stands still, the device does not stay suspended when the bus *)
(* is not (stm32l4xx_hal_pcd.c:1299).                                      *)
AwakeWithTheBus == AllServed => dev_state # "SUSPENDED"
=============================================================================
