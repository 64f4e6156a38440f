----------------------------- MODULE CommandLink -----------------------------
(***************************************************************************)
(* The way of a command from the host to its handler and of the answer     *)
(* back: CDC_Receive_FS, which runs in the USB interrupt and assembles     *)
(* frames in g_rx_buffer; the head of the main loop, which checks the      *)
(* frame in that same buffer; CDC_Transmit_FS; and a host that sends one   *)
(* frame at a time.                                                        *)
(*                                                                         *)
(* Bytes are numbers.  The CRC_WORD of a frame is left out: a packet       *)
(* passes the check of its handler when it is one of the frames the host   *)
(* computes a CRC for, with the layout that handler expects.               *)
(*                                                                         *)
(* AnyFooter, OverflowLate, FlagLeftSet and NoCheck are slips in the       *)
(* operator that follows each; no step uses them.                          *)
(***************************************************************************)
EXTENDS Integers, Sequences

CONSTANTS
  SOH, Footer,     \* first byte of a frame, and its last two: '$', <<';', '#'>>
  Frames,          \* what hosts send: <<SOH, MsgID, size, ..., ';', '#'>>
  RX_CDC_BUFFER,   \* length of g_rx_buffer
  MIN_PACKET,      \* smallest size main accepts (7)
  USB_PACKET,      \* longest piece the USB interrupt delivers at once (64)
  MaxCuts          \* frames a host can leave unfinished

MsgIDs == {f[2] : f \in Frames}
APPLICATION_DATA == 3

ASSUME FramesAssumption ==
  \A f \in Frames : /\ f \in Seq(0 .. 255) /\ Len(f) \in MIN_PACKET .. 255
                    /\ f[1] = SOH /\ f[3] = Len(f)
                    /\ <<f[Len(f) - 1], f[Len(f)]>> = Footer
ASSUME FooterAssumption == Len(Footer) = 2 /\ Footer[1] # SOH
ASSUME SizesAssumption ==
  /\ MIN_PACKET \in 5 .. 255 /\ USB_PACKET \in Nat \ {0} /\ MaxCuts \in Nat
  /\ RX_CDC_BUFFER \in Nat /\ \A f \in Frames : Len(f) <= RX_CDC_BUFFER
  /\ MIN_PACKET <= RX_CDC_BUFFER

VARIABLES
  frame, wire, cuts,      \* host: the frame it sent last, what is left of it
                          \* to deliver; frames left unfinished so far
  waiting, answer,        \* host: it waits for an answer; the last one it got
  burst,                  \* bytes before CDC_Receive_FS returns
  started, index, expected, \* its static variables
  g_rx_buffer, g_USB_CDC_flag,
  pc, pktSize, msgID,     \* main: where it is, and its copies of two bytes
  TxState, tx,            \* a transfer to the host is under way, and of what
  executed                \* ghost: <<handler, packet>> since frame was sent

host == <<frame, wire, cuts, waiting, answer, burst>>
receiver == <<started, index, expected, g_rx_buffer>>
main == <<pc, pktSize, msgID>>
vars == <<host, receiver, g_USB_CDC_flag, main, TxState, tx, executed>>

Buffers == [0 .. (RX_CDC_BUFFER - 1) -> 0 .. 255]
Zeroed == [b \in 0 .. (RX_CDC_BUFFER - 1) |-> 0]

Init ==
  /\ frame = <<>> /\ wire = <<>> /\ cuts = 0 /\ burst = 0
  /\ waiting = FALSE /\ answer = "none"
  /\ started = FALSE /\ index = 0 /\ expected = 0
  /\ g_rx_buffer = Zeroed /\ g_USB_CDC_flag = FALSE
  /\ pc = "poll" /\ pktSize = 0 /\ msgID = 0
  /\ TxState = 0 /\ tx = "none" /\ executed = <<>>

-----------------------------------------------------------------------------
(* The host.  It sends the next frame once it has a PASS; after anything   *)
(* else, or nothing, it first lets the board come to rest.                 *)

AtRest == /\ wire = <<>> /\ ~g_USB_CDC_flag /\ pc = "poll" /\ TxState = 0

Send(f) ==
  /\ ~waiting /\ wire = <<>>
  /\ answer = "pass" \/ AtRest
  /\ frame' = f /\ wire' = f /\ waiting' = TRUE /\ answer' = "none"
  /\ executed' = <<>>
  /\ UNCHANGED <<cuts, burst, receiver, g_USB_CDC_flag, main, TxState, tx>>

(* The host program ends in the middle of a frame; another one starts.     *)
Cut ==
  /\ wire # <<>> /\ burst = 0 /\ cuts < MaxCuts
  /\ wire' = <<>> /\ cuts' = cuts + 1 /\ waiting' = FALSE
  /\ UNCHANGED <<frame, answer, burst, receiver, g_USB_CDC_flag, main, TxState, tx,
                 executed>>

GiveUp ==
  /\ waiting /\ AtRest
  /\ waiting' = FALSE
  /\ UNCHANGED <<frame, wire, cuts, answer, burst, receiver, g_USB_CDC_flag, main,
                 TxState, tx, executed>>

-----------------------------------------------------------------------------
(* CDC_Receive_FS, one byte after the other: burst counts the bytes of the *)
(* USB packet it still has to go through before it returns.                *)

Byte == wire[1]

NoFrameYet ==
  /\ ~started /\ Byte # SOH
  /\ UNCHANGED <<receiver, g_USB_CDC_flag>>

FirstByte ==
  /\ ~started /\ Byte = SOH
  /\ started' = TRUE /\ index' = 1 /\ expected' = 0
  /\ g_rx_buffer' = [g_rx_buffer EXCEPT ![0] = Byte]
  /\ UNCHANGED g_USB_CDC_flag

AnyFooter(n, buffer) ==
  n >= 2 /\ <<buffer[n - 2], buffer[n - 1]>> = Footer
FrameComplete(n, buffer) ==
  n >= expected' /\ n >= 2 /\ <<buffer[n - 2], buffer[n - 1]>> = Footer

OverflowLate(n) == n > RX_CDC_BUFFER
Overflow(n) == n >= RX_CDC_BUFFER

NextByte ==
  /\ started
  /\ LET n == index + 1
         buffer == [g_rx_buffer EXCEPT ![index] = Byte]
     IN  /\ expected' = IF n = 3 THEN buffer[2] ELSE expected
         /\ IF FrameComplete(n, buffer)
              THEN /\ g_USB_CDC_flag' = TRUE
                   /\ index' = 0 /\ started' = FALSE /\ g_rx_buffer' = buffer
            ELSE /\ UNCHANGED g_USB_CDC_flag
                 /\ IF Overflow(n)
                      THEN index' = 0 /\ started' = FALSE /\ g_rx_buffer' = Zeroed
                      ELSE index' = n /\ started' = TRUE /\ g_rx_buffer' = buffer

UsbPacket == IF Len(wire) < USB_PACKET THEN Len(wire) ELSE USB_PACKET

CDC_Receive_FS ==
  /\ wire # <<>>
  /\ NoFrameYet \/ FirstByte \/ NextByte
  /\ wire' = Tail(wire)
  /\ burst' = (IF burst = 0 THEN UsbPacket ELSE burst) - 1
  /\ UNCHANGED <<frame, cuts, waiting, answer, main, TxState, tx, executed>>

-----------------------------------------------------------------------------
(* CDC_Transmit_FS drops what it is given while a transfer is under way.   *)

Transmit(reply) ==
  IF TxState # 0 THEN UNCHANGED <<TxState, tx>>
                 ELSE TxState' = 1 /\ tx' = reply

(* The transfer is done: the host has the answer, if it waits for one.     *)
DataIn ==
  /\ TxState = 1 /\ burst = 0
  /\ TxState' = 0 /\ tx' = "none"
  /\ IF waiting THEN waiting' = FALSE /\ answer' = tx
                ELSE UNCHANGED <<waiting, answer>>
  /\ UNCHANGED <<frame, wire, cuts, burst, receiver, g_USB_CDC_flag, main, executed>>

-----------------------------------------------------------------------------
(* The main loop.  CDC_Receive_FS may come between any two steps.          *)

Reject(reply) ==
  /\ pc' = "poll" /\ Transmit(reply)
  /\ UNCHANGED <<host, receiver, g_USB_CDC_flag, executed>>
Go(label) ==
  /\ pc' = label
  /\ UNCHANGED <<host, receiver, TxState, tx, executed>>

FlagLeftSet ==
  /\ pc = "poll" /\ g_USB_CDC_flag
  /\ Go("size") /\ UNCHANGED <<g_USB_CDC_flag, pktSize, msgID>>
TakeFlag ==
  /\ pc = "poll" /\ g_USB_CDC_flag
  /\ g_USB_CDC_flag' = FALSE
  /\ Go("size") /\ UNCHANGED <<pktSize, msgID>>

CheckSize ==
  /\ pc = "size"
  /\ pktSize' = g_rx_buffer[2] /\ UNCHANGED msgID
  /\ IF pktSize' < MIN_PACKET \/ pktSize' > RX_CDC_BUFFER
       THEN Reject("INVALID_PACKET_SIZE")
       ELSE Go("start") /\ UNCHANGED g_USB_CDC_flag

CheckStart ==
  /\ pc = "start" /\ UNCHANGED <<pktSize, msgID>>
  /\ IF g_rx_buffer[0] # SOH
       THEN Reject("INVALID_START_MSG")
       ELSE Go("end") /\ UNCHANGED g_USB_CDC_flag

CheckEnd ==
  /\ pc = "end" /\ UNCHANGED <<pktSize, msgID>>
  /\ IF <<g_rx_buffer[pktSize - 2], g_rx_buffer[pktSize - 1]>> # Footer
       THEN Reject("INVALID_END_MSG")
       ELSE Go("switch") /\ UNCHANGED g_USB_CDC_flag

Switch ==
  /\ pc = "switch" /\ UNCHANGED pktSize
  /\ msgID' = g_rx_buffer[1]
  /\ IF msgID' \notin MsgIDs
       THEN Reject("ERR_MSG_NO_RESPONSE")
       ELSE Go("copy") /\ UNCHANGED g_USB_CDC_flag

(* The handler copies the packet out of g_rx_buffer and checks its CRC     *)
(* over the packetSize it finds in the copy.  The copy is one step: bytes  *)
(* arrive during it only behind a frame that was left unfinished, and a    *)
(* packet mixed from two frames is one more that its CRC gives away.  Of   *)
(* packetSize, two bytes wide in most packets, the low byte is kept: no    *)
(* frame is that long.                                                     *)
Packet == [k \in 1 .. g_rx_buffer[2] |-> g_rx_buffer[k - 1]]
NoCheck == TRUE
CrcMatches ==
  \E f \in Frames : f[2] = msgID /\ Len(f) = g_rx_buffer[2] /\ Packet \in Frames

Handle ==
  /\ pc = "copy" /\ UNCHANGED <<pktSize, msgID>>
  /\ IF CrcMatches
       THEN /\ pc' = "answer"
            /\ executed' = Append(executed, <<msgID, Packet>>)
            /\ UNCHANGED <<host, receiver, g_USB_CDC_flag, TxState, tx>>
       ELSE Reject("CRC_CHECK_FAIL")

(* The handler has done its work, well or not.  APPLICATION_DATA answers   *)
(* twice at the end of the slot.  Some failures are not answered at all.   *)
Answer ==
  /\ pc = "answer"
  /\ \/ pc' = "poll" /\ Transmit("pass")
     \/ pc' = "poll" /\ Transmit("fail")
     \/ pc' = "poll" /\ UNCHANGED <<TxState, tx>>
     \/ msgID = APPLICATION_DATA /\ pc' = "again" /\ Transmit("fail")
  /\ UNCHANGED <<host, receiver, g_USB_CDC_flag, pktSize, msgID, executed>>

AnswerAgain ==
  /\ pc = "again"
  /\ pc' = "poll" /\ Transmit("fail")
  /\ UNCHANGED <<host, receiver, g_USB_CDC_flag, pktSize, msgID, executed>>

Main ==
  /\ burst = 0
  /\ \/ TakeFlag \/ CheckSize \/ CheckStart \/ CheckEnd \/ Switch \/ Handle
     \/ Answer \/ AnswerAgain

Sends == \E f \in Frames : Send(f)

Next == Sends \/ Cut \/ GiveUp \/ CDC_Receive_FS \/ DataIn \/ Main

Spec == Init /\ [][Next]_vars

(* The processor executes main and its interrupts, USB delivers what the   *)
(* host sends and fetches what the board sends, the host keeps trying.     *)
Fairness == /\ WF_vars(Main) /\ WF_vars(CDC_Receive_FS) /\ WF_vars(DataIn)
            /\ WF_vars(Sends) /\ WF_vars(GiveUp)

FairSpec == Spec /\ Fairness

-----------------------------------------------------------------------------

TypeOK ==
  /\ frame \in Frames \cup {<<>>} /\ wire \in Seq(0 .. 255)
  /\ cuts \in 0 .. MaxCuts /\ waiting \in BOOLEAN
  /\ burst \in 0 .. USB_PACKET
  /\ started \in BOOLEAN /\ index \in 0 .. (RX_CDC_BUFFER - 1)
  /\ expected \in 0 .. 255
  /\ g_rx_buffer \in Buffers /\ g_USB_CDC_flag \in BOOLEAN
  /\ pc \in {"poll", "size", "start", "end", "switch", "copy", "answer", "again"}
  /\ pktSize \in 0 .. 255 /\ msgID \in 0 .. 255 /\ TxState \in {0, 1}

(* A frame is executed at most once, by the handler of its own MsgID and   *)
(* with the contents the host gave it; PASS means that it was.  Holds for  *)
(* payloads with '$' or ";#" in them and after unfinished frames.          *)
RunsWhatWasSent ==
  /\ executed # <<>> => executed = << <<frame[2], frame>> >>
  /\ answer = "pass" => executed # <<>>

(* A host that keeps sending is not shut out by what went before, least of *)
(* all unfinished frames: the receiver finds the beginning of a frame      *)
(* again, once all frames sent have their first footer at their end.       *)
Plain(f) == \A k \in 2 .. (Len(f) - 1) : SubSeq(f, k - 1, k) # Footer
KeepsListening == <>[][Sends => Plain(frame')]_vars => []<>(executed # <<>>)

(* As long as no host leaves a frame unfinished, a frame reaches its       *)
(* handler whole: none is turned away.                                     *)
WholeFramesAccepted ==
  cuts = 0 => answer \in {"none", "pass", "fail"}
=============================================================================
