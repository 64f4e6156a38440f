-------------------------- MODULE CommandLink_proof --------------------------
(***************************************************************************)
(* What CommandLink does for any set of frames, any length of g_rx_buffer  *)
(* and any size of USB packets: its types hold, and as long as no host     *)
(* leaves a frame unfinished, every frame gets to its handler as it was    *)
(* sent, once, and none is turned away.                                    *)
(*                                                                         *)
(* An unfinished frame mixes with the next one in g_rx_buffer; whether the *)
(* mixture is a frame depends on the CRC, which is not part of the model.  *)
(***************************************************************************)
EXTENDS CommandLink, SequenceTheorems, TLAPS

LEMMA FrameFacts ==
  ASSUME NEW f \in Frames
  PROVE  /\ f \in Seq(0 .. 255) /\ Len(f) \in Nat /\ 5 <= Len(f)
         /\ MIN_PACKET <= Len(f) /\ Len(f) <= RX_CDC_BUFFER
         /\ f[1] = SOH /\ f[3] = Len(f) /\ <<f[Len(f) - 1], f[Len(f)]>> = Footer
         /\ SOH \in 0 .. 255 /\ f[2] \in 0 .. 255
<1>1. /\ f \in Seq(0 .. 255) /\ Len(f) \in MIN_PACKET .. 255
      /\ f[1] = SOH /\ f[3] = Len(f) /\ <<f[Len(f) - 1], f[Len(f)]>> = Footer
  BY FramesAssumption
<1>2. MIN_PACKET \in 5 .. 255 /\ Len(f) <= RX_CDC_BUFFER
  BY SizesAssumption
<1>3. Len(f) \in Nat /\ 5 <= Len(f) /\ MIN_PACKET <= Len(f)
  <2>1. \A n : n \in MIN_PACKET .. 255 => n \in Nat /\ 5 <= n /\ MIN_PACKET <= n
    BY <1>2
  <2> QED
    BY <1>1, <2>1, Zenon
<1>4. f[1] \in 0 .. 255 /\ f[2] \in 0 .. 255
  <2>1. \A n \in Nat : 5 <= n => 1 \in 1 .. n /\ 2 \in 1 .. n
    OBVIOUS
  <2>2. 1 \in 1 .. Len(f) /\ 2 \in 1 .. Len(f)
    BY <1>3, <2>1, Zenon
  <2> QED
    BY <1>1, <2>2, ElementOfSeq
<1> QED
  BY <1>1, <1>2, <1>3, <1>4, Zenon

LEMMA BufferLength == RX_CDC_BUFFER \in Nat /\ 5 <= RX_CDC_BUFFER
BY SizesAssumption

LEMMA ZeroedBuffer == Zeroed \in Buffers
BY BufferLength DEF Zeroed, Buffers

LEMMA InitType == Init => TypeOK
<1> SUFFICES ASSUME Init PROVE TypeOK
  OBVIOUS
<1>1. <<>> \in Seq(0 .. 255)
  OBVIOUS
<1>2. /\ cuts \in 0 .. MaxCuts /\ burst \in 0 .. USB_PACKET
      /\ index \in 0 .. (RX_CDC_BUFFER - 1)
  BY SizesAssumption, BufferLength DEF Init
<1>3. waiting \in BOOLEAN /\ started \in BOOLEAN /\ g_USB_CDC_flag \in BOOLEAN
  BY Zenon DEF Init
<1> QED
  BY <1>1, <1>2, <1>3, ZeroedBuffer DEF Init, TypeOK

LEMMA ReceiveType ==
  ASSUME TypeOK, CDC_Receive_FS
  PROVE  TypeOK'
<1>1. /\ wire \in Seq(0 .. 255) /\ wire # <<>> /\ index \in 0 .. (RX_CDC_BUFFER - 1)
      /\ g_rx_buffer \in Buffers /\ burst \in 0 .. USB_PACKET /\ expected \in 0 .. 255
      /\ started \in BOOLEAN
  BY DEF TypeOK, CDC_Receive_FS
<1>2. Byte \in 0 .. 255 /\ wire' \in Seq(0 .. 255) /\ Len(wire) \in Nat \ {0}
  <2>1. wire' = Tail(wire)
    BY DEF CDC_Receive_FS
  <2>2. Len(wire) \in Nat \ {0}
    BY <1>1
  <2>3. 1 \in 1 .. Len(wire)
    BY <2>2
  <2>4. wire[1] \in 0 .. 255
    BY <1>1, <2>3, ElementOfSeq
  <2> QED
    BY <1>1, <2>1, <2>2, <2>4 DEF Byte
<1>3. burst' \in 0 .. USB_PACKET
  <2>1. burst' = (IF burst = 0 THEN UsbPacket ELSE burst) - 1
    BY DEF CDC_Receive_FS
  <2>2. UsbPacket \in 1 .. USB_PACKET
    BY <1>2, SizesAssumption DEF UsbPacket
  <2> QED
    BY <1>1, <2>1, <2>2, SizesAssumption
<1>4. /\ started' \in BOOLEAN /\ index' \in 0 .. (RX_CDC_BUFFER - 1)
      /\ expected' \in 0 .. 255 /\ g_rx_buffer' \in Buffers /\ g_USB_CDC_flag' \in BOOLEAN
  <2>1. CASE NoFrameYet
    BY <1>1, <2>1 DEF NoFrameYet, receiver, TypeOK
  <2>2. CASE FirstByte
    BY <1>1, <1>2, <2>2, BufferLength DEF FirstByte, Buffers, TypeOK
  <2>3. CASE NextByte
    <3> DEFINE n == index + 1
               buffer == [g_rx_buffer EXCEPT ![index] = Byte]
    <3>1. buffer \in Buffers
      BY <1>1, <1>2 DEF Buffers
    <3>2. expected' \in 0 .. 255
      <4>1. buffer[2] \in 0 .. 255
        BY <3>1, BufferLength DEF Buffers
      <4>2. expected' = IF n = 3 THEN buffer[2] ELSE expected
        BY <2>3 DEF NextByte
      <4> QED
        BY <1>1, <4>1, <4>2
    <3>3. CASE FrameComplete(n, buffer)
      <4>1. g_USB_CDC_flag' = TRUE /\ index' = 0 /\ started' = FALSE /\ g_rx_buffer' = buffer
        BY <2>3, <3>3 DEF NextByte
      <4>2. started' \in BOOLEAN /\ g_USB_CDC_flag' \in BOOLEAN
        BY <4>1, Zenon
      <4> QED
        BY <3>1, <3>2, <4>1, <4>2, BufferLength
    <3>4. CASE ~FrameComplete(n, buffer) /\ Overflow(n)
      <4>1. UNCHANGED g_USB_CDC_flag /\ index' = 0 /\ started' = FALSE /\ g_rx_buffer' = Zeroed
        BY <2>3, <3>4 DEF NextByte
      <4>2. started' \in BOOLEAN /\ g_USB_CDC_flag' \in BOOLEAN
        BY <4>1, Zenon DEF TypeOK
      <4> QED
        BY <3>2, <4>1, <4>2, BufferLength, ZeroedBuffer
    <3>5. CASE ~FrameComplete(n, buffer) /\ ~Overflow(n)
      <4>1. UNCHANGED g_USB_CDC_flag /\ index' = n /\ started' = TRUE /\ g_rx_buffer' = buffer
        BY <2>3, <3>5 DEF NextByte
      <4>2. n \in 0 .. (RX_CDC_BUFFER - 1)
        BY <1>1, <3>5, BufferLength DEF Overflow
      <4> QED
        BY <3>1, <3>2, <4>1, <4>2 DEF TypeOK
    <3> QED
      BY <3>3, <3>4, <3>5
  <2> QED
    BY <2>1, <2>2, <2>3 DEF CDC_Receive_FS
<1> QED
  BY <1>2, <1>3, <1>4 DEF TypeOK, CDC_Receive_FS, main

LEMMA TransmitType ==
  ASSUME TypeOK, NEW reply, Transmit(reply)
  PROVE  TxState' \in {0, 1}
BY DEF TypeOK, Transmit

Labels == {"poll", "size", "start", "end", "switch", "copy", "answer", "again"}

LEMMA MainKeepsType ==
  ASSUME TypeOK, UNCHANGED <<host, receiver>>, pc' \in Labels,
         pktSize' \in 0 .. 255, msgID' \in 0 .. 255, TxState' \in {0, 1},
         g_USB_CDC_flag' \in BOOLEAN
  PROVE  TypeOK'
BY DEF TypeOK, host, receiver, Labels

LEMMA MainType ==
  ASSUME TypeOK, Main
  PROVE  TypeOK'
<1>1. /\ g_rx_buffer[1] \in 0 .. 255 /\ g_rx_buffer[2] \in 0 .. 255
      /\ pktSize \in 0 .. 255 /\ msgID \in 0 .. 255 /\ TxState \in {0, 1}
      /\ g_USB_CDC_flag \in BOOLEAN
  BY BufferLength DEF TypeOK, Buffers
<1>2. CASE TakeFlag
  <2>1. /\ UNCHANGED <<host, receiver, TxState, pktSize, msgID>> /\ pc' = "size"
        /\ g_USB_CDC_flag' = FALSE
    BY <1>2 DEF TakeFlag, Go
  <2> QED
    BY <1>1, <2>1, MainKeepsType DEF Labels
<1>3. ASSUME NEW reply, Reject(reply), pktSize' \in 0 .. 255, msgID' \in 0 .. 255
      PROVE  TypeOK'
  <2>1. /\ UNCHANGED <<host, receiver, g_USB_CDC_flag>> /\ pc' = "poll"
        /\ TxState' \in {0, 1}
    BY <1>3, TransmitType DEF Reject
  <2> QED
    BY <1>1, <1>3, <2>1, MainKeepsType DEF Labels
<1>4. ASSUME NEW label \in Labels, Go(label), UNCHANGED g_USB_CDC_flag,
             pktSize' \in 0 .. 255, msgID' \in 0 .. 255
      PROVE  TypeOK'
  BY <1>1, <1>4, MainKeepsType DEF Go
<1>5. CASE CheckSize \/ CheckStart \/ CheckEnd \/ Switch
  <2>1. pktSize' \in 0 .. 255 /\ msgID' \in 0 .. 255
    BY <1>1, <1>5 DEF CheckSize, CheckStart, CheckEnd, Switch
  <2>2. \/ \E reply \in {"INVALID_PACKET_SIZE", "INVALID_START_MSG", "INVALID_END_MSG",
                         "ERR_MSG_NO_RESPONSE"} : Reject(reply)
        \/ \E label \in Labels : Go(label) /\ UNCHANGED g_USB_CDC_flag
    BY <1>5 DEF CheckSize, CheckStart, CheckEnd, Switch, Labels
  <2> QED
    BY <1>3, <1>4, <2>1, <2>2
<1>6. CASE Handle
  <2>1. UNCHANGED <<pktSize, msgID>>
    BY <1>6 DEF Handle
  <2>2. CASE Reject("CRC_CHECK_FAIL")
    BY <1>1, <1>3, <2>1, <2>2
  <2>3. CASE /\ pc' = "answer"
             /\ UNCHANGED <<host, receiver, g_USB_CDC_flag, TxState, tx>>
    BY <1>1, <2>1, <2>3, MainKeepsType DEF Labels
  <2> QED
    BY <1>6, <2>2, <2>3 DEF Handle
<1>7. CASE Answer \/ AnswerAgain
  <2>1. /\ UNCHANGED <<host, receiver, g_USB_CDC_flag, pktSize, msgID>>
        /\ pc' \in {"poll", "again"}
        /\ \/ \E reply \in {"pass", "fail"} : Transmit(reply)
           \/ TxState' = TxState
    BY <1>7 DEF Answer, AnswerAgain
  <2>2. TxState' \in {0, 1}
    BY <1>1, <2>1, TransmitType
  <2> QED
    BY <1>1, <2>1, <2>2, MainKeepsType DEF Labels
<1> QED
  BY <1>2, <1>5, <1>6, <1>7 DEF Main

LEMMA HostType ==
  ASSUME TypeOK, Sends \/ Cut \/ GiveUp \/ DataIn
  PROVE  TypeOK'
<1>1. CASE Sends
  <2>1. PICK f \in Frames : Send(f)
    BY <1>1 DEF Sends
  <2> QED
    BY <2>1, FrameFacts DEF TypeOK, Send, receiver, main
<1>2. CASE Cut
  <2>1. cuts' \in 0 .. MaxCuts /\ <<>> \in Seq(0 .. 255)
    BY <1>2, SizesAssumption DEF TypeOK, Cut
  <2> QED
    BY <1>2, <2>1 DEF TypeOK, Cut, receiver, main
<1>3. CASE GiveUp
  BY <1>3 DEF TypeOK, GiveUp, receiver, main
<1>4. CASE DataIn
  BY <1>4 DEF TypeOK, DataIn, receiver, main
<1> QED
  BY <1>1, <1>2, <1>3, <1>4

LEMMA NextType == TypeOK /\ [Next]_vars => TypeOK'
<1>1. TypeOK /\ UNCHANGED vars => TypeOK'
  BY DEF TypeOK, vars, host, receiver, main
<1> QED
  BY <1>1, ReceiveType, MainType, HostType DEF Next

(* Every variable keeps its type; in particular CDC_Receive_FS never       *)
(* writes outside g_rx_buffer (usbd_cdc_if.c:265).                         *)
THEOREM TypeCorrect == Spec => []TypeOK
BY InitType, NextType, PTL DEF Spec

-----------------------------------------------------------------------------
(* As long as no frame was left unfinished, g_rx_buffer holds what has     *)
(* come of the frame sent last, and nobody sends before main is through.   *)

Held(k) == \A j \in 1 .. k : g_rx_buffer[j - 1] = frame[j]

Unanswered == TxState = 0 /\ executed = <<>> /\ waiting /\ answer = "none"

Arriving ==
  /\ frame \in Frames /\ Unanswered /\ pc = "poll" /\ ~g_USB_CDC_flag
  /\ index < Len(frame) /\ Len(wire) = Len(frame) - index
  /\ \A j \in 1 .. Len(wire) : wire[j] = frame[index + j]
  /\ Held(index) /\ (started <=> 1 <= index)
  /\ started /\ index < 3 => expected = 0
  /\ 3 <= index => expected = Len(frame)

Arrived == frame \in Frames /\ Unanswered /\ wire = <<>> /\ Held(Len(frame))

Done == << <<frame[2], frame>> >>

ReceiverInv ==
  /\ wire # <<>> => Arriving
  /\ wire = <<>> => ~started /\ index = 0
  /\ g_USB_CDC_flag => pc = "poll" /\ Arrived

MainInv ==
  /\ pc \in {"size", "start", "end", "switch", "copy"} => Arrived
  /\ pc \in {"start", "end", "switch"} => pktSize = Len(frame)
  /\ pc = "copy" => msgID = frame[2]
  /\ pc \in {"answer", "again"} => executed = Done /\ wire = <<>>
  /\ pc = "answer" => TxState = 0 /\ answer = "none"

AnswerInv ==
  /\ tx \in {"none", "pass", "fail"} /\ answer \in {"none", "pass", "fail"}
  /\ executed # <<>> => executed = Done
  /\ TxState = 1 => executed = Done /\ answer # "pass"
  /\ TxState = 1 /\ tx = "pass" => pc = "poll"
  /\ answer = "pass" => executed = Done /\ AtRest

Uncut == ReceiverInv /\ MainInv /\ AnswerInv
IInv == TypeOK /\ (cuts = 0 => Uncut)

LEMMA DoneIsSomething == Done # <<>>
BY DEF Done

LEMMA InitUncut == Init => Uncut
BY DEF Init, Uncut, ReceiverInv, MainInv, AnswerInv

LEMMA SendUncut ==
  ASSUME TypeOK, Uncut, NEW f \in Frames, Send(f)
  PROVE  Uncut'
<1>1. /\ AtRest /\ frame' = f /\ wire' = f /\ waiting' = TRUE /\ answer' = "none"
      /\ executed' = <<>>
      /\ UNCHANGED <<started, index, expected, g_rx_buffer, g_USB_CDC_flag, pc, TxState, tx>>
  BY DEF Send, Uncut, AnswerInv, receiver, main
<1>2. /\ f \in Seq(0 .. 255) /\ Len(f) \in Nat /\ 5 <= Len(f) /\ f # <<>>
  <2>1. f \in Seq(0 .. 255) /\ Len(f) \in Nat /\ 5 <= Len(f)
    BY FrameFacts
  <2>2. Len(<<>>) = 0
    BY EmptySeq
  <2>3. f # <<>>
    BY <2>1, <2>2
  <2> QED
    BY <2>1, <2>3
<1>3. ~started /\ index = 0 /\ pc = "poll" /\ ~g_USB_CDC_flag /\ TxState = 0
  BY <1>1 DEF AtRest, Uncut, ReceiverInv
<1>4. Arriving'
  BY <1>1, <1>2, <1>3 DEF Arriving, Unanswered, Held
<1> QED
  BY <1>1, <1>2, <1>3, <1>4 DEF Uncut, ReceiverInv, MainInv, AnswerInv

LEMMA ReceiveUncut ==
  ASSUME TypeOK, Uncut, CDC_Receive_FS
  PROVE  Uncut'
<1>1. /\ wire # <<>> /\ wire' = Tail(wire) /\ UNCHANGED <<frame, waiting, answer, pc, TxState,
           tx, executed, pktSize, msgID>>
  BY DEF CDC_Receive_FS, main
<1>2. Arriving
  BY <1>1 DEF Uncut, ReceiverInv
<1>3. /\ frame \in Seq(0 .. 255) /\ Len(frame) \in Nat /\ 5 <= Len(frame)
      /\ Len(frame) <= RX_CDC_BUFFER /\ index \in Nat
      /\ frame[1] = SOH /\ frame[3] = Len(frame)
      /\ Footer = <<frame[Len(frame) - 1], frame[Len(frame)]>>
  <2>1. /\ frame \in Seq(0 .. 255) /\ Len(frame) \in Nat /\ 5 <= Len(frame)
        /\ Len(frame) <= RX_CDC_BUFFER
        /\ frame[1] = SOH /\ frame[3] = Len(frame)
        /\ Footer = <<frame[Len(frame) - 1], frame[Len(frame)]>>
    BY <1>2, FrameFacts DEF Arriving
  <2>2. index \in Nat
    BY BufferLength DEF TypeOK
  <2> QED
    BY <2>1, <2>2
<1>4. /\ Byte = frame[index + 1]
      /\ Len(wire') = Len(frame) - (index + 1)
      /\ \A j \in 1 .. Len(wire') : wire'[j] = frame[(index + 1) + j]
      /\ wire' = <<>> <=> index + 1 = Len(frame)
  <2>1. wire \in Seq(0 .. 255) /\ Len(wire) = Len(frame) - index /\ index < Len(frame)
    BY <1>2 DEF TypeOK, Arriving
  <2>2. Len(wire) \in Nat \ {0}
    BY <1>3, <2>1
  <2>3. /\ Tail(wire) \in Seq(0 .. 255) /\ Len(Tail(wire)) = Len(wire) - 1
        /\ \A j \in 1 .. Len(Tail(wire)) : Tail(wire)[j] = wire[j + 1]
    BY <1>1, <2>1, HeadTailProperties
  <2>4. \A j \in 1 .. Len(wire) : wire[j] = frame[index + j]
    BY <1>2 DEF Arriving
  <2>5. wire[1] = frame[index + 1]
    BY <2>2, <2>4
  <2>6. \A j \in 1 .. Len(Tail(wire)) : Tail(wire)[j] = frame[(index + 1) + j]
    <3>1. ASSUME NEW j \in 1 .. Len(Tail(wire))
          PROVE  Tail(wire)[j] = frame[(index + 1) + j]
      <4>1. j + 1 \in 1 .. Len(wire) /\ index + (j + 1) = (index + 1) + j
        BY <1>3, <2>2, <2>3
      <4>2. wire[j + 1] = frame[index + (j + 1)]
        BY <2>4, <4>1
      <4> QED
        BY <2>3, <4>1, <4>2
    <3> QED
      BY <3>1
  <2>7. Tail(wire) = <<>> <=> Len(Tail(wire)) = 0
    BY <2>3, EmptySeq
  <2> QED
    BY <1>1, <1>3, <2>1, <2>3, <2>5, <2>6, <2>7 DEF Byte
<1>5. ~NoFrameYet
  <2>1. CASE index = 0
    BY <1>3, <1>4, <2>1 DEF NoFrameYet
  <2>2. CASE index # 0
    BY <1>2, <1>3, <2>2 DEF NoFrameYet, Arriving
  <2> QED
    BY <2>1, <2>2
<1>6. CASE FirstByte
  <2>1. index = 0 /\ ~started
    BY <1>2, <1>3, <1>6 DEF Arriving, FirstByte
  <2>2. /\ started' = TRUE /\ index' = 1 /\ expected' = 0
        /\ g_rx_buffer' = [g_rx_buffer EXCEPT ![0] = frame[1]]
        /\ g_USB_CDC_flag' = g_USB_CDC_flag
    <3>1. Byte = frame[1]
      BY <1>4, <2>1
    <3> QED
      BY <1>6, <3>1 DEF FirstByte
  <2>3. g_rx_buffer'[0] = frame[1]
    BY <2>2, BufferLength DEF TypeOK, Buffers
  <2>4. Held(index)'
    BY <1>1, <2>2, <2>3 DEF Held
  <2>5. Len(wire') = Len(frame) - 1 /\ wire' # <<>>
    BY <1>3, <1>4, <2>1
  <2>6. \A j \in 1 .. Len(wire') : wire'[j] = frame[1 + j]
    BY <1>4, <2>1
  <2>7. Arriving'
    BY <1>1, <1>2, <1>3, <2>2, <2>4, <2>5, <2>6 DEF Arriving, Unanswered
  <2>8. MainInv' /\ AnswerInv'
    BY <1>1, <1>2 DEF Uncut, MainInv, AnswerInv, Arriving, Unanswered, AtRest, Done
  <2> QED
    BY <2>5, <2>7, <2>8 DEF Uncut, ReceiverInv, Arriving
<1>7. CASE NextByte
  <2> DEFINE n == index + 1
             buffer == [g_rx_buffer EXCEPT ![index] = Byte]
  <2>1. started /\ 1 <= index /\ index < Len(frame) /\ n \in Nat /\ 2 <= n /\ n <= Len(frame)
    BY <1>2, <1>3, <1>7 DEF Arriving, NextByte
  <2>2. \A j \in 1 .. n : buffer[j - 1] = frame[j]
    <3>1. \A j \in 1 .. index : g_rx_buffer[j - 1] = frame[j]
      BY <1>2 DEF Arriving, Held
    <3>2. DOMAIN g_rx_buffer = 0 .. (RX_CDC_BUFFER - 1) /\ index \in 0 .. (RX_CDC_BUFFER - 1)
      BY DEF TypeOK, Buffers
    <3>3. ASSUME NEW j \in 1 .. n PROVE buffer[j - 1] = frame[j]
      <4>1. CASE j = n
        BY <1>3, <1>4, <2>1, <3>2, <4>1
      <4>2. CASE j # n
        <5>1. j \in 1 .. index /\ j - 1 # index
          BY <1>3, <4>2
        <5>2. j - 1 \in 0 .. (RX_CDC_BUFFER - 1)
          BY <1>3, <2>1, <5>1, BufferLength
        <5> QED
          BY <3>1, <3>2, <5>1, <5>2
      <4> QED
        BY <4>1, <4>2
    <3> QED
      BY <3>3
  <2>3. expected' = IF n = 3 THEN buffer[2] ELSE expected
    BY <1>7 DEF NextByte
  <2>4. expected' = IF 3 <= n THEN Len(frame) ELSE 0
    <3>1. CASE n = 3
      <4>1. buffer[2] = frame[3]
        BY <2>2, <3>1
      <4> QED
        BY <1>3, <2>3, <3>1, <4>1
    <3>2. CASE n # 3
      BY <1>2, <1>3, <2>1, <2>3, <3>2 DEF Arriving
    <3> QED
      BY <3>1, <3>2
  <2>5. CASE n = Len(frame)
    <3>1. buffer[n - 2] = frame[n - 1] /\ buffer[n - 1] = frame[n]
      <4>1. n - 1 \in 1 .. n /\ n \in 1 .. n /\ (n - 1) - 1 = n - 2
        BY <2>1
      <4> QED
        BY <2>2, <4>1
    <3>2. FrameComplete(n, buffer)
      BY <1>3, <2>1, <2>4, <2>5, <3>1 DEF FrameComplete
    <3>3. g_USB_CDC_flag' = TRUE /\ index' = 0 /\ started' = FALSE /\ g_rx_buffer' = buffer
      BY <1>7, <3>2 DEF NextByte
    <3>4. wire' = <<>>
      BY <1>4, <2>5
    <3>5. Held(Len(frame))'
      BY <1>1, <2>2, <2>5, <3>3 DEF Held
    <3>6. Arrived' /\ pc' = "poll"
      BY <1>1, <1>2, <3>4, <3>5 DEF Arrived, Arriving, Unanswered
    <3>7. MainInv' /\ AnswerInv'
      BY <1>1, <1>2 DEF Uncut, MainInv, AnswerInv, Arriving, Unanswered, AtRest, Done
    <3> QED
      BY <3>3, <3>4, <3>6, <3>7 DEF Uncut, ReceiverInv
  <2>6. CASE n # Len(frame)
    <3>1. ~FrameComplete(n, buffer)
      <4>1. CASE n = 2
        <5>1. buffer[0] = SOH
          <6>1. buffer[1 - 1] = frame[1]
            BY <2>1, <2>2
          <6> QED
            BY <1>3, <6>1
        <5>2. Footer[1] # buffer[0]
          BY <5>1, FooterAssumption
        <5>3. <<buffer[n - 2], buffer[n - 1]>> # Footer
          BY <4>1, <5>2
        <5> QED
          BY <5>3 DEF FrameComplete
      <4>2. CASE n # 2
        BY <1>3, <2>1, <2>4, <2>6, <4>2 DEF FrameComplete
      <4> QED
        BY <4>1, <4>2
    <3>2. ~Overflow(n)
      BY <1>3, <2>1, <2>6, BufferLength DEF Overflow
    <3>3. /\ g_USB_CDC_flag' = g_USB_CDC_flag /\ index' = n /\ started' = TRUE
          /\ g_rx_buffer' = buffer
      BY <1>7, <3>1, <3>2 DEF NextByte
    <3>4. Held(index)'
      BY <1>1, <2>2, <3>3 DEF Held
    <3>5. wire' # <<>>
      BY <1>4, <2>6
    <3>6. /\ index' < Len(frame') /\ Len(wire') = Len(frame') - index'
          /\ \A j \in 1 .. Len(wire') : wire'[j] = frame'[index' + j]
      BY <1>1, <1>3, <1>4, <2>1, <2>6, <3>3
    <3>7. Arriving'
      BY <1>1, <1>2, <1>3, <2>1, <2>4, <3>3, <3>4, <3>6 DEF Arriving, Unanswered
    <3>8. MainInv' /\ AnswerInv'
      BY <1>1, <1>2 DEF Uncut, MainInv, AnswerInv, Arriving, Unanswered, AtRest, Done
    <3> QED
      BY <3>5, <3>7, <3>8 DEF Uncut, ReceiverInv, Arriving
  <2> QED
    BY <2>5, <2>6
<1> QED
  BY <1>5, <1>6, <1>7 DEF CDC_Receive_FS

LEMMA RestUncut ==
  ASSUME TypeOK, Uncut, cuts' = 0, Cut \/ GiveUp \/ DataIn
  PROVE  cuts = 0 => Uncut'
<1> USE DEF Uncut, ReceiverInv, MainInv, AnswerInv, Held
<1>1. CASE Cut
  <2>1. cuts' = cuts + 1 /\ cuts \in Nat
    BY <1>1 DEF Cut, TypeOK
  <2> QED
    BY <2>1
<1>2. CASE GiveUp
  BY <1>2 DEF GiveUp, AtRest, receiver, main, Arriving, Arrived, Unanswered, Done
<1>3. CASE DataIn
  <2>1. TxState = 1 /\ TxState' = 0 /\ tx' = "none" /\ executed = Done
    BY <1>3 DEF DataIn
  <2>2. /\ UNCHANGED <<frame, wire, started, index, expected, g_rx_buffer, g_USB_CDC_flag,
             pc, pktSize, msgID, executed>>
        /\ \/ answer' = answer
           \/ answer' = tx
    BY <1>3 DEF DataIn, receiver, main
  <2>3. wire = <<>> /\ ~g_USB_CDC_flag
        /\ pc \notin {"size", "start", "end", "switch", "copy", "answer"}
    BY <2>1 DEF Arriving, Arrived, Unanswered
  <2>4. answer' = "pass" => AtRest'
    BY <2>1, <2>2, <2>3 DEF AtRest
  <2> QED
    BY <2>1, <2>2, <2>3, <2>4 DEF Done
<1> QED
  BY <1>1, <1>2, <1>3

(* What the handler copies is the frame.                                   *)
LEMMA PacketIsFrame ==
  ASSUME Arrived
  PROVE  /\ g_rx_buffer[0] = SOH /\ g_rx_buffer[1] = frame[2]
         /\ g_rx_buffer[2] = Len(frame)
         /\ <<g_rx_buffer[Len(frame) - 2], g_rx_buffer[Len(frame) - 1]>> = Footer
         /\ Packet = frame
<1>1. /\ frame \in Frames /\ frame \in Seq(0 .. 255) /\ Len(frame) \in Nat /\ 5 <= Len(frame)
      /\ frame[1] = SOH /\ frame[3] = Len(frame)
      /\ <<frame[Len(frame) - 1], frame[Len(frame)]>> = Footer
  BY FrameFacts DEF Arrived
<1>2. \A j \in 1 .. Len(frame) : g_rx_buffer[j - 1] = frame[j]
  BY DEF Arrived, Held
<1>3. g_rx_buffer[0] = frame[1] /\ g_rx_buffer[1] = frame[2] /\ g_rx_buffer[2] = frame[3]
  <2>1. /\ 1 \in 1 .. Len(frame) /\ 2 \in 1 .. Len(frame) /\ 3 \in 1 .. Len(frame)
        /\ 1 - 1 = 0 /\ 2 - 1 = 1 /\ 3 - 1 = 2
    BY <1>1
  <2> QED
    BY <1>2, <2>1
<1>4. /\ g_rx_buffer[Len(frame) - 2] = frame[Len(frame) - 1]
      /\ g_rx_buffer[Len(frame) - 1] = frame[Len(frame)]
  <2>1. /\ Len(frame) - 1 \in 1 .. Len(frame) /\ Len(frame) \in 1 .. Len(frame)
        /\ (Len(frame) - 1) - 1 = Len(frame) - 2
    BY <1>1
  <2> QED
    BY <1>2, <2>1
<1>5. Packet = frame
  <2>1. Packet = [k \in 1 .. Len(frame) |-> frame[k]]
    BY <1>1, <1>2, <1>3 DEF Packet
  <2>2. frame = [k \in 1 .. Len(frame) |-> frame[k]]
    BY <1>1
  <2> QED
    BY <2>1, <2>2
<1> QED
  BY <1>1, <1>3, <1>4, <1>5

LEMMA MainUncut ==
  ASSUME TypeOK, Uncut, Main
  PROVE  Uncut'
<1>1. UNCHANGED <<host, receiver>>
  BY DEF Main, TakeFlag, CheckSize, CheckStart, CheckEnd, Switch, Handle, Answer,
         AnswerAgain, Go, Reject
<1>2. wire = <<>> /\ ~started /\ index = 0
  <2>1. wire # <<>> => pc = "poll" /\ ~g_USB_CDC_flag
    BY DEF Uncut, ReceiverInv, Arriving
  <2>2. wire = <<>>
    BY <2>1 DEF Main, TakeFlag, CheckSize, CheckStart, CheckEnd, Switch, Handle, Answer,
                AnswerAgain
  <2> QED
    BY <2>2 DEF Uncut, ReceiverInv
<1>3. UNCHANGED <<frame, wire, waiting, answer, started, index, expected, g_rx_buffer>>
  BY <1>1 DEF host, receiver
<1>4. Arrived /\ UNCHANGED <<TxState, executed>> => Arrived'
  BY <1>3 DEF Arrived, Unanswered, Held
<1>5. CASE TakeFlag
  <2>1. pc' = "size" /\ g_USB_CDC_flag' = FALSE /\ UNCHANGED <<TxState, tx, executed>>
        /\ Arrived
    BY <1>5 DEF TakeFlag, Go, Uncut, ReceiverInv
  <2>2. answer # "pass" /\ executed = <<>> /\ TxState = 0
    BY <2>1 DEF Arrived, Unanswered
  <2> QED
    BY <1>2, <1>3, <1>4, <2>1, <2>2 DEF Uncut, ReceiverInv, MainInv, AnswerInv, Done
<1>6. CASE CheckSize \/ CheckStart \/ CheckEnd \/ Switch
  <2>1. pc \in {"size", "start", "end", "switch"} /\ Arrived
    BY <1>6 DEF CheckSize, CheckStart, CheckEnd, Switch, Uncut, MainInv
  <2>2. /\ ~g_USB_CDC_flag /\ answer # "pass" /\ executed = <<>> /\ TxState = 0
        /\ pc \in {"start", "end", "switch"} => pktSize = Len(frame)
    BY <2>1 DEF Arrived, Unanswered, Uncut, ReceiverInv, MainInv
  <2>3. /\ UNCHANGED <<g_USB_CDC_flag, TxState, tx, executed>>
        /\ \/ pc' \in {"start", "end", "switch"} /\ pktSize' = Len(frame)
           \/ pc' = "copy" /\ msgID' = frame[2]
    <3>1. CASE CheckSize
      <4>1. ~(Len(frame) < MIN_PACKET \/ Len(frame) > RX_CDC_BUFFER)
        <5>1. frame \in Frames
          BY <2>1 DEF Arrived
        <5>2. /\ Len(frame) \in Nat /\ MIN_PACKET <= Len(frame) /\ Len(frame) <= RX_CDC_BUFFER
              /\ MIN_PACKET \in Nat
          BY <5>1, FrameFacts, SizesAssumption
        <5> QED
          BY <5>2, BufferLength
      <4>2. pktSize' = Len(frame)
        BY <2>1, <3>1, PacketIsFrame DEF CheckSize
      <4> QED
        BY <3>1, <4>1, <4>2 DEF CheckSize, Go
    <3>2. CASE CheckStart
      BY <2>1, <2>2, <3>2, PacketIsFrame DEF CheckStart, Go
    <3>3. CASE CheckEnd
      BY <2>1, <2>2, <3>3, PacketIsFrame DEF CheckEnd, Go
    <3>4. CASE Switch
      <4>1. msgID' = frame[2] /\ frame[2] \in MsgIDs
        BY <2>1, <3>4, PacketIsFrame DEF Switch, MsgIDs, Arrived
      <4> QED
        BY <3>4, <4>1 DEF Switch, Go
    <3> QED
      BY <1>6, <3>1, <3>2, <3>3, <3>4
  <2>4. Arrived'
    BY <1>4, <2>1, <2>3
  <2> QED
    BY <1>2, <1>3, <2>2, <2>3, <2>4 DEF Uncut, ReceiverInv, MainInv, AnswerInv, Done
<1>7. CASE Handle
  <2>1. pc = "copy" /\ Arrived /\ msgID = frame[2]
    BY <1>7 DEF Handle, Uncut, MainInv
  <2>2. CrcMatches
    BY <2>1, PacketIsFrame DEF CrcMatches, Arrived
  <2>3. /\ pc' = "answer" /\ executed' = Append(executed, <<msgID, Packet>>)
        /\ UNCHANGED <<g_USB_CDC_flag, TxState, tx>>
    BY <1>7, <2>2 DEF Handle
  <2>4. executed = <<>> /\ TxState = 0 /\ answer = "none" /\ ~g_USB_CDC_flag
    BY <2>1 DEF Arrived, Unanswered, Uncut, ReceiverInv
  <2>5. executed' = Done /\ Done' = Done
    BY <1>3, <2>1, <2>3, <2>4, PacketIsFrame DEF Done
  <2> QED
    BY <1>2, <1>3, <2>3, <2>4, <2>5 DEF Uncut, ReceiverInv, MainInv, AnswerInv
<1>8. CASE Answer \/ AnswerAgain
  <2>1. /\ pc \in {"answer", "again"} /\ UNCHANGED <<g_USB_CDC_flag, executed>>
        /\ pc' = "poll" \/ (pc' = "again" /\ Transmit("fail"))
        /\ Transmit("fail") \/ (pc = "answer" /\ Transmit("pass") /\ pc' = "poll")
             \/ UNCHANGED <<TxState, tx>>
    BY <1>8 DEF Answer, AnswerAgain
  <2>2. /\ executed = Done /\ ~g_USB_CDC_flag /\ answer # "pass" /\ Done' = Done
        /\ TxState = 1 => tx # "pass"
        /\ TxState \in {0, 1}
    BY <1>3, <2>1 DEF Uncut, ReceiverInv, MainInv, AnswerInv, AtRest, TypeOK, Done
  <2>3. /\ tx' \in {"none", "pass", "fail"}
        /\ TxState' = 1 /\ tx' = "pass" => pc' = "poll"
    BY <2>1, <2>2 DEF Transmit, Uncut, AnswerInv
  <2> QED
    BY <1>2, <1>3, <2>1, <2>2, <2>3 DEF Uncut, ReceiverInv, MainInv, AnswerInv
<1> QED
  BY <1>5, <1>6, <1>7, <1>8 DEF Main

LEMMA NextIInv == IInv /\ [Next]_vars => IInv'
<1> SUFFICES ASSUME IInv, [Next]_vars PROVE IInv'
  OBVIOUS
<1>1. TypeOK /\ TypeOK'
  BY NextType DEF IInv
<1> SUFFICES ASSUME cuts' = 0 PROVE Uncut'
  BY <1>1 DEF IInv
<1>2. CASE Sends
  <2>1. cuts = 0
    BY <1>2 DEF Sends, Send
  <2> QED
    BY <1>1, <1>2, <2>1, SendUncut DEF Sends, IInv
<1>3. CASE CDC_Receive_FS
  <2>1. cuts = 0
    BY <1>3 DEF CDC_Receive_FS
  <2> QED
    BY <1>1, <1>3, <2>1, ReceiveUncut DEF IInv
<1>4. CASE Cut \/ GiveUp \/ DataIn
  <2>1. cuts = 0
    <3>1. cuts \in Nat /\ (cuts' = cuts \/ cuts' = cuts + 1)
      BY <1>1, <1>4 DEF Cut, GiveUp, DataIn, TypeOK
    <3> QED
      BY <3>1
  <2> QED
    BY <1>1, <1>4, <2>1, RestUncut DEF IInv
<1>5. CASE Main
  <2>1. cuts = 0
    BY <1>5 DEF Main, TakeFlag, CheckSize, CheckStart, CheckEnd, Switch, Handle, Answer,
       AnswerAgain, Go, Reject, host
  <2> QED
    BY <1>1, <1>5, <2>1, MainUncut DEF IInv
<1>6. CASE UNCHANGED vars
  <2>1. cuts = 0 /\ Uncut
    BY <1>6 DEF IInv, vars, host
  <2> QED
    BY <1>6, <2>1
    DEF vars, host, receiver, main, Uncut, ReceiverInv, MainInv, AnswerInv, Arriving,
        Arrived, Unanswered, Held, Done, AtRest
<1> QED
  BY <1>2, <1>3, <1>4, <1>5, <1>6 DEF Next

LEMMA IInvHolds == Spec => []IInv
<1>1. Init => IInv
  BY InitType, InitUncut DEF IInv
<1> QED
  BY <1>1, NextIInv, PTL DEF Spec

(* No frame is turned away by the checks of main's head or of a handler    *)
(* as long as every frame was sent to its end (main.c:346-396).            *)
THEOREM FramesAccepted == Spec => []WholeFramesAccepted
<1>1. IInv => WholeFramesAccepted
  BY DEF IInv, Uncut, AnswerInv, WholeFramesAccepted
<1> QED
  BY <1>1, IInvHolds, PTL

(* Until a frame is left unfinished, what is executed is what was sent,    *)
(* once, and PASS means that it was (usbd_cdc_if.c:263, main.c:377).       *)
THEOREM RunsWhatWasSentUncut == Spec => [](cuts = 0 => RunsWhatWasSent)
<1>1. IInv => (cuts = 0 => RunsWhatWasSent)
  BY DoneIsSomething DEF IInv, Uncut, AnswerInv, RunsWhatWasSent, Done
<1> QED
  BY <1>1, IInvHolds, PTL

=============================================================================
