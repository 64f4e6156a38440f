------------------------------ MODULE AdcReadout ------------------------------
(***************************************************************************)
(* The sweep of the external ADC in postCheck (Post.c, External_ADC.c).    *)
(* ExADC_ReadChannel makes three one-frame SPI transfers with a timeout of *)
(* 0, and HAL_SPI_TransmitReceive then never waits: it writes the frame,   *)
(* looks once whether an answer has come, and returns HAL_TIMEOUT, which   *)
(* nobody looks at.  The SPI peripheral shifts the frames out behind its   *)
(* back, and what a call finds in the receive FIFO may be the answer to an *)
(* earlier frame.  The answer names its channel; that channel's entry of   *)
(* AnaVoltages is the one written.                                         *)
(*                                                                         *)
(* The ADC answers a frame with the conversion of the channel that was     *)
(* selected two frames before.  A value is abstracted to whether it was    *)
(* converted during this sweep.                                            *)
(*                                                                         *)
(* AllVoltages, OneMore and AnyChannel are slips in the operators that     *)
(* follow them.                                                            *)
(***************************************************************************)
EXTENDS Integers, Sequences

CONSTANTS
  Channels,         \* what CH_No can say: 0 .. 15
  Voltages,         \* indices of AnaVoltages: 0 .. 13
  Dig3P3,           \* the float behind them, written by the internal ADC: 14
  RxFifo            \* frames the receive FIFO of the SPI holds: 2

ChannelsAssumption ==
  /\ Channels \subseteq Nat /\ Voltages \subseteq Channels
  /\ Dig3P3 \in Channels /\ 0 .. Dig3P3 \subseteq Channels
  /\ \A c \in Voltages : c < Dig3P3
  /\ RxFifo \in Nat /\ RxFifo >= 2

Continue == -1                          \* the zeroed ManualMode frame
Answers == [ch : Channels, new : BOOLEAN]

VARIABLES
  tx, rx,           \* frames written but not shifted out; answers not read
  selected,         \* ADC: answers to the next two frames
  channel, call,    \* the loop index of postCheck; transfers made for it
  pc,               \* "write" or "look" in a transfer, "store", "compare"
  ADC_ExtReceive,
  g_ExtADC_Value    \* who wrote each entry last: "sweep", "internal", "old"

spi == <<tx, rx, selected>>
vars == <<spi, channel, call, pc, ADC_ExtReceive, g_ExtADC_Value>>

(* Both answers the ADC is about to give, and whatever an earlier sweep    *)
(* left in the FIFO and in RAM, are old.                                   *)
Old(c) == [ch |-> c, new |-> FALSE]
Init ==
  /\ tx = <<>>
  /\ \E c, d \in Channels :
       /\ rx \in {<<>>, <<Old(c)>>, <<Old(d), Old(c)>>}
       /\ selected = <<Old(d), Old(c)>>
  /\ channel = 0 /\ call = 1 /\ pc = "write"
  /\ ADC_ExtReceive = Old(0)
  /\ g_ExtADC_Value = [c \in Voltages \cup {Dig3P3} |->
                         IF c = Dig3P3 THEN "internal" ELSE "old"]

-----------------------------------------------------------------------------
(* The SPI peripheral and the ADC.                                         *)

(* One frame is shifted; its answer is lost when the FIFO is full.         *)
Shift ==
  /\ tx # <<>>
  /\ tx' = Tail(tx)
  /\ LET chosen == IF Head(tx) = Continue THEN selected[2].ch ELSE Head(tx)
     IN  selected' = <<selected[2], [ch |-> chosen, new |-> TRUE]>>
  /\ rx' = IF Len(rx) < RxFifo THEN Append(rx, Head(selected)) ELSE rx
  /\ UNCHANGED <<channel, call, pc, ADC_ExtReceive, g_ExtADC_Value>>

-----------------------------------------------------------------------------
(* HAL_SPI_TransmitReceive(..., 1, 0).  Of the timing only this is used: a *)
(* frame takes 16 bits at 10 MHz, two calls take longer than one frame,    *)
(* and what the core computes between two channels longer than three.      *)

Transmit ==
  /\ pc = "write" /\ (call = 1 => tx = <<>>)
  /\ tx' = Append(tx, IF call = 1 THEN channel ELSE Continue)
  /\ pc' = "look"
  /\ UNCHANGED <<rx, selected, channel, call, ADC_ExtReceive, g_ExtADC_Value>>

LookOnce ==
  /\ pc = "look" /\ Len(tx) <= 2
  /\ IF rx = <<>> THEN UNCHANGED <<rx, ADC_ExtReceive>>
     ELSE ADC_ExtReceive' = Head(rx) /\ rx' = Tail(rx)
  /\ IF call < 3 THEN call' = call + 1 /\ pc' = "write"
                 ELSE call' = call /\ pc' = "store"
  /\ UNCHANGED <<tx, selected, channel, g_ExtADC_Value>>

(* The switch on ADC_CH_ID has a case for each voltage and no other.       *)
AnyChannel(id) == id \in Voltages \cup {Dig3P3}
HasCase(id) == id \in Voltages

(* for (uint8_t i = 0; i <= 14; i++): one channel more than voltages.      *)
AllVoltages == Dig3P3 - 1
OneMore == Dig3P3 + 1
LastChannel == Dig3P3

Store ==
  /\ pc = "store"
  /\ g_ExtADC_Value' =
       IF HasCase(ADC_ExtReceive.ch)
         THEN [g_ExtADC_Value EXCEPT ![ADC_ExtReceive.ch] =
                 IF ADC_ExtReceive.new THEN "sweep" ELSE "old"]
         ELSE g_ExtADC_Value
  /\ IF channel < LastChannel
       THEN channel' = channel + 1 /\ call' = 1 /\ pc' = "write"
       ELSE pc' = "compare" /\ UNCHANGED <<channel, call>>
  /\ UNCHANGED <<spi, ADC_ExtReceive>>

Next == Shift \/ Transmit \/ LookOnce \/ Store

Spec == Init /\ [][Next]_vars

-----------------------------------------------------------------------------

(* Three frames are the most that wait to be shifted, the FIFO holds what  *)
(* it can, and no value is stored outside g_ExtADC_Value.                  *)
TypeOK ==
  /\ tx \in Seq(Channels \cup {Continue}) /\ Len(tx) <= 3
  /\ rx \in Seq(Answers) /\ Len(rx) <= RxFifo
  /\ selected \in Answers \X Answers
  /\ channel \in 0 .. Dig3P3 /\ call \in 1 .. 3
  /\ pc \in {"write", "look", "store", "compare"}
  /\ ADC_ExtReceive \in Answers
  /\ g_ExtADC_Value \in [Voltages \cup {Dig3P3} -> {"sweep", "internal", "old"}]

(* However late the answers come, every voltage postCheck compares with    *)
(* its limits was converted in this sweep (Post.c:262, External_ADC.c:30). *)
EveryVoltageSwept ==
  pc = "compare" => \A c \in Voltages : g_ExtADC_Value[c] = "sweep"

(* The internal ADC's measurement, read before the sweep and compared      *)
(* after it, is still there (External_ADC.c:102).                          *)
InternalValueKept == g_ExtADC_Value[Dig3P3] = "internal"
=============================================================================
