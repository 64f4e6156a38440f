------------------------------ MODULE SafeBoot ------------------------------
(***************************************************************************)
(* What the boot path of Core/Src/main.c promises, without flash pages,    *)
(* metadata, packets or timers: there is an image, it can be rewritten at  *)
(* will, a prefix of it can be sealed, and it is entered only while the    *)
(* prefix that was sealed last is still what it was then.                  *)
(***************************************************************************)
EXTENDS Integers

CONSTANTS
  Dwords,   \* length of the image
  Word,     \* what one double word can hold
  None      \* the seal before the first one

Prefix(mem, n) == [a \in 0 .. (n - 1) |-> mem[a]]

VARIABLES image, seal, running

vars == <<image, seal, running>>

Init ==
  /\ image \in [0 .. (Dwords - 1) -> Word]
  /\ seal = None
  /\ running = FALSE

Rewrite ==
  /\ ~running /\ image' \in [0 .. (Dwords - 1) -> Word]
  /\ UNCHANGED <<seal, running>>

Seal ==
  /\ ~running
  /\ \E n \in 0 .. Dwords : seal' = Prefix(image, n)
  /\ UNCHANGED <<image, running>>

Launch ==
  /\ ~running
  /\ \E n \in 0 .. Dwords : seal = Prefix(image, n)
  /\ running' = TRUE
  /\ UNCHANGED <<image, seal>>

Reset ==
  /\ running /\ running' = FALSE
  /\ UNCHANGED <<image, seal>>

Next == Rewrite \/ Seal \/ Launch \/ Reset

Spec == Init /\ [][Next]_vars
=============================================================================
