--------------------------- MODULE MCUpdateSession ---------------------------
(* UpdateSession with an image of two packets.                             *)
EXTENDS UpdateSession

CONSTANTS vec, txt

MCImage == <<vec, txt>>
MCPacketStart == <<0, 1, 2>>

(* Only what may be repeated is sent again: after a data packet whose end  *)
(* is not known everything is programmed anew, after APP_CRC_VERIFY the    *)
(* signature is written anew.                                              *)
Careful == [s \in 1 .. 6 |-> CASE s \in {3, 4} -> 2
                               [] s = 6        -> 5
                               [] OTHER        -> s]

(* The same, but APP_CRC_VERIFY is sent again.                             *)
VerifyAgain == [Careful EXCEPT ![6] = 6]

(* Every request is sent again, data packets included.                     *)
Stubborn == [s \in 1 .. 6 |-> IF s = 6 THEN 5 ELSE s]

(* Everything from the start: the board may have been reset meanwhile, and *)
(* only STAY_IN_BOOTLOADER_MODE keeps it from its boot attempts.           *)
StartOver == [s \in 1 .. 6 |-> 1]

EachHost == {Careful, Stubborn, StartOver}
AsksAgain == {VerifyAgain}
=============================================================================
