------------------------------ MODULE MCExtFlash ------------------------------
(* ExtFlash with three test points of two bytes, two of them in sector 0.  *)
(* The second byte of a packet may be 0xFF.                                *)
EXTENDS ExtFlash

CONSTANTS dollar, data

MCRecords == {<<dollar, data>>, <<dollar, Blank>>}
=============================================================================
