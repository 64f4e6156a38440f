---------------------------- MODULE MCCommandLink ----------------------------
(* CommandLink with four frames: two of one layout, and two that are       *)
(* delivered in pieces, with '$' or ";#" in their payload.                 *)
EXTENDS CommandLink

CONSTANTS stayID, eraseID

MCFooter == <<11, 12>>
Semicolon == MCFooter[1]
Hash == MCFooter[2]
MCFrames == { <<SOH, stayID, 5, Semicolon, Hash>>,
              <<SOH, eraseID, 5, Semicolon, Hash>>,
              <<SOH, APPLICATION_DATA, 8, Semicolon, SOH, 5, Semicolon, Hash>>,
              <<SOH, APPLICATION_DATA, 9, Semicolon, Hash, SOH, 7, Semicolon, Hash>> }
=============================================================================
