SPECIFICATION FairSpec
CONSTANTS
  stayID = 1
  eraseID = 2
  SOH = 10
  Footer <- MCFooter
  Frames <- MCFrames
  RX_CDC_BUFFER = 16
  MIN_PACKET = 5
  USB_PACKET = 4
  MaxCuts = 4
INVARIANTS
  TypeOK
  RunsWhatWasSent
  WholeFramesAccepted
PROPERTY KeepsListening
