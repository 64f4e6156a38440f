\* chunks of 2 bytes in a flash of 4; disturbances of one or two bits up to
\* 15 apart, and three larger ones; three pages of one double word; the
\* processor is the application's after the jump, and a sweep and a CRC end
SPECIFICATION Spec
CONSTANTS
  Channels = {0, 1, 2, 3, 4, 5, 6, 7, 8, 9, 10, 11, 12, 13, 14, 15}
  Voltages = {0, 1, 2, 3, 4, 5, 6, 7, 8, 9, 10, 11, 12, 13}
  Dig3P3 = 14
  RxFifo = 2
  Byte = {{}, {0, 2, 5, 7}}
  FlashSize = 4
  CHUNK_SIZE = 2
  Bursts = {{0}, {0, 1}, {0, 3}, {0, 4}, {0, 7}, {0, 8}, {0, 11}, {0, 12},
            {0, 15}, {0, 5, 12}, {0, 7, 11}, {0, 1, 2, 3, 4, 5, 6, 7, 8, 9, 10, 11, 12, 13, 14, 15}}
  Pages = 3
  PageDwords = 1
  Data = {txt, zero}
  Erased = Erased
  Torn = Torn
  Zero = zero
  None = None
INVARIANTS
  SweepTypeOK
  EveryVoltageSwept
  InternalValueKept
  FlashCrcIsRemainder
  BurstIsNoticed
  ErrorsStayWithTheirCall
  TransmitterMatchesEndpoint
  ReceiverLostOnlyIfCutOff
  AwakeWithTheBus
  NothingLeftBehind
PROPERTIES
  RefinesFlashPromise
  HandoverEnds
CHECK_DEADLOCK FALSE
