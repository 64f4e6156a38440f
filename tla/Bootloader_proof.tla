--------------------------- MODULE Bootloader_proof ---------------------------
(***************************************************************************)
(* Proofs about Bootloader, for every slot, every set of data words and    *)
(* every packet length.                                                    *)
(***************************************************************************)
EXTENDS Bootloader, SequenceTheorems, TLAPS

LEMMA SlotDwordsPositive == SlotDwords \in Nat \ {0}
BY SizesAssumption DEF SlotDwords

LEMMA CrcIsDigest ==
  ASSUME NEW mem \in [Addr -> Word], NEW n \in 0 .. SlotDwords
  PROVE  Crc(mem, n) \in Digests
<1>1. \A a \in 0 .. (n - 1) : a \in Addr
  BY SlotDwordsPositive DEF Addr
<1>2. Crc(mem, n) \in [0 .. (n - 1) -> Word]
  BY <1>1 DEF Crc
<1> QED
  BY <1>2 DEF Digests

LEMMA NoMetadataIsMetadata == IsMetadata(NoMetadata)
BY DEF IsMetadata, NoMetadata, Fields, Blank, Magic, Signature, Version, Size, CrcWord

LEMMA LoadOrDefaultIsMetadata ==
  ASSUME NEW m, IsMetadata(m)
  PROVE  IsMetadata(LoadOrDefault(m))
BY DEF IsMetadata, LoadOrDefault, NoMetadata, Fields, Blank, Magic, Signature,
       Version, Size, CrcWord

LEMMA TearMetadata ==
  ASSUME NEW m, IsMetadata(m), NEW lost \in SUBSET Fields
  PROVE  IsMetadata(Tear(m, lost))
BY DEF IsMetadata, Tear, Fields, Blank, Magic, Signature, Version, Size, CrcWord

LEMMA TearSlot ==
  ASSUME NEW mem \in [Addr -> Word], NEW lost
  PROVE  Tear(mem, lost) \in [Addr -> Word]
BY DEF Tear, Word

LEMMA ErasePageType ==
  ASSUME NEW mem \in [Addr -> Word], NEW p
  PROVE  ErasePageOf(mem, p) \in [Addr -> Word]
BY DEF ErasePageOf, Word

LEMMA SignedIsMetadata ==
  ASSUME NEW m, IsMetadata(m), NEW v \in Versions
  PROVE  IsMetadata(Signed(m, v))
BY DEF IsMetadata, Signed, Fields, Blank, Magic, Signature, Version, Size, CrcWord

LEMMA MeasuredIsMetadata ==
  ASSUME NEW m, IsMetadata(m), NEW n \in Sizes, slot \in [Addr -> Word]
  PROVE  IsMetadata(Measured(m, n)) /\ Measured(m, n)[CrcWord] \in Digests
<1>1. Crc(slot, n) \in Digests
  BY CrcIsDigest, ValuesAssumption
<1>2. n \in 0 .. SlotDwords
  BY ValuesAssumption
<1> QED
  BY <1>1, <1>2 DEF IsMetadata, Measured, Fields, Blank, Magic, Signature,
     Version, Size, CrcWord

LEMMA ProgramField ==
  ASSUME NEW m, IsMetadata(m), NEW b, IsMetadata(b), NEW k \in Fields
  PROVE  IsMetadata([m EXCEPT ![k] = b[k]])
<1> USE DEF IsMetadata, Magic, Signature, Version, Size, CrcWord, Fields
<1>1. CASE k = 1 BY <1>1
<1>2. CASE k = 2 BY <1>2
<1>3. CASE k = 3 BY <1>3
<1>4. CASE k = 4 BY <1>4
<1>5. CASE k = 5 BY <1>5
<1> QED BY <1>1, <1>2, <1>3, <1>4, <1>5

-----------------------------------------------------------------------------
(* Type correctness needs a little more than the types: TIM5 is off once   *)
(* it has counted to BootTicks, metadata_write indexes the five fields,    *)
(* and what APP_CRC_VERIFY is about to write contains a digest.            *)

TypeInv ==
  /\ TypeOK
  /\ pc = "metaWrite" => i \in Fields
  /\ pc = "metaErase" /\ msg = "APP_CRC_VERIFY" => metadata[CrcWord] \in Digests

LEMMA FlashStays == FlashOK /\ UNCHANGED flash => FlashOK'
BY DEF FlashOK, flash

LEMMA ClockStays == ClockOK /\ UNCHANGED clock => ClockOK'
BY DEF ClockOK, clock

LEMMA LocalsStay == LocalsOK /\ UNCHANGED locals => LocalsOK'
BY DEF LocalsOK, locals

LEMMA PostStays == PostOK /\ UNCHANGED post => PostOK'
BY DEF PostOK, post

LEMMA GlobalsStay == GlobalsOK /\ UNCHANGED globals => GlobalsOK'
BY DEF GlobalsOK, globals

LEMMA ReturnLocals ==
  ASSUME LocalsOK, NEW answer, Return(answer), UNCHANGED Dword
  PROVE  LocalsOK' /\ pc' = "loop"
BY NoMetadataIsMetadata DEF LocalsOK, Return

LEMMA DispatchLocals ==
  ASSUME LocalsOK, UNCHANGED <<i, l_pass_count, Dword, metadata>>,
         NEW m \in {"STAY_IN_BOOTLOADER_MODE", "UC_FLASH_ERASE",
                    "APPLICATION_DATA", "APP_SIG_DWORD", "APP_CRC_VERIFY"},
         Dispatch(m)
  PROVE  LocalsOK'
BY DEF LocalsOK, Dispatch

LEMMA ForgetLocals ==
  ASSUME LocalsOK, Forget, UNCHANGED <<i, l_pass_count, metadata, msg>>
  PROVE  LocalsOK'
BY DEF LocalsOK, Forget

LEMMA BootStateTypes ==
  BootState => ClockOK /\ LocalsOK /\ PostOK /\ GlobalsOK /\ pc = "loop"
<1> SUFFICES ASSUME BootState
             PROVE  ClockOK /\ LocalsOK /\ PostOK /\ GlobalsOK /\ pc = "loop"
  OBVIOUS
<1>1. ClockOK
  <2>1. tim5 \in BOOLEAN /\ pend \in BOOLEAN /\ l_time_count = 0 /\ now = 0
    BY Zenon DEF BootState
  <2> QED
    BY <2>1, SizesAssumption DEF ClockOK
<1>2. LocalsOK
  BY NoMetadataIsMetadata DEF BootState, LocalsOK
<1>3. PostOK
  <2>1. bootable \in BOOLEAN /\ intFlash \in BOOLEAN /\ loopSwitch \in BOOLEAN
    BY Zenon DEF BootState
  <2>2. postStep = 0
    BY DEF BootState
  <2> QED
    BY <2>1, <2>2 DEF PostOK
<1>4. GlobalsOK /\ pc = "loop"
  <2>1. stayed \in BOOLEAN /\ g_app_start_address = 0 /\ SectorError = "page"
        /\ g_CTRL_MODE = "BOOTLOADER_CODE" /\ pc = "loop"
    BY Zenon DEF BootState
  <2> QED
    BY <2>1, SlotDwordsPositive DEF GlobalsOK
<1> QED
  BY <1>1, <1>2, <1>3, <1>4

LEMMA InitType == Init => TypeInv
<1>1. Init => FlashOK
  BY NoMetadataIsMetadata DEF Init, FlashOK, Word
<1> QED
  BY <1>1, BootStateTypes DEF Init, TypeInv, TypeOK

LEMMA RebootIsBootState == Reboot => BootState' /\ UNCHANGED sealed
BY DEF Reboot, BootState

LEMMA RebootType ==
  ASSUME TypeInv, Reboot, slot' \in [Addr -> Word], IsMetadata(meta')
  PROVE  TypeInv'
<1>1. FlashOK'
  BY RebootIsBootState DEF TypeInv, TypeOK, FlashOK
<1>2. (ClockOK /\ LocalsOK /\ PostOK /\ GlobalsOK /\ pc = "loop")'
  BY RebootIsBootState, BootStateTypes, PTL
<1> QED
  BY <1>1, <1>2 DEF TypeInv, TypeOK

LEMMA NextType == TypeInv /\ [Next]_vars => TypeInv'
<1> SUFFICES ASSUME TypeInv, [Next]_vars PROVE TypeInv'
  OBVIOUS
<1>t. /\ FlashOK /\ ClockOK /\ LocalsOK /\ PostOK /\ GlobalsOK
      /\ pc = "metaWrite" => i \in Fields
      /\ pc = "metaErase" /\ msg = "APP_CRC_VERIFY" => metadata[CrcWord] \in Digests
  BY DEF TypeInv, TypeOK
<1>1. CASE LoopHead
  <2>1. Forget /\ pc' = "usb" /\ UNCHANGED <<i, l_pass_count, metadata, msg>>
    BY <1>1 DEF LoopHead
  <2>2. LocalsOK'
    BY <1>t, <2>1, ForgetLocals
  <2> QED
    BY <1>t, <1>1, <2>1, <2>2, FlashStays, ClockStays, PostStays, GlobalsStay
    DEF LoopHead, TypeInv, TypeOK
<1>2. CASE NoFrame
  BY <1>t, <1>2, FlashStays, ClockStays, LocalsStay, PostStays, GlobalsStay
  DEF NoFrame, TypeInv, TypeOK
<1>3. CASE BadCrc
  BY <1>t, <1>3, FlashStays, ClockStays, LocalsStay, PostStays, GlobalsStay
  DEF BadCrc, TypeInv, TypeOK
<1>4. CASE StayInBootloaderMode
  <2>1. LocalsOK'
    BY <1>t, <1>4, DispatchLocals DEF StayInBootloaderMode
  <2>2. ClockOK'
    BY <1>t, <1>4 DEF StayInBootloaderMode, StopTim5, ClockOK
  <2> QED
    BY <1>t, <1>4, <2>1, <2>2, FlashStays, PostStays, GlobalsStay
    DEF StayInBootloaderMode, TypeInv, TypeOK
<1>5. CASE StaySetMode
  <2>1. LocalsOK' /\ pc' = "loop"
    BY <1>t, <1>5, ReturnLocals DEF StaySetMode
  <2>2. GlobalsOK'
    BY <1>t, <1>5 DEF StaySetMode, GlobalsOK
  <2> QED
    BY <1>t, <1>5, <2>1, <2>2, FlashStays, ClockStays, PostStays
    DEF StaySetMode, TypeInv, TypeOK
<1>6. CASE EraseBegin
  <2>1. LocalsOK'
    BY <1>t, <1>6, DispatchLocals DEF EraseBegin
  <2>2. GlobalsOK'
    BY <1>t, <1>6, SlotDwordsPositive DEF EraseBegin, GlobalsOK
  <2> QED
    BY <1>t, <1>6, <2>1, <2>2, FlashStays, ClockStays, PostStays
    DEF EraseBegin, TypeInv, TypeOK
<1>7. CASE EraseRefused
  <2>1. GlobalsOK'
    BY <1>t, <1>7, SlotDwordsPositive DEF EraseRefused, GlobalsOK
  <2> QED
    BY <1>t, <1>7, <2>1, FlashStays, ClockStays, LocalsStay, PostStays
    DEF EraseRefused, TypeInv, TypeOK
<1>8. CASE ErasePage
  <2>1. FlashOK'
    BY <1>t, <1>8, ErasePageType DEF ErasePage, FlashOK
  <2>2. CASE LastPage(i)
    <3>1. LocalsOK' /\ pc' = "loop"
      BY <1>t, <1>8, <2>2, ReturnLocals DEF ErasePage
    <3> QED
      BY <1>t, <1>8, <2>1, <3>1, ClockStays, PostStays, GlobalsStay
      DEF ErasePage, TypeInv, TypeOK
  <2>3. CASE ~LastPage(i)
    <3>1. LocalsOK' /\ pc' = "erase"
      BY <1>t, <1>8, <2>3 DEF ErasePage, LocalsOK
    <3> QED
      BY <1>t, <1>8, <2>1, <3>1, ClockStays, PostStays, GlobalsStay
      DEF ErasePage, TypeInv, TypeOK
  <2> QED
    BY <2>2, <2>3
<1>9. CASE ErasePageFails
  <2>1. FlashOK'
    BY <1>t, <1>9, TearSlot DEF ErasePageFails, FlashOK
  <2>2. LocalsOK' /\ pc' = "loop"
    BY <1>t, <1>9, ReturnLocals DEF ErasePageFails
  <2>3. GlobalsOK'
    BY <1>t, <1>9 DEF ErasePageFails, GlobalsOK
  <2> QED
    BY <1>t, <1>9, <2>1, <2>2, <2>3, ClockStays, PostStays
    DEF ErasePageFails, TypeInv, TypeOK
<1>10. CASE DataBegin
  <2>1. PICK n \in 1 .. NUM_OF_DWORDS : Dword' \in [1 .. n -> Code]
    BY <1>10 DEF DataBegin
  <2>2. Dword' \in Seq(Code)
    BY <2>1, SizesAssumption
  <2>3. LocalsOK'
    BY <1>t, <1>10, <2>2 DEF DataBegin, Dispatch, LocalsOK
  <2> QED
    BY <1>t, <1>10, <2>3, FlashStays, ClockStays, PostStays, GlobalsStay
    DEF DataBegin, TypeInv, TypeOK
<1>11. ASSUME NEW passCount \in Nat, NextDword(passCount), MoreData,
              ~BeyondSlotEnd(g_app_start_address), FlashOK'
       PROVE  TypeInv'
  <2>1. LocalsOK' /\ pc' = "data"
    BY <1>t, <1>11 DEF NextDword, MoreData, LocalsOK
  <2>2. GlobalsOK'
    BY <1>t, <1>11, SlotDwordsPositive DEF NextDword, BeyondSlotEnd, GlobalsOK
  <2> QED
    BY <1>t, <1>11, <2>1, <2>2, ClockStays, PostStays
    DEF NextDword, TypeInv, TypeOK
<1>12. CASE DataProgram
  <2>1. Dword[i + 1] \in Word
    BY <1>t, <1>12 DEF DataProgram, MoreData, LocalsOK, Word
  <2>2. FlashOK'
    BY <1>t, <1>12, <2>1 DEF DataProgram, NextDword, FlashOK
  <2>3. l_pass_count + 1 \in Nat
    BY <1>t DEF LocalsOK
  <2> QED
    BY <1>11, <1>12, <2>2, <2>3 DEF DataProgram
<1>13. CASE DataProgramFails
  <2>1. FlashOK'
    BY <1>t, <1>13, TearSlot DEF DataProgramFails, NextDword, FlashOK
  <2>2. l_pass_count + 255 \in Nat
    BY <1>t DEF LocalsOK
  <2> QED
    BY <1>11, <1>13, <2>1, <2>2 DEF DataProgramFails
<1>14. CASE DataOverrun
  <2>1. LocalsOK' /\ pc' = "loop"
    BY <1>t, <1>14, ReturnLocals DEF DataOverrun
  <2> QED
    BY <1>t, <1>14, <2>1, FlashStays, ClockStays, PostStays, GlobalsStay
    DEF DataOverrun, TypeInv, TypeOK
<1>15. CASE DataEnd
  <2>1. LocalsOK' /\ pc' = "loop"
    BY <1>t, <1>15, ReturnLocals DEF DataEnd
  <2> QED
    BY <1>t, <1>15, <2>1, FlashStays, ClockStays, PostStays, GlobalsStay
    DEF DataEnd, TypeInv, TypeOK
<1>16. ASSUME NEW v \in Versions, AppSigDword(v)
       PROVE  TypeInv'
  <2>1. IsMetadata(metadata')
    BY <1>t, <1>16, LoadOrDefaultIsMetadata, SignedIsMetadata
    DEF AppSigDword, FlashOK
  <2>2. LocalsOK' /\ pc' = "metaErase" /\ msg' = "APP_SIG_DWORD"
    BY <1>t, <1>16, <2>1 DEF AppSigDword, Dispatch, LocalsOK
  <2> QED
    BY <1>t, <1>16, <2>2, FlashStays, ClockStays, PostStays, GlobalsStay
    DEF AppSigDword, TypeInv, TypeOK
<1>17. ASSUME NEW n \in Sizes, AppCrcVerify(n)
       PROVE  TypeInv'
  <2>1. IsMetadata(metadata') /\ metadata'[CrcWord] \in Digests
    BY <1>t, <1>17, LoadOrDefaultIsMetadata, MeasuredIsMetadata
    DEF AppCrcVerify, FlashOK
  <2>2. LocalsOK' /\ pc' = "metaErase"
    BY <1>t, <1>17, <2>1 DEF AppCrcVerify, Dispatch, LocalsOK
  <2> QED
    BY <1>t, <1>17, <2>1, <2>2, FlashStays, ClockStays, PostStays, GlobalsStay
    DEF AppCrcVerify, TypeInv, TypeOK, CrcWord
<1>18. CASE AppCrcVerifyFaults
  <2>1. LocalsOK' /\ pc' = "hang"
    BY <1>t, <1>18 DEF AppCrcVerifyFaults, Dispatch, Hang, LocalsOK
  <2> QED
    BY <1>t, <1>18, <2>1, FlashStays, ClockStays, PostStays, GlobalsStay
    DEF AppCrcVerifyFaults, TypeInv, TypeOK
<1>19. CASE MetaErase
  <2>1. FlashOK'
    BY <1>t, <1>19, NoMetadataIsMetadata DEF MetaErase, Unwritten, FlashOK
  <2>2. LocalsOK' /\ pc' = "metaWrite" /\ i' \in Fields
    BY <1>t, <1>19 DEF MetaErase, Unwritten, LocalsOK, Fields
  <2> QED
    BY <1>t, <1>19, <2>1, <2>2, ClockStays, PostStays, GlobalsStay
    DEF MetaErase, Unwritten, TypeInv, TypeOK
<1>20. CASE MetaEraseFails
  <2>1. FlashOK'
    BY <1>t, <1>20, TearMetadata DEF MetaEraseFails, Unwritten, FlashOK
  <2>2. LocalsOK' /\ pc' = "loop"
    BY <1>t, <1>20, ReturnLocals DEF MetaEraseFails, Unwritten
  <2> QED
    BY <1>t, <1>20, <2>1, <2>2, ClockStays, PostStays, GlobalsStay
    DEF MetaEraseFails, Unwritten, TypeInv, TypeOK
<1>21. CASE MetaProgram
  <2>1. FlashOK'
    BY <1>t, <1>21, ProgramField
    DEF MetaProgram, Unwritten, FlashOK, LocalsOK
  <2>2. CASE i = 5
    <3>1. LocalsOK' /\ pc' = "loop"
      BY <1>t, <1>21, <2>2, ReturnLocals DEF MetaProgram, Unwritten
    <3> QED
      BY <1>t, <1>21, <2>1, <3>1, ClockStays, PostStays, GlobalsStay
      DEF MetaProgram, Unwritten, TypeInv, TypeOK
  <2>3. CASE i # 5
    <3>1. LocalsOK' /\ pc' = "metaWrite" /\ i' \in Fields
      BY <1>t, <1>21, <2>3 DEF MetaProgram, Unwritten, LocalsOK, Fields
    <3> QED
      BY <1>t, <1>21, <2>1, <3>1, ClockStays, PostStays, GlobalsStay
      DEF MetaProgram, Unwritten, TypeInv, TypeOK
  <2> QED
    BY <2>2, <2>3
<1>22. CASE MetaProgramFails
  <2>1. FlashOK'
    BY <1>t, <1>22, TearMetadata DEF MetaProgramFails, Unwritten, FlashOK
  <2>2. LocalsOK' /\ pc' = "loop"
    BY <1>t, <1>22, ReturnLocals DEF MetaProgramFails, Unwritten
  <2> QED
    BY <1>t, <1>22, <2>1, <2>2, ClockStays, PostStays, GlobalsStay
    DEF MetaProgramFails, Unwritten, TypeInv, TypeOK
<1>23. CASE PostBegin
  <2>1. Forget /\ pc' = "post" /\ UNCHANGED <<i, l_pass_count, metadata, msg>>
    BY <1>23 DEF PostBegin
  <2>2. LocalsOK'
    BY <1>t, <2>1, ForgetLocals
  <2>3. bootable' \in BOOLEAN
    BY <1>23, Zenon DEF PostBegin, SignedAndValid
  <2>4. PostOK'
    <3>1. postStep' = 1 /\ intFlash' \in BOOLEAN /\ loopSwitch' \in BOOLEAN
      BY <1>23, Zenon DEF PostBegin
    <3> QED
      BY <2>3, <3>1 DEF PostOK
  <2> QED
    BY <1>t, <1>23, <2>1, <2>2, <2>4, FlashStays, ClockStays, GlobalsStay
    DEF PostBegin, TypeInv, TypeOK
<1>24. CASE PostDelay
  <2>1. pend' \in BOOLEAN
    BY <1>24, Zenon DEF PostDelay, Elapse
  <2>2. ClockOK'
    BY <1>t, <1>24, <2>1, SizesAssumption DEF PostDelay, Elapse, ClockOK
  <2>3. InternalFlashOk \in BOOLEAN
    BY Zenon DEF InternalFlashOk
  <2>4. PostOK'
    BY <1>t, <1>24, <2>3 DEF PostDelay, PostOK
  <2>5. pc' \in {"post", "hang"}
    BY <1>24 DEF PostDelay, Hang
  <2> QED
    BY <1>t, <1>24, <2>2, <2>4, <2>5, FlashStays, LocalsStay, GlobalsStay
    DEF PostDelay, TypeInv, TypeOK
<1>25. ASSUME NEW othersOk \in BOOLEAN, PostVerdict(othersOk)
       PROVE  TypeInv'
  <2>1. loopSwitch' \in BOOLEAN
    <3>1. CASE PostTimedOut(now)
      BY <1>t, <1>25, <3>1 DEF PostVerdict, post, PostOK
    <3>2. CASE ~PostTimedOut(now)
      <4>1. loopSwitch' = (intFlash /\ othersOk)
        BY <1>25, <3>2, Zenon DEF PostVerdict
      <4> QED
        BY <4>1, Zenon
    <3> QED
      BY <3>1, <3>2
  <2>2. PostOK'
    <3>1. CASE PostTimedOut(now)
      BY <1>t, <1>25, <3>1, PostStays DEF PostVerdict
    <3>2. CASE ~PostTimedOut(now)
      <4>1. postStep' = 0 /\ bootable' \in BOOLEAN /\ intFlash' \in BOOLEAN
        BY <1>25, <3>2, Zenon DEF PostVerdict
      <4> QED
        BY <2>1, <4>1 DEF PostOK
    <3> QED
      BY <3>1, <3>2
  <2>3. GlobalsOK'
    BY <1>t, <1>25 DEF PostVerdict, GlobalsOK
  <2>4. pc' \in {"hang", "app", "usb"}
    BY <1>25 DEF PostVerdict, Hang
  <2> QED
    BY <1>t, <1>25, <2>2, <2>3, <2>4, FlashStays, ClockStays, LocalsStay
    DEF PostVerdict, TypeInv, TypeOK
<1>26. CASE EccError
  BY <1>t, <1>26, FlashStays, ClockStays, LocalsStay, PostStays, GlobalsStay
  DEF EccError, Hang, TypeInv, TypeOK
<1>27. CASE Second
  <2>1. pend' \in BOOLEAN
    BY <1>27, Zenon DEF Second, Elapse
  <2>2. ClockOK'
    BY <1>t, <1>27, <2>1, SizesAssumption DEF Second, Elapse, ClockOK
  <2> QED
    BY <1>t, <1>27, <2>2, FlashStays, LocalsStay, PostStays, GlobalsStay
    DEF Second, TypeInv, TypeOK, locals
<1>28. CASE Tim5Interrupt
  <2>1. l_time_count' = l_time_count + 1
    BY <1>t, <1>28, SizesAssumption DEF Tim5Interrupt, ClockOK
  <2>2. /\ tim5' \in BOOLEAN /\ pend' \in BOOLEAN /\ now' \in 0 .. (PostLimit + 1)
        /\ tim5' => l_time_count' # BootTicks
    BY <1>t, <1>28 DEF Tim5Interrupt, ClockOK
  <2>3. l_time_count' \in 0 .. BootTicks
    BY <1>t, <1>28, <2>1, SizesAssumption DEF Tim5Interrupt, ClockOK
  <2>4. ClockOK'
    BY <2>2, <2>3, SizesAssumption DEF ClockOK
  <2>5. GlobalsOK'
    BY <1>t, <1>28 DEF Tim5Interrupt, GlobalsOK
  <2> QED
    BY <1>t, <1>28, <2>4, <2>5, FlashStays, LocalsStay, PostStays
    DEF Tim5Interrupt, TypeInv, TypeOK, locals
<1>29. CASE PowerCycle
  <2>1. MetaAtRisk \subseteq Fields
    BY <1>t DEF MetaAtRisk
  <2>2. slot' \in [Addr -> Word]
    BY <1>t, <1>29, TearSlot DEF PowerCycle, FlashOK
  <2>3. IsMetadata(meta')
    BY <1>t, <1>29, <2>1, TearMetadata DEF PowerCycle, FlashOK
  <2> QED
    BY <1>29, <2>2, <2>3, RebootType DEF PowerCycle
<1>30. CASE WatchdogReset
  <2>1. slot' \in [Addr -> Word] /\ IsMetadata(meta')
    BY <1>t, <1>30 DEF WatchdogReset, FlashOK
  <2> QED
    BY <1>30, <2>1, RebootType DEF WatchdogReset
<1>31. CASE UNCHANGED vars
  BY <1>t, <1>31, FlashStays, ClockStays, LocalsStay, PostStays, GlobalsStay
  DEF vars, TypeInv, TypeOK, locals
<1> QED
  BY <1>1, <1>2, <1>3, <1>4, <1>5, <1>6, <1>7, <1>8, <1>9, <1>10, <1>12,
     <1>13, <1>14, <1>15, <1>16, <1>17, <1>18, <1>19, <1>20, <1>21, <1>22,
     <1>23, <1>24, <1>25, <1>26, <1>27, <1>28, <1>29, <1>30, <1>31
  DEF Next, Main, Command, Handler, BootAttempt

(* Every variable keeps its type: in particular the address programmed     *)
(* next never leaves Slot A (main.c:559).                                  *)
THEOREM TypeCorrect == Spec => []TypeOK
<1>1. Spec => []TypeInv
  BY InitType, NextType, PTL DEF Spec
<1>2. TypeInv => TypeOK
  BY DEF TypeInv
<1> QED
  BY <1>1, <1>2, PTL

-----------------------------------------------------------------------------
(* CONTROLLER_IN_BOOTMODE is sent with TIM5 stopped, and TIM5 is the only  *)
(* thing that ever asks for a boot attempt.                                *)

StayInv ==
  /\ stayed => /\ g_CTRL_MODE = "BOOTLOADER_CODE" /\ ~tim5
               /\ pc \notin {"post", "app"}
  /\ pc = "stay" => ~tim5

LEMMA StayInvNext == StayInv /\ [Next]_vars => StayInv'
<1> SUFFICES ASSUME StayInv, [Next]_vars PROVE StayInv'
  OBVIOUS
<1> USE DEF StayInv
<1>1. CASE LoopHead \/ NoFrame \/ BadCrc
  BY <1>1 DEF LoopHead, NoFrame, BadCrc, clock, globals
<1>2. CASE StayInBootloaderMode
  BY <1>2 DEF StayInBootloaderMode, StopTim5, globals
<1>3. CASE StaySetMode
  BY <1>3 DEF StaySetMode, Return, clock
<1>4. CASE EraseBegin \/ EraseRefused \/ ErasePage \/ ErasePageFails
  BY <1>4 DEF EraseBegin, EraseRefused, ErasePage, ErasePageFails, Return,
              clock, globals
<1>5. CASE DataBegin \/ DataProgram \/ DataProgramFails \/ DataOverrun \/ DataEnd
  BY <1>5 DEF DataBegin, DataProgram, DataProgramFails, DataOverrun, DataEnd,
              NextDword, MoreData, Return, clock, globals
<1>6. ASSUME NEW v \in Versions, AppSigDword(v)
      PROVE  StayInv'
  BY <1>6 DEF AppSigDword, clock, globals
<1>7. ASSUME NEW n \in Sizes, AppCrcVerify(n)
      PROVE  StayInv'
  BY <1>7 DEF AppCrcVerify, clock, globals
<1>8. CASE AppCrcVerifyFaults \/ EccError
  <2>1. pc' = "hang" /\ tim5' = tim5 /\ stayed' = stayed
        /\ g_CTRL_MODE' = g_CTRL_MODE
    BY <1>8 DEF AppCrcVerifyFaults, EccError, Hang, clock, globals
  <2> QED
    BY <2>1
<1>9. CASE MetaErase \/ MetaEraseFails \/ MetaProgram \/ MetaProgramFails
  <2>1. pc \in {"metaErase", "metaWrite"} /\ pc' \in {"metaWrite", "loop"}
        /\ tim5' = tim5 /\ stayed' = stayed /\ g_CTRL_MODE' = g_CTRL_MODE
    BY <1>9 DEF MetaErase, MetaEraseFails, MetaProgram, MetaProgramFails,
                Unwritten, Return, clock, globals
  <2> QED
    BY <2>1
<1>10. CASE PostBegin
  BY <1>10 DEF PostBegin, clock, globals
<1>11. CASE PostDelay
  BY <1>11 DEF PostDelay, Hang, globals
<1>12. ASSUME NEW othersOk \in BOOLEAN, PostVerdict(othersOk)
       PROVE  StayInv'
  BY <1>12 DEF PostVerdict, Hang, clock
<1>13. CASE Second
  BY <1>13 DEF Second, globals
<1>14. CASE Tim5Interrupt
  BY <1>14 DEF Tim5Interrupt
<1>15. CASE PowerCycle \/ WatchdogReset
  BY <1>15, Zenon DEF PowerCycle, WatchdogReset, Reboot
<1>16. CASE UNCHANGED vars
  BY <1>16 DEF vars, clock, globals
<1> QED
  BY <1>1, <1>2, <1>3, <1>4, <1>5, <1>6, <1>7, <1>8, <1>9, <1>10, <1>11, <1>12,
     <1>13, <1>14, <1>15, <1>16
  DEF Next, Main, Command, Handler, BootAttempt

(* Once the host was told CONTROLLER_IN_BOOTMODE, no boot attempt starts   *)
(* before the next reset (main.c:429-434 against 1522-1531 and 311).       *)
THEOREM StayCorrect == Spec => []StayHolds
<1>1. Init => StayInv
  BY Zenon DEF Init, BootState, StayInv
<1>2. StayInv => StayHolds
  BY DEF StayInv, StayHolds
<1> QED
  BY <1>1, <1>2, StayInvNext, PTL DEF Spec

-----------------------------------------------------------------------------
(* The application is left by a power cycle only, and entered by POST's    *)
(* verdict only.                                                           *)

LEMMA LeavingApp ==
  ASSUME pc = "app", [Next]_vars
  PROVE  PowerCycle \/ UNCHANGED vars
<1>1. ~LoopHead /\ ~NoFrame
  BY DEF LoopHead, NoFrame
<1>2. ~Command
  BY DEF Command, BadCrc, StayInBootloaderMode, EraseBegin, EraseRefused, DataBegin,
         AppSigDword, AppCrcVerify, AppCrcVerifyFaults, Dispatch
<1>3. ~Handler
  BY DEF Handler, StaySetMode, ErasePage, ErasePageFails, DataProgram,
         DataProgramFails, DataOverrun, DataEnd, MoreData, MetaErase,
         MetaEraseFails, MetaProgram, MetaProgramFails
<1>4. ~BootAttempt
  BY DEF BootAttempt, PostBegin, PostDelay, PostVerdict
<1>5. ~EccError /\ ~Second /\ ~Tim5Interrupt /\ ~WatchdogReset
  BY DEF EccError, ReadsSlot, ReadsMetadata, Second, Tim5Interrupt, WatchdogReset
<1> QED
  BY <1>1, <1>2, <1>3, <1>4, <1>5 DEF Next, Main

LEMMA EnteringApp ==
  ASSUME pc # "app", pc' = "app", [Next]_vars
  PROVE  \E othersOk \in BOOLEAN : PostVerdict(othersOk)
<1>1. ~LoopHead /\ ~NoFrame
  BY DEF LoopHead, NoFrame
<1>2. ~Command
  BY DEF Command, BadCrc, StayInBootloaderMode, EraseBegin, EraseRefused, DataBegin,
         AppSigDword, AppCrcVerify, AppCrcVerifyFaults, Hang
<1>3. ~Handler
  BY DEF Handler, StaySetMode, ErasePage, ErasePageFails, DataProgram,
         DataProgramFails, DataOverrun, DataEnd, NextDword, MoreData, MetaErase,
         MetaEraseFails, MetaProgram, MetaProgramFails, Return
<1>4. ~PostBegin /\ ~PostDelay
  BY DEF PostBegin, PostDelay, Hang
<1>5. ~EccError /\ ~Second /\ ~Tim5Interrupt
  BY DEF EccError, Second, Tim5Interrupt, Hang
<1>6. ~PowerCycle /\ ~WatchdogReset
  BY DEF PowerCycle, WatchdogReset, Reboot
<1>7. UNCHANGED vars => FALSE
  BY DEF vars
<1> QED
  BY <1>1, <1>2, <1>3, <1>4, <1>5, <1>6, <1>7 DEF Next, Main, BootAttempt

-----------------------------------------------------------------------------
(* The application runs only out of a slot that is what was sealed, and    *)
(* Bootloader implements SafeBoot, for every number of interrupted flash   *)
(* operations.                                                             *)

(* Metadata with a readable CRC: it is the digest given, and the size that *)
(* goes with it is what it was measured over or is not readable at all.    *)
Commits(m, digest) ==
  m[CrcWord] \in Digests =>
    /\ m[CrcWord] = digest
    /\ \/ m[Size] = Torn
       \/ m[Size] \in 0 .. SlotDwords /\ DOMAIN m[CrcWord] = 0 .. (m[Size] - 1)

(* What metadata_write has been handed, and how far it is.                 *)
WriteInv ==
  /\ pc \in {"metaErase", "metaWrite"} =>
       msg \in {"APP_SIG_DWORD", "APP_CRC_VERIFY"}
  /\ pc = "metaErase" /\ msg = "APP_SIG_DWORD" => Commits(metadata, sealed)
  /\ pc = "metaErase" /\ msg = "APP_CRC_VERIFY" =>
       /\ metadata[Size] \in 0 .. SlotDwords
       /\ metadata[CrcWord] = Crc(slot, metadata[Size])
  /\ pc = "metaWrite" =>
       /\ Commits(metadata, sealed)
       /\ \A f \in Fields : meta[f] = IF f < i THEN metadata[f] ELSE Erased

(* What POST has found out so far still stands.                            *)
Checked == InternalFlashOk /\ ~CrcFaults

VerdictInv ==
  /\ pc = "post" /\ bootable => SignedAndValid
  /\ pc = "post" /\ intFlash => Checked
  /\ pc = "app" => SignedAndValid /\ Checked

SealInv == Commits(meta, sealed) /\ WriteInv /\ VerdictInv

-----------------------------------------------------------------------------
(* Facts about metadata.                                                   *)

LEMMA CommitsTear ==
  ASSUME NEW m, DOMAIN m = Fields, NEW digest, Commits(m, digest), NEW lost
  PROVE  Commits(Tear(m, lost), digest)
BY BlankAssumption DEF Commits, Tear, Fields, Size, CrcWord

LEMMA CommitsNoMetadata ==
  ASSUME NEW digest
  PROVE  Commits(NoMetadata, digest)
BY BlankAssumption DEF Commits, NoMetadata, Fields, CrcWord

LEMMA CommitsSigned ==
  ASSUME NEW m, IsMetadata(m), NEW digest, Commits(m, digest), NEW v
  PROVE  Commits(Signed(LoadOrDefault(m), v), digest)
<1>1. CASE m[Magic] = BOOT_METADATA_MAGIC
  BY <1>1 DEF Commits, Signed, LoadOrDefault, IsMetadata, Fields, Signature,
              Version, Size, CrcWord
<1>2. CASE m[Magic] # BOOT_METADATA_MAGIC
  BY <1>2, BlankAssumption DEF Commits, Signed, LoadOrDefault, NoMetadata, Fields,
              Magic, Signature, Version, CrcWord
<1> QED
  BY <1>1, <1>2

LEMMA MeasuredCommits ==
  ASSUME NEW m, IsMetadata(m), NEW n \in Sizes
  PROVE  /\ Measured(m, n)[Size] \in 0 .. SlotDwords
         /\ Measured(m, n)[CrcWord] = Crc(slot, Measured(m, n)[Size])
BY ValuesAssumption DEF Measured, IsMetadata, Fields, Size, CrcWord

(* POST's findings are about flash alone.                                  *)
LEMMA FindingsStand ==
  ASSUME UNCHANGED <<slot, meta>>
  PROVE  /\ SignedAndValid => SignedAndValid'
         /\ Checked => Checked'
BY DEF SignedAndValid, Checked, InternalFlashOk, CrcFaults, LoadOrDefault,
       IsValidApplication

-----------------------------------------------------------------------------
(* Steps that have nothing to do with the metadata page.                   *)

LEMMA ElsewhereKeepsSealInv ==
  ASSUME SealInv, UNCHANGED <<meta, sealed>>,
         pc' \notin {"metaErase", "metaWrite", "post", "app"}
  PROVE  SealInv'
BY DEF SealInv, Commits, WriteInv, VerdictInv

LEMMA SameKeepsSealInv ==
  ASSUME SealInv, UNCHANGED <<flash, locals, pc, bootable, intFlash>>
  PROVE  SealInv'
<1>1. UNCHANGED <<slot, meta, sealed, i, metadata, msg>>
  BY DEF flash, locals
<1>2. VerdictInv'
  BY <1>1, FindingsStand DEF SealInv, VerdictInv
<1>3. WriteInv' /\ Commits(meta, sealed)'
  BY <1>1 DEF SealInv, WriteInv, Commits
<1> QED
  BY <1>2, <1>3 DEF SealInv

-----------------------------------------------------------------------------
(* Every step keeps SealInv.                                               *)

LEMMA SealInvNext == TypeInv /\ SealInv /\ [Next]_vars => SealInv'
<1> SUFFICES ASSUME TypeInv, SealInv, [Next]_vars PROVE SealInv'
  OBVIOUS
<1>t. /\ IsMetadata(meta) /\ IsMetadata(metadata) /\ DOMAIN meta = Fields
      /\ pc = "metaWrite" => i \in Fields
  BY DEF TypeInv, TypeOK, FlashOK, LocalsOK, IsMetadata
<1>1. CASE LoopHead \/ NoFrame \/ BadCrc \/ StayInBootloaderMode \/ StaySetMode
           \/ AppCrcVerifyFaults \/ EccError
  <2>1. /\ UNCHANGED <<meta, sealed>>
        /\ pc' \notin {"metaErase", "metaWrite", "post", "app"}
    BY <1>1 DEF LoopHead, NoFrame, BadCrc, StayInBootloaderMode, StaySetMode,
                AppCrcVerifyFaults, EccError, Return, Hang, flash
  <2> QED
    BY <2>1, ElsewhereKeepsSealInv
<1>2. CASE EraseBegin \/ EraseRefused \/ ErasePage \/ ErasePageFails
  <2>1. /\ UNCHANGED <<meta, sealed>>
        /\ pc' \notin {"metaErase", "metaWrite", "post", "app"}
    BY <1>2 DEF EraseBegin, EraseRefused, ErasePage, ErasePageFails, Return, flash
  <2> QED
    BY <2>1, ElsewhereKeepsSealInv
<1>3. CASE DataBegin \/ DataProgram \/ DataProgramFails \/ DataOverrun \/ DataEnd
  <2>1. /\ UNCHANGED <<meta, sealed>>
        /\ pc' \notin {"metaErase", "metaWrite", "post", "app"}
    BY <1>3 DEF DataBegin, DataProgram, DataProgramFails, DataOverrun, DataEnd,
                NextDword, MoreData, Return, flash
  <2> QED
    BY <2>1, ElsewhereKeepsSealInv
<1>4. ASSUME NEW v \in Versions, AppSigDword(v)
      PROVE  SealInv'
  <2>1. /\ UNCHANGED <<meta, sealed>> /\ pc' = "metaErase"
        /\ msg' = "APP_SIG_DWORD" /\ metadata' = Signed(LoadOrDefault(meta), v)
    BY <1>4 DEF AppSigDword, Dispatch, flash
  <2>2. Commits(metadata', sealed')
    BY <1>t, <2>1, CommitsSigned DEF SealInv
  <2> QED
    BY <2>1, <2>2 DEF SealInv, WriteInv, VerdictInv, Commits
<1>5. ASSUME NEW n \in Sizes, AppCrcVerify(n)
      PROVE  SealInv'
  <2>1. /\ UNCHANGED <<slot, meta, sealed>> /\ pc' = "metaErase"
        /\ msg' = "APP_CRC_VERIFY" /\ metadata' = Measured(LoadOrDefault(meta), n)
    BY <1>5 DEF AppCrcVerify, Dispatch, flash
  <2>2. IsMetadata(LoadOrDefault(meta))
    BY <1>t, LoadOrDefaultIsMetadata
  <2>3. /\ metadata'[Size] \in 0 .. SlotDwords
        /\ metadata'[CrcWord] = Crc(slot', metadata'[Size])
    BY <2>1, <2>2, MeasuredCommits DEF Crc
  <2> QED
    BY <2>1, <2>3 DEF SealInv, WriteInv, VerdictInv, Commits
<1>6. CASE MetaErase
  <2>1. /\ meta' = NoMetadata /\ UNCHANGED <<slot, metadata, msg>>
        /\ pc = "metaErase" /\ pc' = "metaWrite" /\ i' = 1
        /\ sealed' = IF msg = "APP_CRC_VERIFY" THEN metadata[CrcWord] ELSE sealed
    BY <1>6 DEF MetaErase, Unwritten
  <2>2. Commits(metadata', sealed')
    <3>1. CASE msg = "APP_SIG_DWORD"
      BY <2>1, <3>1 DEF SealInv, WriteInv
    <3>2. CASE msg = "APP_CRC_VERIFY"
      BY <2>1, <3>2 DEF SealInv, WriteInv, Commits, Crc
    <3> QED
      BY <2>1, <3>1, <3>2 DEF SealInv, WriteInv
  <2>3. Commits(meta', sealed')
    BY <2>1, CommitsNoMetadata
  <2>4. WriteInv'
    BY <2>1, <2>2 DEF SealInv, WriteInv, NoMetadata, Fields
  <2> QED
    BY <2>1, <2>3, <2>4 DEF SealInv, VerdictInv
<1>7. ASSUME UNCHANGED sealed, pc' \in {"loop", "hang"},
             NEW lost, meta' = Tear(meta, lost)
      PROVE  SealInv'
  <2>1. Commits(meta', sealed')
    BY <1>t, <1>7, CommitsTear DEF SealInv
  <2> QED
    BY <1>7, <2>1 DEF SealInv, WriteInv, VerdictInv
<1>8. CASE MetaEraseFails
  BY <1>7, <1>8 DEF MetaEraseFails, Return
<1>9. CASE MetaProgramFails
  BY <1>7, <1>9 DEF MetaProgramFails, Return
<1>10. CASE MetaProgram
  <2>1. /\ pc = "metaWrite" /\ meta' = [meta EXCEPT ![i] = metadata[i]]
        /\ sealed' = sealed /\ i \in Fields /\ UNCHANGED slot
    BY <1>t, <1>10 DEF MetaProgram, Unwritten
  <2>2. \A f \in Fields : meta'[f] = IF f < i + 1 THEN metadata[f] ELSE Erased
    BY <1>t, <2>1 DEF SealInv, WriteInv, Fields
  <2>3. Commits(meta', sealed')
    <3>1. CASE i = 5
      <4>1. meta'[CrcWord] = metadata[CrcWord] /\ meta'[Size] = metadata[Size]
        BY <2>2, <3>1 DEF Fields, Size, CrcWord
      <4> QED
        BY <2>1, <4>1 DEF SealInv, WriteInv, Commits
    <3>2. CASE i # 5
      <4>1. meta'[CrcWord] = Erased
        BY <2>1, <2>2, <3>2 DEF Fields, CrcWord
      <4> QED
        BY <4>1, BlankAssumption DEF Commits
    <3> QED
      BY <3>1, <3>2
  <2>4. CASE i = 5
    <3>1. pc' = "loop"
      BY <1>10, <2>4 DEF MetaProgram, Return
    <3> QED
      BY <2>3, <3>1 DEF SealInv, WriteInv, VerdictInv
  <2>5. CASE i # 5
    <3>1. i' = i + 1 /\ UNCHANGED <<pc, metadata, msg>>
      BY <1>10, <2>5 DEF MetaProgram
    <3> QED
      BY <2>1, <2>2, <2>3, <3>1 DEF SealInv, WriteInv, VerdictInv
  <2> QED
    BY <2>4, <2>5
<1>11. CASE PostBegin
  <2>1. /\ UNCHANGED <<slot, meta, sealed>> /\ pc' = "post"
        /\ ~intFlash' /\ (bootable' => SignedAndValid)
    BY <1>11 DEF PostBegin, flash
  <2> QED
    BY <2>1, FindingsStand DEF SealInv, WriteInv, VerdictInv, Commits
<1>12. CASE PostDelay
  <2>1. /\ UNCHANGED <<slot, meta, sealed, bootable>>
        /\ pc = "post" /\ pc' \in {"post", "hang"}
    BY <1>12 DEF PostDelay, Hang, flash
  <2>2. pc' = "post" /\ intFlash' => Checked \/ intFlash
    BY <1>12 DEF PostDelay, Hang, Checked
  <2> QED
    BY <2>1, <2>2, FindingsStand DEF SealInv, WriteInv, VerdictInv, Commits
<1>13. ASSUME NEW othersOk \in BOOLEAN, PostVerdict(othersOk)
       PROVE  SealInv'
  <2>1. /\ UNCHANGED <<slot, meta, sealed>>
        /\ pc = "post" /\ pc' \in {"app", "usb", "hang"}
    BY <1>13 DEF PostVerdict, Hang, flash
  <2>2. pc' = "app" => bootable /\ intFlash
    BY <1>13, Zenon DEF PostVerdict, Hang
  <2> QED
    BY <2>1, <2>2, FindingsStand DEF SealInv, WriteInv, VerdictInv, Commits
<1>14. CASE Second
  BY <1>14, SameKeepsSealInv DEF Second, post
<1>15. CASE Tim5Interrupt
  BY <1>15, SameKeepsSealInv DEF Tim5Interrupt, post
<1>16. CASE PowerCycle
  BY <1>7, <1>16 DEF PowerCycle, Reboot
<1>17. CASE WatchdogReset
  <2>1. UNCHANGED <<meta, sealed>> /\ pc' = "loop"
    BY <1>17 DEF WatchdogReset, Reboot
  <2> QED
    BY <2>1, ElsewhereKeepsSealInv
<1>18. CASE UNCHANGED vars
  BY <1>18, SameKeepsSealInv DEF vars, post
<1> QED
  BY <1>1, <1>2, <1>3, <1>4, <1>5, <1>6, <1>8, <1>9, <1>10, <1>11, <1>12, <1>13,
     <1>14, <1>15, <1>16, <1>17, <1>18
  DEF Next, Main, Command, Handler, BootAttempt

LEMMA SealInvInit == Init => SealInv
<1> SUFFICES ASSUME Init PROVE SealInv
  OBVIOUS
<1>1. pc = "loop" /\ meta = NoMetadata
  BY DEF Init, BootState
<1> QED
  BY <1>1, CommitsNoMetadata DEF SealInv, WriteInv, VerdictInv

LEMMA SealInvHolds == Spec => [](TypeInv /\ SealInv)
BY InitType, NextType, SealInvInit, SealInvNext, PTL DEF Spec

-----------------------------------------------------------------------------

(* What may be launched is sealed.                                         *)
LEMMA CheckedIsSealed ==
  ASSUME TypeInv, SealInv, SignedAndValid, Checked
  PROVE  /\ IsValidApplication(slot)
         /\ meta[Signature] = App_Sig_Dword
         /\ meta[Version] = INTERNAL_FLASH_VERSION
         /\ meta[Size] \in 0 .. SlotDwords
         /\ Crc(slot, meta[Size]) = sealed
<1>1. IsValidApplication(slot) /\ LoadOrDefault(meta)[Signature] = App_Sig_Dword
  BY DEF SignedAndValid
<1>2. meta[Signature] = App_Sig_Dword
  BY <1>1, ValuesAssumption
  DEF LoadOrDefault, NoMetadata, Fields, Magic, Signature
<1>3. meta[Version] = INTERNAL_FLASH_VERSION /\ meta[CrcWord] = Crc(slot, meta[Size])
  BY DEF Checked, InternalFlashOk
<1>4. meta[Size] \in 0 .. SlotDwords
  BY DEF Checked, InternalFlashOk, CrcFaults, TypeInv, TypeOK, FlashOK,
         IsMetadata, Blank
<1>5. meta[CrcWord] \in Digests
  BY <1>3, <1>4, CrcIsDigest DEF TypeInv, TypeOK, FlashOK
<1> QED
  BY <1>1, <1>2, <1>3, <1>4, <1>5 DEF SealInv, Commits

(* The application is entered only when the slot is what the last committed *)
(* APP_CRC_VERIFY read, under signature and version (main.c:318-331,       *)
(* Post.c:105-170).                                                        *)
THEOREM BootsCorrect == Spec => []BootsOnlySealedImage
<1>1. TypeInv /\ SealInv => BootsOnlySealedImage
  BY CheckedIsSealed DEF BootsOnlySealedImage, SealInv, VerdictInv
<1> QED
  BY <1>1, SealInvHolds, PTL

(* A CRC and a size that can be read come from one APP_CRC_VERIFY, however *)
(* metadata_write was cut short (main.c:179-235).                          *)
THEOREM CommitCorrect == Spec => []CrcCommitsSize
<1>1. SealInv => CrcCommitsSize
  BY DEF CrcCommitsSize, SealInv, Commits
<1> QED
  BY <1>1, SealInvHolds, PTL

-----------------------------------------------------------------------------
(* Bootloader implements SafeBoot.                                         *)

LEMMA OnlyMetaEraseSeals ==
  ASSUME [Next]_vars, sealed' # sealed
  PROVE  MetaErase
<1>1. ~LoopHead /\ ~NoFrame
  BY DEF LoopHead, NoFrame, flash
<1>2. ~Command
  BY DEF Command, BadCrc, StayInBootloaderMode, EraseBegin, EraseRefused, DataBegin,
         AppSigDword, AppCrcVerify, AppCrcVerifyFaults, flash
<1>3. Handler => MetaErase
  BY DEF Handler, StaySetMode, ErasePage, ErasePageFails, DataProgram,
         DataProgramFails, DataOverrun, DataEnd, NextDword,
         MetaEraseFails, MetaProgram, MetaProgramFails, flash
<1>4. ~BootAttempt
  BY DEF BootAttempt, PostBegin, PostDelay, PostVerdict, flash
<1>5. ~EccError /\ ~Second /\ ~Tim5Interrupt
  BY DEF EccError, Second, Tim5Interrupt, flash
<1>6. ~PowerCycle /\ ~WatchdogReset
  BY DEF PowerCycle, WatchdogReset, Reboot
<1>7. UNCHANGED vars => FALSE
  BY DEF vars, flash
<1> QED
  BY <1>1, <1>2, <1>3, <1>4, <1>5, <1>6, <1>7 DEF Next, Main

LEMMA StepRefines ==
  ASSUME TypeInv, SealInv, TypeInv', [Next]_vars
  PROVE  [Abstract!Next]_(Abstract!vars)
<1>t. slot \in [Addr -> Word] /\ slot' \in [Addr -> Word]
  BY DEF TypeInv, TypeOK, FlashOK
<1>1. CASE pc = "app"
  <2>1. CASE PowerCycle
    <3>1. SlotAtRisk = {}
      BY <1>1 DEF SlotAtRisk, MoreData
    <3>2. slot' = Tear(slot, {}) /\ pc' = "loop" /\ sealed' = sealed
      BY <2>1, <3>1 DEF PowerCycle, Reboot
    <3>3. slot' = slot
      BY <1>t, <3>2 DEF Tear
    <3> QED
      BY <1>1, <3>2, <3>3 DEF Abstract!Next, Abstract!Reset
  <2>2. CASE UNCHANGED vars
    BY <2>2 DEF vars, flash, Abstract!vars
  <2> QED
    BY <1>1, <2>1, <2>2, LeavingApp
<1>2. CASE pc # "app" /\ pc' = "app"
  <2>1. PICK othersOk \in BOOLEAN : PostVerdict(othersOk)
    BY <1>2, EnteringApp
  <2>2. UNCHANGED <<slot, sealed>> /\ pc = "post"
    BY <2>1 DEF PostVerdict, flash
  <2>3. bootable /\ intFlash
    BY <1>2, <2>1, Zenon DEF PostVerdict, Hang
  <2>4. meta[Size] \in 0 .. SlotDwords /\ Crc(slot, meta[Size]) = sealed
    BY <2>2, <2>3, CheckedIsSealed DEF SealInv, VerdictInv
  <2>5. \E n \in 0 .. SlotDwords : sealed = Abstract!Prefix(slot, n)
    BY <2>4 DEF Crc, Abstract!Prefix
  <2> QED
    BY <1>2, <2>2, <2>5 DEF Abstract!Next, Abstract!Launch
<1>3. CASE pc # "app" /\ pc' # "app" /\ sealed' = sealed
  BY <1>t, <1>3 DEF Abstract!Next, Abstract!Rewrite, Addr
<1>4. CASE pc # "app" /\ pc' # "app" /\ sealed' # sealed
  <2>1. MetaErase
    BY <1>4, OnlyMetaEraseSeals
  <2>2. /\ slot' = slot /\ pc = "metaErase" /\ msg = "APP_CRC_VERIFY"
        /\ sealed' = metadata[CrcWord]
    BY <1>4, <2>1 DEF MetaErase, Unwritten
  <2>3. /\ metadata[Size] \in 0 .. SlotDwords
        /\ sealed' = Abstract!Prefix(slot, metadata[Size])
    BY <2>2 DEF SealInv, WriteInv, Crc, Abstract!Prefix
  <2> QED
    BY <1>4, <2>2, <2>3 DEF Abstract!Next, Abstract!Seal
<1> QED
  BY <1>1, <1>2, <1>3, <1>4

(* Whatever happens to flash and power, the board behaves like SafeBoot:   *)
(* the image is entered only while the prefix sealed last is unchanged     *)
(* (main.c:311-344 and 703-721, Post.c:105-170).                           *)
THEOREM BootloaderRefines == Spec => RefinesSafeBoot
<1>1. Init => Abstract!Init
  BY DEF Init, BootState, Abstract!Init, Addr, Word
<1>2. Spec => [][Abstract!Next]_(Abstract!vars)
  BY StepRefines, SealInvHolds, PTL DEF Spec
<1> QED
  BY <1>1, <1>2, PTL DEF Spec, RefinesSafeBoot, Abstract!Spec

-----------------------------------------------------------------------------
(* What the bootloader tells the host is true of the flash: the answers of *)
(* UC_FLASH_ERASE, APPLICATION_DATA and APP_CRC_VERIFY.                    *)

(* main answers at the end of a handler, and its answer is gone when the   *)
(* loop comes round; a handler finds its locals cleared.                   *)
QuietInv ==
  /\ pc # "loop" => replies = <<>>
  /\ pc \in {"loop", "usb", "post"} => i = 0 /\ l_pass_count = 0

(* The pages before the one that is erased next are blank.                 *)
EraseInv ==
  pc = "erase" =>
    /\ g_app_start_address = 0 /\ SectorError = "none"
    /\ \A a \in Addr : a < i * PageDwords => slot[a] = Erased

(* l_pass_count after n double words of which failed were not programmed:  *)
(* it is decremented for each of these, and wraps below zero.              *)
Count(n, failed) == IF 2 * failed <= n THEN n - 2 * failed ELSE n - 2 * failed + 256

(* The first n double words of the packet lie right below the address.     *)
Stored(mem, address, n, dwords) ==
  /\ n <= address
  /\ \A k \in 1 .. n : mem[address - n + (k - 1)] = dwords[k]

(* n double words have been dealt with.                                    *)
Written(mem, address, n, dwords, passCount) ==
  \E failed \in 0 .. n : /\ passCount = Count(n, failed)
                         /\ failed = 0 => Stored(mem, address, n, dwords)

DataInv ==
  pc = "data" =>
    /\ Len(Dword) <= NUM_OF_DWORDS /\ i <= Len(Dword)
    /\ Written(slot, g_app_start_address, i, Dword, l_pass_count)

(* What APP_CRC_VERIFY writes was measured over the slot as it is.         *)
VerifyInv ==
  pc \in {"metaErase", "metaWrite"} /\ msg = "APP_CRC_VERIFY" =>
    /\ metadata[Magic] = BOOT_METADATA_MAGIC
    /\ metadata[Size] \in 0 .. SlotDwords
    /\ metadata[CrcWord] = Crc(slot, metadata[Size])

WorkInv == EraseInv /\ DataInv /\ VerifyInv
Truthful == PassMeansStored /\ EraseSuccessMeansBlank /\ CrcReplyMeansSealed

ReplyInv == QuietInv /\ WorkInv /\ Truthful

-----------------------------------------------------------------------------

(* The answers that claim something about the flash.                       *)
Claims == { <<"APP_WR_DATA_PKT_ACK_PASS">>, <<"UC_FLASH_ERASE_SUCCESS">>,
            <<"APP_CRC_VERIFY">> }
Busy == {"erase", "data", "metaErase", "metaWrite"}

LEMMA NoClaim ==
  ASSUME replies' \notin Claims, pc' \notin Busy, QuietInv'
  PROVE  ReplyInv'
BY DEF ReplyInv, WorkInv, Truthful, EraseInv, DataInv, VerifyInv, PassMeansStored,
       EraseSuccessMeansBlank, CrcReplyMeansSealed, Claims, Busy

LEMMA EmptyIsNoClaim == <<>> \notin Claims
BY DEF Claims

LEMMA ReturnAnswers ==
  ASSUME QuietInv, pc # "loop", NEW S, NEW answer \in Seq(S), Return(answer)
  PROVE  replies' = answer /\ pc' = "loop" /\ QuietInv'
<1>1. <<>> \o answer = answer
  BY ConcatEmptySeq
<1> QED
  BY <1>1 DEF Return, QuietInv

LEMMA ReturnWord ==
  ASSUME QuietInv, pc # "loop", NEW word, Return(<<word>>)
  PROVE  replies' = <<word>> /\ pc' = "loop" /\ QuietInv'
<1>1. <<word>> \in Seq({word})
  OBVIOUS
<1> QED
  BY <1>1, ReturnAnswers

(* A handler at work has claimed nothing yet.                              *)
LEMMA AtWork ==
  ASSUME QuietInv', pc' \in Busy, WorkInv'
  PROVE  ReplyInv'
BY DEF ReplyInv, Truthful, QuietInv, PassMeansStored, EraseSuccessMeansBlank,
       CrcReplyMeansSealed, Busy

LEMMA SameKeepsReplyInv ==
  ASSUME ReplyInv, UNCHANGED <<flash, locals, pc, replies, g_app_start_address, SectorError>>
  PROVE  ReplyInv'
<1>1. UNCHANGED <<slot, meta, i, l_pass_count, Dword, metadata, msg>>
  BY DEF flash, locals
<1>2. QuietInv' /\ EraseInv' /\ VerifyInv'
  BY <1>1 DEF ReplyInv, WorkInv, QuietInv, EraseInv, VerifyInv, Crc
<1>3. DataInv'
  BY <1>1 DEF ReplyInv, WorkInv, DataInv
<1>4. Truthful'
  BY <1>1 DEF ReplyInv, Truthful, PassMeansStored, EraseSuccessMeansBlank,
     CrcReplyMeansSealed, Crc
<1> QED
  BY <1>2, <1>3, <1>4 DEF ReplyInv, WorkInv

-----------------------------------------------------------------------------
(* The handlers.                                                           *)

LEMMA EraseSteps ==
  ASSUME TypeInv, ReplyInv, EraseBegin \/ EraseRefused \/ ErasePage \/ ErasePageFails
  PROVE  ReplyInv'
<1>t. Pages \in Nat \ {0} /\ PageDwords \in Nat \ {0} /\ i \in Nat
      /\ slot \in [Addr -> Word] /\ QuietInv
  BY SizesAssumption DEF TypeInv, TypeOK, LocalsOK, FlashOK, ReplyInv
<1>1. CASE EraseBegin
  <2>1. pc' = "erase" /\ i' = 0 /\ g_app_start_address' = 0 /\ SectorError' = "none"
        /\ replies' = <<>>
    BY <1>t, <1>1 DEF EraseBegin, Dispatch, QuietInv
  <2>2. \A a \in Addr : ~(a < i' * PageDwords)
    BY <1>t, <2>1, SlotDwordsPositive DEF Addr
  <2> QED
    BY <2>1, <2>2, AtWork DEF WorkInv, EraseInv, DataInv, VerifyInv, QuietInv, Busy
<1>2. CASE EraseRefused
  <2>1. pc' = "loop" /\ replies' = EraseAnswer(255, SectorError)
        /\ pc = "usb" /\ UNCHANGED <<i, l_pass_count>>
    BY <1>2 DEF EraseRefused, locals
  <2>2. replies' \notin Claims
    BY <2>1 DEF EraseAnswer, Claims
  <2> QED
    BY <1>t, <2>1, <2>2, NoClaim DEF QuietInv, Busy
<1>3. CASE ErasePage
  <2>1. /\ pc = "erase" /\ slot' = ErasePageOf(slot, i)
        /\ UNCHANGED <<g_app_start_address, SectorError>>
        /\ g_app_start_address = 0 /\ SectorError = "none"
    BY <1>3 DEF ErasePage, globals, ReplyInv, WorkInv, EraseInv
  <2>2. \A a \in Addr : a < (i + 1) * PageDwords => slot'[a] = Erased
    BY <1>t, <2>1, SlotDwordsPositive
    DEF ErasePageOf, PageOf, ReplyInv, WorkInv, EraseInv, Addr
  <2>3. CASE LastPage(i)
    <3>1. EraseAnswer(1, SectorError) = <<"UC_FLASH_ERASE_SUCCESS">>
      BY <2>1 DEF EraseAnswer
    <3>2. Return(<<"UC_FLASH_ERASE_SUCCESS">>)
      BY <1>3, <2>3, <3>1 DEF ErasePage
    <3>3. replies' = <<"UC_FLASH_ERASE_SUCCESS">> /\ pc' = "loop" /\ QuietInv'
      BY <1>t, <2>1, <3>2, ReturnWord
    <3>4. \A a \in Addr : slot'[a] = Erased
      BY <1>t, <2>2, <2>3, SlotDwordsPositive DEF LastPage, Addr, SlotDwords
    <3> QED
      BY <2>1, <3>3, <3>4 DEF ReplyInv, WorkInv, Truthful, EraseInv, DataInv, VerifyInv,
         PassMeansStored, EraseSuccessMeansBlank, CrcReplyMeansSealed
  <2>4. CASE ~LastPage(i)
    <3>1. i' = i + 1 /\ UNCHANGED <<pc, replies>>
      BY <1>3, <2>4 DEF ErasePage
    <3> QED
      BY <1>t, <2>1, <2>2, <3>1, AtWork
      DEF WorkInv, EraseInv, DataInv, VerifyInv, QuietInv, Busy
  <2> QED
    BY <2>3, <2>4
<1>4. CASE ErasePageFails
  <2>1. EraseAnswer(255, "page") = <<"UC_FLASH_ERASE_FAIL">>
    BY DEF EraseAnswer
  <2>2. pc = "erase" /\ Return(<<"UC_FLASH_ERASE_FAIL">>)
    BY <1>4, <2>1 DEF ErasePageFails
  <2>3. replies' = <<"UC_FLASH_ERASE_FAIL">> /\ pc' = "loop" /\ QuietInv'
    BY <1>t, <2>2, ReturnWord
  <2> QED
    BY <2>3, NoClaim DEF Claims, Busy
<1> QED
  BY <1>1, <1>2, <1>3, <1>4

LEMMA CountPasses ==
  ASSUME NEW n \in 0 .. 126, NEW failed \in 0 .. n
  PROVE  (Count(n, failed) + 1) % 256 = Count(n + 1, failed)
BY DEF Count

LEMMA CountFails ==
  ASSUME NEW n \in 0 .. 126, NEW failed \in 0 .. n
  PROVE  (Count(n, failed) + 255) % 256 = Count(n + 1, failed + 1)
BY DEF Count

LEMMA CountAll ==
  ASSUME NEW n \in 0 .. 127, NEW failed \in 0 .. n, Count(n, failed) = n
  PROVE  failed = 0
BY DEF Count

LEMMA StoredNext ==
  ASSUME NEW mem \in [Addr -> Word], NEW address \in Addr, NEW n \in Nat, NEW dwords,
         Stored(mem, address, n, dwords)
  PROVE  Stored([mem EXCEPT ![address] = dwords[n + 1]], address + 1, n + 1, dwords)
<1> DEFINE next == [mem EXCEPT ![address] = dwords[n + 1]]
<1>t. address \in Nat /\ n <= address
  BY SlotDwordsPositive DEF Addr, Stored
<1>1. ASSUME NEW k \in 1 .. (n + 1)
      PROVE  next[(address + 1) - (n + 1) + (k - 1)] = dwords[k]
  <2>1. CASE k = n + 1
    <3>1. (address + 1) - (n + 1) + (k - 1) = address
      BY <1>t, <2>1
    <3> QED
      BY <2>1, <3>1
  <2>2. CASE k \in 1 .. n
    <3>1. (address + 1) - (n + 1) + (k - 1) = address - n + (k - 1)
      BY <1>t
    <3>2. address - n + (k - 1) \in Addr /\ address - n + (k - 1) # address
      BY <1>t, <2>2, SlotDwordsPositive DEF Addr
    <3>3. mem[address - n + (k - 1)] = dwords[k]
      BY <2>2 DEF Stored
    <3> QED
      BY <3>1, <3>2, <3>3
  <2> QED
    BY <2>1, <2>2
<1>2. n + 1 <= address + 1
  BY <1>t
<1> HIDE DEF next
<1>3. Stored(next, address + 1, n + 1, dwords)
  BY <1>1, <1>2 DEF Stored
<1> QED
  BY <1>3 DEF next

LEMMA WrittenNext ==
  ASSUME NEW mem \in [Addr -> Word], NEW address \in Addr, NEW n \in 0 .. 126, NEW dwords,
         NEW passCount, Written(mem, address, n, dwords, passCount)
  PROVE  Written([mem EXCEPT ![address] = dwords[n + 1]], address + 1, n + 1, dwords,
                 (passCount + 1) % 256)
<1>1. PICK failed \in 0 .. n : /\ passCount = Count(n, failed)
                               /\ failed = 0 => Stored(mem, address, n, dwords)
  BY DEF Written
<1>n. n \in Nat
  OBVIOUS
<1>2. (passCount + 1) % 256 = Count(n + 1, failed)
  <2>1. passCount = Count(n, failed)
    BY <1>1, Zenon
  <2> QED
    BY <2>1, CountPasses
<1>3. ASSUME failed = 0
      PROVE  Stored([mem EXCEPT ![address] = dwords[n + 1]], address + 1, n + 1, dwords)
  <2>1. Stored(mem, address, n, dwords)
    BY <1>1, <1>3
  <2> QED
    BY <1>n, <2>1, StoredNext
<1> QED
  BY <1>2, <1>3 DEF Written

LEMMA WrittenAll ==
  ASSUME NEW mem, NEW address, NEW n \in 0 .. 127, NEW dwords,
         Written(mem, address, n, dwords, n)
  PROVE  Stored(mem, address, n, dwords)
BY CountAll DEF Written

(* The loop of APPLICATION_DATA: the answer when nothing is left to do is  *)
(* PASS only if nothing failed.                                            *)
LEMMA DataSteps ==
  ASSUME TypeInv, ReplyInv, DataBegin \/ DataProgram \/ DataProgramFails
                              \/ DataOverrun \/ DataEnd
  PROVE  ReplyInv'
<1>t. /\ NUM_OF_DWORDS \in 1 .. 127 /\ i \in Nat /\ Len(Dword) \in Nat
      /\ slot \in [Addr -> Word] /\ g_app_start_address \in Addr /\ QuietInv
  BY SizesAssumption, SlotDwordsPositive
  DEF TypeInv, TypeOK, LocalsOK, FlashOK, GlobalsOK, ReplyInv, Addr
<1>1. CASE DataBegin
  <2>1. pc = "usb" /\ pc' = "data" /\ i' = 0 /\ l_pass_count' = 0 /\ replies' = <<>>
        /\ UNCHANGED g_app_start_address
    BY <1>t, <1>1 DEF DataBegin, Dispatch, QuietInv, globals
  <2>2. PICK n \in 1 .. NUM_OF_DWORDS : Dword' \in [1 .. n -> Code]
    BY <1>1 DEF DataBegin
  <2>3. Len(Dword') = n
    BY <2>2
  <2>4. Count(0, 0) = 0 /\ Stored(slot', g_app_start_address, 0, Dword')
    BY <1>t, SlotDwordsPositive DEF Count, Stored, Addr
  <2>5. Written(slot', g_app_start_address', i', Dword', l_pass_count')
    BY <2>1, <2>4 DEF Written
  <2>6. DataInv'
    BY <1>t, <2>1, <2>3, <2>5 DEF DataInv
  <2> QED
    BY <2>1, <2>6, AtWork DEF WorkInv, EraseInv, VerifyInv, QuietInv, Busy
<1>2. ASSUME NEW passCount, NextDword(passCount), MoreData,
             Written(slot', g_app_start_address + 1, i + 1, Dword, passCount % 256)
      PROVE  ReplyInv'
  <2>1. /\ pc = "data" /\ i < Len(Dword) /\ i' = i + 1 /\ l_pass_count' = passCount % 256
        /\ g_app_start_address' = g_app_start_address + 1
        /\ UNCHANGED <<pc, replies, Dword>>
    BY <1>2 DEF NextDword, MoreData
  <2>2. Len(Dword) <= NUM_OF_DWORDS /\ i' <= Len(Dword')
    BY <1>t, <2>1 DEF DataInv, ReplyInv, WorkInv
  <2>3. DataInv'
    BY <1>2, <2>1, <2>2 DEF DataInv
  <2> QED
    BY <1>t, <2>1, <2>3, AtWork DEF WorkInv, EraseInv, VerifyInv, QuietInv, Busy
<1>3. ASSUME MoreData
      PROVE  /\ i \in 0 .. 126
             /\ Written(slot, g_app_start_address, i, Dword, l_pass_count)
  BY <1>t, <1>3 DEF MoreData, ReplyInv, WorkInv, DataInv
<1>4. CASE DataProgram
  <2>1. /\ MoreData /\ NextDword(l_pass_count + 1)
        /\ slot' = [slot EXCEPT ![g_app_start_address] = Dword[i + 1]]
    BY <1>4 DEF DataProgram
  <2>2. i \in 0 .. 126 /\ Written(slot, g_app_start_address, i, Dword, l_pass_count)
    BY <1>3, <2>1
  <2>3. Written(slot', g_app_start_address + 1, i + 1, Dword, (l_pass_count + 1) % 256)
    BY <1>t, <2>1, <2>2, WrittenNext
  <2> QED
    BY <1>2, <2>1, <2>3
<1>5. CASE DataProgramFails
  <2>1. MoreData /\ NextDword(l_pass_count + 255)
    BY <1>5 DEF DataProgramFails
  <2>2. i \in 0 .. 126 /\ Written(slot, g_app_start_address, i, Dword, l_pass_count)
    BY <1>3, <2>1
  <2>3. PICK failed \in 0 .. i : l_pass_count = Count(i, failed)
    BY <2>2 DEF Written
  <2>4. failed + 1 \in 0 .. (i + 1) /\ failed + 1 # 0
    BY <2>2
  <2>5. (l_pass_count + 255) % 256 = Count(i + 1, failed + 1)
    BY <2>2, <2>3, CountFails
  <2>6. Written(slot', g_app_start_address + 1, i + 1, Dword, (l_pass_count + 255) % 256)
    BY <2>4, <2>5 DEF Written
  <2> QED
    BY <1>2, <2>1, <2>6
<1>6. CASE DataOverrun
  <2> DEFINE answer == <<"APP_WR_DATA_PKT_ACK_FAIL">> \o DataAnswer(l_pass_count)
             Words == {"APP_WR_DATA_PKT_ACK_PASS", "APP_WR_DATA_PKT_ACK_FAIL"}
  <2>1. \A word \in Words : <<word>> \in Seq(Words) /\ Len(<<word>>) = 1
    OBVIOUS
  <2>2. PICK last \in Words : DataAnswer(l_pass_count) = <<last>>
    BY DEF DataAnswer
  <2>3. answer \in Seq(Words) /\ Len(answer) = 2
    BY <2>1, <2>2, ConcatProperties
  <2>4. pc = "data" /\ Return(answer)
    BY <1>6 DEF DataOverrun, MoreData
  <2> HIDE DEF answer
  <2>5. replies' = answer /\ pc' = "loop" /\ QuietInv'
    BY <1>t, <2>3, <2>4, ReturnAnswers
  <2>6. answer \notin Claims
    BY <2>3 DEF Claims
  <2> QED
    BY <2>5, <2>6, NoClaim DEF Busy
<1>7. CASE DataEnd
  <2>1. /\ pc = "data" /\ i = Len(Dword) /\ Return(DataAnswer(l_pass_count))
        /\ UNCHANGED <<slot, Dword, g_app_start_address>>
    BY <1>7 DEF DataEnd, flash, globals
  <2>2. CASE l_pass_count # Len(Dword)
    <3>1. Return(<<"APP_WR_DATA_PKT_ACK_FAIL">>)
      BY <2>1, <2>2 DEF DataAnswer
    <3>2. replies' = <<"APP_WR_DATA_PKT_ACK_FAIL">> /\ pc' = "loop" /\ QuietInv'
      BY <1>t, <2>1, <3>1, ReturnWord
    <3> QED
      BY <3>2, NoClaim DEF Claims, Busy
  <2>3. CASE l_pass_count = Len(Dword)
    <3>1. Return(<<"APP_WR_DATA_PKT_ACK_PASS">>)
      BY <2>1, <2>3 DEF DataAnswer
    <3>2. replies' = <<"APP_WR_DATA_PKT_ACK_PASS">> /\ pc' = "loop" /\ QuietInv'
      BY <1>t, <2>1, <3>1, ReturnWord
    <3>3. i <= NUM_OF_DWORDS /\ Written(slot, g_app_start_address, i, Dword, i)
      BY <2>1, <2>3 DEF ReplyInv, WorkInv, DataInv
    <3>4. i \in 0 .. 127
      BY <1>t, <3>3
    <3>5. Stored(slot, g_app_start_address, i, Dword)
      BY <3>3, <3>4, WrittenAll
    <3>6. PassMeansStored'
      BY <2>1, <3>5 DEF PassMeansStored, Stored
    <3> QED
      BY <3>2, <3>6 DEF ReplyInv, WorkInv, Truthful, EraseInv, DataInv, VerifyInv,
         EraseSuccessMeansBlank, CrcReplyMeansSealed
  <2> QED
    BY <2>2, <2>3
<1> QED
  BY <1>1, <1>4, <1>5, <1>6, <1>7

(* APP_SIG_DWORD and APP_CRC_VERIFY: the last field that is programmed     *)
(* completes what the answer speaks of.                                    *)
LEMMA DispatchToMetadata ==
  ASSUME TypeInv, ReplyInv,
         \/ \E v \in Versions : AppSigDword(v)
         \/ \E n \in Sizes : AppCrcVerify(n)
  PROVE  ReplyInv'
<1>t. IsMetadata(meta) /\ QuietInv
  BY DEF TypeInv, TypeOK, FlashOK, ReplyInv
<1>1. ASSUME NEW v \in Versions, AppSigDword(v)
      PROVE  ReplyInv'
  <2>1. pc' = "metaErase" /\ msg' = "APP_SIG_DWORD" /\ replies' = <<>>
    BY <1>t, <1>1 DEF AppSigDword, Dispatch, QuietInv
  <2> QED
    BY <2>1, AtWork DEF WorkInv, EraseInv, DataInv, VerifyInv, QuietInv, Busy
<1>2. ASSUME NEW n \in Sizes, AppCrcVerify(n)
      PROVE  ReplyInv'
  <2>1. /\ pc' = "metaErase" /\ replies' = <<>> /\ UNCHANGED slot
        /\ metadata' = Measured(LoadOrDefault(meta), n)
    BY <1>t, <1>2 DEF AppCrcVerify, Dispatch, QuietInv, flash
  <2>2. IsMetadata(LoadOrDefault(meta))
    BY <1>t, LoadOrDefaultIsMetadata
  <2>3. /\ metadata'[Size] \in 0 .. SlotDwords
        /\ metadata'[CrcWord] = Crc(slot', metadata'[Size])
    BY <2>1, <2>2, MeasuredCommits DEF Crc
  <2>4. LoadOrDefault(meta)[Magic] = BOOT_METADATA_MAGIC
    BY DEF LoadOrDefault, NoMetadata, Fields, Magic
  <2>5. metadata'[Magic] = BOOT_METADATA_MAGIC
    BY <2>1, <2>2, <2>4 DEF Measured, IsMetadata, Fields, Magic, Size, CrcWord
  <2> QED
    BY <2>1, <2>3, <2>5, AtWork DEF WorkInv, EraseInv, DataInv, VerifyInv, QuietInv, Busy
<1> QED
  BY <1>1, <1>2

LEMMA MetadataSteps ==
  ASSUME TypeInv, SealInv, ReplyInv,
         MetaErase \/ MetaEraseFails \/ MetaProgram \/ MetaProgramFails
  PROVE  ReplyInv'
<1>t. QuietInv /\ IsMetadata(meta) /\ (pc = "metaWrite" => i \in Fields)
      /\ (pc \in {"metaErase", "metaWrite"} => msg \in {"APP_SIG_DWORD", "APP_CRC_VERIFY"})
  BY DEF TypeInv, TypeOK, FlashOK, ReplyInv, SealInv, WriteInv
<1>1. ASSUME pc' = pc \/ pc' = "metaWrite", pc \in {"metaErase", "metaWrite"},
             UNCHANGED <<slot, replies, metadata, msg>>
      PROVE  ReplyInv'
  <2>1. VerifyInv'
    BY <1>1 DEF ReplyInv, WorkInv, VerifyInv, Crc
  <2> QED
    BY <1>t, <1>1, <2>1, AtWork DEF WorkInv, EraseInv, DataInv, QuietInv, Busy
<1>2. ASSUME pc # "loop", Return(WriteAnswer(FALSE))
      PROVE  ReplyInv'
  <2>1. WriteAnswer(FALSE) \in {<<>>, <<"APP_SIG_DWORD_WR_FAIL">>}
    BY DEF WriteAnswer
  <2>2. /\ <<>> \in Seq({"APP_SIG_DWORD_WR_FAIL"})
        /\ <<"APP_SIG_DWORD_WR_FAIL">> \in Seq({"APP_SIG_DWORD_WR_FAIL"})
    OBVIOUS
  <2>3. WriteAnswer(FALSE) \in Seq({"APP_SIG_DWORD_WR_FAIL"})
    BY <2>1, <2>2
  <2>4. <<>> \notin Claims /\ <<"APP_SIG_DWORD_WR_FAIL">> \notin Claims
    BY DEF Claims
  <2>5. WriteAnswer(FALSE) \notin Claims
    BY <2>1, <2>4
  <2>6. replies' = WriteAnswer(FALSE) /\ pc' = "loop" /\ QuietInv'
    BY <1>t, <1>2, <2>3, ReturnAnswers
  <2> QED
    BY <2>5, <2>6, NoClaim DEF Busy
<1>3. CASE MetaErase
  BY <1>1, <1>3 DEF MetaErase, Unwritten
<1>4. CASE MetaEraseFails
  BY <1>2, <1>4 DEF MetaEraseFails
<1>5. CASE MetaProgramFails
  BY <1>2, <1>5 DEF MetaProgramFails
<1>6. CASE MetaProgram
  <2>1. /\ pc = "metaWrite" /\ UNCHANGED slot
        /\ meta' = [meta EXCEPT ![i] = metadata[i]]
    BY <1>6 DEF MetaProgram, Unwritten
  <2>2. CASE i # 5
    BY <1>1, <1>6, <2>1, <2>2 DEF MetaProgram
  <2>3. CASE i = 5 /\ msg = "APP_SIG_DWORD"
    <3>1. Return(<<"APP_SIG_DWORD_WR_PASS">>)
      BY <1>6, <2>3 DEF MetaProgram, WriteAnswer
    <3>2. replies' = <<"APP_SIG_DWORD_WR_PASS">> /\ pc' = "loop" /\ QuietInv'
      BY <1>t, <2>1, <3>1, ReturnWord
    <3> QED
      BY <3>2, NoClaim DEF Claims, Busy
  <2>4. CASE i = 5 /\ msg = "APP_CRC_VERIFY"
    <3>1. Return(<<"APP_CRC_VERIFY">>)
      BY <1>6, <2>4 DEF MetaProgram, WriteAnswer
    <3>2. replies' = <<"APP_CRC_VERIFY">> /\ pc' = "loop" /\ QuietInv'
      BY <1>t, <2>1, <3>1, ReturnWord
    <3>3. \A f \in Fields : meta'[f] = metadata[f]
      <4>1. \A f \in Fields : meta[f] = IF f < i THEN metadata[f] ELSE Erased
        BY <2>1 DEF SealInv, WriteInv
      <4>2. ASSUME NEW f \in Fields
            PROVE  meta'[f] = metadata[f]
        <5>1. CASE f = 5
          BY <1>t, <2>1, <2>4, <5>1 DEF IsMetadata, Fields
        <5>2. CASE f # 5
          <6>1. f < i /\ meta'[f] = meta[f]
            BY <1>t, <2>1, <2>4, <4>2, <5>2 DEF IsMetadata, Fields
          <6> QED
            BY <4>1, <4>2, <6>1
        <5> QED
          BY <5>1, <5>2
      <4> QED
        BY <4>2
    <3>4. /\ meta'[Magic] = metadata[Magic] /\ meta'[Size] = metadata[Size]
          /\ meta'[CrcWord] = metadata[CrcWord]
      BY <3>3 DEF Fields, Magic, Size, CrcWord
    <3>5. CrcReplyMeansSealed'
      BY <2>1, <2>4, <3>4 DEF CrcReplyMeansSealed, ReplyInv, WorkInv, VerifyInv, Crc
    <3> QED
      BY <3>2, <3>5 DEF ReplyInv, WorkInv, Truthful, EraseInv, DataInv, VerifyInv,
         PassMeansStored, EraseSuccessMeansBlank
  <2> QED
    BY <1>t, <2>1, <2>2, <2>3, <2>4
<1> QED
  BY <1>3, <1>4, <1>5, <1>6

-----------------------------------------------------------------------------
(* Everything else says nothing about the flash.                           *)

LEMMA OtherSteps ==
  ASSUME TypeInv, ReplyInv,
         \/ LoopHead \/ NoFrame \/ BadCrc \/ StayInBootloaderMode \/ StaySetMode
         \/ AppCrcVerifyFaults \/ BootAttempt \/ EccError
         \/ PowerCycle \/ WatchdogReset
  PROVE  ReplyInv'
<1>t. QuietInv
  BY DEF ReplyInv
<1>1. ASSUME replies' \in {<<>>, <<"CRC_CHECK_FAIL">>, <<"CONTROLLER_IN_BOOTMODE">>},
             pc' \notin Busy, QuietInv'
      PROVE  ReplyInv'
  BY <1>1, NoClaim DEF Claims
<1>2. CASE LoopHead \/ NoFrame \/ BadCrc
  <2>1. UNCHANGED <<i, l_pass_count>>
    BY <1>2 DEF LoopHead, NoFrame, BadCrc, locals
  <2> QED
    BY <1>t, <1>1, <1>2, <2>1 DEF LoopHead, NoFrame, BadCrc, Forget, QuietInv, Busy
<1>3. CASE StayInBootloaderMode \/ AppCrcVerifyFaults
  BY <1>t, <1>1, <1>3 DEF StayInBootloaderMode, AppCrcVerifyFaults, Dispatch, Hang,
     QuietInv, Busy
<1>4. CASE StaySetMode
  <2>1. pc = "stay" /\ Return(<<"CONTROLLER_IN_BOOTMODE">>)
    BY <1>4 DEF StaySetMode
  <2>2. replies' = <<"CONTROLLER_IN_BOOTMODE">> /\ pc' = "loop" /\ QuietInv'
    BY <1>t, <2>1, ReturnWord
  <2> QED
    BY <1>1, <2>2 DEF Busy
<1>5. CASE PostBegin
  BY <1>t, <1>1, <1>5 DEF PostBegin, Forget, QuietInv, Busy
<1>6. CASE PostDelay
  <2>1. pc = "post" /\ pc' \in {"post", "hang"} /\ UNCHANGED <<i, l_pass_count, replies>>
    BY <1>6 DEF PostDelay, Hang, locals
  <2> QED
    BY <1>t, <1>1, <2>1 DEF QuietInv, Busy
<1>7. ASSUME NEW othersOk \in BOOLEAN, PostVerdict(othersOk)
      PROVE  ReplyInv'
  <2>1. pc = "post" /\ pc' \in {"app", "usb", "hang"} /\ UNCHANGED <<i, l_pass_count, replies>>
    BY <1>7 DEF PostVerdict, Hang, locals
  <2> QED
    BY <1>t, <1>1, <2>1 DEF QuietInv, Busy
<1>8. CASE EccError
  BY <1>t, <1>1, <1>8 DEF EccError, Hang, QuietInv, Busy
<1>9. CASE PowerCycle \/ WatchdogReset
  <2>1. pc' = "loop" /\ i' = 0 /\ l_pass_count' = 0 /\ replies' = <<>>
    BY <1>9 DEF PowerCycle, WatchdogReset, Reboot
  <2> QED
    BY <1>1, <2>1 DEF QuietInv, Busy
<1> QED
  BY <1>2, <1>3, <1>4, <1>5, <1>6, <1>7, <1>8, <1>9 DEF BootAttempt

LEMMA ReplyInvNext == TypeInv /\ SealInv /\ ReplyInv /\ [Next]_vars => ReplyInv'
<1> SUFFICES ASSUME TypeInv, SealInv, ReplyInv, [Next]_vars PROVE ReplyInv'
  OBVIOUS
<1>1. CASE EraseBegin \/ EraseRefused \/ ErasePage \/ ErasePageFails
  BY <1>1, EraseSteps
<1>2. CASE DataBegin \/ DataProgram \/ DataProgramFails \/ DataOverrun \/ DataEnd
  BY <1>2, DataSteps
<1>3. CASE (\E v \in Versions : AppSigDword(v)) \/ (\E n \in Sizes : AppCrcVerify(n))
  BY <1>3, DispatchToMetadata
<1>4. CASE MetaErase \/ MetaEraseFails \/ MetaProgram \/ MetaProgramFails
  BY <1>4, MetadataSteps
<1>5. CASE \/ LoopHead \/ NoFrame \/ BadCrc \/ StayInBootloaderMode \/ StaySetMode
           \/ AppCrcVerifyFaults \/ BootAttempt \/ EccError
           \/ PowerCycle \/ WatchdogReset
  BY <1>5, OtherSteps
<1>6. CASE Second \/ Tim5Interrupt
  BY <1>6, SameKeepsReplyInv DEF Second, Tim5Interrupt, globals
<1>7. CASE UNCHANGED vars
  BY <1>7, SameKeepsReplyInv DEF vars, globals
<1> QED
  BY <1>1, <1>2, <1>3, <1>4, <1>5, <1>6, <1>7 DEF Next, Main, Command, Handler

LEMMA ReplyInvInit == Init => ReplyInv
<1> SUFFICES ASSUME Init PROVE ReplyInv
  OBVIOUS
<1>1. pc = "loop" /\ replies = <<>> /\ i = 0 /\ l_pass_count = 0
  BY DEF Init, BootState
<1> QED
  BY <1>1 DEF ReplyInv, QuietInv, WorkInv, Truthful, EraseInv, DataInv, VerifyInv,
     PassMeansStored, EraseSuccessMeansBlank, CrcReplyMeansSealed

LEMMA ReplyInvHolds == Spec => []ReplyInv
BY SealInvHolds, ReplyInvInit, ReplyInvNext, PTL DEF Spec

(* UC_FLASH_ERASE is answered with success only when the whole slot is     *)
(* blank and the next packet goes to its beginning (main.c:466-529).       *)
THEOREM EraseAnswerCorrect == Spec => []EraseSuccessMeansBlank
<1>1. ReplyInv => EraseSuccessMeansBlank
  BY DEF ReplyInv, Truthful
<1> QED
  BY <1>1, ReplyInvHolds, PTL

(* A packet is acknowledged with PASS only when all of it is in the slot,  *)
(* although l_pass_count wraps (main.c:548-620).                           *)
THEOREM DataAnswerCorrect == Spec => []PassMeansStored
<1>1. ReplyInv => PassMeansStored
  BY DEF ReplyInv, Truthful
<1> QED
  BY <1>1, ReplyInvHolds, PTL

(* APP_CRC_VERIFY is answered only when the record it speaks of is         *)
(* complete in flash and its CRC is that of the slot (main.c:703-742).     *)
THEOREM CrcAnswerCorrect == Spec => []CrcReplyMeansSealed
<1>1. ReplyInv => CrcReplyMeansSealed
  BY DEF ReplyInv, Truthful
<1> QED
  BY <1>1, ReplyInvHolds, PTL

=============================================================================
