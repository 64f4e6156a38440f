----------------------------- MODULE FlashDriver -----------------------------
(***************************************************************************)
(* HAL_FLASH_Program, HAL_FLASHEx_Erase, FLASH_WaitForLastOperation and    *)
(* FLASH_FlushCaches of the HAL, with the flash, its status register and   *)
(* the data cache in front of it.  What Bootloader assumes of them is in   *)
(* FlashPromise; RefinesFlashPromise says that they keep it.               *)
(*                                                                         *)
(* The 50 s timeout is left out: the watchdog is faster.  So is mass       *)
(* erase, which nobody asks for.  The callers in main.c unlock the flash   *)
(* before they call, and one call is made at a time (none from an          *)
(* interrupt), so __HAL_LOCK never finds it locked.                        *)
(*                                                                         *)
(* KeepsLines and Noticed are slips in the definition after them.          *)
(***************************************************************************)
EXTENDS Integers

CONSTANTS Pages, PageDwords, Data, Erased, Torn, Zero, None

FlashAssumption ==
  /\ Pages \in Nat \ {0} /\ PageDwords \in Nat \ {0}
  /\ Erased # Torn /\ Erased \notin Data /\ Torn \notin Data
  /\ None \notin 0 .. (Pages - 1)

VARIABLES
  array, lines,             \* the flash; the double words the data cache holds
  DCEN, CacheToReactivate,  \* the cache is on; it is to be turned on again
  SR,                       \* error flags of FLASH->SR
  pc, op,                   \* the running call
  page_index, PageError, status,
  before                    \* ghost: what was to be read, PageError and
                            \* status when the running call was made

cache == <<lines, DCEN, CacheToReactivate>>
caller == <<page_index, PageError, status>>
vars == <<array, cache, SR, pc, op, caller, before>>

Addr == 0 .. (Pages * PageDwords - 1)
PageOf(p) == {a \in Addr : p * PageDwords <= a /\ a < (p + 1) * PageDwords}
NoLines == [a \in {} |-> Erased]
View == [a \in Addr |-> IF DCEN /\ a \in DOMAIN lines THEN lines[a] ELSE array[a]]
Visible == [memory |-> View, PageError |-> PageError, status |-> status]

(* The option bytes may have failed their check at reset.                  *)
Init ==
  /\ array \in [Addr -> Data \cup {Erased}]
  /\ lines = NoLines /\ DCEN = TRUE /\ CacheToReactivate = FALSE
  /\ SR \in {{}, {"OPTVERR"}}
  /\ pc = "idle" /\ op = [kind |-> "none"]
  /\ page_index = 0 /\ PageError = 0 /\ status = "HAL_OK"
  /\ before = Visible

(* The processor reads a double word.                                      *)
Read(a) ==
  /\ pc = "idle" /\ DCEN
  /\ lines' = [b \in DOMAIN lines \cup {a} |-> View[b]]
  /\ UNCHANGED <<array, DCEN, CacheToReactivate, SR, pc, op, caller, before>>

Call(o) ==
  /\ pc = "idle" /\ pc' = "called"
  /\ op' = o /\ before' = Visible
  /\ UNCHANGED <<array, cache, SR, caller>>

-----------------------------------------------------------------------------
(* FLASH_WaitForLastOperation.                                             *)

Noticed ==
  /\ status' = IF SR = {} THEN "HAL_OK" ELSE "HAL_ERROR"
  /\ SR' = SR
WaitForLastOperation ==
  /\ status' = IF SR = {} THEN "HAL_OK" ELSE "HAL_ERROR"
  /\ SR' = {}

(* An error from before the call ends it.                                  *)
Begin ==
  /\ pc = "called"
  /\ WaitForLastOperation
  /\ IF status' = "HAL_OK"
       THEN /\ pc' = "operate"
            /\ DCEN' = FALSE /\ CacheToReactivate' = DCEN
            /\ IF op.kind = "erase"
                 THEN PageError' = None /\ page_index' = op.first
                 ELSE UNCHANGED <<PageError, page_index>>
       ELSE /\ pc' = "idle"
            /\ UNCHANGED <<DCEN, CacheToReactivate, PageError, page_index>>
  /\ UNCHANGED <<array, lines, op, before>>

Operated == pc = "operate" /\ pc' = "wait" /\ UNCHANGED <<cache, op, caller, before>>

(* The flash sets PROGERR when the double word is not erased, unless the   *)
(* data is all zeros; any operation can fail.                              *)
Programmable == array[op.a] = Erased \/ op.data = Zero
FLASH_Program_DoubleWord ==
  /\ Operated /\ op.kind = "program"
  /\ \/ /\ Programmable
        /\ array' = [array EXCEPT ![op.a] = op.data] /\ SR' = {}
     \/ array' = array /\ SR' = {"PROGERR"}
     \/ /\ Programmable
        /\ array' = [array EXCEPT ![op.a] = Torn] /\ SR' = {"PROGERR"}

FLASH_PageErase ==
  /\ Operated /\ op.kind = "erase"
  /\ \/ /\ array' = [a \in Addr |-> IF a \in PageOf(page_index) THEN Erased ELSE array[a]]
        /\ SR' = {}
     \/ /\ \E lost \in SUBSET PageOf(page_index) :
             array' = [a \in Addr |-> IF a \in lost THEN Torn ELSE array[a]]
        /\ SR' = {"OPERR"}

(* The end of the operation, and of one turn of the loop over the pages.   *)
Finish ==
  /\ pc = "wait"
  /\ WaitForLastOperation
  /\ page_index' = IF op.kind = "erase" /\ status' = "HAL_OK"
                     THEN page_index + 1 ELSE page_index
  /\ PageError' = IF op.kind = "erase" /\ status' # "HAL_OK" THEN page_index ELSE PageError
  /\ pc' = IF op.kind = "erase" /\ status' = "HAL_OK" /\ page_index' < op.first + op.n
             THEN "operate" ELSE "flush"
  /\ UNCHANGED <<array, cache, op, before>>

KeepsLines ==
  /\ pc = "flush" /\ pc' = "idle"
  /\ DCEN' = CacheToReactivate /\ CacheToReactivate' = FALSE
  /\ UNCHANGED <<array, lines, SR, op, caller, before>>
FLASH_FlushCaches ==
  /\ pc = "flush" /\ pc' = "idle"
  /\ lines' = IF CacheToReactivate THEN NoLines ELSE lines
  /\ DCEN' = CacheToReactivate /\ CacheToReactivate' = FALSE
  /\ UNCHANGED <<array, SR, op, caller, before>>

Next ==
  \/ \E a \in Addr : Read(a)
  \/ \E a \in Addr, d \in Data : Call([kind |-> "program", a |-> a, data |-> d])
  \/ \E first \in 0 .. (Pages - 1), n \in 1 .. Pages :
       first + n <= Pages /\ Call([kind |-> "erase", first |-> first, n |-> n])
  \/ Begin \/ FLASH_Program_DoubleWord \/ FLASH_PageErase \/ Finish \/ FLASH_FlushCaches

Spec == Init /\ [][Next]_vars

-----------------------------------------------------------------------------

(* A call looks to its caller like one step of FlashPromise: what is read  *)
(* afterwards, through the cache, is what status and PageError say, and no *)
(* other double word has changed.  metadata_write's read back (main.c:218) *)
(* means something only for that.                                          *)
Seen == IF pc = "idle" THEN Visible ELSE before
Promise == INSTANCE FlashPromise WITH
  memory <- Seen.memory, PageError <- Seen.PageError, status <- Seen.status
RefinesFlashPromise == Promise!Spec

(* An operation that failed does not make the next one fail: an erase that *)
(* is refused before its first page was refused for an error of the reset. *)
ErrorsStayWithTheirCall == pc = "idle" => SR \subseteq {"OPTVERR"}
=============================================================================
