----------------------------- MODULE FlashPromise -----------------------------
(***************************************************************************)
(* What the callers in main.c rely on of HAL_FLASH_Program and             *)
(* HAL_FLASHEx_Erase, and what Bootloader takes for granted: each call is  *)
(* one step that does its work and says so, or says that it did not.       *)
(***************************************************************************)
EXTENDS Integers

CONSTANTS
  Pages, PageDwords,
  Data,                     \* double words that are programmed
  Erased, Torn, Zero,       \* Zero: all bits programmed
  None                      \* PageError of an erase without error: 0xFFFFFFFF

VARIABLES
  memory,                   \* what reading a double word returns
  PageError,                \* the caller's variable
  status                    \* of the call that returned last

vars == <<memory, PageError, status>>

Addr == 0 .. (Pages * PageDwords - 1)
PageOf(p) == {a \in Addr : p * PageDwords <= a /\ a < (p + 1) * PageDwords}

(* Bits can be cleared only in an erased double word, or all of them.      *)
Programmable(a, data) == memory[a] = Erased \/ data = Zero

Init ==
  /\ memory \in [Addr -> Data \cup {Erased}]
  /\ PageError = 0 /\ status = "HAL_OK"

ProgramOk(a, data) ==
  /\ Programmable(a, data)
  /\ memory' = [memory EXCEPT ![a] = data]
  /\ status' = "HAL_OK" /\ UNCHANGED PageError

ProgramError(a, data) ==
  /\ \/ memory' = memory
     \/ Programmable(a, data) /\ memory' = [memory EXCEPT ![a] = Torn]
  /\ status' = "HAL_ERROR" /\ UNCHANGED PageError

(* The pages first .. last - 1 are erased, page last as far as it got.     *)
ErasedUpTo(first, last) ==
  \E torn \in SUBSET PageOf(last) :
    memory' = [a \in Addr |-> IF \E p \in first .. (last - 1) : a \in PageOf(p) THEN Erased
                             ELSE IF a \in torn THEN Torn ELSE memory[a]]

EraseOk(first, n) ==
  /\ memory' = [a \in Addr |-> IF \E p \in first .. (first + n - 1) : a \in PageOf(p)
                                 THEN Erased ELSE memory[a]]
  /\ status' = "HAL_OK" /\ PageError' = None

EraseError(first, n) ==
  /\ \E p \in first .. (first + n - 1) : ErasedUpTo(first, p) /\ PageError' = p
  /\ status' = "HAL_ERROR"

EraseRefused == status' = "HAL_ERROR" /\ UNCHANGED <<memory, PageError>>

Next ==
  \/ \E a \in Addr, d \in Data : ProgramOk(a, d) \/ ProgramError(a, d)
  \/ \E first \in 0 .. (Pages - 1), n \in 1 .. Pages :
       first + n <= Pages /\ (EraseOk(first, n) \/ EraseError(first, n))
  \/ EraseRefused

Spec == Init /\ [][Next]_vars
=============================================================================
