--------------------------- MODULE FlashDriver_proof ---------------------------
(***************************************************************************)
(* The HAL's flash driver keeps FlashPromise, for any number of pages, any *)
(* page size and any data: what a caller reads after a call, through the   *)
(* data cache, is what status and PageError say.                           *)
(*                                                                         *)
(* before.memory is what was to be read when the running call was made;    *)
(* the invariant says how far the flash has come from there.               *)
(***************************************************************************)
EXTENDS FlashDriver, TLAPS

Cell == Data \cup {Erased, Torn}
Programs == [kind : {"program"}, a : Addr, data : Data]
Erases == {o \in [kind : {"erase"}, first : 0 .. (Pages - 1), n : 1 .. Pages] :
             o.first + o.n <= Pages}

(* mem with the pages first .. last - 1 erased and lost spoiled.           *)
ErasedTo(mem, first, last, lost) ==
  [a \in Addr |-> IF \E p \in first .. (last - 1) : a \in PageOf(p) THEN Erased
                  ELSE IF a \in lost THEN Torn ELSE mem[a]]

(* The double word was programmed, or that failed.                         *)
MayProgram(mem, o) == mem[o.a] = Erased \/ o.data = Zero
Programmed(mem, o) ==
  MayProgram(mem, o) /\ array = [mem EXCEPT ![o.a] = o.data]
NotProgrammed(mem, o) ==
  \/ array = mem
  \/ MayProgram(mem, o) /\ array = [mem EXCEPT ![o.a] = Torn]

TypeInv ==
  /\ array \in [Addr -> Cell] /\ SR \subseteq {"OPTVERR", "PROGERR", "OPERR"}
  /\ pc \in {"idle", "called", "operate", "wait", "flush"}
  /\ pc # "idle" => op \in Programs \cup Erases

(* What the cache holds is right whenever the cache is on, and it is on    *)
(* between the calls.                                                      *)
CacheInv ==
  /\ DOMAIN lines \subseteq Addr
  /\ pc \in {"idle", "called"} =>
       /\ DCEN = TRUE /\ CacheToReactivate = FALSE
       /\ \A a \in DOMAIN lines : lines[a] = array[a]
  /\ pc \in {"operate", "wait", "flush"} => DCEN = FALSE /\ CacheToReactivate = TRUE

Unchanged == array = before.memory /\ PageError = before.PageError

(* page_index is the page the erase is at; those before it are erased.     *)
AtPage(o) ==
  /\ page_index \in o.first .. (o.first + o.n - 1)
  /\ PageError = None
OperateInv ==
  pc = "operate" =>
    /\ SR = {}
    /\ op \in Programs => Unchanged
    /\ op \in Erases => /\ AtPage(op)
                        /\ array = ErasedTo(before.memory, op.first, page_index, {})

ProgramDone(ok) ==
  /\ PageError = before.PageError
  /\ IF ok THEN Programmed(before.memory, op) ELSE NotProgrammed(before.memory, op)
PageFailed ==
  \E lost \in SUBSET PageOf(page_index) :
    array = ErasedTo(before.memory, op.first, page_index, lost)

WaitInv ==
  pc = "wait" =>
    /\ op \in Programs => ProgramDone(SR = {})
    /\ op \in Erases =>
         /\ AtPage(op)
         /\ IF SR = {} THEN array = ErasedTo(before.memory, op.first, page_index + 1, {})
                       ELSE PageFailed

EraseDone(ok) ==
  IF ok THEN /\ array = ErasedTo(before.memory, op.first, op.first + op.n, {})
             /\ PageError = None
        ELSE /\ page_index \in op.first .. (op.first + op.n - 1)
             /\ PageError = page_index /\ PageFailed

FlushInv ==
  pc = "flush" =>
    /\ SR = {} /\ status \in {"HAL_OK", "HAL_ERROR"}
    /\ op \in Programs => ProgramDone(status = "HAL_OK")
    /\ op \in Erases => EraseDone(status = "HAL_OK")

BeforeInv ==
  /\ pc # "idle" => before.memory \in [Addr -> Cell]
  /\ pc = "called" => before = [memory |-> array, PageError |-> PageError, status |-> status]

IInv ==
  /\ TypeInv /\ CacheInv /\ BeforeInv /\ OperateInv /\ WaitInv /\ FlushInv
  /\ pc \in {"idle", "called"} => SR \subseteq {"OPTVERR"}

-----------------------------------------------------------------------------

LEMMA Pages1 ==
  ASSUME FlashAssumption
  PROVE  /\ Pages \in Nat \ {0} /\ PageDwords \in Nat \ {0}
         /\ Erased # Torn /\ None \notin 0 .. (Pages - 1)
BY DEF FlashAssumption

LEMMA Kinds ==
  /\ \A o \in Programs : o.kind = "program" /\ o.a \in Addr /\ o.data \in Data
  /\ \A o \in Erases : /\ o.kind = "erase" /\ o.first \in 0 .. (Pages - 1)
                       /\ o.n \in 1 .. Pages /\ o.first + o.n <= Pages
BY DEF Programs, Erases

(* With a cache that is right or off, the flash is what is read.           *)
LEMMA ViewIsArray ==
  ASSUME IInv
  PROVE  View = array
<1>1. /\ array = [a \in Addr |-> array[a]]
      /\ \/ DCEN = FALSE
         \/ \A a \in DOMAIN lines : lines[a] = array[a]
  BY DEF IInv, TypeInv, CacheInv
<1>2. \A a \in Addr : (IF DCEN /\ a \in DOMAIN lines THEN lines[a] ELSE array[a]) = array[a]
  BY <1>1
<1> QED
  BY <1>1, <1>2 DEF View

LEMMA VisibleIsArray ==
  ASSUME IInv
  PROVE  Visible = [memory |-> array, PageError |-> PageError, status |-> status]
BY ViewIsArray DEF Visible

LEMMA NextVisibleIsArray ==
  ASSUME IInv'
  PROVE  Visible' = [memory |-> array', PageError |-> PageError', status |-> status']
<1>1. /\ array' = [a \in Addr |-> array'[a]]
      /\ \/ DCEN' = FALSE
         \/ \A a \in DOMAIN lines' : lines'[a] = array'[a]
  BY DEF IInv, TypeInv, CacheInv
<1>2. \A a \in Addr :
        (IF DCEN' /\ a \in DOMAIN lines' THEN lines'[a] ELSE array'[a]) = array'[a]
  BY <1>1
<1>3. View' = array'
  BY <1>1, <1>2 DEF View
<1> QED
  BY <1>3 DEF Visible

LEMMA InitIInv ==
  ASSUME Init
  PROVE  IInv
BY DEF Init, IInv, TypeInv, CacheInv, BeforeInv, OperateInv, WaitInv, FlushInv, Cell, NoLines

(* A read fills the cache with what is in the flash.                       *)
LEMMA ReadStep ==
  ASSUME IInv, NEW a \in Addr, Read(a)
  PROVE  IInv'
<1>1. pc = "idle" /\ lines' = [b \in DOMAIN lines \cup {a} |-> array[b]]
  BY ViewIsArray DEF Read
<1>2. CacheInv'
  BY <1>1 DEF IInv, CacheInv, Read
<1> QED
  BY <1>1, <1>2 DEF IInv, TypeInv, BeforeInv, OperateInv, WaitInv, FlushInv, Read, caller

LEMMA CallStep ==
  ASSUME IInv, NEW o \in Programs \cup Erases, Call(o)
  PROVE  IInv'
<1>1. /\ pc = "idle" /\ pc' = "called" /\ op' = o
      /\ before' = [memory |-> array, PageError |-> PageError, status |-> status]
      /\ UNCHANGED <<array, lines, DCEN, CacheToReactivate, SR, PageError, status>>
  BY VisibleIsArray DEF Call, cache, caller
<1> QED
  BY <1>1 DEF IInv, TypeInv, CacheInv, BeforeInv, OperateInv, WaitInv, FlushInv

LEMMA NothingErasedYet ==
  ASSUME NEW mem \in [Addr -> Cell], NEW first \in Int
  PROVE  ErasedTo(mem, first, first, {}) = mem
<1>1. first .. (first - 1) = {}
  OBVIOUS
<1> QED
  BY <1>1 DEF ErasedTo

LEMMA BeginStep ==
  ASSUME FlashAssumption, IInv, Begin
  PROVE  IInv'
<1>t. /\ op \in Programs \cup Erases /\ pc = "called" /\ before.memory \in [Addr -> Cell]
      /\ array = before.memory /\ PageError = before.PageError
  BY DEF Begin, IInv, TypeInv, BeforeInv
<1>u. UNCHANGED <<array, lines, op, before>> /\ SR' = {}
  BY DEF Begin, WaitForLastOperation
<1>1. CASE status' = "HAL_OK"
  <2>1. pc' = "operate" /\ DCEN' = FALSE /\ CacheToReactivate' = TRUE
    BY <1>1, <1>t DEF Begin, IInv, CacheInv
  <2>2. op \in Programs => PageError' = PageError
    BY <1>1, Kinds DEF Begin
  <2>3. op \in Erases => AtPage(op)' /\ page_index' = op.first
    <3>1. ASSUME op \in Erases
          PROVE  PageError' = None /\ page_index' = op.first
      BY <1>1, <3>1, Kinds DEF Begin
    <3>2. op \in Erases => op.first \in op.first .. (op.first + op.n - 1)
      BY Kinds, Pages1
    <3> QED
      BY <1>u, <3>1, <3>2 DEF AtPage
  <2>4. op \in Erases => array' = ErasedTo(before'.memory, op'.first, page_index', {})
    <3>1. op \in Erases => op.first \in Int
      BY Kinds
    <3> QED
      BY <1>t, <1>u, <2>3, <3>1, NothingErasedYet
  <2>5. OperateInv'
    BY <1>t, <1>u, <2>2, <2>3, <2>4 DEF OperateInv, Unchanged
  <2> QED
    BY <1>t, <1>u, <2>1, <2>5 DEF IInv, TypeInv, CacheInv, BeforeInv, WaitInv, FlushInv
<1>2. CASE status' # "HAL_OK"
  <2>1. pc' = "idle" /\ UNCHANGED <<DCEN, CacheToReactivate, PageError, page_index>>
    BY <1>2 DEF Begin
  <2> QED
    BY <1>t, <1>u, <2>1
    DEF IInv, TypeInv, CacheInv, BeforeInv, OperateInv, WaitInv, FlushInv
<1> QED
  BY <1>1, <1>2

LEMMA ProgramStep ==
  ASSUME FlashAssumption, IInv, FLASH_Program_DoubleWord
  PROVE  IInv'
<1>t. /\ op \in Programs /\ op \notin Erases /\ pc = "operate" /\ pc' = "wait"
      /\ array = before.memory /\ PageError = before.PageError
      /\ UNCHANGED <<cache, op, caller, before>>
      /\ before.memory \in [Addr -> Cell]
  BY Kinds
  DEF FLASH_Program_DoubleWord, Operated, IInv, TypeInv, OperateInv, Unchanged, BeforeInv
<1>u. op.a \in Addr /\ op.data \in Data
  BY <1>t, Kinds
<1>1. Programmable <=> MayProgram(before.memory, op)
  BY <1>t DEF Programmable, MayProgram
<1>2. /\ array' \in [Addr -> Cell] /\ SR' \subseteq {"OPTVERR", "PROGERR", "OPERR"}
      /\ SR' = {} => Programmable /\ array' = [before.memory EXCEPT ![op.a] = op.data]
      /\ SR' # {} => \/ array' = before.memory
                     \/ Programmable /\ array' = [before.memory EXCEPT ![op.a] = Torn]
  <2>1. CASE Programmable /\ array' = [array EXCEPT ![op.a] = op.data] /\ SR' = {}
    BY <1>t, <1>u, <2>1 DEF Cell
  <2>2. CASE array' = array /\ SR' = {"PROGERR"}
    BY <1>t, <2>2
  <2>3. CASE Programmable /\ array' = [array EXCEPT ![op.a] = Torn] /\ SR' = {"PROGERR"}
    BY <1>t, <1>u, <2>3 DEF Cell
  <2> QED
    BY <2>1, <2>2, <2>3 DEF FLASH_Program_DoubleWord
<1>3. /\ PageError' = before'.PageError
      /\ SR' = {} => Programmed(before.memory, op)'
      /\ SR' # {} => NotProgrammed(before.memory, op)'
  <2>1. MayProgram(before.memory, op)' <=> Programmable
    BY <1>t, <1>1 DEF MayProgram
  <2>2. SR' = {} => Programmed(before.memory, op)'
    BY <1>t, <1>2, <2>1 DEF Programmed
  <2>3. SR' # {} => NotProgrammed(before.memory, op)'
    BY <1>t, <1>2, <2>1 DEF NotProgrammed
  <2> QED
    BY <1>t, <2>2, <2>3 DEF caller
<1>4. WaitInv'
  BY <1>t, <1>3 DEF WaitInv, ProgramDone
<1>5. CacheInv'
  BY <1>t DEF IInv, CacheInv, cache
<1> QED
  BY <1>t, <1>2, <1>4, <1>5 DEF IInv, TypeInv, BeforeInv, OperateInv, FlushInv

(* Pages lie one behind the other.                                         *)
LEMMA PagesApart ==
  ASSUME FlashAssumption, NEW p \in Nat, NEW q \in Nat, p < q
  PROVE  PageOf(p) \cap PageOf(q) = {}
<1>1. PICK d \in Nat : q = p + 1 + d
  <2>1. q - (p + 1) \in Nat /\ q = p + 1 + (q - (p + 1))
    OBVIOUS
  <2> QED
    BY <2>1
<1>2. PageDwords \in Nat /\ d * PageDwords \in Nat /\ (p + 1) * PageDwords \in Nat
  BY Pages1
<1>3. q * PageDwords = (p + 1) * PageDwords + d * PageDwords
  BY <1>1, <1>2
<1>4. (p + 1) * PageDwords <= q * PageDwords
  BY <1>2, <1>3
<1>5. Addr \subseteq Int /\ q * PageDwords \in Int /\ (p + 1) * PageDwords \in Int
  BY <1>2, Pages1 DEF Addr
<1>6. ASSUME NEW a \in PageOf(p), a \in PageOf(q) PROVE FALSE
  <2>1. a \in Int /\ a < (p + 1) * PageDwords /\ q * PageDwords <= a
    BY <1>5, <1>6 DEF PageOf
  <2> QED
    BY <1>4, <1>5, <2>1
<1> QED
  BY <1>6

LEMMA ErasedOneMore ==
  ASSUME NEW mem, NEW first \in Nat, NEW p \in Nat, first <= p
  PROVE  [a \in Addr |-> IF a \in PageOf(p) THEN Erased ELSE ErasedTo(mem, first, p, {})[a]]
           = ErasedTo(mem, first, p + 1, {})
<1>1. first .. ((p + 1) - 1) = (first .. (p - 1)) \cup {p}
  OBVIOUS
<1> QED
  BY <1>1 DEF ErasedTo

LEMMA SpoiledPage ==
  ASSUME FlashAssumption, NEW mem, NEW first \in Nat, NEW p \in Nat,
         NEW lost \in SUBSET PageOf(p)
  PROVE  [a \in Addr |-> IF a \in lost THEN Torn ELSE ErasedTo(mem, first, p, {})[a]]
           = ErasedTo(mem, first, p, lost)
<1>1. ASSUME NEW a \in lost, NEW q \in first .. (p - 1)
      PROVE  a \notin PageOf(q)
  BY PagesApart
<1> QED
  BY <1>1 DEF ErasedTo

LEMMA ErasedToIsFlash ==
  ASSUME NEW mem \in [Addr -> Cell], NEW first, NEW last, NEW lost
  PROVE  ErasedTo(mem, first, last, lost) \in [Addr -> Cell]
BY DEF ErasedTo, Cell

LEMMA EraseStep ==
  ASSUME FlashAssumption, IInv, FLASH_PageErase
  PROVE  IInv'
<1>t. /\ op \in Erases /\ op \notin Programs /\ pc = "operate" /\ pc' = "wait"
      /\ UNCHANGED <<cache, op, caller, before>>
      /\ before.memory \in [Addr -> Cell]
      /\ AtPage(op) /\ array = ErasedTo(before.memory, op.first, page_index, {})
  BY Kinds
  DEF FLASH_PageErase, Operated, IInv, TypeInv, OperateInv, BeforeInv
<1>u. op.first \in Nat /\ page_index \in Nat /\ op.first <= page_index
  BY <1>t, Kinds, Pages1 DEF AtPage
<1>1. CASE /\ array' = [a \in Addr |-> IF a \in PageOf(page_index) THEN Erased ELSE array[a]]
           /\ SR' = {}
  <2>1. array' = ErasedTo(before.memory, op.first, page_index + 1, {})
    BY <1>t, <1>u, <1>1, ErasedOneMore
  <2>2. array' \in [Addr -> Cell]
    BY <1>t, <2>1, ErasedToIsFlash
  <2>3. WaitInv'
    BY <1>t, <1>1, <2>1 DEF WaitInv, AtPage, caller
  <2>4. CacheInv'
    BY <1>t DEF IInv, CacheInv, cache
  <2> QED
    BY <1>t, <1>1, <2>2, <2>3, <2>4 DEF IInv, TypeInv, BeforeInv, OperateInv, FlushInv
<1>2. CASE /\ \E lost \in SUBSET PageOf(page_index) :
                array' = [a \in Addr |-> IF a \in lost THEN Torn ELSE array[a]]
           /\ SR' = {"OPERR"}
  <2>1. PICK lost \in SUBSET PageOf(page_index) :
          array' = ErasedTo(before.memory, op.first, page_index, lost)
    BY <1>t, <1>u, <1>2, SpoiledPage
  <2>2. array' \in [Addr -> Cell]
    BY <1>t, <2>1, ErasedToIsFlash
  <2>3. PageFailed'
    BY <1>t, <2>1 DEF PageFailed, caller, PageOf
  <2>4. WaitInv'
    BY <1>t, <1>2, <2>3 DEF WaitInv, AtPage, caller
  <2>5. CacheInv'
    BY <1>t DEF IInv, CacheInv, cache
  <2> QED
    BY <1>t, <1>2, <2>2, <2>4, <2>5 DEF IInv, TypeInv, BeforeInv, OperateInv, FlushInv
<1> QED
  BY <1>1, <1>2 DEF FLASH_PageErase

LEMMA FinishStep ==
  ASSUME FlashAssumption, IInv, Finish
  PROVE  IInv'
<1>t. /\ op \in Programs \cup Erases /\ pc = "wait" /\ before.memory \in [Addr -> Cell]
      /\ UNCHANGED <<array, cache, op, before>> /\ SR' = {}
      /\ status' = IF SR = {} THEN "HAL_OK" ELSE "HAL_ERROR"
  BY DEF Finish, WaitForLastOperation, IInv, TypeInv, BeforeInv
<1>c. pc' \in {"operate", "flush"} => CacheInv'
  BY <1>t DEF IInv, CacheInv, cache
<1>1. CASE op \in Programs
  <2>1. op.kind = "program" /\ op \notin Erases
    BY <1>1, Kinds
  <2>2. pc' = "flush" /\ PageError' = PageError
    BY <2>1 DEF Finish
  <2>3. ProgramDone(SR = {})
    BY <1>t, <1>1 DEF IInv, WaitInv
  <2>4. /\ PageError' = before'.PageError
        /\ status' = "HAL_OK" => Programmed(before.memory, op)'
        /\ status' # "HAL_OK" => NotProgrammed(before.memory, op)'
    BY <1>t, <2>2, <2>3 DEF ProgramDone, Programmed, NotProgrammed, MayProgram
  <2>5. FlushInv'
    BY <1>t, <2>1, <2>4 DEF FlushInv, ProgramDone
  <2> QED
    BY <1>t, <1>c, <2>2, <2>5 DEF IInv, TypeInv, BeforeInv, OperateInv, WaitInv
<1>2. CASE op \in Erases /\ SR # {}
  <2>1. op.kind = "erase" /\ op \notin Programs
    BY <1>2, Kinds
  <2>2. pc' = "flush" /\ PageError' = page_index /\ page_index' = page_index
    BY <1>t, <1>2, <2>1 DEF Finish
  <2>3. AtPage(op) /\ PageFailed
    BY <1>t, <1>2 DEF IInv, WaitInv
  <2>4. PageFailed'
    BY <1>t, <2>2, <2>3 DEF PageFailed, PageOf
  <2>5. FlushInv'
    BY <1>t, <1>2, <2>1, <2>2, <2>3, <2>4 DEF FlushInv, EraseDone, AtPage
  <2> QED
    BY <1>t, <1>c, <2>2, <2>5 DEF IInv, TypeInv, BeforeInv, OperateInv, WaitInv
<1>3. CASE op \in Erases /\ SR = {}
  <2>1. op.kind = "erase" /\ op \notin Programs /\ op.first \in Nat /\ op.n \in Nat
    BY <1>3, Kinds, Pages1
  <2>2. /\ PageError' = PageError /\ page_index' = page_index + 1
        /\ pc' = IF page_index + 1 < op.first + op.n THEN "operate" ELSE "flush"
    BY <1>t, <1>3, <2>1 DEF Finish
  <2>3. AtPage(op) /\ array = ErasedTo(before.memory, op.first, page_index + 1, {})
    BY <1>t, <1>3 DEF IInv, WaitInv
  <2>4. page_index \in Nat /\ page_index < op.first + op.n /\ op.first <= page_index
    BY <2>1, <2>3 DEF AtPage
  <2>5. CASE page_index + 1 < op.first + op.n
    <3>1. pc' = "operate"
      BY <2>2, <2>5
    <3>2. AtPage(op)'
      BY <1>t, <2>1, <2>2, <2>3, <2>4, <2>5 DEF AtPage
    <3>3. OperateInv'
      BY <1>t, <2>1, <2>2, <2>3, <3>2 DEF OperateInv
    <3> QED
      BY <1>t, <1>c, <3>1, <3>3 DEF IInv, TypeInv, BeforeInv, FlushInv, WaitInv
  <2>6. CASE ~(page_index + 1 < op.first + op.n)
    <3>1. pc' = "flush" /\ page_index + 1 = op.first + op.n
      BY <2>1, <2>2, <2>4, <2>6
    <3>2. FlushInv'
      BY <1>t, <1>3, <2>1, <2>2, <2>3, <3>1 DEF FlushInv, EraseDone, AtPage
    <3> QED
      BY <1>t, <1>c, <3>1, <3>2 DEF IInv, TypeInv, BeforeInv, OperateInv, WaitInv
  <2> QED
    BY <2>5, <2>6
<1> QED
  BY <1>t, <1>1, <1>2, <1>3

LEMMA FlushStep ==
  ASSUME IInv, FLASH_FlushCaches
  PROVE  IInv'
<1>1. /\ pc = "flush" /\ pc' = "idle" /\ lines' = NoLines /\ DCEN' = TRUE
      /\ CacheToReactivate' = FALSE /\ UNCHANGED <<array, SR, op, caller, before>>
      /\ SR = {}
  BY DEF FLASH_FlushCaches, IInv, CacheInv, FlushInv
<1>2. CacheInv'
  BY <1>1 DEF CacheInv, NoLines
<1> QED
  BY <1>1, <1>2 DEF IInv, TypeInv, BeforeInv, OperateInv, WaitInv, FlushInv

LEMMA Calls ==
  ASSUME FlashAssumption
  PROVE  /\ \A a \in Addr, d \in Data :
              [kind |-> "program", a |-> a, data |-> d] \in Programs
         /\ \A first \in 0 .. (Pages - 1), n \in 1 .. Pages :
              first + n <= Pages => [kind |-> "erase", first |-> first, n |-> n] \in Erases
BY DEF Programs, Erases

LEMMA NextIInv ==
  ASSUME FlashAssumption, IInv, [Next]_vars
  PROVE  IInv'
<1>1. CASE UNCHANGED vars
  BY <1>1 DEF vars, cache, caller, IInv, TypeInv, CacheInv, BeforeInv, OperateInv, WaitInv,
     FlushInv, Unchanged, AtPage, ProgramDone, Programmed, NotProgrammed, EraseDone,
     PageFailed
<1>2. CASE \E a \in Addr, d \in Data : Call([kind |-> "program", a |-> a, data |-> d])
  BY <1>2, Calls, CallStep
<1>3. CASE \E first \in 0 .. (Pages - 1), n \in 1 .. Pages :
             first + n <= Pages /\ Call([kind |-> "erase", first |-> first, n |-> n])
  BY <1>3, Calls, CallStep
<1> QED
  BY <1>1, <1>2, <1>3, ReadStep, BeginStep, ProgramStep, EraseStep, FinishStep, FlushStep
  DEF Next

LEMMA IInvHolds == FlashAssumption => (Spec => []IInv)
<1> SUFFICES ASSUME FlashAssumption PROVE Spec => []IInv
  OBVIOUS
<1>1. Init => IInv
  BY InitIInv
<1>2. IInv /\ [Next]_vars => IInv'
  BY NextIInv
<1> QED
  BY <1>1, <1>2, PTL DEF Spec

-----------------------------------------------------------------------------
(* A call is one step of FlashPromise, taken when it returns.              *)

LEMMA SeenBetweenCalls ==
  ASSUME IInv
  PROVE  /\ pc = "idle" => /\ Seen.memory = array /\ Seen.PageError = PageError
                           /\ Seen.status = status
         /\ pc # "idle" => Seen = before
BY VisibleIsArray DEF Seen

(* The call ends with the page it was at, or with all of them.             *)
LEMMA ReturnRefines ==
  ASSUME FlashAssumption, IInv, IInv', FLASH_FlushCaches
  PROVE  Promise!Next
<1>1. /\ pc = "flush" /\ pc' = "idle" /\ op \in Programs \cup Erases
      /\ array' = array /\ PageError' = PageError /\ status' = status
      /\ before.memory \in [Addr -> Cell] /\ status \in {"HAL_OK", "HAL_ERROR"}
  BY DEF FLASH_FlushCaches, IInv, TypeInv, BeforeInv, FlushInv, caller
<1>2. /\ Seen = before /\ Seen'.memory = array /\ Seen'.PageError = PageError
      /\ Seen'.status = status
  <2>1. Seen = before
    BY <1>1, SeenBetweenCalls
  <2>2. Seen' = Visible'
    BY <1>1 DEF Seen
  <2>3. Visible' = [memory |-> array', PageError |-> PageError', status |-> status']
    BY NextVisibleIsArray
  <2> QED
    BY <1>1, <2>1, <2>2, <2>3
<1>3. CASE op \in Programs
  <2>1. op.a \in Addr /\ op.data \in Data
    BY <1>3, Kinds
  <2>2. CASE status = "HAL_OK"
    <3>1. PageError = before.PageError /\ Programmed(before.memory, op)
      BY <1>1, <1>3, <2>2 DEF IInv, FlushInv, ProgramDone
    <3>2. Promise!ProgramOk(op.a, op.data)
      BY <1>2, <2>2, <3>1
      DEF Promise!ProgramOk, Promise!Programmable, Programmed, MayProgram
    <3> QED
      BY <2>1, <3>2 DEF Promise!Next, Promise!Addr, Addr
  <2>3. CASE status = "HAL_ERROR"
    <3>1. PageError = before.PageError /\ NotProgrammed(before.memory, op)
      BY <1>1, <1>3, <2>3 DEF IInv, FlushInv, ProgramDone
    <3>2. Promise!ProgramError(op.a, op.data)
      BY <1>2, <2>3, <3>1
      DEF Promise!ProgramError, Promise!Programmable, NotProgrammed, MayProgram
    <3> QED
      BY <2>1, <3>2 DEF Promise!Next, Promise!Addr, Addr
  <2> QED
    BY <1>1, <2>2, <2>3
<1>4. CASE op \in Erases
  <2>1. op.first \in 0 .. (Pages - 1) /\ op.n \in 1 .. Pages /\ op.first + op.n <= Pages
    BY <1>4, Kinds
  <2>2. CASE status = "HAL_OK"
    <3>1. /\ array = ErasedTo(before.memory, op.first, op.first + op.n, {})
          /\ PageError = None
      BY <1>1, <1>4, <2>2 DEF IInv, FlushInv, EraseDone
    <3>2. array = [a \in Addr |->
                     IF \E p \in op.first .. (op.first + op.n - 1) : a \in PageOf(p)
                       THEN Erased ELSE before.memory[a]]
      <4>1. (op.first + op.n) - 1 = op.first + op.n - 1
        BY <2>1
      <4>2. array = [a \in Addr |->
                       IF \E p \in op.first .. ((op.first + op.n) - 1) : a \in PageOf(p)
                         THEN Erased ELSE before.memory[a]]
        BY <3>1 DEF ErasedTo
      <4> QED
        BY <4>1, <4>2
    <3>3. Promise!EraseOk(op.first, op.n)
      <4>1. /\ Seen'.memory = [a \in Addr |->
                     IF \E p \in op.first .. (op.first + op.n - 1) : a \in PageOf(p)
                       THEN Erased ELSE Seen.memory[a]]
            /\ Seen'.status = "HAL_OK" /\ Seen'.PageError = None
        BY <1>2, <2>2, <3>1, <3>2
      <4> QED
        BY <4>1 DEF Promise!EraseOk, Promise!Addr, Addr, Promise!PageOf, PageOf
    <3> QED
      BY <2>1, <3>3 DEF Promise!Next
  <2>3. CASE status = "HAL_ERROR"
    <3>1. /\ page_index \in op.first .. (op.first + op.n - 1) /\ PageError = page_index
          /\ PageFailed
      BY <1>1, <1>4, <2>3 DEF IInv, FlushInv, EraseDone
    <3>2. PICK lost \in SUBSET PageOf(page_index) :
            array = ErasedTo(before.memory, op.first, page_index, lost)
      BY <3>1 DEF PageFailed
    <3>3. Promise!ErasedUpTo(op.first, page_index)
      BY <1>2, <3>2
      DEF Promise!ErasedUpTo, ErasedTo, Promise!Addr, Addr, Promise!PageOf, PageOf
    <3>4. Promise!EraseError(op.first, op.n)
      BY <1>2, <2>3, <3>1, <3>3 DEF Promise!EraseError
    <3> QED
      BY <2>1, <3>4 DEF Promise!Next
  <2> QED
    BY <1>1, <2>2, <2>3
<1> QED
  BY <1>1, <1>3, <1>4

LEMMA StepRefines ==
  ASSUME FlashAssumption, IInv, IInv', [Next]_vars
  PROVE  [Promise!Next]_(Promise!vars)
<1>s. ASSUME Seen' = Seen
      PROVE  [Promise!Next]_(Promise!vars)
  BY <1>s DEF Promise!vars
<1>1. CASE \E a \in Addr : Read(a)
  <2>1. pc = "idle" /\ pc' = "idle" /\ UNCHANGED <<array, PageError, status>>
    BY <1>1 DEF Read, caller
  <2> QED
    BY <1>s, <2>1, VisibleIsArray, NextVisibleIsArray DEF Seen
<1>2. CASE \E o \in Programs \cup Erases : Call(o)
  BY <1>s, <1>2 DEF Call, Seen
<1>3. CASE Begin
  <2>1. pc = "called" /\ UNCHANGED <<array, before>>
    BY <1>3 DEF Begin
  <2>2. CASE status' = "HAL_OK"
    BY <1>s, <1>3, <2>1, <2>2 DEF Begin, Seen
  <2>3. CASE status' # "HAL_OK"
    <3>1. pc' = "idle" /\ PageError' = PageError /\ status' = "HAL_ERROR"
      BY <1>3, <2>3 DEF Begin, WaitForLastOperation
    <3>2. /\ Seen = [memory |-> array, PageError |-> PageError, status |-> status]
      BY <2>1 DEF Seen, IInv, BeforeInv
    <3>3. Seen' = [memory |-> array', PageError |-> PageError', status |-> status']
      BY <3>1, NextVisibleIsArray DEF Seen
    <3>4. Promise!EraseRefused
      BY <2>1, <3>1, <3>2, <3>3 DEF Promise!EraseRefused
    <3> QED
      BY <3>4 DEF Promise!Next
  <2> QED
    BY <2>2, <2>3
<1>4. CASE FLASH_Program_DoubleWord \/ FLASH_PageErase \/ Finish
  BY <1>s, <1>4 DEF FLASH_Program_DoubleWord, FLASH_PageErase, Finish, Operated, Seen
<1>5. CASE FLASH_FlushCaches
  BY <1>5, ReturnRefines
<1>6. CASE UNCHANGED vars
  BY <1>s, <1>6 DEF vars, cache, caller, Seen, Visible, View
<1> QED
  BY <1>1, <1>2, <1>3, <1>4, <1>5, <1>6, Calls DEF Next

(* HAL_FLASH_Program and HAL_FLASHEx_Erase with status register and data   *)
(* cache are the one-step operations their callers take them for           *)
(* (stm32l4xx_hal_flash.c:169, stm32l4xx_hal_flash_ex.c:125).              *)
THEOREM DriverRefines == FlashAssumption => (Spec => RefinesFlashPromise)
<1> SUFFICES ASSUME FlashAssumption PROVE Spec => RefinesFlashPromise
  OBVIOUS
<1>1. Init => Promise!Init
  <2> SUFFICES ASSUME Init PROVE Promise!Init
    OBVIOUS
  <2>1. Seen.memory = array /\ Seen.PageError = 0 /\ Seen.status = "HAL_OK"
    BY InitIInv, SeenBetweenCalls DEF Init
  <2> QED
    BY <2>1 DEF Init, Promise!Init, Promise!Addr, Addr
<1>2. Spec => []IInv
  BY IInvHolds
<1>3. Spec => [][Promise!Next]_(Promise!vars)
  <2>1. IInv /\ IInv' /\ [Next]_vars => [Promise!Next]_(Promise!vars)
    BY StepRefines
  <2> QED
    BY <1>2, <2>1, PTL DEF Spec
<1> QED
  BY <1>1, <1>3, PTL DEF Spec, RefinesFlashPromise, Promise!Spec

(* The error flags of an operation are cleared with it; only the one of    *)
(* the reset can meet a later call (stm32l4xx_hal_flash.c:646).            *)
THEOREM ErrorsCorrect == FlashAssumption => (Spec => []ErrorsStayWithTheirCall)
<1>1. IInv => ErrorsStayWithTheirCall
  BY DEF IInv, ErrorsStayWithTheirCall
<1> QED
  BY <1>1, IInvHolds, PTL

=============================================================================
