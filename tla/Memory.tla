------------------------------- MODULE Memory -------------------------------
(***************************************************************************)
(* The registry of allocations (Allocations in zluda/src/impl/driver.rs)   *)
(* and the calls of memory.rs that keep it in step with HIP's heap.        *)
(*                                                                         *)
(* HIP allocates and frees; the driver notes the size and the context of   *)
(* every pointer of cuMemAlloc and cuMemHostAlloc in a map behind a mutex, *)
(* and answers CU_POINTER_ATTRIBUTE_CONTEXT from it.  The mutex is taken   *)
(* for one insertion, removal or lookup: between HIP's call and the        *)
(* registry's another thread may be handed the very address just freed.    *)
(*                                                                         *)
(* The contents of the memory are left out, and with them whether the      *)
(* zero fill is skipped because a stream is capturing.                     *)
(***************************************************************************)
EXTENDS Integers, FiniteSets

CONSTANTS
  Threads,     \* host threads that call the driver
  LastAddr,    \* bound: the heap is the addresses 1 .. LastAddr
  Sizes,       \* sizes a caller asks for
  Contexts,    \* contexts that may be current
  Kinds,       \* which of the allocating calls are made
  DoubleFrees, \* whether the application may free a pointer twice
  None         \* no block, no entry

Addr == 1 .. LastAddr
AllocationInfo == [size : Sizes, context : Contexts]

ASSUME MemoryAssumption ==
  /\ LastAddr \in Nat
  /\ Sizes \subseteq Nat \ {0}
  /\ Kinds \subseteq {"device", "host", "unregistered"}
  /\ DoubleFrees \in BOOLEAN
  /\ None \notin AllocationInfo

VARIABLES
  heap,      \* heap[a]: the block HIP has at a
  pointers,  \* pointers[a]: Allocations.pointers
  owned,     \* addresses the application holds
  pc,        \* pc[t]: where thread t is inside a call
  ptr,       \* ptr[t]: the pointer the call of t is about
  info       \* info[t]: size and context of the allocation t is making

vars == <<heap, pointers, owned, pc, ptr, info>>

TypeOK ==
  /\ heap \in [Addr -> AllocationInfo \cup {None}]
  /\ pointers \in [Addr -> AllocationInfo \cup {None}]
  /\ owned \subseteq Addr
  /\ pc \in [Threads -> {"idle", "fill", "add", "remove"}]
  /\ ptr \in [Threads -> Addr \cup {None}]
  /\ info \in [Threads -> AllocationInfo \cup {None}]

Init ==
  /\ heap = [a \in Addr |-> None]
  /\ pointers = [a \in Addr |-> None]
  /\ owned = {}
  /\ pc = [t \in Threads |-> "idle"]
  /\ ptr = [t \in Threads |-> None]
  /\ info = [t \in Threads |-> None]

-----------------------------------------------------------------------------
(* HIP's heap: a block goes where no other block is.                       *)

Block(a) == a .. a + heap[a].size - 1

HipMalloc(a, i) ==
  /\ heap[a] = None
  /\ a + i.size - 1 \in Addr
  /\ \A b \in Addr : heap[b] # None => (a .. a + i.size - 1) \cap Block(b) = {}
  /\ heap' = [heap EXCEPT ![a] = i]

(* hipFree fails, and changes nothing, where there is no block.            *)
HipFree(a) == heap' = [heap EXCEPT ![a] = None]

(* The pointers inside an allocating call that has not returned.           *)
InTheMaking(a) == \E t \in Threads : pc[t] \in {"fill", "add"} /\ ptr[t] = a

-----------------------------------------------------------------------------
(* Allocations.                                                            *)

Insert(a, i) == pointers' = [pointers EXCEPT ![a] = i]

Remove_Skipped(a) == UNCHANGED pointers
Remove(a) == pointers' = [pointers EXCEPT ![a] = None]

(* get_offset_and_info: the last entry that starts at or below x, if it    *)
(* reaches beyond x.  The result is the start of the entry, or nothing.    *)
Below(x) == {s \in Addr : pointers[s] # None /\ s <= x}

Found_Reaching(x) ==
  {s \in Below(x) : (\A r \in Below(x) : r <= s) /\ s + pointers[s].size >= x}
Found(x) ==
  {s \in Below(x) : (\A r \in Below(x) : r <= s) /\ s + pointers[s].size > x}

-----------------------------------------------------------------------------
(* The allocating calls begin with HIP's allocation, for a context that is *)
(* current.  cuMemAlloc goes on to fill and to register the block,         *)
(* cuMemHostAlloc to register it; cuMemAllocPitch and cuMemAllocHost       *)
(* return at once.                                                         *)
AllocBegin(t, kind, a, i) ==
  /\ pc[t] = "idle"
  /\ HipMalloc(a, i)
  /\ IF kind = "unregistered"
       THEN owned' = owned \cup {a} /\ UNCHANGED <<pc, ptr, info>>
       ELSE /\ pc' = [pc EXCEPT ![t] = IF kind = "device" THEN "fill" ELSE "add"]
            /\ ptr' = [ptr EXCEPT ![t] = a]
            /\ info' = [info EXCEPT ![t] = i]
            /\ UNCHANGED owned
  /\ UNCHANGED pointers

Return(t) ==
  /\ pc' = [pc EXCEPT ![t] = "idle"]
  /\ ptr' = [ptr EXCEPT ![t] = None]
  /\ info' = [info EXCEPT ![t] = None]

(* fill_with_zero_and_register: the fill succeeds (or is skipped during a  *)
(* capture) ...                                                            *)
FillDone(t) ==
  /\ pc[t] = "fill"
  /\ pc' = [pc EXCEPT ![t] = "add"]
  /\ UNCHANGED <<heap, pointers, owned, ptr, info>>

(* ... or one of its HIP calls fails, and the drop guard frees the block.  *)
DropGuard_Forgotten(a) == UNCHANGED heap
DropGuard(a) == HipFree(a)

FillFails(t) ==
  /\ pc[t] = "fill"
  /\ DropGuard(ptr[t])
  /\ Return(t)
  /\ UNCHANGED <<pointers, owned>>

(* add_allocation, and the pointer is the application's.                   *)
AddAllocation(t) ==
  /\ pc[t] = "add"
  /\ Insert(ptr[t], info[t])
  /\ owned' = owned \cup {ptr[t]}
  /\ Return(t)
  /\ UNCHANGED heap

(* cuMemFree and cuMemFreeHost: HIP frees, of a pointer the application    *)
(* holds or of one that is dead (a double free) ...                        *)
FreeBegin(t, a) ==
  /\ pc[t] = "idle"
  /\ a \in owned \/ (DoubleFrees /\ ~InTheMaking(a))
  /\ HipFree(a)
  /\ owned' = owned \ {a}
  /\ ptr' = [ptr EXCEPT ![t] = a]
  /\ pc' = [pc EXCEPT ![t] = "remove"]
  /\ UNCHANGED <<pointers, info>>

(* ... and remove_allocation follows, also when hipFree failed.            *)
RemoveAllocation(t) ==
  /\ pc[t] = "remove"
  /\ Remove(ptr[t])
  /\ Return(t)
  /\ UNCHANGED <<heap, owned>>

Step(t) ==
  \/ \E kind \in Kinds, a \in Addr, i \in AllocationInfo : AllocBegin(t, kind, a, i)
  \/ FillDone(t)
  \/ FillFails(t)
  \/ AddAllocation(t)
  \/ \E a \in Addr : FreeBegin(t, a)
  \/ RemoveAllocation(t)

Next == \E t \in Threads : Step(t)

Spec == Init /\ [][Next]_vars

-----------------------------------------------------------------------------
(* Safety.                                                                 *)

(* HIP has a block exactly where the application holds a pointer or some   *)
(* call is making one: an allocation that fails half way leaks nothing,    *)
(* and its guard frees nothing the application was given.                  *)
BlocksAccounted ==
  \A a \in Addr : heap[a] # None <=> a \in owned \/ InTheMaking(a)

BeingFreed(a) == \E t \in Threads : pc[t] = "remove" /\ ptr[t] = a

(* An entry of the registry describes the block HIP has at its address, or *)
(* a call that freed that address is about to remove it: reuse of an       *)
(* address by another thread leaves no entry behind that describes a dead  *)
(* or a different block.                                                   *)
EntriesBacked ==
  \A a \in Addr : pointers[a] # None /\ ~BeingFreed(a) => heap[a] = pointers[a]

(* With no removal outstanding, the lookup of an address finds the entry   *)
(* whose range holds it, the only one, and finds none otherwise.  It looks *)
(* at a single entry, so this rests on the ranges being disjoint.          *)
Holding(x) == {s \in Addr : pointers[s] # None /\ x \in s .. s + pointers[s].size - 1}

LookupExact ==
  (\A a \in Addr : ~BeingFreed(a)) => \A x \in Addr : Found(x) = Holding(x)

(* What the documentation of CU_POINTER_ATTRIBUTE_CONTEXT says: of an      *)
(* address in a block the application holds, the context the block was     *)
(* allocated in is found (when no call is in progress).                    *)
ContextFound ==
  (\A t \in Threads : pc[t] = "idle")
    => \A a \in owned : \A x \in Block(a) :
         \E s \in Found(x) : pointers[s].context = heap[a].context
=============================================================================
