---------------------------- MODULE MemoryProofs ----------------------------
(* Proofs about the registry of allocations, for any threads, heap, sizes  *)
(* and contexts.                                                           *)
EXTENDS Memory, TLAPS

(* A thread inside an allocating call has a block of its own, which the    *)
(* application has not been given yet.                                     *)
Making(t) == pc[t] \in {"fill", "add"}

MakersOwnBlocks ==
  /\ \A t \in Threads : Making(t) =>
       /\ ptr[t] \in Addr /\ ptr[t] \notin owned
       /\ info[t] \in AllocationInfo /\ heap[ptr[t]] = info[t]
  /\ \A t, u \in Threads : Making(t) /\ Making(u) /\ t # u => ptr[t] # ptr[u]
  /\ \A t \in Threads : pc[t] = "remove" => ptr[t] \in Addr

(* HIP's blocks are disjoint.                                              *)
BlocksDisjoint ==
  \A a, b \in Addr :
    heap[a] # None /\ heap[b] # None /\ a # b => Block(a) \cap Block(b) = {}

(* An entry nobody is about to remove belongs to a block the application   *)
(* holds: the strengthening of EntriesBacked that is inductive, for it     *)
(* says that a call in the making can rely on no entry at its address.     *)
EntriesOwned ==
  \A a \in Addr :
    pointers[a] # None /\ ~BeingFreed(a) => a \in owned /\ heap[a] = pointers[a]

MemoryInv ==
  TypeOK /\ MakersOwnBlocks /\ BlocksAccounted /\ BlocksDisjoint /\ EntriesOwned

LEMMA NoneIsNoInfo == None \notin AllocationInfo
  BY MemoryAssumption

LEMMA InfoType == ASSUME NEW i \in AllocationInfo
                  PROVE  i.size \in Nat /\ i.size > 0
<1>1. i.size \in Sizes
  BY DEF AllocationInfo
<1>2. \A n \in Sizes : n \in Nat /\ n > 0
  BY MemoryAssumption
<1>3. QED
  BY <1>1, <1>2

LEMMA MemoryInit == Init => MemoryInv
<1> SUFFICES ASSUME Init PROVE MemoryInv
  OBVIOUS
<1>1. TypeOK
  BY DEF Init, TypeOK
<1>2. MakersOwnBlocks /\ BlocksAccounted /\ BlocksDisjoint /\ EntriesOwned
  BY DEF Init, MakersOwnBlocks, Making, BlocksAccounted, InTheMaking, BlocksDisjoint, EntriesOwned
<1>3. QED
  BY <1>1, <1>2 DEF MemoryInv

-----------------------------------------------------------------------------
(* Each action in turn.                                                    *)

(* A block goes where there was none and leaves the others disjoint.       *)
LEMMA MallocDisjoint ==
  ASSUME MemoryInv, NEW a \in Addr, NEW i \in AllocationInfo, HipMalloc(a, i)
  PROVE  BlocksDisjoint'
<1>1. TypeOK /\ BlocksDisjoint
  BY DEF MemoryInv
<1>2. heap'[a] = i /\ \A b \in Addr \ {a} : heap'[b] = heap[b]
  BY <1>1 DEF HipMalloc, TypeOK
<1>3. Block(a)' = a .. a + i.size - 1 /\ \A b \in Addr \ {a} : Block(b)' = Block(b)
  BY <1>2 DEF Block
<1>4. \A b \in Addr \ {a} : heap[b] # None => Block(a)' \cap Block(b)' = {}
  BY <1>3 DEF HipMalloc
<1>5. QED
  BY <1>1, <1>2, <1>3, <1>4 DEF BlocksDisjoint

(* A free takes one block away.                                            *)
LEMMA FreeDisjoint ==
  ASSUME MemoryInv, NEW a \in Addr, HipFree(a)
  PROVE  BlocksDisjoint'
<1>1. TypeOK /\ BlocksDisjoint
  BY DEF MemoryInv
<1>2. heap'[a] = None /\ \A b \in Addr \ {a} : heap'[b] = heap[b]
  BY <1>1 DEF HipFree, TypeOK
<1>3. QED
  BY <1>1, <1>2 DEF BlocksDisjoint, Block

LEMMA StepAllocBegin ==
  ASSUME MemoryInv, NEW t \in Threads, NEW kind \in Kinds, NEW a \in Addr,
         NEW i \in AllocationInfo, AllocBegin(t, kind, a, i)
  PROVE  MemoryInv'
<1>0. TypeOK /\ MakersOwnBlocks /\ BlocksAccounted /\ BlocksDisjoint /\ EntriesOwned
  BY DEF MemoryInv
<1>1. heap[a] = None /\ heap' = [heap EXCEPT ![a] = i] /\ i # None /\ pc[t] = "idle"
      /\ pointers' = pointers
  BY NoneIsNoInfo DEF AllocBegin, HipMalloc
<1>2. a \notin owned /\ ~InTheMaking(a)
  BY <1>0, <1>1 DEF BlocksAccounted
<1>3. BlocksDisjoint'
  BY MallocDisjoint DEF AllocBegin
<1>4. CASE kind = "unregistered"
  <2>1. owned' = owned \cup {a} /\ pc' = pc /\ ptr' = ptr /\ info' = info
    BY <1>4 DEF AllocBegin
  <2>2. TypeOK'
    BY <1>0, <1>1, <2>1 DEF TypeOK
  <2>3. MakersOwnBlocks'
    BY <1>0, <1>1, <1>2, <2>1 DEF MakersOwnBlocks, Making, InTheMaking, TypeOK
  <2>4. BlocksAccounted'
    BY <1>0, <1>1, <2>1 DEF BlocksAccounted, InTheMaking, TypeOK
  <2>5. EntriesOwned'
    BY <1>0, <1>1, <1>2, <2>1 DEF EntriesOwned, BeingFreed, TypeOK
  <2>6. QED
    BY <1>3, <2>2, <2>3, <2>4, <2>5 DEF MemoryInv
<1>5. CASE kind # "unregistered"
  <2>1. /\ owned' = owned
        /\ pc' = [pc EXCEPT ![t] = IF kind = "device" THEN "fill" ELSE "add"]
        /\ ptr' = [ptr EXCEPT ![t] = a]
        /\ info' = [info EXCEPT ![t] = i]
    BY <1>5 DEF AllocBegin
  <2>2. TypeOK'
    BY <1>0, <1>1, <2>1 DEF TypeOK
  <2>3. MakersOwnBlocks'
    BY <1>0, <1>1, <1>2, <2>1 DEF MakersOwnBlocks, Making, InTheMaking, TypeOK
  <2>4. BlocksAccounted'
    BY <1>0, <1>1, <2>1 DEF BlocksAccounted, InTheMaking, TypeOK
  <2>5. EntriesOwned'
    BY <1>0, <1>1, <1>2, <2>1 DEF EntriesOwned, BeingFreed, TypeOK
  <2>6. QED
    BY <1>3, <2>2, <2>3, <2>4, <2>5 DEF MemoryInv
<1>6. QED
  BY <1>4, <1>5

LEMMA StepFillDone ==
  ASSUME MemoryInv, NEW t \in Threads, FillDone(t)
  PROVE  MemoryInv'
<1>0. TypeOK /\ MakersOwnBlocks /\ BlocksAccounted /\ BlocksDisjoint /\ EntriesOwned
  BY DEF MemoryInv
<1>1. TypeOK'
  BY <1>0 DEF TypeOK, FillDone
<1>2. MakersOwnBlocks'
  BY <1>0 DEF MakersOwnBlocks, Making, FillDone, TypeOK
<1>3. BlocksAccounted'
  BY <1>0 DEF BlocksAccounted, InTheMaking, FillDone, TypeOK
<1>4. BlocksDisjoint'
  BY <1>0 DEF BlocksDisjoint, Block, FillDone
<1>5. EntriesOwned'
  BY <1>0 DEF EntriesOwned, BeingFreed, FillDone, TypeOK
<1>6. QED
  BY <1>1, <1>2, <1>3, <1>4, <1>5 DEF MemoryInv

LEMMA StepFillFails ==
  ASSUME MemoryInv, NEW t \in Threads, FillFails(t)
  PROVE  MemoryInv'
<1>0. TypeOK /\ MakersOwnBlocks /\ BlocksAccounted /\ BlocksDisjoint /\ EntriesOwned
  BY DEF MemoryInv
<1>1. ptr[t] \in Addr /\ ptr[t] \notin owned
  BY <1>0 DEF FillFails, MakersOwnBlocks, Making
<1>2. TypeOK'
  BY <1>0, <1>1 DEF TypeOK, FillFails, DropGuard, HipFree, Return
<1>3. MakersOwnBlocks'
  BY <1>0, <1>1 DEF MakersOwnBlocks, Making, FillFails, DropGuard, HipFree, Return, TypeOK
<1>4. BlocksAccounted'
  BY <1>0, <1>1
     DEF BlocksAccounted, InTheMaking, MakersOwnBlocks, Making, FillFails, DropGuard, HipFree,
         Return, TypeOK
<1>5. BlocksDisjoint'
  BY <1>1, FreeDisjoint DEF FillFails, DropGuard
<1>6. EntriesOwned'
  BY <1>0, <1>1 DEF EntriesOwned, BeingFreed, FillFails, DropGuard, HipFree, Return, TypeOK
<1>7. QED
  BY <1>2, <1>3, <1>4, <1>5, <1>6 DEF MemoryInv

LEMMA StepAddAllocation ==
  ASSUME MemoryInv, NEW t \in Threads, AddAllocation(t)
  PROVE  MemoryInv'
<1>0. TypeOK /\ MakersOwnBlocks /\ BlocksAccounted /\ BlocksDisjoint /\ EntriesOwned
  BY DEF MemoryInv
<1>1. /\ ptr[t] \in Addr /\ ptr[t] \notin owned
      /\ info[t] \in AllocationInfo /\ heap[ptr[t]] = info[t]
  BY <1>0 DEF AddAllocation, MakersOwnBlocks, Making
<1>2. TypeOK'
  BY <1>0, <1>1 DEF TypeOK, AddAllocation, Insert, Return
<1>3. MakersOwnBlocks'
  BY <1>0, <1>1 DEF MakersOwnBlocks, Making, AddAllocation, Return, TypeOK
<1>4. BlocksAccounted'
  BY <1>0, <1>1
     DEF BlocksAccounted, InTheMaking, MakersOwnBlocks, Making, AddAllocation, Return, TypeOK
<1>5. BlocksDisjoint'
  BY <1>0 DEF BlocksDisjoint, Block, AddAllocation
<1>6. EntriesOwned'
  BY <1>0, <1>1 DEF EntriesOwned, BeingFreed, AddAllocation, Insert, Return, TypeOK
<1>7. QED
  BY <1>2, <1>3, <1>4, <1>5, <1>6 DEF MemoryInv

LEMMA StepFreeBegin ==
  ASSUME MemoryInv, NEW t \in Threads, NEW a \in Addr, FreeBegin(t, a)
  PROVE  MemoryInv'
<1>0. TypeOK /\ MakersOwnBlocks /\ BlocksAccounted /\ BlocksDisjoint /\ EntriesOwned
  BY DEF MemoryInv
<1>1. ~InTheMaking(a)
  BY <1>0 DEF FreeBegin, InTheMaking, MakersOwnBlocks, Making
<1>2. TypeOK'
  BY <1>0 DEF TypeOK, FreeBegin, HipFree
<1>3. MakersOwnBlocks'
  BY <1>0, <1>1 DEF MakersOwnBlocks, Making, InTheMaking, FreeBegin, HipFree, TypeOK
<1>4. BlocksAccounted'
  BY <1>0, <1>1 DEF BlocksAccounted, InTheMaking, FreeBegin, HipFree, TypeOK
<1>5. BlocksDisjoint'
  BY FreeDisjoint DEF FreeBegin
<1>6. EntriesOwned'
  <2> SUFFICES ASSUME NEW b \in Addr, pointers'[b] # None, ~BeingFreed(b)'
               PROVE  b \in owned' /\ heap'[b] = pointers'[b]
    BY DEF EntriesOwned
  <2>1. b # a
    BY <1>0 DEF BeingFreed, FreeBegin, TypeOK
  <2>2. ~BeingFreed(b)
    BY <1>0 DEF BeingFreed, FreeBegin, TypeOK
  <2>3. QED
    BY <1>0, <2>1, <2>2 DEF EntriesOwned, FreeBegin, HipFree, TypeOK
<1>7. QED
  BY <1>2, <1>3, <1>4, <1>5, <1>6 DEF MemoryInv

LEMMA StepRemoveAllocation ==
  ASSUME MemoryInv, NEW t \in Threads, RemoveAllocation(t)
  PROVE  MemoryInv'
<1>0. TypeOK /\ MakersOwnBlocks /\ BlocksAccounted /\ BlocksDisjoint /\ EntriesOwned
  BY DEF MemoryInv
<1>1. ptr[t] \in Addr
  BY <1>0 DEF RemoveAllocation, MakersOwnBlocks
<1>2. TypeOK'
  BY <1>0 DEF TypeOK, RemoveAllocation, Remove, Return
<1>3. MakersOwnBlocks'
  BY <1>0 DEF MakersOwnBlocks, Making, RemoveAllocation, Return, TypeOK
<1>4. BlocksAccounted'
  BY <1>0 DEF BlocksAccounted, InTheMaking, RemoveAllocation, Return, TypeOK
<1>5. BlocksDisjoint'
  BY <1>0 DEF BlocksDisjoint, Block, RemoveAllocation
<1>6. EntriesOwned'
  <2> SUFFICES ASSUME NEW b \in Addr, pointers'[b] # None, ~BeingFreed(b)'
               PROVE  b \in owned' /\ heap'[b] = pointers'[b]
    BY DEF EntriesOwned
  <2>1. b # ptr[t]
    BY <1>0 DEF RemoveAllocation, Remove, TypeOK
  <2>2. ~BeingFreed(b)
    BY <1>0, <2>1 DEF BeingFreed, RemoveAllocation, Return, TypeOK
  <2>3. QED
    BY <1>0, <2>1, <2>2 DEF EntriesOwned, RemoveAllocation, Remove, TypeOK
<1>7. QED
  BY <1>2, <1>3, <1>4, <1>5, <1>6 DEF MemoryInv

LEMMA MemoryStep == MemoryInv /\ [Next]_vars => MemoryInv'
<1> SUFFICES ASSUME MemoryInv, [Next]_vars PROVE MemoryInv'
  OBVIOUS
<1>1. CASE UNCHANGED vars
  BY <1>1
     DEF vars, MemoryInv, TypeOK, MakersOwnBlocks, Making, BlocksAccounted, InTheMaking,
         BlocksDisjoint, Block, EntriesOwned, BeingFreed
<1>2. ASSUME NEW t \in Threads, Step(t) PROVE MemoryInv'
  BY <1>2, StepAllocBegin, StepFillDone, StepFillFails, StepAddAllocation, StepFreeBegin,
     StepRemoveAllocation DEF Step
<1>3. QED
  BY <1>1, <1>2 DEF Next

LEMMA MemoryInvariant == Spec => []MemoryInv
  BY MemoryInit, MemoryStep, PTL DEF Spec

-----------------------------------------------------------------------------

(* HIP has blocks exactly where the application holds a pointer or a call  *)
(* is making one: the error paths of the allocating calls leak nothing.    *)
THEOREM NoLeak == Spec => []BlocksAccounted
<1>1. MemoryInv => BlocksAccounted
  BY DEF MemoryInv
<1>2. QED
  BY <1>1, MemoryInvariant, PTL

(* However the threads interleave, an entry of the registry that no call   *)
(* is about to remove describes the block HIP has at its address.          *)
THEOREM RegistryBacked == Spec => []EntriesBacked
<1>1. MemoryInv => EntriesBacked
  BY DEF MemoryInv, EntriesOwned, EntriesBacked
<1>2. QED
  BY <1>1, MemoryInvariant, PTL

(* The lookup, which compares with one entry only, finds the entry that    *)
(* holds the address whenever there is one and no removal is outstanding.  *)
LEMMA LookupHolds == MemoryInv => LookupExact
<1> SUFFICES ASSUME MemoryInv, \A a \in Addr : ~BeingFreed(a), NEW x \in Addr
             PROVE  Found(x) = Holding(x)
  BY DEF LookupExact
<1>1. TypeOK /\ BlocksDisjoint
  BY DEF MemoryInv
<1>2. ASSUME NEW s \in Addr, pointers[s] # None
      PROVE  /\ heap[s] = pointers[s] /\ heap[s] # None
             /\ heap[s].size \in Nat /\ heap[s].size > 0 /\ s \in Int
             /\ Block(s) = s .. s + pointers[s].size - 1
  <2>1. heap[s] = pointers[s]
    BY <1>2 DEF MemoryInv, EntriesOwned
  <2>2. heap[s] \in AllocationInfo
    BY <1>1, <1>2, <2>1 DEF TypeOK
  <2>3. QED
    BY <1>2, <2>1, <2>2, InfoType DEF Block, Addr
<1>3. ASSUME NEW s \in Found(x) PROVE s \in Holding(x)
  <2>1. s \in Addr /\ pointers[s] # None /\ s <= x /\ s + pointers[s].size > x
    BY <1>3 DEF Found, Below
  <2>2. QED
    BY <2>1, <1>2 DEF Holding, Addr
<1>4. ASSUME NEW s \in Holding(x) PROVE s \in Found(x)
  <2>1. s \in Addr /\ pointers[s] # None /\ x \in Block(s) /\ s <= x /\ s + pointers[s].size > x
    BY <1>4, <1>2 DEF Holding, Addr
  <2>2. ASSUME NEW r \in Below(x) PROVE r <= s
    <3> SUFFICES ASSUME r > s PROVE FALSE
      BY <2>1, <2>2 DEF Below, Addr
    <3>1. r \in Addr /\ pointers[r] # None /\ r <= x
      BY <2>2 DEF Below
    <3>2. /\ r \in Int /\ pointers[r].size > 0 /\ pointers[r].size \in Nat
          /\ Block(r) = r .. r + pointers[r].size - 1
      BY <3>1, <1>2
    <3>3. /\ s \in Int /\ pointers[s].size \in Nat /\ x \in Int
          /\ Block(s) = s .. s + pointers[s].size - 1
      BY <2>1, <1>2 DEF Addr
    <3>4. r \in Block(r)
      BY <3>2
    <3>5. r \in Block(s)
      BY <2>1, <3>1, <3>2, <3>3
    <3>6. QED
      BY <2>1, <3>1, <3>4, <3>5, <1>1, <1>2 DEF BlocksDisjoint, Addr
  <2>3. QED
    BY <2>1, <2>2 DEF Found, Below
<1>5. QED
  BY <1>3, <1>4

(* The registry's lookup agrees with its reference definition in every     *)
(* reachable state without an outstanding removal.                         *)
THEOREM LookupCorrect == Spec => []LookupExact
  BY MemoryInvariant, LookupHolds, PTL
=============================================================================
