--------------------------- MODULE ContextsProofs ---------------------------
(* Proofs about the driver's contexts, for any threads, devices, heap and  *)
(* bounds.                                                                 *)
EXTENDS Contexts, TLAPS

LEMMA DecrementedType ==
  ASSUME NEW n \in Int
  PROVE  Decremented(n) \in 0 .. RefWrap - 1
  BY ContextsAssumption DEF Decremented

LEMMA DeviceHandles ==
  /\ Devices \subseteq Handles /\ Heap \subseteq Handles
  /\ Devices \subseteq Ordinals /\ FirstDevice \in Devices
  BY ContextsAssumption DEF Handles

LEMMA StorageUpdate ==
  ASSUME TypeOK, NEW c \in Handles, NEW k \in Keys, NEW e \in Entries
  PROVE  [storage EXCEPT ![c][k] = e] \in [Handles -> [Keys -> Entries]]
<1>1. [storage[c] EXCEPT ![k] = e] \in [Keys -> Entries]
  BY DEF TypeOK
<1>2. QED
  BY <1>1 DEF TypeOK

(* The context a storage call is for, once it has resolved.                *)
LEMMA ChosenType ==
  ASSUME TypeOK, NEW t \in Threads, NEW h \in Handles \cup {NoHandle},
         Resolves(Chosen(t, h))
  PROVE  Chosen(t, h) \in Handles
<1>1. Depth(t) \in Nat /\ (Depth(t) > 0 => Top(t) \in StackEntry)
  BY DEF TypeOK, Depth, Top
<1>2. QED
  BY <1>1 DEF Chosen, Resolves, StackEntry

(* Every variable keeps its type.                                          *)
LEMMA TypeStack ==
  ASSUME TypeOK, NEW t \in Threads, StackCall(t)
  PROVE  TypeOK'
<1> USE ContextsAssumption, DeviceHandles DEF TypeOK
<1>1. Depth(t) \in Nat /\ (Depth(t) > 0 => Popped(t) \in Seq(StackEntry))
  BY DEF Depth, Popped
<1>2. ASSUME NEW h \in Handles, NEW d \in Ordinals, PushEntry(t, h, d)
      PROVE  stack' \in [Threads -> Seq(StackEntry)] /\ hip' \in [Threads -> Devices]
  <2>1. [ctx |-> h, dev |-> d] \in StackEntry
    BY DEF StackEntry
  <2>2. Append(stack[t], [ctx |-> h, dev |-> d]) \in Seq(StackEntry)
    BY <2>1
  <2>3. stack' \in [Threads -> Seq(StackEntry)]
    BY <1>2, <2>2 DEF PushEntry
  <2>4. hip' \in [Threads -> Devices]
    <3>1. CASE HipSetDevice(t, d)
      BY <3>1 DEF HipSetDevice
    <3>2. QED
      BY <1>2, <3>1 DEF PushEntry
  <2>5. QED
    BY <2>3, <2>4
<1>3. CASE CtxClearCurrent(t)
  BY <1>3, <1>1 DEF CtxClearCurrent, HipSetDevice, object_vars, state_vars, call_vars
<1>4. ASSUME NEW h \in Handles, CtxSetCurrent(t, h) PROVE TypeOK'
  BY <1>4, <1>2 DEF CtxSetCurrent, object_vars, state_vars, call_vars
<1>5. CASE CtxPopCurrent(t)
  BY <1>5, <1>1 DEF CtxPopCurrent, HipSetDevice, object_vars, state_vars, call_vars
<1>6. ASSUME NEW h \in Heap, NEW d \in Ordinals, CtxCreate(t, h, d) PROVE TypeOK'
  <2>1. stack' \in [Threads -> Seq(StackEntry)] /\ hip' \in [Threads -> Devices]
    BY <1>6, <1>2 DEF CtxCreate
  <2>2. /\ live' \in [Handles -> BOOLEAN] /\ device' \in [Handles -> Ordinals]
        /\ refs' \in [Handles -> 0 .. RefWrap - 1] /\ flags' \in [Handles -> FlagWords]
        /\ held' \in [Handles -> Int]
    BY <1>6 DEF CtxCreate
  <2>3. storage' \in [Handles -> [Keys -> Entries]]
    BY <1>6 DEF CtxCreate, EmptyStorage, Entries
  <2>4. UNCHANGED <<saved, call_vars>>
    BY <1>6 DEF CtxCreate
  <2>5. QED
    BY <2>1, <2>2, <2>3, <2>4 DEF call_vars
<1>7. ASSUME NEW h \in Heap, CtxDestroy(t, h) PROVE TypeOK'
  BY <1>7 DEF CtxDestroy, thread_vars, state_vars, call_vars
<1>8. ASSUME NEW h \in Handles, CtxSynchronizeBegin(t, h) PROVE TypeOK'
  BY <1>8 DEF CtxSynchronizeBegin, HipSetDevice, object_vars, state_vars
<1>9. QED
  BY <1>3, <1>4, <1>5, <1>6, <1>7, <1>8 DEF StackCall

LEMMA TypeState ==
  ASSUME TypeOK, NEW t \in Threads, StateCall(t)
  PROVE  TypeOK'
<1> USE ContextsAssumption, DeviceHandles DEF TypeOK
<1>1. ASSUME NEW f \in FlagWords, CtxSetFlags(t, f) PROVE TypeOK'
  BY <1>1 DEF CtxSetFlags, thread_vars, object_vars, call_vars
<1>2. ASSUME NEW d \in Devices, PrimaryRetain(t, d) PROVE TypeOK'
  <2>1. refs' \in [Handles -> 0 .. RefWrap - 1]
    <3>1. d \in Handles /\ (refs[d] + 1) % RefWrap \in 0 .. RefWrap - 1
      OBVIOUS
    <3>2. refs' = [refs EXCEPT ![d] = (refs[d] + 1) % RefWrap]
      BY <1>2 DEF PrimaryRetain
    <3>3. refs \in [Handles -> 0 .. RefWrap - 1]
      OBVIOUS
    <3> HIDE ContextsAssumption, DeviceHandles DEF TypeOK
    <3>4. QED
      BY <3>1, <3>2, <3>3
  <2>2. held' \in [Handles -> Int]
    <3>1. d \in Handles /\ held' = [held EXCEPT ![d] = @ + 1]
      BY <1>2 DEF PrimaryRetain
    <3>2. QED
      BY <3>1
  <2>3. QED
    BY <1>2, <2>1, <2>2 DEF PrimaryRetain, thread_vars, object_vars, call_vars
<1>4. ASSUME NEW d \in Devices, PrimaryRelease(t, d) PROVE TypeOK'
  <2>1. refs' \in [Handles -> 0 .. RefWrap - 1]
    <3>1. d \in Handles /\ Decremented(refs[d]) \in 0 .. RefWrap - 1
      BY DecrementedType
    <3>2. QED
      BY <1>4, <3>1 DEF PrimaryRelease
  <2>2. CASE BeginReset(t, d) /\ Forget(d)
    <3>1. /\ holder' \in [Handles -> Threads \cup {NoThread}]
          /\ pc' \in [Threads -> {"idle", "sync", "reset", "callback"}]
          /\ on' \in [Threads -> Handles]
          /\ todo' \in [Threads -> SUBSET Keys]
          /\ target' \in [Threads -> Handles \cup {NoHandle}]
          /\ held' \in [Handles -> Int]
      BY <2>2 DEF BeginReset, Forget
    <3>2. QED
      BY <1>4, <2>1, <3>1 DEF PrimaryRelease, thread_vars, object_vars
  <2>3. CASE held' = [held EXCEPT ![d] = @ - 1] /\ UNCHANGED call_vars
    <3>1. held' \in [Handles -> Int]
      BY <2>3
    <3>2. UNCHANGED <<thread_vars, object_vars, flags, storage, call_vars>>
      BY <1>4, <2>3 DEF PrimaryRelease
    <3>3. QED
      BY <2>1, <3>1, <3>2 DEF thread_vars, object_vars, call_vars
  <2>4. QED
    BY <1>4, <2>2, <2>3 DEF PrimaryRelease
<1>5. ASSUME NEW d \in Devices, PrimaryReset(t, d) PROVE TypeOK'
  <2>1. /\ holder' \in [Handles -> Threads \cup {NoThread}]
        /\ pc' \in [Threads -> {"idle", "sync", "reset", "callback"}]
        /\ on' \in [Threads -> Handles]
        /\ todo' \in [Threads -> SUBSET Keys]
        /\ target' \in [Threads -> Handles \cup {NoHandle}]
    BY <1>5 DEF PrimaryReset, BeginReset
  <2>2. held' \in [Handles -> Int]
    BY <1>5 DEF PrimaryReset, Forget
  <2>3. UNCHANGED <<thread_vars, object_vars, refs, flags, storage>>
    BY <1>5 DEF PrimaryReset
  <2>4. QED
    BY <2>1, <2>2, <2>3 DEF thread_vars, object_vars
<1>6. ASSUME NEW h \in Handles \cup {NoHandle}, NEW k \in Keys, NEW e \in {"plain", "due"},
             StoragePut(t, h, k, e)
      PROVE TypeOK'
  BY <1>6, ChosenType, StorageUpdate DEF StoragePut, thread_vars, object_vars, call_vars, Entries
<1>7. ASSUME NEW h \in Handles \cup {NoHandle}, NEW k \in Keys, StorageDelete(t, h, k)
      PROVE TypeOK'
  BY <1>7, ChosenType, StorageUpdate
     DEF StorageDelete, thread_vars, object_vars, call_vars, Entries
<1> HIDE DEF TypeOK
<1>8. QED
  BY <1>1, <1>2, <1>4, <1>5, <1>6, <1>7 DEF StateCall

LEMMA TypeContinue ==
  ASSUME TypeOK, NEW t \in Threads, Continue(t)
  PROVE  TypeOK'
<1> USE ContextsAssumption, DeviceHandles DEF TypeOK
<1>1. CASE CtxSynchronizeEnd(t)
  BY <1>1 DEF CtxSynchronizeEnd, HipSetDevice, object_vars, state_vars
<1>2. ASSUME NEW k \in Keys, ResetEntry(t, k) PROVE TypeOK'
  <2>1. storage' \in [Handles -> [Keys -> Entries]]
    <3>1. on[t] \in Handles
      OBVIOUS
    <3>2. [storage EXCEPT ![on[t]][k] = "done"] \in [Handles -> [Keys -> Entries]]
      BY <3>1, StorageUpdate DEF Entries
    <3>3. QED
      BY <1>2, <3>2 DEF ResetEntry
  <2>2. target' \in [Threads -> Handles \cup {NoHandle}]
    <3>1. ASSUME NEW g \in Handles \cup {NoHandle},
                 target' = [target EXCEPT ![t] = g]
          PROVE  target' \in [Threads -> Handles \cup {NoHandle}]
      BY <3>1
    <3>2. QED
      BY <1>2, <3>1 DEF ResetEntry
  <2>3. QED
    BY <1>2, <2>1, <2>2 DEF ResetEntry, thread_vars, object_vars
<1>3. CASE CallbackReturns(t)
  <2>1. target[t] \in Handles \cup {NoHandle} /\ (Resolves(target[t]) => target[t] \in Handles)
    BY DEF Resolves
  <2>2. storage' \in [Handles -> [Keys -> Entries]]
    <3>1. ASSUME NEW k \in Keys, Resolves(target[t]),
                 storage' = [storage EXCEPT ![target[t]][k] = "none"]
          PROVE  storage' \in [Handles -> [Keys -> Entries]]
      BY <3>1, <2>1, StorageUpdate DEF Entries
    <3>2. QED
      BY <1>3, <3>1 DEF CallbackReturns
  <2>3. QED
    BY <1>3, <2>2 DEF CallbackReturns, thread_vars, object_vars
<1>4. CASE FinishReset(t)
  BY <1>4 DEF FinishReset, thread_vars, object_vars, Unlock, EmptyStorage, Entries
<1>5. QED
  BY <1>1, <1>2, <1>3, <1>4 DEF Continue

LEMMA TypeStep == TypeOK /\ [Next]_vars => TypeOK'
<1>1. CASE UNCHANGED vars
  BY <1>1 DEF TypeOK, vars, thread_vars, object_vars, state_vars, call_vars
<1>2. QED
  BY <1>1, TypeStack, TypeState, TypeContinue DEF Next

LEMMA TypeInit == Init => TypeOK
  BY ContextsAssumption, DeviceHandles DEF Init, TypeOK, EmptyStorage, Entries, StackEntry

(* Every variable of the contexts always has its type: the ref_count stays *)
(* a 32-bit number even when it is decremented below zero, and HIP's       *)
(* device of a thread is always one that exists.                           *)
THEOREM TypeCorrect == Spec => []TypeOK
  BY TypeInit, TypeStep, PTL DEF Spec

-----------------------------------------------------------------------------
(* HIP's device follows the stack.                                         *)

(* While a thread waits in cuCtxSynchronize the device it will put back is *)
(* the one on top of its stack.                                            *)
SavedFollowsTop ==
  \A t \in Threads :
    pc[t] = "sync" /\ Depth(t) > 0 /\ Top(t).dev \in Devices => saved[t] = Top(t).dev

HipInv == TypeOK /\ HipFollowsTop /\ SavedFollowsTop

(* What a push leaves on top of the stack of the thread that made it.      *)
LEMMA PushTop ==
  ASSUME TypeOK, HipFollowsTop, NEW t \in Threads, pc[t] = "idle",
         NEW h \in Handles, NEW d \in Ordinals, PushEntry(t, h, d)
  PROVE  /\ Top(t)'.dev = d
         /\ d \in Devices => hip'[t] = d
         /\ \A u \in Threads \ {t} : stack'[u] = stack[u] /\ hip'[u] = hip[u]
<1> DEFINE e == [ctx |-> h, dev |-> d]
<1>1. stack[t] \in Seq(StackEntry) /\ e \in StackEntry /\ hip[t] \in Devices
  BY DEF TypeOK, StackEntry
<1>2. stack'[t] = Append(stack[t], e)
  BY DEF PushEntry, TypeOK
<1>3. stack'[t][Len(stack'[t])] = e
  <2> HIDE DEF e
  <2>1. QED
    BY <1>1, <1>2
<1>4. Top(t)'.dev = d
  BY <1>3 DEF Top, Depth
<1>5. d \in Devices => hip'[t] = d
  <2>1. CASE NeedsSwitch(t, d)
    BY <2>1 DEF PushEntry, HipSetDevice, TypeOK
  <2>2. CASE ~NeedsSwitch(t, d)
    <3>1. Depth(t) > 0 /\ Top(t).dev = d
      BY <2>2, <1>1 DEF NeedsSwitch, Depth
    <3>2. hip' = hip
      BY <2>2 DEF PushEntry
    <3>3. d \in Devices => hip[t] = d
      BY <3>1 DEF HipFollowsTop
    <3>4. QED
      BY <3>2, <3>3
  <2>3. QED
    BY <2>1, <2>2
<1>6. \A u \in Threads \ {t} : stack'[u] = stack[u] /\ hip'[u] = hip[u]
  BY DEF PushEntry, HipSetDevice, TypeOK
<1>7. QED
  BY <1>4, <1>5, <1>6

(* What a pop brings up: the entry below, whose device HIP is at.          *)
LEMMA PoppedTop ==
  ASSUME TypeOK, NEW t \in Threads, Depth(t) > 0, stack' = [stack EXCEPT ![t] = Popped(t)]
  PROVE  /\ Depth(t)' = Depth(t) - 1
         /\ Depth(t)' > 0 => Top(t)' = stack[t][Depth(t) - 1]
         /\ \A u \in Threads \ {t} : stack'[u] = stack[u]
<1>1. stack[t] \in Seq(StackEntry)
  BY DEF TypeOK
<1>2. stack'[t] = SubSeq(stack[t], 1, Len(stack[t]) - 1)
  BY DEF TypeOK, Popped, Depth
<1>3. Len(stack'[t]) = Len(stack[t]) - 1
  BY <1>1, <1>2 DEF Depth
<1>4. Len(stack'[t]) > 0 => stack'[t][Len(stack'[t])] = stack[t][Len(stack[t]) - 1]
  BY <1>1, <1>2, <1>3 DEF Depth
<1>5. QED
  BY <1>3, <1>4 DEF Depth, Top, TypeOK

LEMMA HipStep == HipInv /\ [Next]_vars => HipInv'
<1> SUFFICES ASSUME HipInv, [Next]_vars
             PROVE  HipFollowsTop' /\ SavedFollowsTop'
  BY TypeStep DEF HipInv
<1>1. TypeOK /\ TypeOK' /\ HipFollowsTop /\ SavedFollowsTop
  BY TypeStep DEF HipInv
<1>a. CASE UNCHANGED <<thread_vars, pc>>
  BY <1>a, <1>1 DEF HipFollowsTop, SavedFollowsTop, Depth, Top, thread_vars
<1>b. ASSUME NEW t \in Threads, pc[t] = "idle", UNCHANGED pc,
             \A u \in Threads \ {t} : stack'[u] = stack[u] /\ hip'[u] = hip[u],
             Depth(t)' > 0 /\ Top(t)'.dev \in Devices => hip'[t] = Top(t)'.dev,
             UNCHANGED saved
      PROVE  HipFollowsTop' /\ SavedFollowsTop'
  BY <1>b, <1>1 DEF HipFollowsTop, SavedFollowsTop, Depth, Top
<1>2. ASSUME NEW t \in Threads, StackCall(t)
      PROVE  HipFollowsTop' /\ SavedFollowsTop'
  <2>1. CASE CtxClearCurrent(t)
    <3>1. /\ Depth(t)' = Depth(t) - 1
          /\ Depth(t)' > 0 => Top(t)' = stack[t][Depth(t) - 1]
          /\ \A u \in Threads \ {t} : stack'[u] = stack[u]
      BY <2>1, <1>1, PoppedTop DEF CtxClearCurrent
    <3>2. Depth(t) \in Nat /\ hip[t] \in Devices
      BY <1>1 DEF TypeOK, Depth
    <3>3. \A u \in Threads \ {t} : hip'[u] = hip[u]
      BY <2>1, <1>1 DEF CtxClearCurrent, HipSetDevice, TypeOK
    <3>4. Depth(t)' > 0 /\ Top(t)'.dev \in Devices => hip'[t] = Top(t)'.dev
      <4> DEFINE below == stack[t][Depth(t) - 1]
      <4> SUFFICES ASSUME Depth(t) > 1, below.dev \in Devices
                   PROVE  hip'[t] = below.dev
        BY <3>1, <3>2
      <4>1. CASE below.dev = Top(t).dev
        <5>1. hip[t] = Top(t).dev
          BY <4>1, <1>1, <2>1 DEF HipFollowsTop, CtxClearCurrent
        <5>2. hip' = hip
          BY <4>1, <2>1 DEF CtxClearCurrent
        <5>3. QED
          BY <4>1, <5>1, <5>2
      <4>2. CASE below.dev # Top(t).dev
        <5>1. HipSetDevice(t, below.dev)
          BY <4>2, <2>1 DEF CtxClearCurrent
        <5>2. QED
          BY <5>1, <1>1 DEF HipSetDevice, TypeOK
      <4>3. QED
        BY <4>1, <4>2
    <3>5. QED
      BY <2>1, <3>1, <3>3, <3>4, <1>b DEF CtxClearCurrent, call_vars
  <2>2. ASSUME NEW h \in Handles, CtxSetCurrent(t, h)
        PROVE  HipFollowsTop' /\ SavedFollowsTop'
    <3>1. device[h] \in Ordinals
      BY <1>1 DEF TypeOK
    <3>2. QED
      BY <2>2, <3>1, <1>1, <1>b, PushTop DEF CtxSetCurrent, call_vars
  <2>3. CASE CtxPopCurrent(t)
    <3>1. /\ Depth(t)' = Depth(t) - 1
          /\ Depth(t)' > 0 => Top(t)' = stack[t][Depth(t) - 1]
          /\ \A u \in Threads \ {t} : stack'[u] = stack[u]
      BY <2>3, <1>1, PoppedTop DEF CtxPopCurrent
    <3>2. Depth(t) \in Nat /\ hip[t] \in Devices
      BY <1>1 DEF TypeOK, Depth
    <3>3. \A u \in Threads \ {t} : hip'[u] = hip[u]
      BY <2>3, <1>1 DEF CtxPopCurrent, HipSetDevice, TypeOK
    <3>4. Depth(t)' > 0 /\ Top(t)'.dev \in Devices => hip'[t] = Top(t)'.dev
      BY <2>3, <1>1, <3>1, <3>2 DEF CtxPopCurrent, HipSetDevice, TypeOK
    <3>5. QED
      BY <2>3, <3>1, <3>3, <3>4, <1>b DEF CtxPopCurrent, call_vars
  <2>4. ASSUME NEW h \in Heap, NEW d \in Ordinals, CtxCreate(t, h, d)
        PROVE  HipFollowsTop' /\ SavedFollowsTop'
    BY <2>4, <1>1, <1>b, PushTop, DeviceHandles DEF CtxCreate, call_vars
  <2>5. ASSUME NEW h \in Heap, CtxDestroy(t, h)
        PROVE  HipFollowsTop' /\ SavedFollowsTop'
    BY <2>5, <1>a DEF CtxDestroy, call_vars
  <2>6. ASSUME NEW h \in Handles, CtxSynchronizeBegin(t, h)
        PROVE  HipFollowsTop' /\ SavedFollowsTop'
    BY <2>6, <1>1
       DEF CtxSynchronizeBegin, HipSetDevice, HipFollowsTop, SavedFollowsTop, Depth, Top, TypeOK
  <2>7. QED
    BY <1>2, <2>1, <2>2, <2>3, <2>4, <2>5, <2>6 DEF StackCall
<1>3. ASSUME NEW t \in Threads, StateCall(t) \/ Continue(t)
      PROVE  HipFollowsTop' /\ SavedFollowsTop'
  <2>1. CASE CtxSynchronizeEnd(t)
    BY <2>1, <1>1
       DEF CtxSynchronizeEnd, HipSetDevice, HipFollowsTop, SavedFollowsTop, Depth, Top, TypeOK
  <2>2. CASE ~CtxSynchronizeEnd(t)
    <3>1. /\ UNCHANGED thread_vars
          /\ \A u \in Threads : pc'[u] = "sync" <=> pc[u] = "sync"
      <4>1. CASE StateCall(t)
        BY <4>1, <1>1
           DEF StateCall, CtxSetFlags, PrimaryRetain, PrimaryRelease,
               PrimaryReset, BeginReset, StoragePut, StorageDelete, call_vars, TypeOK
      <4>2. CASE Continue(t)
        <5>1. ASSUME NEW k \in Keys, ResetEntry(t, k)
              PROVE  /\ UNCHANGED thread_vars
                     /\ \A u \in Threads : pc'[u] = "sync" <=> pc[u] = "sync"
          BY <5>1, <1>1 DEF ResetEntry, TypeOK
        <5>2. CASE CallbackReturns(t)
          BY <5>2, <1>1 DEF CallbackReturns, TypeOK
        <5>3. CASE FinishReset(t)
          BY <5>3, <1>1 DEF FinishReset, TypeOK
        <5>4. QED
          BY <4>2, <2>2, <5>1, <5>2, <5>3 DEF Continue
      <4>3. QED
        BY <1>3, <4>1, <4>2
    <3>2. QED
      BY <3>1, <1>1 DEF HipFollowsTop, SavedFollowsTop, Depth, Top, thread_vars
  <2>3. QED
    BY <2>1, <2>2
<1>4. CASE UNCHANGED vars
  BY <1>4, <1>a DEF vars, call_vars
<1>5. QED
  BY <1>2, <1>3, <1>4 DEF Next

(* HIP's current device of a thread is always the device on top of its     *)
(* stack, for any number of threads and any depth of the stacks.           *)
THEOREM HipFollows == Spec => []HipFollowsTop
<1>1. Init => HipInv
  BY TypeInit DEF HipInv, HipFollowsTop, SavedFollowsTop, Init, Depth
<1>2. HipInv => HipFollowsTop
  BY DEF HipInv
<1>3. QED
  BY <1>1, <1>2, HipStep, PTL DEF Spec

-----------------------------------------------------------------------------
(* Counting modulo 2^32.                                                   *)

LEMMA ModUnique ==
  ASSUME NEW m \in Nat \ {0}, NEW q \in Int, NEW r \in 0 .. m - 1, NEW n \in Int,
         n = m * q + r
  PROVE  n % m = r
  BY Z3T(20)

LEMMA ModDivision ==
  ASSUME NEW m \in Nat \ {0}, NEW n \in Int
  PROVE  /\ n \div m \in Int /\ n % m \in 0 .. m - 1
         /\ n = m * (n \div m) + (n % m)
<1>1. n = m * (n \div m) + (n % m) /\ n % m \in 0 .. m - 1
  BY SMTT(20)
<1>2. n \div m \in Int
  OBVIOUS
<1>3. QED
  BY <1>1, <1>2

(* Counting one up or down commutes with the reduction modulo m.           *)
LEMMA ModStep ==
  ASSUME NEW m \in Nat \ {0, 1}, NEW n \in Int
  PROVE  /\ ((n % m) + 1) % m = (n + 1) % m
         /\ ((n % m) - 1) % m = (n - 1) % m
<1> DEFINE q == n \div m
           r == n % m
<1>1. q \in Int /\ r \in 0 .. m - 1 /\ n = m * q + r
  BY ModDivision
<1> HIDE DEF q, r
<1>2. (r + 1) % m = (n + 1) % m
  <2>1. CASE r + 1 < m
    <3>1. n + 1 = m * q + (r + 1) /\ r + 1 = m * 0 + (r + 1) /\ r + 1 \in 0 .. m - 1
      BY <1>1, <2>1
    <3>2. (n + 1) % m = r + 1 /\ (r + 1) % m = r + 1
      BY <1>1, <3>1, ModUnique
    <3>3. QED
      BY <3>2
  <2>2. CASE r + 1 = m
    <3>1. n + 1 = m * (q + 1) + 0 /\ r + 1 = m * 1 + 0 /\ q + 1 \in Int
      BY <1>1, <2>2
    <3>2. (n + 1) % m = 0 /\ (r + 1) % m = 0
      BY <1>1, <3>1, ModUnique
    <3>3. QED
      BY <3>2
  <2>3. QED
    BY <1>1, <2>1, <2>2
<1>3. (r - 1) % m = (n - 1) % m
  <2>1. CASE r > 0
    <3>1. n - 1 = m * q + (r - 1) /\ r - 1 = m * 0 + (r - 1) /\ r - 1 \in 0 .. m - 1
      BY <1>1, <2>1
    <3>2. (n - 1) % m = r - 1 /\ (r - 1) % m = r - 1
      BY <1>1, <3>1, ModUnique
    <3>3. QED
      BY <3>2
  <2>2. CASE r = 0
    <3>1. n - 1 = m * (q - 1) + (m - 1) /\ r - 1 = m * (-1) + (m - 1)
          /\ q - 1 \in Int /\ m - 1 \in 0 .. m - 1
      BY <1>1, <2>2
    <3>2. (n - 1) % m = m - 1 /\ (r - 1) % m = m - 1
      BY <1>1, <3>1, ModUnique
    <3>3. QED
      BY <3>2
  <2>3. QED
    BY <1>1, <2>1, <2>2
<1>4. QED
  BY <1>2, <1>3 DEF r

-----------------------------------------------------------------------------
(* The mutex of a context and what it protects.                            *)

(* The entries whose callback is due are still ahead of the walk.          *)
DueAhead ==
  \A t \in Threads, h \in Handles, k \in Keys :
    holder[h] = t /\ storage[h][k] = "due" => k \in todo[t]

(* The count is right outside a reset, and nothing is counted inside one.  *)
CountInv ==
  \A h \in Handles :
    /\ holder[h] = NoThread => refs[h] = held[h] % RefWrap
    /\ holder[h] # NoThread => held[h] = 0

(* Only primary contexts are reset.                                        *)
DevicesReset == \A t \in Threads : on[t] \in Devices

LockInv == TypeOK /\ LockOwned /\ CountInv /\ DueAhead /\ DevicesReset

(* Steps that leave the calls in progress alone keep LockOwned and         *)
(* DevicesReset.                                                          *)
LEMMA SameCalls ==
  ASSUME LockOwned, DevicesReset,
         UNCHANGED <<holder, on, target>>,
         \A u \in Threads : pc'[u] = pc[u] \/ {pc[u], pc'[u]} = {"idle", "sync"}
  PROVE  LockOwned' /\ DevicesReset'
<1>1. \A u \in Threads : pc'[u] \in {"reset", "callback"} <=> pc[u] \in {"reset", "callback"}
  OBVIOUS
<1>2. QED
  BY <1>1 DEF LockOwned, DevicesReset

LEMMA LockStack ==
  ASSUME LockInv, NEW t \in Threads, StackCall(t)
  PROVE  LockOwned' /\ CountInv' /\ DueAhead' /\ DevicesReset'
<1> USE DEF LockInv
<1>1. CASE CtxClearCurrent(t)
  BY <1>1, SameCalls DEF CtxClearCurrent, state_vars, call_vars, CountInv, DueAhead
<1>2. ASSUME NEW h \in Handles, CtxSetCurrent(t, h)
      PROVE  LockOwned' /\ CountInv' /\ DueAhead' /\ DevicesReset'
  BY <1>2, SameCalls DEF CtxSetCurrent, state_vars, call_vars, CountInv, DueAhead
<1>3. CASE CtxPopCurrent(t)
  BY <1>3, SameCalls DEF CtxPopCurrent, state_vars, call_vars, CountInv, DueAhead
<1>4. ASSUME NEW h \in Heap, NEW d \in Ordinals, CtxCreate(t, h, d)
      PROVE  LockOwned' /\ CountInv' /\ DueAhead' /\ DevicesReset'
  <2>1. 0 % RefWrap = 0
    BY ContextsAssumption
  <2>2. CountInv'
    BY <1>4, <2>1 DEF CtxCreate, call_vars, CountInv, TypeOK
  <2>3. DueAhead'
    BY <1>4 DEF CtxCreate, call_vars, DueAhead, EmptyStorage, TypeOK
  <2>4. QED
    BY <1>4, <2>2, <2>3, SameCalls DEF CtxCreate, call_vars
<1>5. ASSUME NEW h \in Heap, CtxDestroy(t, h)
      PROVE  LockOwned' /\ CountInv' /\ DueAhead' /\ DevicesReset'
  BY <1>5, SameCalls DEF CtxDestroy, state_vars, call_vars, CountInv, DueAhead
<1>6. ASSUME NEW h \in Handles, CtxSynchronizeBegin(t, h)
      PROVE  LockOwned' /\ CountInv' /\ DueAhead' /\ DevicesReset'
  BY <1>6, SameCalls DEF CtxSynchronizeBegin, state_vars, CountInv, DueAhead, TypeOK
<1>7. QED
  BY <1>1, <1>2, <1>3, <1>4, <1>5, <1>6 DEF StackCall

(* A reset that begins takes a free mutex and has every entry ahead of it. *)
LEMMA LockBegin ==
  ASSUME LockInv, NEW t \in Threads, NEW d \in Devices, pc[t] = "idle", Unlocked(d),
         BeginReset(t, d), storage' = storage
  PROVE  LockOwned' /\ DueAhead' /\ DevicesReset'
<1>1. d \in Handles /\ TypeOK /\ LockOwned /\ DueAhead /\ DevicesReset
  BY DeviceHandles DEF LockInv
<1>2. \A h \in Handles : holder[h] # t
  BY <1>1 DEF LockOwned
<1>3. holder[d] = NoThread /\ NoThread \notin Threads
  BY ContextsAssumption DEF Unlocked
<1>4. LockOwned'
  BY <1>1, <1>2, <1>3 DEF BeginReset, LockOwned, TypeOK
<1>5. DueAhead'
  BY <1>1, <1>2, <1>3 DEF BeginReset, DueAhead, TypeOK
<1>6. DevicesReset'
  BY <1>1 DEF BeginReset, DevicesReset, TypeOK
<1>7. QED
  BY <1>4, <1>5, <1>6

LEMMA LockState ==
  ASSUME LockInv, NEW t \in Threads, StateCall(t)
  PROVE  LockOwned' /\ CountInv' /\ DueAhead' /\ DevicesReset'
<1>0. TypeOK /\ LockOwned /\ CountInv /\ DueAhead /\ DevicesReset
  BY DEF LockInv
<1>a. RefWrap \in Nat \ {0, 1} /\ NoThread \notin Threads
  BY ContextsAssumption
<1>1. ASSUME NEW f \in FlagWords, CtxSetFlags(t, f)
      PROVE  LockOwned' /\ CountInv' /\ DueAhead' /\ DevicesReset'
  BY <1>1, <1>0, SameCalls DEF CtxSetFlags, call_vars, CountInv, DueAhead
<1>2. ASSUME NEW d \in Devices, Unlocked(d), UNCHANGED <<storage, call_vars>>,
             refs' = [refs EXCEPT ![d] = (@ + 1) % RefWrap],
             held' = [held EXCEPT ![d] = @ + 1]
      PROVE  LockOwned' /\ CountInv' /\ DueAhead' /\ DevicesReset'
  <2>1. CountInv'
    <3> SUFFICES ASSUME NEW h \in Handles
                 PROVE  /\ holder[h] = NoThread => refs'[h] = held'[h] % RefWrap
                        /\ holder[h] # NoThread => held'[h] = 0
      BY <1>2 DEF CountInv, call_vars
    <3>1. CASE h = d
      <4>1. refs[h] = held[h] % RefWrap /\ held[h] \in Int /\ holder[h] = NoThread
        BY <1>0, <1>2, <3>1 DEF CountInv, TypeOK, Unlocked
      <4>2. ((held[h] % RefWrap) + 1) % RefWrap = (held[h] + 1) % RefWrap
        BY <4>1, <1>a, ModStep
      <4>3. QED
        BY <3>1, <4>1, <4>2, <1>2, <1>0 DEF TypeOK
    <3>2. CASE h # d
      BY <3>2, <1>2, <1>0 DEF CountInv, TypeOK
    <3>3. QED
      BY <3>1, <3>2
  <2>2. QED
    BY <2>1, <1>2, <1>0, SameCalls DEF call_vars, DueAhead
<1>3. ASSUME NEW d \in Devices, PrimaryRetain(t, d)
      PROVE  LockOwned' /\ CountInv' /\ DueAhead' /\ DevicesReset'
  BY <1>3, <1>2 DEF PrimaryRetain
<1>5. ASSUME NEW d \in Devices, PrimaryRelease(t, d)
      PROVE  LockOwned' /\ CountInv' /\ DueAhead' /\ DevicesReset'
  <2>1. CASE BeginReset(t, d) /\ Forget(d)
    <3>1. CountInv'
      BY <2>1, <1>5, <1>0, <1>a DEF PrimaryRelease, BeginReset, Forget, CountInv, TypeOK
    <3>2. QED
      BY <2>1, <3>1, <1>5, LockBegin DEF PrimaryRelease
  <2>2. CASE held' = [held EXCEPT ![d] = @ - 1] /\ UNCHANGED call_vars
    <3>1. CountInv'
      <4> SUFFICES ASSUME NEW h \in Handles
                   PROVE  /\ holder[h] = NoThread => refs'[h] = held'[h] % RefWrap
                          /\ holder[h] # NoThread => held'[h] = 0
        BY <2>2 DEF CountInv, call_vars
      <4>1. CASE h = d
        <5>1. holder[h] = NoThread
          BY <4>1, <1>5 DEF PrimaryRelease, Unlocked
        <5>2. refs[h] = held[h] % RefWrap /\ held[h] \in Int
          BY <1>0, <5>1 DEF CountInv, TypeOK
        <5>3. ((held[h] % RefWrap) - 1) % RefWrap = (held[h] - 1) % RefWrap
          BY <5>2, <1>a, ModStep
        <5>4. QED
          BY <4>1, <5>1, <5>2, <5>3, <2>2, <1>5, <1>0 DEF PrimaryRelease, Decremented, TypeOK
      <4>2. CASE h # d
        BY <4>2, <2>2, <1>5, <1>0 DEF PrimaryRelease, CountInv, TypeOK
      <4>3. QED
        BY <4>1, <4>2
    <3>2. QED
      BY <2>2, <3>1, <1>5, <1>0, SameCalls DEF PrimaryRelease, call_vars, DueAhead
  <2>3. QED
    BY <1>5, <2>1, <2>2 DEF PrimaryRelease
<1>6. ASSUME NEW d \in Devices, PrimaryReset(t, d)
      PROVE  LockOwned' /\ CountInv' /\ DueAhead' /\ DevicesReset'
  <2>1. CountInv'
    BY <1>6, <1>0, <1>a DEF PrimaryReset, BeginReset, Forget, CountInv, TypeOK
  <2>2. QED
    BY <1>6, <2>1, LockBegin DEF PrimaryReset
<1>7. ASSUME NEW h \in Handles \cup {NoHandle}, NEW k \in Keys, NEW e \in Entries,
             Resolves(Chosen(t, h)), Unlocked(Chosen(t, h)),
             storage' = [storage EXCEPT ![Chosen(t, h)][k] = e],
             UNCHANGED <<refs, held, call_vars>>
      PROVE  LockOwned' /\ CountInv' /\ DueAhead' /\ DevicesReset'
  <2>1. DueAhead'
    <3> SUFFICES ASSUME NEW u \in Threads, NEW c \in Handles, NEW j \in Keys,
                        holder[c] = u, storage'[c][j] = "due"
                 PROVE  j \in todo[u]
      BY <1>7 DEF DueAhead, call_vars
    <3>1. c # Chosen(t, h)
      BY <1>7, <1>a DEF Unlocked
    <3>2. storage'[c] = storage[c]
      BY <3>1, <1>7, <1>0 DEF TypeOK
    <3>3. QED
      BY <3>2, <1>0 DEF DueAhead
  <2>2. QED
    BY <2>1, <1>7, <1>0, SameCalls DEF CountInv, call_vars
<1>8. ASSUME NEW h \in Handles \cup {NoHandle}, NEW k \in Keys, NEW e \in {"plain", "due"},
             StoragePut(t, h, k, e)
      PROVE  LockOwned' /\ CountInv' /\ DueAhead' /\ DevicesReset'
  <2>1. e \in Entries
    BY DEF Entries
  <2>2. QED
    BY <2>1, <1>8, <1>7 DEF StoragePut
<1>9. ASSUME NEW h \in Handles \cup {NoHandle}, NEW k \in Keys, StorageDelete(t, h, k)
      PROVE  LockOwned' /\ CountInv' /\ DueAhead' /\ DevicesReset'
  <2>1. "none" \in Entries
    BY DEF Entries
  <2>2. QED
    BY <2>1, <1>9, <1>7 DEF StorageDelete
<1>10. QED
  BY <1>1, <1>3, <1>5, <1>6, <1>8, <1>9 DEF StateCall

LEMMA LockContinue ==
  ASSUME LockInv, NEW t \in Threads, Continue(t)
  PROVE  LockOwned' /\ CountInv' /\ DueAhead' /\ DevicesReset'
<1>0. TypeOK /\ LockOwned /\ CountInv /\ DueAhead /\ DevicesReset
  BY DEF LockInv
<1>a. NoThread \notin Threads /\ 0 % RefWrap = 0
  BY ContextsAssumption
<1>1. CASE CtxSynchronizeEnd(t)
  BY <1>1, <1>0, SameCalls DEF CtxSynchronizeEnd, state_vars, CountInv, DueAhead, TypeOK
<1>2. ASSUME NEW k \in Keys, ResetEntry(t, k)
      PROVE  LockOwned' /\ CountInv' /\ DueAhead' /\ DevicesReset'
  <2>1. on[t] \in Handles /\ holder[on[t]] = t
    BY <1>2, <1>0 DEF ResetEntry, LockOwned, TypeOK
  <2>2. LockOwned'
    BY <1>2, <1>0 DEF ResetEntry, LockOwned, TypeOK
  <2>3. DevicesReset'
    BY <1>2, <1>0 DEF ResetEntry, DevicesReset
  <2>4. CountInv'
    BY <1>2, <1>0 DEF ResetEntry, CountInv
  <2>5. DueAhead'
    <3> SUFFICES ASSUME NEW u \in Threads, NEW c \in Handles, NEW j \in Keys,
                        holder'[c] = u, storage'[c][j] = "due"
                 PROVE  j \in todo'[u]
      BY DEF DueAhead
    <3>1. holder[c] = u /\ storage[c][j] = "due"
      <4>1. CASE storage' = storage
        BY <4>1, <1>2 DEF ResetEntry
      <4>2. CASE storage' = [storage EXCEPT ![on[t]][k] = "done"]
        <5>1. storage[on[t]] \in [Keys -> Entries] /\ storage[c] \in [Keys -> Entries]
          BY <2>1, <1>0 DEF TypeOK
        <5>2. ~(c = on[t] /\ j = k)
          BY <4>2, <5>1, <2>1, <1>0 DEF TypeOK
        <5>3. storage'[c][j] = storage[c][j]
          BY <4>2, <5>1, <5>2, <2>1, <1>0 DEF TypeOK
        <5>4. QED
          BY <5>3, <1>2 DEF ResetEntry
      <4>3. QED
        BY <4>1, <4>2, <1>2 DEF ResetEntry
    <3>2. j \in todo[u]
      BY <3>1, <1>0 DEF DueAhead
    <3>3. ~(u = t /\ j = k)
      <4> SUFFICES ASSUME u = t, j = k PROVE FALSE
        OBVIOUS
      <4>1. c = on[t]
        BY <3>1, <1>0 DEF LockOwned
      <4>2. storage'[c][j] = "done"
        BY <4>1, <3>1, <1>2, <1>0 DEF ResetEntry, TypeOK
      <4>3. QED
        BY <4>2
    <3>4. QED
      BY <3>2, <3>3, <1>2, <1>0 DEF ResetEntry, TypeOK
  <2>6. QED
    BY <2>2, <2>3, <2>4, <2>5
<1>3. CASE CallbackReturns(t)
  <2>1. LockOwned'
    BY <1>3, <1>0 DEF CallbackReturns, LockOwned, TypeOK
  <2>2. DevicesReset'
    BY <1>3, <1>0 DEF CallbackReturns, DevicesReset
  <2>3. CountInv'
    BY <1>3, <1>0 DEF CallbackReturns, CountInv
  <2>4. DueAhead'
    <3> SUFFICES ASSUME NEW u \in Threads, NEW c \in Handles, NEW j \in Keys,
                        holder'[c] = u, storage'[c][j] = "due"
                 PROVE  storage[c][j] = "due"
      BY <1>3, <1>0 DEF DueAhead, CallbackReturns
    <3>1. CASE UNCHANGED storage
      BY <3>1
    <3>2. ASSUME NEW k \in Keys, storage' = [storage EXCEPT ![target[t]][k] = "none"]
          PROVE  storage[c][j] = "due"
      BY <3>2, <1>0 DEF TypeOK
    <3>3. QED
      BY <1>3, <3>1, <3>2 DEF CallbackReturns
  <2>5. QED
    BY <2>1, <2>2, <2>3, <2>4
<1>4. CASE FinishReset(t)
  <2>1. on[t] \in Handles /\ holder[on[t]] = t
    BY <1>4, <1>0 DEF FinishReset, LockOwned, TypeOK
  <2>2. LockOwned'
    BY <1>4, <1>0, <1>a, <2>1 DEF FinishReset, Unlock, LockOwned, TypeOK
  <2>3. DevicesReset'
    BY <1>4, <1>0 DEF FinishReset, DevicesReset
  <2>4. CountInv'
    BY <1>4, <1>0, <1>a, <2>1 DEF FinishReset, Unlock, CountInv, TypeOK
  <2>5. DueAhead'
    BY <1>4, <1>0, <1>a, <2>1 DEF FinishReset, Unlock, DueAhead, TypeOK, EmptyStorage
  <2>6. QED
    BY <2>2, <2>3, <2>4, <2>5
<1>5. QED
  BY <1>1, <1>2, <1>3, <1>4 DEF Continue

LEMMA LockStep == LockInv /\ [Next]_vars => LockInv'
<1> SUFFICES ASSUME LockInv, [Next]_vars PROVE LockInv'
  OBVIOUS
<1>1. TypeOK'
  BY TypeStep DEF LockInv
<1>2. CASE UNCHANGED vars
  BY <1>1, <1>2
     DEF vars, state_vars, call_vars, LockInv, LockOwned, CountInv, DueAhead, DevicesReset
<1>3. ASSUME NEW t \in Threads, StackCall(t) \/ StateCall(t) \/ Continue(t)
      PROVE  LockInv'
  BY <1>1, <1>3, LockStack, LockState, LockContinue DEF LockInv
<1>4. QED
  BY <1>2, <1>3 DEF Next

LEMMA LockInit == Init => LockInv
<1> SUFFICES ASSUME Init PROVE LockInv
  OBVIOUS
<1>1. TypeOK
  BY TypeInit
<1>2. 0 % RefWrap = 0 /\ NoThread \notin Threads
  BY ContextsAssumption
<1>3. LockOwned /\ CountInv /\ DueAhead /\ DevicesReset
  BY <1>2, ContextsAssumption DEF Init, LockOwned, CountInv, DueAhead, DevicesReset
<1>4. QED
  BY <1>1, <1>3 DEF LockInv

LEMMA LockInvariant == Spec => []LockInv
  BY LockInit, LockStep, PTL DEF Spec

(* Between resets the ref_count of every context is the retains less the   *)
(* releases, modulo the width of the counter: resets that run callbacks    *)
(* lose no retain of another thread.                                       *)
THEOREM RefCountExact == Spec => []CountExact
<1>1. LockInv => CountExact
  BY DEF LockInv, CountInv, CountExact
<1>2. QED
  BY <1>1, LockInvariant, PTL

(* A reset never drops an entry whose callback has not run, whatever the   *)
(* other threads put into the storage meanwhile.                           *)
THEOREM CallbacksRun == Spec => NoCallbackSkipped
<1> DEFINE Kept == \A h \in Handles :
                     holder[h] # NoThread /\ holder'[h] = NoThread
                       => \A k \in Keys : storage[h][k] # "due"
<1>1. ASSUME LockInv, [Next]_vars PROVE [Kept]_vars
  <2> SUFFICES ASSUME NEW h \in Handles, Next, holder[h] # NoThread, holder'[h] = NoThread,
                      NEW k \in Keys
               PROVE  storage[h][k] # "due"
    BY <1>1
  <2>1. TypeOK /\ LockOwned /\ DueAhead
    BY <1>1 DEF LockInv
  <2>2. PICK t \in Threads : StackCall(t) \/ StateCall(t) \/ Continue(t)
    BY DEF Next
  <2>3. FinishReset(t)
    <3>1. ~StackCall(t)
      BY DEF StackCall, CtxClearCurrent, CtxSetCurrent, CtxPopCurrent, CtxCreate, CtxDestroy,
             CtxSynchronizeBegin, call_vars
    <3>2. ~StateCall(t)
      BY <2>1, ContextsAssumption
         DEF StateCall, CtxSetFlags, PrimaryRetain, PrimaryRelease,
             PrimaryReset, BeginReset, StoragePut, StorageDelete, call_vars, TypeOK
    <3>3. QED
      BY <2>2, <3>1, <3>2 DEF Continue, CtxSynchronizeEnd, ResetEntry, CallbackReturns
  <2>4. h = on[t] /\ holder[h] = t /\ todo[t] = {}
    BY <2>1, <2>3 DEF FinishReset, Unlock, LockOwned, TypeOK
  <2>5. QED
    BY <2>1, <2>4 DEF DueAhead
<1>2. QED
  BY <1>1, LockInvariant, PTL DEF Spec, NoCallbackSkipped

LEMMA SomeoneMoves ==
  ASSUME LockInv, NEW t \in Threads, pc[t] # "idle", ~Stuck(t)
  PROVE  \E u \in Threads : pc[u] # "idle" /\ ~Waits(u)
<1>0. TypeOK /\ LockOwned
  BY DEF LockInv
<1> SUFFICES ASSUME \A u \in Threads : pc[u] # "idle" => Waits(u)
             PROVE  Stuck(t)
  OBVIOUS
<1> DEFINE ring == {u \in Threads : pc[u] # "idle"}
<1>1. ASSUME NEW u \in ring
      PROVE  Waits(u) /\ \E w \in ring : target[u] = on[w]
  <2>1. Waits(u)
    OBVIOUS
  <2>2. target[u] \in Handles
    BY <1>0, <2>1 DEF Waits, Resolves, TypeOK
  <2>3. PICK w \in Threads : holder[target[u]] = w
    BY <1>0, <2>1, <2>2 DEF Waits, TypeOK
  <2>4. pc[w] \in {"reset", "callback"} /\ on[w] = target[u]
    BY <1>0, <2>2, <2>3 DEF LockOwned
  <2>5. QED
    BY <2>1, <2>4
<1>2. QED
  BY <1>1 DEF Stuck

(* Whatever contexts the callbacks enter, the threads inside a call wait   *)
(* for one another only when some of them are stuck in callbacks that      *)
(* entered each other's contexts or their own: no other deadlock.          *)
THEOREM OnlyCallbacksDeadlock == Spec => []OnlyCyclesBlock
<1>1. LockInv => OnlyCyclesBlock
  BY SomeoneMoves DEF OnlyCyclesBlock
<1>2. QED
  BY <1>1, LockInvariant, PTL

(* A step of another thread leaves a ring of waiting callbacks as it is.   *)
LEMMA RingStays ==
  ASSUME LockInv, LockInv', NEW t \in Threads, StackCall(t) \/ StateCall(t) \/ Continue(t),
         NEW ring \in SUBSET Threads,
         \A u \in ring : Waits(u) /\ \E w \in ring : target[u] = on[w]
  PROVE  \A u \in ring : Waits(u)' /\ \E w \in ring : target'[u] = on'[w]
<1>0. TypeOK /\ LockOwned /\ LockOwned' /\ DevicesReset
  BY DEF LockInv
<1>1. t \notin ring
  <2>1. ASSUME Waits(t) PROVE FALSE
    <3>1. ~StackCall(t)
      BY <2>1 DEF Waits, StackCall, CtxClearCurrent, CtxSetCurrent, CtxPopCurrent, CtxCreate,
                  CtxDestroy, CtxSynchronizeBegin
    <3>2. ~StateCall(t)
      BY <2>1 DEF Waits, StateCall, CtxSetFlags, PrimaryRetain, PrimaryRelease,
                  PrimaryReset, StoragePut, StorageDelete
    <3>3. QED
      BY <2>1, <3>1, <3>2 DEF Waits, Continue, CtxSynchronizeEnd, ResetEntry, CallbackReturns,
                              FinishReset, Unlocked
  <2>2. QED
    BY <2>1
<1>2. \A u \in Threads \ {t} : pc'[u] = pc[u] /\ on'[u] = on[u] /\ target'[u] = target[u]
  <2>1. CASE StackCall(t)
    BY <2>1, <1>0 DEF StackCall, CtxClearCurrent, CtxSetCurrent, CtxPopCurrent, CtxCreate,
                      CtxDestroy, CtxSynchronizeBegin, call_vars, TypeOK
  <2>2. CASE StateCall(t)
    BY <2>2, <1>0 DEF StateCall, CtxSetFlags, PrimaryRetain, PrimaryRelease, PrimaryReset,
                      BeginReset, StoragePut, StorageDelete, call_vars, TypeOK
  <2>3. CASE Continue(t)
    BY <2>3, <1>0 DEF Continue, CtxSynchronizeEnd, ResetEntry, CallbackReturns, FinishReset,
                      TypeOK
  <2>4. QED
    BY <2>1, <2>2, <2>3
<1>3. \A d \in Devices : live[d] => live'[d]
  <2>1. CASE StackCall(t)
    BY <2>1, <1>0, DeviceHandles, ContextsAssumption
       DEF StackCall, CtxClearCurrent, CtxSetCurrent, CtxPopCurrent, CtxCreate,
           CtxDestroy, CtxSynchronizeBegin, object_vars, TypeOK
  <2>2. CASE StateCall(t)
    BY <2>2 DEF StateCall, CtxSetFlags, PrimaryRetain, PrimaryRelease, PrimaryReset,
                StoragePut, StorageDelete, object_vars
  <2>3. CASE Continue(t)
    BY <2>3 DEF Continue, CtxSynchronizeEnd, ResetEntry, CallbackReturns, FinishReset, object_vars
  <2>4. QED
    BY <2>1, <2>2, <2>3
<1>4. ASSUME NEW u \in ring
      PROVE  Waits(u)' /\ \E w \in ring : target'[u] = on'[w]
  <2>1. PICK w \in ring : target[u] = on[w]
    OBVIOUS
  <2>2. u \in Threads \ {t} /\ w \in Threads \ {t} /\ Waits(u) /\ Waits(w)
    BY <1>1
  <2>3. pc'[u] = "callback" /\ target'[u] = on[w] /\ pc'[w] = "callback" /\ on'[w] = on[w]
    BY <1>2, <2>1, <2>2 DEF Waits
  <2>4. on[w] \in Devices /\ on[w] \in Handles /\ NoThread \notin Threads
    BY <1>0, <2>2, DeviceHandles, ContextsAssumption DEF DevicesReset
  <2>5. holder'[on[w]] = w
    BY <1>0, <2>2, <2>3, <2>4 DEF LockOwned
  <2>6. Resolves(target[u])'
    BY <1>3, <2>1, <2>2, <2>3, <2>4 DEF Waits, Resolves
  <2>7. QED
    BY <2>1, <2>2, <2>3, <2>4, <2>5, <2>6 DEF Waits
<1>5. QED
  BY <1>4

(* A thread stuck in a callback that entered a context some stuck thread   *)
(* is resetting never goes on, whatever the other threads call: reset()    *)
(* runs the callbacks with the mutex held, and nothing takes it away.      *)
THEOREM CallbackDeadlockLasts == Spec => StuckForGood
<1> DEFINE Stays == \A t \in Threads : Stuck(t) => Stuck(t)'
<1>1. ASSUME LockInv, LockInv', [Next]_vars PROVE [Stays]_vars
  <2> SUFFICES ASSUME Next, NEW u \in Threads, Stuck(u)
               PROVE  Stuck(u)'
    BY <1>1
  <2>1. PICK t \in Threads : StackCall(t) \/ StateCall(t) \/ Continue(t)
    BY DEF Next
  <2>2. PICK ring \in SUBSET Threads :
          /\ u \in ring
          /\ \A w \in ring : Waits(w) /\ \E x \in ring : target[w] = on[x]
    BY DEF Stuck
  <2>3. \A w \in ring : Waits(w)' /\ \E x \in ring : target'[w] = on'[x]
    BY <1>1, <2>1, <2>2, RingStays
  <2>4. QED
    BY <2>2, <2>3 DEF Stuck
<1>2. QED
  BY <1>1, LockInvariant, PTL DEF Spec, StuckForGood
=============================================================================
