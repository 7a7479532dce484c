------------------------------ MODULE Contexts ------------------------------
(***************************************************************************)
(* Contexts of the CUDA driver (zluda/src/impl/context.rs, the primary     *)
(* contexts of device.rs and the context-local storage of driver.rs).      *)
(*                                                                         *)
(* Every host thread has a STACK of (context, device) entries, and HIP has *)
(* a current device per thread which the driver keeps in step with the top *)
(* of that stack.  Contexts are shared by the threads: a handle is the     *)
(* address of a LiveCheck box whose cookie tells a live context from a     *)
(* freed one, and the mutable part of a context is behind a mutex that     *)
(* reset() holds while it runs the callbacks of the application.           *)
(*                                                                         *)
(* A step is one call of the API, except that a reset takes a step for     *)
(* every callback and one to finish, and that a synchronisation takes a    *)
(* step to swap the HIP device and one to put it back.                     *)
(***************************************************************************)
EXTENDS Integers, Sequences, FiniteSets

CONSTANTS
  Threads,       \* host threads that call the driver
  Devices,       \* ordinals of the devices that exist
  Ordinals,      \* ordinals a caller may pass to cuCtxCreate, valid or not
  FirstDevice,   \* HIP's device of a thread that has not chosen one
  Heap,          \* addresses the allocator may give to a created context
  Keys,          \* keys of the context-local storage
  FlagWords,     \* values of the context flags, 0 among them
  RefWrap,       \* ref_count is unsigned: it counts modulo this (2^32)
  NoHandle,      \* the null CUcontext
  NoThread,      \* "nobody holds the mutex"
  MaxDepth,      \* bound: entries of one thread's stack
  MaxHeld        \* bound: retains not released, or releases too many

(* The primary context of device d lives inside the Device object; its     *)
(* handle is written d.  Created contexts are at addresses of Heap.        *)
Handles == Devices \cup Heap

ASSUME ContextsAssumption ==
  /\ IsFiniteSet(Threads)
  /\ Devices \subseteq Ordinals /\ FirstDevice \in Devices
  /\ Heap \cap Ordinals = {} /\ NoHandle \notin Handles
  /\ NoThread \notin Threads
  /\ 0 \in FlagWords
  /\ RefWrap \in Nat \ {0, 1}
  /\ MaxDepth \in Nat /\ MaxHeld \in Nat

VARIABLES
  stack,     \* stack[t]: STACK of thread t, the last entry is current
  hip,       \* hip[t]: device hipSetDevice last chose for t
  live,      \* live[h]: the cookie at h is Context::COOKIE
  device,    \* device[h]: Context.device
  refs,      \* refs[h]: ContextState.ref_count
  flags,     \* flags[h]: ContextState.flags
  storage,   \* storage[h][k]: entry of ContextState.storage
  holder,    \* holder[h]: thread inside the mutex of h, across steps
  pc,        \* pc[t]: where thread t is inside a call
  on,        \* on[t]: the context t is resetting
  todo,      \* todo[t]: entries whose callback t has still to consider
  target,    \* target[t]: context the running callback wants, or NoHandle
  saved,     \* saved[t]: device SetDeviceOnDrop puts back
  held       \* history: retains less releases of h since its last reset began

thread_vars == <<stack, hip, saved>>
object_vars == <<live, device>>
state_vars  == <<refs, flags, storage, held>>
call_vars   == <<holder, pc, on, todo, target>>
vars == <<thread_vars, object_vars, state_vars, call_vars>>

(* An entry of the storage: absent, without a callback, with a callback    *)
(* that is still due, or with one that has run.                            *)
Entries == {"none", "plain", "due", "done"}

StackEntry == [ctx : Handles, dev : Ordinals]

TypeOK ==
  /\ stack \in [Threads -> Seq(StackEntry)]
  /\ hip \in [Threads -> Devices]
  /\ saved \in [Threads -> Devices]
  /\ live \in [Handles -> BOOLEAN]
  /\ device \in [Handles -> Ordinals]
  /\ refs \in [Handles -> 0 .. RefWrap - 1]
  /\ flags \in [Handles -> FlagWords]
  /\ storage \in [Handles -> [Keys -> Entries]]
  /\ held \in [Handles -> Int]
  /\ holder \in [Handles -> Threads \cup {NoThread}]
  /\ pc \in [Threads -> {"idle", "sync", "reset", "callback"}]
  /\ on \in [Threads -> Handles]
  /\ todo \in [Threads -> SUBSET Keys]
  /\ target \in [Threads -> Handles \cup {NoHandle}]

-----------------------------------------------------------------------------

EmptyStorage == [k \in Keys |-> "none"]

(* GLOBAL_STATE: one Context per device, made at the first call.           *)
Init ==
  /\ stack = [t \in Threads |-> <<>>]
  /\ hip = [t \in Threads |-> FirstDevice]
  /\ saved = [t \in Threads |-> FirstDevice]
  /\ live = [h \in Handles |-> h \in Devices]
  /\ device = [h \in Handles |-> IF h \in Devices THEN h ELSE FirstDevice]
  /\ refs = [h \in Handles |-> 0]
  /\ flags = [h \in Handles |-> 0]
  /\ storage = [h \in Handles |-> EmptyStorage]
  /\ held = [h \in Handles |-> 0]
  /\ holder = [h \in Handles |-> NoThread]
  /\ pc = [t \in Threads |-> "idle"]
  /\ on = [t \in Threads |-> FirstDevice]
  /\ todo = [t \in Threads |-> {}]
  /\ target = [t \in Threads |-> NoHandle]

Depth(t) == Len(stack[t])
Top(t) == stack[t][Depth(t)]
Popped(t) == SubSeq(stack[t], 1, Depth(t) - 1)

(* A handle resolves when the cookie behind it is a context's.  A freed    *)
(* box keeps cookie 0 until its address is handed out again.               *)
Resolves(h) == h # NoHandle /\ live[h]

(* Mutex<ContextState>: lock() returns, and the guard is dropped.          *)
Unlocked_Ignored(h) == TRUE
Unlocked(h) == holder[h] = NoThread

Unlock_Forgotten(h) == UNCHANGED holder
Unlock(h) == holder' = [holder EXCEPT ![h] = NoThread]

(* ref_count -= 1 on a u32, in a build without overflow checks.            *)
Decremented_Signed(n) == n - 1
Decremented(n) == (n - 1) % RefWrap

(* hipSetDevice: a device that does not exist is refused.                  *)
HipSetDevice(t, d) == hip' = [hip EXCEPT ![t] = IF d \in Devices THEN d ELSE @]

(* Whether a push has to tell HIP of the device.                           *)
NeedsSwitch_EmptyOnly(t, d) == Depth(t) = 0
NeedsSwitch(t, d) == Depth(t) = 0 \/ Top(t).dev # d

(* The part of set_current that pushes: HIP is told of the device when the *)
(* stack was empty or had another device on top.  The push stays when      *)
(* hipSetDevice fails.                                                     *)
PushEntry(t, h, d) ==
  /\ Depth(t) < MaxDepth
  /\ stack' = [stack EXCEPT ![t] = Append(@, [ctx |-> h, dev |-> d])]
  /\ IF NeedsSwitch(t, d)
       THEN HipSetDevice(t, d)
       ELSE UNCHANGED hip

(* cuCtxSetCurrent(NULL): pop, and follow the device that comes up.        *)
CtxClearCurrent(t) ==
  /\ pc[t] = "idle"
  /\ Depth(t) > 0
  /\ stack' = [stack EXCEPT ![t] = Popped(t)]
  /\ IF Depth(t) > 1 /\ stack[t][Depth(t) - 1].dev # Top(t).dev
       THEN HipSetDevice(t, stack[t][Depth(t) - 1].dev)
       ELSE UNCHANGED hip
  /\ UNCHANGED <<saved, object_vars, state_vars, call_vars>>

(* cuCtxSetCurrent(h), cuCtxPushCurrent(h): both push.                     *)
CtxSetCurrent(t, h) ==
  /\ pc[t] = "idle"
  /\ Resolves(h)
  /\ PushEntry(t, h, device[h])
  /\ UNCHANGED <<saved, object_vars, state_vars, call_vars>>

(* cuCtxPopCurrent: HIP is told of the device that comes up, if any.       *)
CtxPopCurrent(t) ==
  /\ pc[t] = "idle"
  /\ Depth(t) > 0
  /\ stack' = [stack EXCEPT ![t] = Popped(t)]
  /\ IF Depth(t) > 1
       THEN HipSetDevice(t, stack[t][Depth(t) - 1].dev)
       ELSE UNCHANGED hip
  /\ UNCHANGED <<saved, object_vars, state_vars, call_vars>>

(* cuCtxCreate: the ordinal is not validated, so a context of a device     *)
(* that does not exist is made and pushed before hipSetDevice refuses it.  *)
CtxCreate(t, h, d) ==
  /\ pc[t] = "idle"
  /\ ~live[h]
  /\ live' = [live EXCEPT ![h] = TRUE]
  /\ device' = [device EXCEPT ![h] = d]
  /\ refs' = [refs EXCEPT ![h] = 0]
  /\ flags' = [flags EXCEPT ![h] = 0]
  /\ storage' = [storage EXCEPT ![h] = EmptyStorage]
  /\ held' = [held EXCEPT ![h] = 0]
  /\ PushEntry(t, h, d)
  /\ UNCHANGED <<saved, call_vars>>

(* cuCtxDestroy: the cookie is cleared and the box freed.  No stack is     *)
(* looked at: entries for the handle stay where they are.                  *)
CtxDestroy(t, h) ==
  /\ pc[t] = "idle"
  /\ live[h]
  /\ live' = [live EXCEPT ![h] = FALSE]
  /\ UNCHANGED <<thread_vars, device, state_vars, call_vars>>

(* cuCtxSetFlags: of the current context, if it still resolves.            *)
CtxSetFlags(t, f) ==
  /\ pc[t] = "idle"
  /\ Depth(t) > 0
  /\ LET h == Top(t).ctx IN
       /\ Resolves(h)
       /\ Unlocked(h)
       /\ flags' = [flags EXCEPT ![h] = f]
  /\ UNCHANGED <<thread_vars, object_vars, refs, storage, held, call_vars>>

(* cuCtxSynchronize_v2: HIP is moved to the context's device ...           *)
CtxSynchronizeBegin(t, h) ==
  /\ pc[t] = "idle"
  /\ Resolves(h)
  /\ device[h] \in Devices \ {hip[t]}
  /\ saved' = [saved EXCEPT ![t] = hip[t]]
  /\ HipSetDevice(t, device[h])
  /\ pc' = [pc EXCEPT ![t] = "sync"]
  /\ UNCHANGED <<stack, object_vars, state_vars, holder, on, todo, target>>

(* ... and SetDeviceOnDrop moves it back, whether or not the wait failed.  *)
CtxSynchronizeEnd(t) ==
  /\ pc[t] = "sync"
  /\ HipSetDevice(t, saved[t])
  /\ pc' = [pc EXCEPT ![t] = "idle"]
  /\ UNCHANGED <<stack, saved, object_vars, state_vars, holder, on, todo, target>>

-----------------------------------------------------------------------------
(* Primary contexts.                                                       *)

(* cuDevicePrimaryCtxRetain, and primary_ctx_retain_with_flags of the dark *)
(* API, whose flags primary_context_set_flags does not write anywhere.     *)
PrimaryRetain(t, d) ==
  /\ pc[t] = "idle"
  /\ Unlocked(d)
  /\ held[d] < MaxHeld
  /\ refs' = [refs EXCEPT ![d] = (@ + 1) % RefWrap]
  /\ held' = [held EXCEPT ![d] = @ + 1]
  /\ UNCHANGED <<thread_vars, object_vars, flags, storage, call_vars>>

(* reset() begins: the mutex is held until it ends.                        *)
BeginReset(t, d) ==
  /\ holder' = [holder EXCEPT ![d] = t]
  /\ pc' = [pc EXCEPT ![t] = "reset"]
  /\ on' = [on EXCEPT ![t] = d]
  /\ todo' = [todo EXCEPT ![t] = {k \in Keys : storage[d][k] # "none"}]
  /\ UNCHANGED target

(* The history is that of the calls made since the reset began: it says    *)
(* what the caller of a retain that comes later is owed.                   *)
Forget(d) == held' = [held EXCEPT ![d] = 0]

(* cuDevicePrimaryCtxRelease: the count is decremented without a look at   *)
(* it and wraps below zero; at zero the context is reset.                  *)
PrimaryRelease(t, d) ==
  /\ pc[t] = "idle"
  /\ Unlocked(d)
  /\ held[d] > -MaxHeld
  /\ refs' = [refs EXCEPT ![d] = Decremented(@)]
  /\ IF Decremented(refs[d]) = 0
       THEN /\ BeginReset(t, d)
            /\ Forget(d)
       ELSE /\ held' = [held EXCEPT ![d] = @ - 1]
            /\ UNCHANGED call_vars
  /\ UNCHANGED <<thread_vars, object_vars, flags, storage>>

(* cuDevicePrimaryCtxReset.                                                *)
PrimaryReset(t, d) ==
  /\ pc[t] = "idle"
  /\ Unlocked(d)
  /\ BeginReset(t, d)
  /\ Forget(d)
  /\ UNCHANGED <<thread_vars, object_vars, refs, flags, storage>>

(* reset() takes the next entry: one with a callback has it called.  The   *)
(* callback may use the storage of any context before it returns, the one  *)
(* being reset and one another thread is resetting included.               *)
ResetEntry(t, k) ==
  /\ pc[t] = "reset"
  /\ k \in todo[t]
  /\ todo' = [todo EXCEPT ![t] = @ \ {k}]
  /\ IF storage[on[t]][k] = "due"
       THEN /\ storage' = [storage EXCEPT ![on[t]][k] = "done"]
            /\ pc' = [pc EXCEPT ![t] = "callback"]
            /\ \E g \in Handles \cup {NoHandle} :
                 target' = [target EXCEPT ![t] = g]
       ELSE UNCHANGED <<storage, pc, target>>
  /\ UNCHANGED <<thread_vars, object_vars, refs, flags, held, holder, on>>

(* The callback returns.  If it removes a key from the storage of a live   *)
(* context it has to enter that context's mutex first.                     *)
CallbackReturns(t) ==
  /\ pc[t] = "callback"
  /\ IF Resolves(target[t])
       THEN /\ Unlocked(target[t])
            /\ \E k \in Keys : storage' = [storage EXCEPT ![target[t]][k] = "none"]
       ELSE UNCHANGED storage
  /\ pc' = [pc EXCEPT ![t] = "reset"]
  /\ target' = [target EXCEPT ![t] = NoHandle]
  /\ UNCHANGED <<thread_vars, object_vars, refs, flags, held, holder, on, todo>>

(* reset() ends: the state is cleared and the mutex released.              *)
FinishReset(t) ==
  /\ pc[t] = "reset"
  /\ todo[t] = {}
  /\ LET d == on[t] IN
       /\ refs' = [refs EXCEPT ![d] = 0]
       /\ flags' = [flags EXCEPT ![d] = 0]
       /\ storage' = [storage EXCEPT ![d] = EmptyStorage]
       /\ Unlock(d)
  /\ pc' = [pc EXCEPT ![t] = "idle"]
  /\ UNCHANGED <<thread_vars, object_vars, held, on, todo, target>>

-----------------------------------------------------------------------------
(* Context-local storage of the dark API.  A null context means the        *)
(* current one.                                                            *)

Chosen(t, h) == IF h = NoHandle /\ Depth(t) > 0 THEN Top(t).ctx ELSE h

StoragePut(t, h, k, entry) ==
  /\ pc[t] = "idle"
  /\ LET c == Chosen(t, h) IN
       /\ Resolves(c)
       /\ Unlocked(c)
       /\ storage' = [storage EXCEPT ![c][k] = entry]
  /\ UNCHANGED <<thread_vars, object_vars, refs, flags, held, call_vars>>

StorageDelete(t, h, k) ==
  /\ pc[t] = "idle"
  /\ LET c == Chosen(t, h) IN
       /\ Resolves(c)
       /\ Unlocked(c)
       /\ storage' = [storage EXCEPT ![c][k] = "none"]
  /\ UNCHANGED <<thread_vars, object_vars, refs, flags, held, call_vars>>

-----------------------------------------------------------------------------

StackCall(t) ==
  \/ CtxClearCurrent(t)
  \/ \E h \in Handles : CtxSetCurrent(t, h)
  \/ CtxPopCurrent(t)
  \/ \E h \in Heap, d \in Ordinals : CtxCreate(t, h, d)
  \/ \E h \in Heap : CtxDestroy(t, h)
  \/ \E h \in Handles : CtxSynchronizeBegin(t, h)

StateCall(t) ==
  \/ \E f \in FlagWords : CtxSetFlags(t, f)
  \/ \E d \in Devices : PrimaryRetain(t, d)
  \/ \E d \in Devices : PrimaryRelease(t, d)
  \/ \E d \in Devices : PrimaryReset(t, d)
  \/ \E h \in Handles \cup {NoHandle}, k \in Keys, e \in {"plain", "due"} : StoragePut(t, h, k, e)
  \/ \E h \in Handles \cup {NoHandle}, k \in Keys : StorageDelete(t, h, k)

(* What a thread does inside a call it has begun.                          *)
Continue(t) ==
  \/ CtxSynchronizeEnd(t)
  \/ \E k \in Keys : ResetEntry(t, k)
  \/ CallbackReturns(t)
  \/ FinishReset(t)

Next == \E t \in Threads : StackCall(t) \/ StateCall(t) \/ Continue(t)

Spec == Init /\ [][Next]_vars

(* A thread that is inside a call keeps running; callers owe nothing.      *)
Fairness == \A t \in Threads : WF_vars(Continue(t))
FairSpec == Spec /\ Fairness

-----------------------------------------------------------------------------
(* Safety.                                                                 *)

(* HIP's current device of a thread is the device of the entry on top of   *)
(* its STACK, whatever mix of pushes, pops, creates (failed ones too) and  *)
(* synchronisations led there: device-relative HIP calls such as hipMalloc *)
(* act on the device the application thinks is current.                    *)
HipFollowsTop ==
  \A t \in Threads :
    pc[t] # "sync" /\ Depth(t) > 0 /\ Top(t).dev \in Devices => hip[t] = Top(t).dev

(* With nobody inside its mutex a context's ref_count is the retains less  *)
(* the releases made since it was reset: no retain made by another thread  *)
(* while a reset runs its callbacks is wiped out with the reset.           *)
CountExact ==
  \A h \in Handles : holder[h] = NoThread => refs[h] = held[h] % RefWrap

(* The mutex of a context is held across steps exactly by the thread that  *)
(* is resetting it.                                                        *)
LockOwned ==
  \A t \in Threads, h \in Handles :
    holder[h] = t <=> pc[t] \in {"reset", "callback"} /\ on[t] = h

(* A callback of t wants a context whose mutex is held: t cannot move.     *)
Waits(t) ==
  pc[t] = "callback" /\ Resolves(target[t]) /\ holder[target[t]] # NoThread

(* The recursive lock reset() has a TODO about: t is one of a set of       *)
(* threads each of which runs a callback that wants a context one of them  *)
(* is resetting.  A thread whose callback wants the very context it resets *)
(* is such a set alone.                                                    *)
Stuck(t) ==
  \E ring \in SUBSET Threads :
    /\ t \in ring
    /\ \A u \in ring : Waits(u) /\ \E w \in ring : target[u] = on[w]

(* Nothing but that keeps the threads waiting: whenever some thread inside *)
(* a call is not stuck, a thread can take the next step of its call.  No   *)
(* mutex is left held by a thread that has gone.                           *)
OnlyCyclesBlock ==
  (\E t \in Threads : pc[t] # "idle" /\ ~Stuck(t))
    => \E t \in Threads : pc[t] # "idle" /\ ~Waits(t)

(* And that is a deadlock: nothing another thread can call, a reset or a   *)
(* release of the same contexts included, ever lets a stuck thread go on.  *)
StuckForGood == [][\A t \in Threads : Stuck(t) => Stuck(t)']_vars

(* A reset drops no entry whose callback it has not run: nothing put by    *)
(* another thread between the walk over the storage and its clearing is    *)
(* lost without its destructor.                                            *)
NoCallbackSkipped ==
  [][\A h \in Handles :
       holder[h] # NoThread /\ holder'[h] = NoThread
         => \A k \in Keys : storage[h][k] # "due"]_vars

(* Liveness: once no thread starts another call, every call returns but    *)
(* those of the threads stuck in callbacks.  (A call that waits for a      *)
(* mutex before its first step has not begun here: one that wants the      *)
(* context of a stuck thread never does.)                                  *)
Quiet == <>[][\A t \in Threads : ~(StackCall(t) \/ StateCall(t))]_vars
CallsReturn == Quiet => <>[](\A t \in Threads : pc[t] = "idle" \/ Stuck(t))

(* What LiveCheck is documented to give, a lifetime check: a handle on a   *)
(* stack that still resolves is the context that was pushed, so it has the *)
(* device noted beside it.                                                 *)
ResolvedIsPushed ==
  \A t \in Threads : \A i \in 1 .. Depth(t) :
    Resolves(stack[t][i].ctx) => device[stack[t][i].ctx] = stack[t][i].dev
=============================================================================
