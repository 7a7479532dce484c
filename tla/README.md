# A formal model of ZLUDA

ZLUDA runs CUDA applications on AMD GPUs: it is a replacement of the CUDA driver
library that translates calls to HIP and compiles PTX to the GPU's code. This
directory holds TLA+ models of the parts of ZLUDA that keep state, the TLC
configurations that check them on small instances, and proofs, checked by TLAPS,
of what matters most for every instance. Paths below are relative to the
repository's root.

## 1. Inventory

| Component | Code | State | Interacts by |
|---|---|---|---|
| Contexts | `zluda/src/impl/context.rs`, `device.rs`, `driver.rs`, `LiveCheck` in `zluda_common/src/lib.rs` | a stack of contexts per thread, HIP's current device per thread, a mutex-protected `ContextState` per context, objects behind handles with a cookie | calls from any thread; callbacks into the application from `reset()` |
| Allocations | `zluda/src/impl/memory.rs`, `driver.rs` (`Allocations`), `pointer.rs` | a global map address -> (size, context) behind a mutex; HIP's heap | calls from any thread |
| Bridge, transport | `zluda32/src/ipc.rs`, `zluda32/src/lib.rs` (`GlobalState`), `zluda_server_common/src/lib.rs`, `zluda64_server/src/main.rs` (`main`, `handle_cuda_function*`) | two auto-reset events, two shared memories that grow, a mutex and a `OnceLock` in the client | two processes taking turns |
| Bridge, server state | `zluda64_server/src/main.rs` (`HandlePool`, `Allocator`, `ModuleLaunchData`), `zluda32/src/lib.rs` (contexts, `function_args`) | slab of handles, ranges of one large device allocation, globals of modules and functions | remote calls, one at a time |
| Modules and libraries | `zluda/src/impl/module.rs`, `library.rs`, `function.rs`, `zluda_cache/src/lib.rs` | per-device `OnceLock` of a library's module, memoised functions, an SQLite cache on disk | calls from any thread; several processes on the cache |
| PTX compiler: passes | `ptx/src/pass/` | none between calls; the mode pass keeps a worklist, what arrives at each block, and what it knows of the modes while it emits | called when a module is loaded |
| PTX compiler: parser, emitter | `ptx_parser/`, `ptx/src/pass/llvm/`, `compiler/`, `llvm_zluda/` | none | called by and after the passes |
| FFT plans | `zluda_fft/src/impl.rs` | a registry of plans behind a mutex, counting handles up | calls from any thread |
| Other libraries | `zluda_blas`, `zluda_blaslt`, `zluda_dnn*`, `zluda_sparse`, `zluda_ml`, `nvapi` | none of their own | forward to the ROCm libraries |
| Tracing | `zluda_trace*` | a log | observes calls |
| Loaders | `zluda_inject`, `zluda_redirect`, `zluda_ld`, `zluda_windows` | none after start-up | start the application with ZLUDA's libraries |

What makes each hard:

* **Contexts.** `reset()` runs callbacks of the application with the context's
  mutex held; the reference count is unsigned and decremented unchecked; HIP's
  device is moved only when the top of the stack changes device, so a long
  sequence of calls must never let the two come apart; a freed handle may still be
  on other threads' stacks. Correct means: HIP's device follows the stack, counts
  and callbacks survive concurrent resets, and no thread is blocked but by callbacks that
  wait for each other, which the code lets happen.
* **Allocations.** HIP's heap and the registry are changed in two steps with no
  lock across them, while addresses are reused. Correct means: nothing leaks, no
  entry outlives its block, a lookup finds the one entry that holds the address.
* **Transport.** Two processes read and write the same memory with no lock but
  the order in which two events are signalled; messages that outgrow the memory
  move it, and every step of that may fail. Correct means: each call is carried
  out at most once, and its answer is its own.
* **Server state.** One untyped pool of ids and one block of memory serve all kinds
  of objects, both sides remember things by ids and addresses that are reused, and a
  load may fail half way. Correct means: an id leads to what it was given out for,
  memory has one owner, a launch gets the globals and the layout of its function.
* **Modules, cache.** A library's module is loaded by whichever thread needs it first
  while others wait for it; processes, of different versions too, read and write one
  database without waiting for its lock, and end at any moment. Correct means: a
  load never gives code made for another text, device or version, a library has one
  module for a device, the bookkeeping of the table is exact.
* **PTX passes.** The hardware has one register of modes for all instructions, PTX has
  modes on each instruction: a fixed point over a graph with loops, calls and several
  kernels, an optimisation over it, and an emission that joins pairs of modes in one
  register. Correct means: every instruction meets its modes on every path, with as
  few settings as can be, and no program is refused without a reason that can be named.

`PROJECT.json` lists the components with their status and every hazard with its
line and the properties that cover it.

## 2. Modules

| Module | What it is |
|---|---|
| `Contexts` | the contexts component; `MCContexts` its instances; `ContextsProofs` its theorems |
| `Memory` | the registry of allocations and HIP's heap; `MCMemory`, `MemoryProofs` |
| `RemoteCalls` | what a remote call promises, with no word about shared memory |
| `Bridge` | the transport, shown to implement `RemoteCalls`; `MCBridge` its instance, `BridgeProofs` |
| `ServerState` | what the 64-bit server keeps for its client; `MCServer`; `ServerProofs` on ids and modules, `ServerMemoryProofs` on memory |
| `ModuleLoads` | what loading a module promises, with no word about a cache |
| `Modules` | lazy modules of libraries and the cache on disk, shown to implement `ModuleLoads`; `MCModules`, `ModulesProofs` |
| `ModeGraph` | the data of the mode pass: graphs, merging, the choice of kernel modes, as operators; and what the paths of a graph bring, as the reference |
| `ModePropagation` | the worklist of the mode pass, for one mode; `MCModes`, `ModeProofs` |
| `ModeInsertion` | the whole pass with those that prepare for it, and the code it emits, run; `MCInsertion`, `InsertionProofs` |

An operator named `X_Something` that stands before `X` is a plausible wrong
version of `X`. Nothing uses it; it documents a mistake that the properties of the
module detect (`PROJECT.json`, "mutants").

### Contexts

State: `stack[t]` is `STACK`, `hip[t]` what `hipSetDevice` was last told by
thread `t`; `live` and `device` are the objects behind the handles (the cookie of
`LiveCheck`, and `Context.device`); `refs`, `flags`, `storage` are
`ContextState`; `holder` is the owner of a context's mutex when it is held across
steps; `pc`, `on`, `todo`, `target`, `saved` are the local variables of a call in
progress. `held` is history: what callers retained since the last reset began.

A call of the API is one step, with these exceptions: a reset takes one step for
each entry it visits, one more for each callback to return, and a last one to
clear the state, all with the mutex held; a synchronisation has one step that
moves HIP's device and one that moves it back. All that is sound because the other
calls touch either state of their own thread or state behind the mutex.

A callback may enter any context (`target`), the one being reset and one that another
thread is resetting included. Nothing in the code orders this; a comment
(`zluda/src/impl/context.rs:46`) asks about it. So threads may come to wait for each
other in a ring, one thread alone being the smallest: `Stuck` is such a thread, or one
that waits behind them. The model does not exclude this and the properties say what
it amounts to: nothing else blocks a call in progress (`OnlyCyclesBlock`), a stuck thread
never gets out (`StuckForGood`), and all other calls in progress return (`CallsReturn`). A
call begins, in the model, when it has the mutex it needs: one that is made later and wants
the context of a stuck thread never begins, which stands for its waiting for ever as well.

The primary context of device `d` is written `d`; created contexts live at
addresses of `Heap`, which are handed out again after `cuCtxDestroy`. `cuCtxCreate`
may be given an ordinal that does not exist (`Ordinals` is larger than `Devices`):
the code pushes the context before HIP refuses the device, and so does the model.

Not in the model: the value and flags words that no decision depends on,
`ContextState.modules` (only ever drained: no code inserts into it), destruction
of a primary context by handle (the handle points into the middle of an object,
freeing it is undefined), poisoned mutexes, `CUDA_ERROR_DEINITIALIZED` after exit.

### Memory

`heap` is HIP's, `pointers` is `Allocations.pointers`, `owned` what the
application was given and has not freed; `pc`, `ptr`, `info` are the locals of a
call. HIP puts a block where no other block is, and may reuse an address at once.
`cuMemAlloc` takes three steps (HIP's allocation, the zero fill, the registration),
`cuMemHostAlloc` two, `cuMemAllocPitch` and `cuMemAllocHost` one, as they never
register; both frees take two (HIP's free, then the removal). `DoubleFrees` lets
the application free dead pointers: `hipFree` fails and the removal is done
all the same.

### RemoteCalls and Bridge

`RemoteCalls` says that the server carries out a call at most once and between the
call and its return, that nothing else is ever carried out, and that success means
it was carried out and answered. `Bridge` is how this is done: the `OnceLock` and
mutex of `GlobalState`, `SignalObjectAndWait` as a signal step and a wait step on
two auto-reset events, the request and answer mappings. A mapping is named by its
capacity, as capacities only grow in one direction; the server keeps one mapping
open in each direction, so only the current one can be opened by name. Sizes
are in units of 16 bytes: a header, a payload, and the root of the archive written
behind it. A write that does not fit makes `serialize_body` create a mapping with
room for that write (a power of two) and start over, so a message may grow twice.

Every operating system call that can fail may fail (`Failures`): starting the
server, its own start-up (after which the client waits for ever), the version
check, the arena of the serialiser, creating and opening a mapping. One failure
leaves the two sides with different ideas of where the memory is: a growth
that fails after it has already replaced the mapping. The model calls that state
`broken`, and `RemoteCalls` promises nothing after it; everything is promised
until then, including after failed calls of every other kind.

The refinement mapping: a thread is `calling` while it is inside a call, and the
other variables have the same names. `runs` and `strays` are history variables of
`Bridge` that count executions by comparing the body the server found with the
call whose thread is waiting.

### ServerState

`handles` is the slab of `HandlePool`, `free` and `ends` are `Allocator` (the units its
range allocator has left, and `allocation_ends`), `modules` and `functions` are
`ModuleLaunchData`, `args` is the client's `function_args`; `alive` is the server
process. `code`, `kernel` and `events` are what the driver under the server has
loaded, at addresses that it reuses. `held`, `asked` and `lost` are history: what the
client was given each id for, the sizes it asked for, and what failed loads took.

A step is a whole call, as the client's mutex admits one at a time; `RemoteCalls` is
what the component assumes of the transport. A slot, a range or an address that is
free may be chosen in any way (the slab and the range allocator choose some fixed
way; the driver's allocator any), and a module load may fail at any of its globals
after having taken ranges for those before. `cuModuleGetFunction` is two remote calls
of the client: the second may fail, and then the id is taken and nobody knows it.
The request for no units panics in the range allocator, which is external.

The application is taken to use what it was given and to destroy it once; an id of a
function or texture is no longer used after its module's unload. Objects of
different kinds are told apart by the constants' assumption, as they are addresses
of different live objects. Left out: the allocation of the block itself at the
first use, calls that only forward (copies, queries), and the client's own contexts.

### ModuleLoads and Modules

`rows` and `total` are the tables of the database; `library[p][l]` is the handle of a
library with one `OnceLock` for each device, which is `Empty`, `Busy` while a thread
is inside `get_or_init`, or holds the result, an error (`Refused`) too; `module[p]` is
what HIP has loaded in a process, at addresses it reuses; `pc`, `call`, `cache` and
`binary` are the locals of `get_best_ptx_and_compile`.

A statement of the database is a step: SQLite makes it atomic, and it may fail at any
time, because nobody waits for another's lock. The trigger that keeps `total_size` is
part of the insertion. A process may end between any two steps (`Crash`), and starts
again with nothing but what is on disk. Processes may run different versions of ZLUDA
(`Version`), which compile the same text differently.

The refinement mapping: a load is `asked` for from its start until it has a result, and
`loaded` until it returns. `ModuleLoads` does not say when errors may come; it says that a
result is what the process's own compiler makes.

`cuModuleUnload` is modelled for modules the application loaded. The code accepts a
library's module too and the library goes on giving out the dead handle (a TODO at
`zluda/src/impl/library.rs:56`); no property is stated for applications that do this.

### ModeGraph, ModePropagation and ModeInsertion

The pass `ptx/src/pass/instruction_mode_to_global_mode/mod.rs`. Four modes (denormals and
rounding, of f32 and of f16 with f64) are solved one after the other, each over a graph
whose nodes are blocks, methods and kernels. `ModePropagation` is one such solution:
`arrived` is `propagation_state`, `roots` the worklist, as a bag, for any order of visits;
`Choose` is the choice of the kernels' modes, quick when every kernel is asked for one
value, otherwise by the integer program, which is external and modelled by what it
maximises.

The reference is `Reaching`, which says what arrives by the paths of the graph: the least
set closed under going backwards through blocks that ask for nothing, and one value if
all its blocks agree.

`ModeInsertion` takes small programs through `normalize_basic_blocks` (`Normalized`) and
`remove_unreachable_basic_blocks` (`Pruned`), solves the four modes, shares prologues and
emits the blocks (`Emitted`; `insert_one` relies on what is set, changes a setting in place
or makes a new one: `Rely`, `Fold`, `Set`), and then runs the result on hardware that has two
registers of two modes. `MaxDepth` bounds the open calls. It uses `Settled`, what the
propagation ends with, computed by steps: the theorem `PropagationExact` of `ModeProofs` says
that every order of visits ends with `Reaching`, and `SettledExact` that the steps do.

`ProgramsAssumption` says what a program is (`IsProgram`: its blocks belong to one method
each, which jumps do not leave, and so on) and that the model values are told apart from
labels and code. Nothing is asked of the modes or of the calls, so programs on which the passes
go wrong are programs of the model:

* The preparing passes fail (`PruningFails`, `Refuse`). `remove_unreachable_basic_blocks` refuses
  a body that does not begin with a label (lines 21-24), and `normalize_basic_blocks` consumes
  the label a body begins with and puts none in its place (lines 35-39): a body that opens with
  a statement is given a label and goes through, one that opens with a label, or is empty, is
  refused. A program says what its bodies open with (`opens`), and where the address of a
  function is taken (`pointers`), which is refused too.
* The translation fails (`Fails`): a call at the end of a body, a function that does not return,
  a mode that nothing brings to a node, a prologue that is missing where a jump needs it.
* The translation is wrong. A block is `Misleading` if a setting in it was folded (`folded`), after
  which what is known of the mode is out of date, or if a function returns from it in other
  modes than it starts in, as callers go by the latter. `misled` is a history variable: the run
  has left such a block.

`HonouredUntilMisled` and `EntryAsResolved` are claimed until a run is misled. `OnlyFlawedRefused`
says that only `Flawed` programs are refused. `Flawed` is read off the source, except for a
misleading block: the preparing passes fail, or a call that can be reached is followed by
nothing, or a function is called only by code that no run enters (`CalledInVain`: such functions
are kept by `remove_unreachable_basic_blocks.rs:49`), or some functions return only by way of
calls of each other (`Endless`).

## 3. Runs

| Run | Instance | Checks |
|---|---|---|
| `ContextResets` | 2 threads, 2 devices, primary contexts only, 1 key, counter modulo 4, callbacks into any context | `TypeOK`, `CountExact`, `OnlyCyclesBlock`, `NoCallbackSkipped`, `StuckForGood`, `CallsReturn` |
| `ContextStacks` | 2 threads, 2 devices, 1 invalid ordinal, one created context at a time, stacks of 2 entries | `HipFollowsTop` |
| `Allocations` | 3 threads, addresses 1 to 4, sizes 1 and 3, 2 contexts, double frees | `BlocksAccounted`, `EntriesBacked`, `LookupExact` |
| `ServerObjects` | 3 ids, 2 module and 2 function addresses, 1 event, 4 units of 2 bytes, requests of 0, 1, 3 and 15 of a size modulo 16, three modules: one with two globals, one whose second global is aligned too strictly, one with an empty global | `TypeOK`, `HandlesResolve`, `UnitsAccounted`, `AddressRangeExact`, `ArgsMatch` |
| `RemoteCalls` | 2 threads, 2 calls each, capacities 4, 8, 16, payloads 1 and 7, every failure | `TypeOK`, `TakeTurns`, `Connected`, `CallsImplemented`, `CallsReturn` |
| `ModuleCache` | 2 processes of different versions, 2 threads in one and 1 in the other, 1 text, 1 device, 1 library, 2 addresses, every failure and crash | `TypeOK`, `SizeExact`, `OneModulePerDevice`, `LoadsImplemented`, `CallsReturn` |
| `ModePropagation` | every graph of 2 kernels and 3 blocks of the shapes `MCEdges` names, 2 values of the mode, every order of visits | `TypeOK`, `Exact`, `Resolved`, `JumpsCovered`, `NoIdleInsertion`, `FewestInsertions`, `ReachesEnd` |
| `ModeInsertion` | 2541 programs: 2412 of three shapes, 9 that fold, 108 with misleading blocks, 13 refused; 2 values, 2 open calls | `HonouredUntilMisled`, `EntryAsResolved`, `OnlyFlawedRefused` |

Each property is explained where it is defined. Why the bounds are enough:

* `ContextResets`: a lost update needs two threads, and the rings of two threads and of
  one need two contexts (longer rings are covered by the proofs); one release too many wraps a counter modulo 4 below zero, and a retain
  wraps it back.
* `ContextStacks`: the decisions of `set_current` and `pop_current` look at the
  two topmost entries only, so two entries, on two devices and an ordinal that does
  not exist, are all there is to combine; destruction and reuse of an address need
  one address. Deeper stacks are covered by the proof of `HipFollowsTop`.
* `Allocations`: the race that matters has one thread between its two steps,
  another that reuses the address, and a third that looks; a block of size 3 has
  neighbours on both sides in 4 addresses, so that lookups meet both ends.
* `RemoteCalls`: payload 7 needs two growths from capacity 4 (8, then 16), so that
  a growth can fail after another succeeded; the second call finds what the first
  left behind.
* `ServerObjects`: a unit of 2 bytes has a last byte that is not its first, sizes 1 and
  3 need rounding, 15 rounds up to the size that wraps to none, and 4 units hold a load with one unit to spare or make it fail at
  its second global; two modules alternate over the same ids, and three ids hold a
  module, its function and its texture at once.
* `ModuleCache`: two threads of one process race for a library's module, and for a row
  of the table; the third, of another version, adds a row that must not be taken for
  theirs, and a crash can fall between any two of their steps. The process with the
  other version has no libraries and no room for modules: it is there for its rows.
* `ModePropagation`: three blocks make a cycle of two with a way in and a way out, a
  block that jumps to itself, and two kernels that share their blocks or not. What needs
  more blocks is covered by the proofs.
* `ModeInsertion`: the three shapes hold what the pass distinguishes: a function called
  from two kernels, once in a loop; a call of a function without a body, around which a
  branch leads; a function that calls itself; several returns, and code that is never
  reached. Blocks ask for up to three settings, of the same register, its other half and
  the other register. To these come programs of one kernel that folds, programs of the first
  shape with misleading blocks in the kernels, in the function, or in both, and one program for
  each way to be refused. An assumption of `MCInsertion` checks that the latter, and no
  others of the run, have a flaw that is read off the source.

Four runs check a statement of the documentation that the code does not keep, and TLC
shows how: `RecycledHandle` (a destroyed context left on a stack resolves to
another), `LostAllocation` (a legal application loses a registration to another
thread's free), `StaleGlobals` (a kernel is launched with the globals of an unloaded
module) and `FoldedModes` (a setting changed in place is forgotten, and an instruction
runs in another mode than it asked for). The quotes are in `PROJECT.json`, "findings".
The programs of `FoldedModes` are among those of `ModeInsertion`, where `HonouredUntilMisled`
says that there is no other way to that failure.

Seen while modelling, in the models, and with no run of their own, as a glance at the
line shows them: flags given to the dark API's retain of a primary context are dropped
(`zluda/src/impl/device.rs:488`); a release nobody retained succeeds and wraps the count
(`device.rs:518`); `cuCtxSetCurrent` pushes where the documentation says it replaces
(`context.rs:212`); a request for no memory stops the 64-bit server
(`zluda64_server/src/main.rs:213`); an error of loading a library's module is kept for
ever. In the passes: a body that opens with a label, which is legal PTX, is refused
(`normalize_basic_blocks.rs:36-39` drops the label that
`remove_unreachable_basic_blocks.rs:21-24` asks for, while the comment at
`normalize_basic_blocks.rs:6` says "Inserts label at the start of every function"), and so are
an empty body and one that ends with a call (`instruction_mode_to_global_mode/mod.rs:775-780`);
the modes a function returns with are taken from the start of its returning block
(`mod.rs:425`); a function no path of which returns ends the compiler, and so do functions
that only code nothing enters calls, for which no mode is ever known
(`remove_unreachable_basic_blocks.rs:49`).

### Fairness

* `Contexts!FairSpec`: a thread inside a call keeps running (`WF` of `Continue`).
  Callers owe nothing, so `CallsReturn` is stated for the time when no new call is
  begun. Callbacks return unless they wait for a context: they are application code,
  assumed to end. A thread that is stuck has no step to be fair to, and `CallsReturn`
  excuses exactly those.
* `Bridge!FairSpec`: the server process, and each thread inside a call, keep
  running. Weak fairness is enough for the mutex because each thread makes at most
  `MaxCalls` calls; with an endless supply a thread could starve, since
  `std::sync::Mutex` promises no order.
* `Modules!FairSpec`: a thread inside a load keeps running. No fairness between the
  threads that wait for another's module is needed, as the memo is never `Busy` twice
  unless the library is unloaded, which its users exclude.
* `ModePropagation!Spec`: the pass is sequential code and runs to its end (`WF` of
  `Next`); the fairness says nothing about the order of visits.

Deadlock is not checked where the system may rightly stop: all threads idle at the
bounds, the server gone, the pass at its end, a program that has run.

## 4. Proofs

All theorems are of the form `Spec => []P`, `Spec => [][A]_vars` or, for the two
refinements, `Spec => AbstractSpec`, for every value of the constants that satisfies the
module's named assumptions, with no further hypothesis. Every invariant that the passing runs
check is proved.

`ContextsProofs`:

* `TypeCorrect`: the types, one lemma for each group of actions.
* `HipFollows`: `HipFollowsTop` is not inductive, because it says nothing of a thread
  whose synchronisation is in progress; the invariant `HipInv` adds that the device
  to be put back is that of the top (`SavedFollowsTop`).
* `RefCountExact`, `CallbacksRun`: from `LockInv`, which says that the mutex is held
  exactly by the thread that resets (`LockOwned`), that the history of a context
  under reset counts nothing (`CountInv`), and that entries with a callback due are
  still ahead of the walk (`DueAhead`). The arithmetic of the wrapping counter is in
  the lemmas `ModUnique`, `ModDivision` and `ModStep`.
* `OnlyCallbacksDeadlock`: by `LockInv`, whoever waits waits for a thread inside a reset. If no
  thread inside a call could move, they would all wait, for each other: the set of them all
  is the ring, so each of them is stuck.
* `CallbackDeadlockLasts`: a thread of a ring takes no step, and the mutex it waits for is that of
  a thread of the ring; what others do changes neither their targets nor whose these are, and
  cannot destroy the contexts, which are primary ones.

`MemoryProofs`: `NoLeak`, `RegistryBacked`, `LookupCorrect`, from `MemoryInv`: a thread
in an allocating call has a block of its own (`MakersOwnBlocks`), blocks are
disjoint (`BlocksDisjoint`), and an entry nobody is about to remove is that of a
block the application holds (`EntriesOwned`). Disjointness of HIP's blocks is
what makes the lookup right, which examines a single entry.

`ServerProofs`: `TypeCorrect`, `HandlesRight`, `ArgsRight`, from `PoolInv`. `HandlesResolve`
alone does not survive an unload, which vacates the slots that the module remembers
for its textures: the invariant adds that these are exactly the slots the client
holds textures of that module by (`TexturesHeld`), that a module the client holds is
known and has one id (`ModulesHeld`), and that what is known of a module or kernel
does not outlive the code (`CodeLoaded`), so that a new module at an old address
starts with nothing. There is one lemma for each action.

`ModeProofs`: `TypeCorrect`, `PropagationExact`, `EveryBlockResolved`, `EveryJumpCovered`,
`NoInsertionIdle` and `FewestChosen`, for any set of well-formed finite graphs. Merging is a
least upper bound in the order `Leq`; the invariant says that what is recorded is never
above what the paths bring (`Sound`), never below what a block asks for itself (`Own`),
and closed under every edge whose source is not on the worklist (`Closed`). Empty list:
closed under every edge, hence above the least solution, hence equal to it. From there
the properties of the insertions are facts about graphs. `FewestChosen` compares the choice
with every other. The quick way, which asks no solver, only makes the insertions that no
choice avoids. The solver's answer satisfies most blocks, by what it maximises, and that
kernels nobody asks get the default costs nothing (`UnaskedKernels`); more satisfied blocks
are fewer insertions, as those no choice avoids are made anyway (`MoreSatisfied`).

`BridgeProofs`: `TypeCorrect`, `TurnsTaken`, `StaysConnected` and `CallsKept`, the refinement
of `RemoteCalls`. The invariant has three parts. `Turns` says who may be where: the
holder of the mutex is the only thread inside a call, the server is at rest unless that
thread waits, and at most one event is signalled, the one whose turn it is. `Growing` says
that a mapping is only replaced by a larger one (from `GrownType`, as the capacity that
is grown to lets through the write that failed), so that capacities name mappings.
`Links` follows a message across replacements: a complete request is in the client's
mapping and the server's mapping is that one or names it (`RequestLink`), the same for
answers (`AnswerLink`), and the call in the server's hands has run as often as the state
says (`RunsLink`). `Links` is claimed only until a growth fails half way. A step then maps to
the call, execution, success or failure of `RemoteCalls`, or to nothing.

`ModulesProofs`: `TypeCorrect`, `OneModule`, `SizeRight` and `CacheTransparent`, the refinement of
`ModuleLoads`. A row's binary is what a build of the key's version makes of the key's text
(`RowsRight`), so a hit is as good as compiling; the binary a thread holds is that of its own
load (`CallsRight`); and a memo that is `Busy` has one thread that initializes it
(`OneInitializer`), which is why the module it makes is the only one. `SizeRight` follows from
`Counted`: the table is finite and the total is its sum. That an insertion adds its row's size
(`SumAdd`) holds for sums over any finite set: were there a set without a sum, there would be a
smallest (`LeastNumber`), which takes the place of an induction theorem.

`ServerMemoryProofs`: `MemoryAccounted` and `AddressesExact`. `UnitsAccounted` is nearly
inductive: a step takes free units for one owner each or gives up all units of an owner
(`AccountedTaken`, `AccountedGiven`). It needs that a module whose code is not loaded has no
globals (`CodeLoaded`, from `ServerProofs`) and that an allocation is not empty (`Roomy`).
`Roomy` also says that an allocation has room for what was asked, by `UnitsEnough`: sizes are
rounded up modulo 2^32, and one that wraps has no units and is never allocated.

`InsertionProofs`: `SettledExact`, `ModesAreHonoured`, `EntersAsResolved` and `OnlyFlawedFail`,
for any set of programs, with graphs of any size and calls of any depth.

* A step of `Spread` is repeated as often as the set has members, and then nothing is left to
  add (`SpreadClosed`, `SpreadLeast`). `SettledExact` follows.
* Static part. The preparing passes keep a program a program, with at most one returning
  block for each function (`NormalizedOK`, `PrunedOK`), so its graph is well formed
  (`GraphOK`). If both ends of an edge are resolved and the mode changes along it, its target
  has a prologue (`EdgeCovered`, over `BehindIsUpstream` and `UniformBehind`).
* Emission. What is known before each statement of a body (`KnownBy`) starts with the entry
  and ends with what `Emitted` knows; a change in place touches a setting whose slot no
  instruction in between asked for. After such a change what is known is not claimed any more (`InsertOneOK`,
  `EmissionOK`).
* Dynamic part. The inductive invariant `IInv` says that the program is a prepared one with a
  well formed solution (`Prepares`), that the code is its emission (`Emits`), that the
  hardware has the known modes where the code is, unless the run was misled (`Placed`), and that an open call is
  of the method in which the next open call, or the current block, lies (`Nested`), so that
  a return finds the modes its caller was compiled for. There is one lemma for each action.
* `OnlyFlawedFail`: a program with none of the flaws has every node of its graph reached from a
  kernel, so nothing is unresolved, and the ways to fail are gone through. The graph goes
  through functions that are called, while the passes follow only jumps within a method
  and calls from anywhere. That a kept function is entered is that none is called in vain. That
  what follows a call is reached needs the returns: were there functions that the graph gets
  into but not to the return of, every path to their returns would go by a call of one of them,
  and they would be `Endless` (`KeptReached`). Recursion needs no exception.

Only model-checked: the liveness properties (`CallsReturn` of three modules and
`ReachesEnd`), as liveness under fairness (and `ENABLED`) is beyond the prover.

## 5. Plan

The modules were written in the order `Contexts`, `Memory`, `RemoteCalls` and `Bridge`,
`ServerState`, `ModeGraph` to `ModeInsertion`, `Modules`. What is left, in order:

1. The client's contexts of the 32-bit driver (`ContextStack` and `context_state` of
   `zluda32/src/lib.rs`) beside `Contexts`, whose handles are never reused.
2. Functions memoised by a module in the 64-bit driver (`ModuleMutable`); `ServerState` has
   what the server makes of their addresses.
3. A composition of `ServerState` with `RemoteCalls`, where a call that reports an error may
   have been carried out: an id or a range the client never hears of.

## 6. Not modelled

The parser and the LLVM emitter (translation of data, instruction by instruction), the
passes that rewrite one instruction at a time, the library wrappers (stateless
forwarding), tracing, loaders and injectors (straight-line start-up), generated and
vendored code: most of the repository's lines are bindings and tables generated from
headers, which decide nothing. What HIP, SQLite, Windows and the allocator do is external
and modelled only as far as `src` relies on it.

Three failures the models do not have, each of a call that is external: of `SignalObjectAndWait`
in the client (it would return with the events in an unknown state), of `cuModuleUnload` or
`cuEventDestroy` in the driver under the server, and of the server's query for a module's
globals, which fails the load before any range is taken.
