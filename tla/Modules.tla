------------------------------ MODULE Modules ------------------------------
(***************************************************************************)
(* Loading of modules: cuModuleLoadData, cuModuleUnload, the lazy modules  *)
(* of libraries (zluda/src/impl/module.rs, library.rs), and the cache of   *)
(* compiled code on disk, shared by all processes (zluda_cache).           *)
(*                                                                         *)
(* A statement of the database is one step: SQLite makes it atomic, and it *)
(* may fail at any time, as another process holds the lock and nobody      *)
(* waits for it.  A process may end between any two steps.                 *)
(*                                                                         *)
(* The current device of a call is a parameter; that it is HIP's current   *)
(* device too is HipFollowsTop of Contexts.  Left out: the time of the     *)
(* last access, which nothing reads, and the functions of a module, which  *)
(* ServerState has.                                                        *)
(***************************************************************************)
EXTENDS Integers, FiniteSetsExt

CONSTANTS
  Processes, Threads,
  Home,       \* Home[t]: the process of a thread
  Version,    \* Version[p]: the version of ZLUDA a process runs
  Texts,      \* PTX
  Size,       \* Size[x]: length of what a text is compiled to
  Devices, Arch, Clock,
  Source,     \* Source[p]: the libraries of a process, and their texts
  Heap,       \* Heap[p]: where a process may have modules
  None, Empty, Busy, Refused, Orphan

Libraries(p) == DOMAIN Source[p]

(* compile_and_cache, for a build of ZLUDA and a device.                   *)
Compiled(t, text, d) ==
  [text |-> text, zluda |-> Version[Home[t]], isa |-> Arch[d], clock |-> Clock[d]]
Binaries == {Compiled(t, text, d) : t \in Threads, text \in Texts, d \in Devices}

(* A library: whether its modules are loaded when they are needed, and     *)
(* their OnceLocks.  A module, and a load in progress: the library it is   *)
(* for, if any.                                                            *)
Library(p) ==
  [lazy : BOOLEAN, modules : [Devices -> Heap[p] \cup {Empty, Busy, Refused}]]
Module(p) ==
  [binary : Binaries, library : Libraries(p) \cup {None, Orphan}, device : Devices]
Load(p) == [text : Texts, device : Devices, library : Libraries(p) \cup {None}]

ASSUME ModulesAssumption ==
  /\ Home \in [Threads -> Processes]
  /\ Size \in [Texts -> Nat]
  /\ DOMAIN Source = Processes
  /\ \A p \in Processes : Source[p] \in [Libraries(p) -> Texts]
  /\ DOMAIN Version = Processes
  /\ DOMAIN Arch = Devices /\ DOMAIN Clock = Devices
  /\ DOMAIN Heap = Processes
  /\ \A p \in Processes : Heap[p] \cap {None, Empty, Busy, Refused, Orphan} = {}
  /\ None \notin {Empty, Busy, Refused, Orphan} /\ Empty \notin {Busy, Refused, Orphan}
  /\ Busy \notin {Refused, Orphan} /\ Refused # Orphan
  /\ \A p \in Processes : {None, Orphan} \cap Libraries(p) = {}
  /\ \A p \in Processes : None \notin Library(p) \cup Module(p) \cup Load(p)
  /\ None \notin Binaries \cup [text : Texts, device : Devices]

VARIABLES
  rows,     \* rows of table modules: a key and a binary
  total,    \* total_size of table globals
  library,  \* library[p][l]: None, or what the handle leads to
  module,   \* module[p][a]: None, or the module at that address
  pc,       \* where a thread is in its call
  call,     \* text and device of its load, and the library it is for
  cache,    \* whether it has the database open
  binary    \* what it is going to load, or has loaded

locals == <<pc, call, cache, binary>>
vars == <<rows, total, library, module, locals>>

-----------------------------------------------------------------------------
(* The row of a text in the database.                                      *)
Key_NoVersion(t, text, d) == [hash |-> text, device |-> Arch[d], backend_key |-> Clock[d]]
Key(t, text, d) ==
  [hash |-> text, zluda_version |-> Version[Home[t]], device |-> Arch[d],
   backend_key |-> Clock[d]]

CallKey(t) == Key(t, call[t].text, call[t].device)
Length(b) == Size[b.text]

(* The unique index rejects a second row of a key.                         *)
Rejected_Never(key) == FALSE
Rejected(key) == \E r \in rows : r.key = key

(* The trigger update_size_on_insert.                                      *)
Grown_Minus(b) == total - Length(b)
Grown(b) == total + Length(b)

-----------------------------------------------------------------------------
Init ==
  /\ rows = {}
  /\ total = 0
  /\ library = [p \in Processes |-> [l \in Libraries(p) |-> None]]
  /\ module = [p \in Processes |-> [a \in Heap[p] |-> None]]
  /\ pc = [t \in Threads |-> "idle"]
  /\ call = [t \in Threads |-> None]
  /\ cache = [t \in Threads |-> FALSE]
  /\ binary = [t \in Threads |-> None]

Start(t, text, d, l) ==
  /\ pc' = [pc EXCEPT ![t] = "open"]
  /\ call' = [call EXCEPT ![t] = [text |-> text, device |-> d, library |-> l]]
  /\ UNCHANGED <<rows, total, module, cache, binary>>

LoadData(t, text, d) ==
  /\ pc[t] = "idle"
  /\ Start(t, text, d, None)
  /\ UNCHANGED library

LoadLibrary(t, l, preserve_binary) ==
  /\ pc[t] = "idle"
  /\ library[Home[t]][l] = None
  /\ library' = [library EXCEPT ![Home[t]][l] =
                   [lazy |-> preserve_binary, modules |-> [d \in Devices |-> Empty]]]
  /\ UNCHANGED <<rows, total, module, locals>>

(* get_module_for_device: OnceLock::get_or_init.                           *)
Claimed_Late(p, l, d) == library
Claimed(p, l, d) == [library EXCEPT ![p][l].modules[d] = Busy]
GetModuleForDevice(t, l, d) ==
  LET p == Home[t]
      lib == library[p][l]
  IN  /\ pc[t] = "idle"
      /\ lib # None
      /\ \/ /\ lib.modules[d] = Empty
            /\ lib.lazy
            /\ library' = Claimed(p, l, d)
            /\ Start(t, Source[p][l], d, l)
         \/ /\ lib.modules[d] = Empty
            /\ ~lib.lazy
            /\ library' = [library EXCEPT ![p][l].modules[d] = Refused]
            /\ UNCHANGED <<rows, total, module, locals>>
         \/ /\ lib.modules[d] = Busy
            /\ pc' = [pc EXCEPT ![t] = "waiting"]
            /\ call' = [call EXCEPT ![t] = [text |-> Source[p][l], device |-> d, library |-> l]]
            /\ UNCHANGED <<rows, total, library, module, cache, binary>>

(* The thread that waits for another's result has it.                      *)
Awake(t) ==
  /\ pc[t] = "waiting"
  /\ library[Home[t]][call[t].library].modules[call[t].device] # Busy
  /\ pc' = [pc EXCEPT ![t] = "idle"]
  /\ call' = [call EXCEPT ![t] = None]
  /\ UNCHANGED <<rows, total, library, module, cache, binary>>

-----------------------------------------------------------------------------
(* get_best_ptx_and_compile.                                               *)

(* Opening the database may fail, and there may be none.                   *)
Open(t) ==
  /\ pc[t] = "open"
  /\ \E opened \in BOOLEAN :
       /\ cache' = [cache EXCEPT ![t] = opened]
       /\ pc' = [pc EXCEPT ![t] = IF opened THEN "lookup" ELSE "compile"]
  /\ UNCHANGED <<rows, total, library, module, call, binary>>

(* A row that is not found, a statement that fails and a binary that       *)
(* cannot be read are all the same.                                        *)
LoadCachedBinary(t) ==
  /\ pc[t] = "lookup"
  /\ \/ \E r \in rows :
          /\ r.key = CallKey(t)
          /\ binary' = [binary EXCEPT ![t] = r.binary]
          /\ pc' = [pc EXCEPT ![t] = "load"]
     \/ /\ pc' = [pc EXCEPT ![t] = "compile"]
        /\ UNCHANGED binary
  /\ UNCHANGED <<rows, total, library, module, call, cache>>

Compile(t) ==
  /\ pc[t] = "compile"
  /\ binary' = [binary EXCEPT ![t] = Compiled(t, call[t].text, call[t].device)]
  /\ pc' = [pc EXCEPT ![t] = IF cache[t] THEN "insert" ELSE "load"]
  /\ UNCHANGED <<rows, total, library, module, call, cache>>

InsertModule(t) ==
  /\ pc[t] = "insert"
  /\ \/ /\ ~Rejected(CallKey(t))
        /\ rows' = rows \cup {[key |-> CallKey(t), binary |-> binary[t]]}
        /\ total' = Grown(binary[t])
     \/ UNCHANGED <<rows, total>>
  /\ pc' = [pc EXCEPT ![t] = "load"]
  /\ UNCHANGED <<library, module, call, cache, binary>>

-----------------------------------------------------------------------------
(* A load ends with a module or an error, which get_or_init stores for a   *)
(* library, the error too.                                                 *)
Remembered_Modules(t, result) ==
  IF call[t].library = None \/ result = Refused THEN library
  ELSE [library EXCEPT ![Home[t]][call[t].library].modules[call[t].device] = result]
Remembered(t, result) ==
  IF call[t].library = None THEN library
  ELSE [library EXCEPT ![Home[t]][call[t].library].modules[call[t].device] = result]

Finish(t, result) ==
  /\ library' = Remembered(t, result)
  /\ pc' = [pc EXCEPT ![t] = "return"]
  /\ cache' = [cache EXCEPT ![t] = FALSE]

(* The compiler refuses the text, or HIP the binary.                       *)
Fail(t) ==
  /\ pc[t] \in {"compile", "load"}
  /\ Finish(t, Refused)
  /\ binary' = [binary EXCEPT ![t] = Refused]
  /\ UNCHANGED <<rows, total, module, call>>

HipModuleLoadData(t) ==
  /\ pc[t] = "load"
  /\ \E a \in Heap[Home[t]] :
       /\ module[Home[t]][a] = None
       /\ module' = [module EXCEPT ![Home[t]][a] =
                       [binary |-> binary[t], library |-> call[t].library, device |-> call[t].device]]
       /\ Finish(t, a)
  /\ UNCHANGED <<rows, total, call, binary>>

Return(t) ==
  /\ pc[t] = "return"
  /\ pc' = [pc EXCEPT ![t] = "idle"]
  /\ call' = [call EXCEPT ![t] = None]
  /\ binary' = [binary EXCEPT ![t] = None]
  /\ UNCHANGED <<rows, total, library, module, cache>>

(* cuModuleUnload, of a module the application loaded itself.  The module  *)
(* is gone even when HIP reports an error.                                 *)
Unload(t, a) ==
  /\ pc[t] = "idle"
  /\ module[Home[t]][a] # None
  /\ module[Home[t]][a].library = None
  /\ module' = [module EXCEPT ![Home[t]][a] = None]
  /\ UNCHANGED <<rows, total, library, locals>>

(* cuLibraryUnload, of a library no other thread is using, leaves its      *)
(* modules loaded.                                                         *)
UnloadLibrary(t, l) ==
  LET p == Home[t]
  IN  /\ pc[t] = "idle"
      /\ library[p][l] # None
      /\ \A u \in Threads : Home[u] = p /\ call[u] # None => call[u].library # l
      /\ library' = [library EXCEPT ![p][l] = None]
      /\ module' = [module EXCEPT ![p] = [a \in Heap[p] |->
                      IF module[p][a] # None /\ module[p][a].library = l
                      THEN [module[p][a] EXCEPT !.library = Orphan] ELSE module[p][a]]]
      /\ UNCHANGED <<rows, total, locals>>

(* A process ends, at any moment, and starts again with nothing.           *)
Crash(p) ==
  LET Reset(f, value) == [t \in Threads |-> IF Home[t] = p THEN value ELSE f[t]]
  IN  /\ library' = [library EXCEPT ![p] = [l \in Libraries(p) |-> None]]
      /\ module' = [module EXCEPT ![p] = [a \in Heap[p] |-> None]]
      /\ pc' = Reset(pc, "idle")
      /\ call' = Reset(call, None)
      /\ cache' = Reset(cache, FALSE)
      /\ binary' = Reset(binary, None)
      /\ UNCHANGED <<rows, total>>

Continue(t) ==
  \/ Awake(t) \/ Open(t) \/ LoadCachedBinary(t) \/ Compile(t) \/ InsertModule(t)
  \/ Fail(t) \/ HipModuleLoadData(t) \/ Return(t)

Next ==
  \/ \E t \in Threads :
       \/ Continue(t)
       \/ \E text \in Texts, d \in Devices : LoadData(t, text, d)
       \/ \E l \in Libraries(Home[t]) : UnloadLibrary(t, l)
       \/ \E l \in Libraries(Home[t]), lazy \in BOOLEAN : LoadLibrary(t, l, lazy)
       \/ \E l \in Libraries(Home[t]), d \in Devices : GetModuleForDevice(t, l, d)
       \/ \E a \in Heap[Home[t]] : Unload(t, a)
  \/ \E p \in Processes : Crash(p)

Spec == Init /\ [][Next]_vars
FairSpec == Spec /\ \A t \in Threads : WF_vars(Continue(t))

-----------------------------------------------------------------------------
Keys == {Key(t, text, d) : t \in Threads, text \in Texts, d \in Devices}

TypeOK ==
  /\ rows \subseteq [key : Keys, binary : Binaries]
  /\ total \in Nat
  /\ DOMAIN library = Processes /\ DOMAIN module = Processes /\ DOMAIN call = Threads
  /\ \A p \in Processes :
       /\ library[p] \in [Libraries(p) -> {None} \cup Library(p)]
       /\ module[p] \in [Heap[p] -> {None} \cup Module(p)]
  /\ pc \in [Threads -> {"idle", "waiting", "open", "lookup", "compile", "insert", "load", "return"}]
  /\ \A t \in Threads : call[t] \in {None} \cup Load(Home[t])
  /\ cache \in [Threads -> BOOLEAN]
  /\ binary \in [Threads -> Binaries \cup {None, Refused}]

(* The total size kept by the triggers is that of the binaries in the      *)
(* table, whichever processes insert the same key at once or fail to.      *)
SizeExact == total = MapThenSumSet(LAMBDA r : Length(r.binary), rows)

(* A library has one module for each device once it was loaded for it, the *)
(* one that all threads are given: nobody loads a second one, and none is  *)
(* left of a load whose result was not kept.                               *)
ModulesOf(p, l, d) ==
  {a \in Heap[p] : module[p][a] # None /\ module[p][a].library = l /\ module[p][a].device = d}
OneModulePerDevice ==
  \A p \in Processes : \A l \in Libraries(p), d \in Devices :
    ModulesOf(p, l, d) = IF library[p][l] = None THEN {}
                         ELSE {library[p][l].modules[d]} \cap Heap[p]

(* What the cache adds is not seen: a load ends with what the process's    *)
(* own compiler makes of the text for the current device, or with an error *)
(* of the compiler or of HIP.                                              *)
Loads ==
  INSTANCE ModuleLoads WITH
    asked <- [t \in Threads |->
                IF pc[t] \in {"open", "lookup", "compile", "insert", "load"}
                THEN [text |-> call[t].text, device |-> call[t].device] ELSE None],
    loaded <- [t \in Threads |-> IF pc[t] = "return" THEN binary[t] ELSE None]
LoadsImplemented == Loads!Spec

(* Every call returns, although threads wait for each other's loads: the   *)
(* one they wait for fails or succeeds or its process ends.                *)
CallsReturn == \A t \in Threads : pc[t] # "idle" ~> pc[t] = "idle"
=============================================================================
