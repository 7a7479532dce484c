---------------------------- MODULE ServerState ----------------------------
(***************************************************************************)
(* What the 64-bit server keeps for its 32-bit client                      *)
(* (zluda64_server/src/main.rs), and what the client keeps beside it       *)
(* (function_args in zluda32/src/lib.rs).                                  *)
(*                                                                         *)
(* 64-bit objects are given to the client as ids of one untyped pool.      *)
(* Device memory is one block cut into ranges of whole units, for          *)
(* cuMemAlloc and for the globals of modules; the client sees offsets into *)
(* the block.  A launch passes the offsets of a kernel's globals, which    *)
(* the server finds by the kernel's 64-bit address.                        *)
(*                                                                         *)
(* A step is a call of the client, carried out under its mutex (see        *)
(* RemoteCalls for what a remote call does).  The application is one that  *)
(* uses and destroys what it was given and nothing else.                   *)
(***************************************************************************)
EXTENDS Integers, Sequences

CONSTANTS
  Ids,           \* slots of the pool
  ModuleAddrs,   \* addresses the driver gives to modules
  FunctionAddrs, \* addresses the driver gives to functions
  EventAddrs,    \* addresses the driver gives to events and streams
  FunctionNames, \* kernels of a module
  TextureNames,  \* textures and surfaces of a module
  Codes,         \* modules an application may load
  Globals,       \* Globals[c]: size and alignment of the globals of c, in order
  Requests,      \* sizes an application asks of cuMemAlloc
  Unit,          \* ALLOCATION_UNIT, in bytes
  LastUnit,      \* ALLOCATOR_SIZE / ALLOCATION_UNIT - 1
  Wrap,          \* sizes are unsigned: they count modulo this (2^32)
  None           \* nothing

Units == 1 .. LastUnit
Range == {r \in [start : Units, end : 2 .. LastUnit + 1] : r.start < r.end}
Span(r) == r.start .. r.end - 1

Module == [globals : Seq(Range), texrefs : [TextureNames -> Ids \cup {None}]]

ASSUME ServerAssumption ==
  /\ Unit \in Nat \ {0} /\ LastUnit \in Nat /\ Wrap \in Nat /\ (LastUnit + 1) * Unit <= Wrap
  /\ Requests \subseteq 0 .. Wrap - 1
  /\ Globals \in [Codes -> Seq([size : 0 .. Wrap - 1, align : Nat])]
  /\ None \notin Ids \cup ModuleAddrs \cup FunctionAddrs \cup EventAddrs \cup Codes
  /\ None \notin ModuleAddrs \X TextureNames /\ None \notin ModuleAddrs \X FunctionNames
  /\ None \notin Module /\ None \notin 2 .. LastUnit + 1
  /\ ModuleAddrs \cap FunctionAddrs = {} /\ EventAddrs \cap (ModuleAddrs \cup FunctionAddrs) = {}
  /\ (ModuleAddrs \cup FunctionAddrs \cup EventAddrs) \cap (ModuleAddrs \X TextureNames) = {}

(* 64-bit objects: a texture is known by its module and name.              *)
Objects == ModuleAddrs \cup FunctionAddrs \cup EventAddrs \cup (ModuleAddrs \X TextureNames)

VARIABLES
  handles,   \* handles[i]: the object in slot i of HandlePool
  free,      \* units the RangeAllocator has free
  ends,      \* ends[u]: allocation_ends, for the allocation that starts at u
  modules,   \* modules[m]: globals and texrefs of ModuleLaunchData.modules
  functions, \* functions[f]: globals of ModuleLaunchData.functions
  args,      \* args[i]: function_args of the client, whose parameters they are
  alive,     \* the server process runs
  code,      \* the driver: code[m] is the code of the module at m
  kernel,    \* the driver: kernel[f] is the module and name of the kernel at f
  events,    \* the driver: events and streams that exist
  held,      \* history: held[i] is the object id i was given to the client for
  asked,     \* history: asked[u]: bytes asked for the allocation at u
  lost       \* history: units taken by loads that failed

pool_vars   == <<handles, held>>
memory_vars == <<free, ends, asked, lost>>
module_vars == <<modules, functions, args, code, kernel>>
vars == <<pool_vars, memory_vars, module_vars, alive, events>>

TypeOK ==
  /\ handles \in [Ids -> Objects \cup {None}]
  /\ held \in [Ids -> Objects \cup {None}]
  /\ free \subseteq Units /\ lost \subseteq Units
  /\ ends \in [Units -> 2 .. LastUnit + 1 \cup {None}]
  /\ asked \in [Units -> Nat]
  /\ alive \in BOOLEAN
  /\ modules \in [ModuleAddrs -> {None} \cup Module]
  /\ functions \in [FunctionAddrs -> {None} \cup Seq(Range)]
  /\ args \in [Ids -> (Codes \X FunctionNames) \cup {None}]
  /\ code \in [ModuleAddrs -> Codes \cup {None}]
  /\ kernel \in [FunctionAddrs -> (ModuleAddrs \X FunctionNames) \cup {None}]
  /\ events \subseteq EventAddrs

Init ==
  /\ handles = [i \in Ids |-> None]
  /\ held = [i \in Ids |-> None]
  /\ free = Units
  /\ ends = [u \in Units |-> None]
  /\ asked = [u \in Units |-> 0]
  /\ lost = {}
  /\ modules = [m \in ModuleAddrs |-> None]
  /\ functions = [f \in FunctionAddrs |-> None]
  /\ args = [i \in Ids |-> None]
  /\ code = [m \in ModuleAddrs |-> None]
  /\ kernel = [f \in FunctionAddrs |-> None]
  /\ alive = TRUE
  /\ events = {}

-----------------------------------------------------------------------------
(* HandlePool: an object put into a slot that is vacant.                   *)

Insert(i, object) ==
  /\ handles[i] = None
  /\ handles' = [handles EXCEPT ![i] = object]
  /\ held' = [held EXCEPT ![i] = object]

(* cuEventCreate, cuStreamCreate.                                          *)
EventCreate(e, i) ==
  /\ alive
  /\ e \notin events
  /\ events' = events \cup {e}
  /\ Insert(i, e)
  /\ UNCHANGED <<memory_vars, module_vars, alive>>

(* cuEventDestroy, cuStreamDestroy: the slot is vacated, then the driver   *)
(* destroys what was in it.                                                *)
EventDestroy(i) ==
  /\ alive
  /\ held[i] \in EventAddrs
  /\ events' = events \ {handles[i]}
  /\ handles' = [handles EXCEPT ![i] = None]
  /\ held' = [held EXCEPT ![i] = None]
  /\ UNCHANGED <<memory_vars, module_vars, alive>>

-----------------------------------------------------------------------------
(* Allocator.                                                              *)

(* The size rounded up to whole units, in arithmetic modulo Wrap.          *)
UnitsOf_Down(n) == n \div Unit
UnitsOf(n) == ((((n + Unit - 1) \div Unit) * Unit) % Wrap) \div Unit

(* RangeAllocator: a free range of so many units, or none.  Asked for no   *)
(* units, it panics, and the server is gone.                               *)
FreeRanges(units) == {r \in Range : Span(r) \subseteq free /\ r.end - r.start = units}

Panic ==
  /\ alive' = FALSE
  /\ UNCHANGED <<pool_vars, module_vars, free, ends, asked, lost, events>>

(* cuMemAlloc.                                                             *)
MemAlloc(n) ==
  /\ alive
  /\ \/ UnitsOf(n) = 0 /\ Panic
     \/ /\ UnitsOf(n) # 0
        /\ \E r \in FreeRanges(UnitsOf(n)) :
             /\ free' = free \ Span(r)
             /\ ends' = [ends EXCEPT ![r.start] = r.end]
             /\ asked' = [asked EXCEPT ![r.start] = n]
        /\ UNCHANGED <<pool_vars, module_vars, lost, alive, events>>

(* cuMemFree of an address: it must be the start of an allocation, and so  *)
(* not that of a global.                                                   *)
FreedSpan_ToEnd(u) == u .. ends[u]
FreedSpan(u) == u .. ends[u] - 1

MemFree(u) ==
  /\ alive
  /\ ends[u] # None
  /\ free' = free \cup FreedSpan(u)
  /\ ends' = [ends EXCEPT ![u] = None]
  /\ asked' = [asked EXCEPT ![u] = 0]
  /\ UNCHANGED <<pool_vars, module_vars, alive, lost, events>>

(* get_range, for cuMemGetAddressRange: the last allocation that starts at *)
(* or below the unit of the address, if it reaches beyond that unit.       *)
Starts(b) == {u \in Units : ends[u] # None /\ u <= b \div Unit}
GetRange(b) ==
  {u \in Starts(b) : (\A v \in Starts(b) : v <= u) /\ b \div Unit < ends[u]}

-----------------------------------------------------------------------------
(* Modules.                                                                *)

(* Ranges for the first n globals of a module, got one after the other.    *)
Fits(g) == g.align <= Unit /\ UnitsOf(g.size) # 0

Placements(c, n) ==
  {rs \in [1 .. n -> Range] :
     /\ \A k \in 1 .. n : Fits(Globals[c][k]) /\ rs[k] \in FreeRanges(UnitsOf(Globals[c][k].size))
     /\ \A k, l \in 1 .. n : k # l => Span(rs[k]) \cap Span(rs[l]) = {}}

Taken(rs) == UNION {Span(rs[k]) : k \in DOMAIN rs}

(* cuModuleLoadData: the driver loads the module, its globals get ranges.  *)
ModuleLoad(m, c, i) ==
  /\ alive
  /\ code[m] = None
  /\ code' = [code EXCEPT ![m] = c]
  /\ \E rs \in Placements(c, Len(Globals[c])) :
       /\ free' = free \ Taken(rs)
       /\ modules' = [modules EXCEPT ![m] =
            [globals |-> rs, texrefs |-> [x \in TextureNames |-> None]]]
  /\ Insert(i, m)
  /\ UNCHANGED <<functions, args, kernel, ends, asked, lost, alive, events>>

(* A global that is aligned to more than a unit, for which no range is     *)
(* left, or whose initializer cannot be copied, fails the load.  The       *)
(* ranges of the globals before it stay taken, and the module loaded.      *)
ModuleLoadFails(m, c) ==
  /\ alive
  /\ code[m] = None
  /\ code' = [code EXCEPT ![m] = c]
  /\ \E n \in 0 .. Len(Globals[c]) : \E rs \in Placements(c, n) :
       /\ \/ n > 0
          \/ n < Len(Globals[c]) /\ Globals[c][n + 1].align > Unit
          \/ /\ n < Len(Globals[c])
             /\ Fits(Globals[c][n + 1])
             /\ \A r \in FreeRanges(UnitsOf(Globals[c][n + 1].size)) : Span(r) \cap Taken(rs) # {}
       /\ free' = free \ Taken(rs)
       /\ lost' = lost \cup Taken(rs)
  /\ UNCHANGED <<pool_vars, modules, functions, args, kernel, ends, asked, alive, events>>

(* A global without a size stops the server, as a request of cuMemAlloc    *)
(* does.                                                                   *)
ModuleLoadPanics(c) ==
  /\ alive
  /\ \E k \in 1 .. Len(Globals[c]) :
       /\ Globals[c][k].align <= Unit /\ UnitsOf(Globals[c][k].size) = 0
       /\ Placements(c, k - 1) # {}
  /\ Panic

(* cuModuleUnload: ranges and textures of the module are given up, and the *)
(* driver frees it with its functions.  Ids of its functions stay taken,   *)
(* and functions keeps their entries.                                      *)
Freed_Nothing(m) == {}
Freed(m) == Taken(modules[m].globals)

Dropped_ModuleOnly(m, i) == {i}
Dropped(m, i) == {i} \cup {modules[m].texrefs[x] : x \in TextureNames}

Kernels(m) == {f \in FunctionAddrs : kernel[f] # None /\ kernel[f][1] = m}

ModuleUnload(i) ==
  /\ alive
  /\ held[i] \in ModuleAddrs
  /\ LET m == handles[i] IN
       /\ free' = free \cup Freed(m)
       /\ handles' = [j \in Ids |-> IF j \in Dropped(m, i) THEN None ELSE handles[j]]
       /\ held' = [j \in Ids |->
            IF held[j] \in {m} \cup Kernels(m) \cup ({m} \X TextureNames) THEN None ELSE held[j]]
       /\ modules' = [modules EXCEPT ![m] = None]
       /\ code' = [code EXCEPT ![m] = None]
       /\ kernel' = [f \in FunctionAddrs |-> IF f \in Kernels(m) THEN None ELSE kernel[f]]
  /\ UNCHANGED <<functions, args, ends, asked, lost, alive, events>>

(* The driver remembers a module's functions by name.                      *)
FunctionAt(m, name, f) ==
  IF \E g \in FunctionAddrs : kernel[g] = <<m, name>>
    THEN kernel[f] = <<m, name>> /\ UNCHANGED kernel
    ELSE kernel[f] = None /\ kernel' = [kernel EXCEPT ![f] = <<m, name>>]

(* cuModuleGetFunction: an id for every call, globals only for a function  *)
(* that has none.  The client goes on to ask for the parameters; when that *)
(* fails the id is taken all the same.                                     *)
Described_Once(i, m, name) ==
  args' = IF \E j \in Ids : args[j] = <<code[m], name>> THEN args
            ELSE [args EXCEPT ![i] = <<code[m], name>>]
Described(i, m, name) == args' = [args EXCEPT ![i] = <<code[m], name>>]

GetFunction(h, name, f, i) ==
  /\ alive
  /\ held[h] \in ModuleAddrs
  /\ handles[i] = None
  /\ LET m == handles[h] IN
       /\ FunctionAt(m, name, f)
       /\ functions' = [functions EXCEPT ![f] = IF @ = None THEN modules[m].globals ELSE @]
       /\ handles' = [handles EXCEPT ![i] = f]
       /\ \/ Described(i, m, name) /\ held' = [held EXCEPT ![i] = f]
          \/ UNCHANGED <<args, held>>
  /\ UNCHANGED <<memory_vars, modules, code, alive, events>>

(* cuModuleGetTexRef, cuModuleGetSurfRef: an id for every name, once.      *)
GetTexRef(h, x, i) ==
  /\ alive
  /\ held[h] \in ModuleAddrs
  /\ LET m == handles[h]
         known == modules[m].texrefs[x]
     IN IF known # None
          THEN /\ i = known
               /\ held' = [held EXCEPT ![i] = <<m, x>>]
               /\ UNCHANGED <<handles, modules>>
          ELSE /\ Insert(i, <<m, x>>)
               /\ modules' = [modules EXCEPT ![m].texrefs[x] = i]
  /\ UNCHANGED <<memory_vars, functions, args, code, kernel, alive, events>>

(* cuLaunchKernel: the pseudo-pointers to globals a launch of id i passes. *)
LaunchGlobals(i) ==
  LET globals == functions[handles[i]]
  IN [k \in DOMAIN globals |-> globals[k].start * Unit]

-----------------------------------------------------------------------------

Next ==
  \/ \E e \in EventAddrs, i \in Ids : EventCreate(e, i)
  \/ \E i \in Ids : EventDestroy(i)
  \/ \E n \in Requests : MemAlloc(n)
  \/ \E u \in Units : MemFree(u)
  \/ \E m \in ModuleAddrs, c \in Codes, i \in Ids : ModuleLoad(m, c, i)
  \/ \E m \in ModuleAddrs, c \in Codes : ModuleLoadFails(m, c)
  \/ \E c \in Codes : ModuleLoadPanics(c)
  \/ \E i \in Ids : ModuleUnload(i)
  \/ \E h, i \in Ids, name \in FunctionNames, f \in FunctionAddrs : GetFunction(h, name, f, i)
  \/ \E h, i \in Ids, x \in TextureNames : GetTexRef(h, x, i)

Spec == Init /\ [][Next]_vars

-----------------------------------------------------------------------------
(* Safety.                                                                 *)

(* A slot holds the object its id was given out for, for as long as the    *)
(* client may use it; every other slot is vacant or holds a function whose *)
(* module is gone or whose parameters were never learnt.  An unload gives  *)
(* up the ids of exactly that module's textures, however ids and addresses *)
(* are reused.                                                             *)
HandlesResolve ==
  \A i \in Ids :
    /\ held[i] # None => handles[i] = held[i]
    /\ held[i] = None => handles[i] \in FunctionAddrs \cup {None}

(* Every unit is free or has exactly one owner: an allocation, a global of *)
(* a module that is loaded, or a load that failed.  Memory is never handed *)
(* out twice, and only failed loads lose any.                              *)
Allocations(u) == {<<"alloc", s>> : s \in {s \in Units : ends[s] # None /\ u \in s .. ends[s] - 1}}

GlobalsOf(m, u) ==
  {<<"global", m, k>> : k \in {k \in DOMAIN modules[m].globals : u \in Span(modules[m].globals[k])}}

GlobalsAt(u) == UNION {GlobalsOf(m, u) : m \in {m \in ModuleAddrs : modules[m] # None}}
LostAt(u) == {<<"lost", v>> : v \in lost \cap {u}}

Owners(u) == Allocations(u) \cup GlobalsAt(u) \cup LostAt(u)

UnitsAccounted ==
  \A u \in Units : IF u \in free THEN Owners(u) = {} ELSE \E o \in Owners(u) : Owners(u) = {o}

(* The address of any byte the client asked for leads to its allocation    *)
(* and to no other, and an address in no allocation leads to none.         *)
AddressRangeExact ==
  \A b \in 0 .. (LastUnit + 1) * Unit - 1 :
    LET asking == {u \in Units : ends[u] # None /\ b \in u * Unit .. u * Unit + asked[u] - 1}
        within == {u \in Units : ends[u] # None /\ b \in u * Unit .. ends[u] * Unit - 1}
    IN asking \subseteq GetRange(b) /\ GetRange(b) = within

(* A launch lays out its parameters by the signature of the very function  *)
(* its id stands for.                                                      *)
ArgsMatch ==
  \A i \in Ids : held[i] \in FunctionAddrs =>
    LET mn == kernel[held[i]] IN mn # None /\ args[i] = <<code[mn[1]], mn[2]>>

(* What convert_32bit_to_64bit.rs says of a kernel's arguments: for each   *)
(* global of its module, the pseudo-pointer to it.                         *)
LaunchPassesGlobals ==
  \A i \in Ids : held[i] \in FunctionAddrs =>
    LET globals == modules[kernel[held[i]][1]].globals
    IN LaunchGlobals(i) = [k \in DOMAIN globals |-> globals[k].start * Unit]
=============================================================================
