---------------------------- MODULE ServerProofs ----------------------------
(* Proofs about the objects the 64-bit server gives to its client, for any *)
(* pool, memory, modules and requests.                                     *)
EXTENDS ServerState, TLAPS

(* A module whose id the client holds is loaded, and has no other id.      *)
ModulesHeld ==
  \A i \in Ids : held[i] \in ModuleAddrs =>
    /\ modules[held[i]] # None
    /\ \A j \in Ids : held[j] = held[i] => i = j

(* The ids a module remembers for its textures are those the client holds. *)
TexturesHeld ==
  \A m \in ModuleAddrs, x \in TextureNames :
    /\ modules[m] # None /\ modules[m].texrefs[x] # None
         => held[modules[m].texrefs[x]] = <<m, x>>
    /\ \A i \in Ids : held[i] = <<m, x>> => modules[m] # None /\ modules[m].texrefs[x] = i

(* What the server knows of a module or the driver of a kernel outlives    *)
(* neither the code.                                                       *)
CodeLoaded ==
  /\ \A m \in ModuleAddrs : modules[m] # None => code[m] # None
  /\ \A f \in FunctionAddrs : kernel[f] # None => code[kernel[f][1]] # None

PoolInv == TypeOK /\ HandlesResolve /\ ModulesHeld /\ TexturesHeld /\ CodeLoaded /\ ArgsMatch

(* Objects of different kinds are told apart.                              *)
LEMMA Kinds ==
  /\ \A m \in ModuleAddrs : m # None /\ m \notin FunctionAddrs /\ m \notin EventAddrs
  /\ \A f \in FunctionAddrs : f # None /\ f \notin EventAddrs
  /\ \A e \in EventAddrs : e # None
  /\ \A m \in ModuleAddrs, x \in TextureNames :
       <<m, x>> # None /\ <<m, x>> \notin ModuleAddrs \cup FunctionAddrs \cup EventAddrs
<1>1. \A m \in ModuleAddrs, x \in TextureNames : <<m, x>> \in ModuleAddrs \X TextureNames
  OBVIOUS
<1>2. QED
  BY <1>1, ServerAssumption

-----------------------------------------------------------------------------
(* Types.                                                                  *)

LEMMA UnitsNat == ASSUME NEW r \in Range
                  PROVE  r.start \in Units /\ r.end \in 2 .. LastUnit + 1 /\ Span(r) \subseteq Units
<1>1. r.start \in Units /\ r.end \in 2 .. LastUnit + 1 /\ LastUnit \in Nat
  BY ServerAssumption DEF Range
<1>2. QED
  BY <1>1 DEF Span, Units

LEMMA PlacementType ==
  ASSUME NEW c \in Codes, NEW n \in 0 .. Len(Globals[c]), NEW rs \in Placements(c, n)
  PROVE  rs \in Seq(Range) /\ Taken(rs) \subseteq Units
<1>1. Len(Globals[c]) \in Nat
  BY ServerAssumption
<1>2. rs \in [1 .. n -> Range] /\ n \in Nat
  BY <1>1 DEF Placements
<1>3. rs \in Seq(Range)
  BY <1>2
<1>4. \A k \in DOMAIN rs : Span(rs[k]) \subseteq Units
  BY <1>2, UnitsNat
<1>5. QED
  BY <1>3, <1>4 DEF Taken

LEMMA TypeInit == Init => TypeOK
<1> SUFFICES ASSUME Init PROVE TypeOK
  OBVIOUS
<1>1. QED
  BY DEF Init, TypeOK

LEMMA TypePool ==
  ASSUME TypeOK, NEW i \in Ids, NEW object \in Objects, Insert(i, object)
  PROVE  handles' \in [Ids -> Objects \cup {None}] /\ held' \in [Ids -> Objects \cup {None}]
  BY DEF TypeOK, Insert

(* An id of a module leads to a module that is known and loaded.           *)
LEMMA ModuleOf ==
  ASSUME PoolInv, NEW i \in Ids, held[i] \in ModuleAddrs
  PROVE  /\ handles[i] = held[i] /\ modules[handles[i]] \in Module
         /\ modules[handles[i]] # None /\ code[handles[i]] \in Codes
<1>1. held[i] # None
  BY Kinds
<1>2. handles[i] = held[i]
  BY <1>1 DEF PoolInv, HandlesResolve
<1>3. modules[held[i]] # None
  BY DEF PoolInv, ModulesHeld
<1>4. code[held[i]] # None
  BY <1>3 DEF PoolInv, CodeLoaded
<1>5. QED
  BY <1>2, <1>3, <1>4 DEF PoolInv, TypeOK

LEMMA TypeStep == PoolInv /\ [Next]_vars => TypeOK'
<1> SUFFICES ASSUME PoolInv, [Next]_vars PROVE TypeOK'
  OBVIOUS
<1> TypeOK
  BY DEF PoolInv
<1>1. ASSUME NEW e \in EventAddrs, NEW i \in Ids, EventCreate(e, i) PROVE TypeOK'
  <2>1. handles' \in [Ids -> Objects \cup {None}] /\ held' \in [Ids -> Objects \cup {None}]
    BY <1>1, TypePool DEF EventCreate, Objects
  <2>2. events' \subseteq EventAddrs
    BY <1>1 DEF EventCreate, TypeOK
  <2>3. UNCHANGED <<memory_vars, module_vars, alive>>
    BY <1>1 DEF EventCreate
  <2>4. QED
    BY <2>1, <2>2, <2>3 DEF TypeOK, Module, memory_vars, module_vars
<1>2. ASSUME NEW i \in Ids, EventDestroy(i) PROVE TypeOK'
  BY <1>2 DEF EventDestroy, TypeOK, Module, memory_vars, module_vars
<1>3. ASSUME NEW n \in Requests, MemAlloc(n) PROVE TypeOK'
  <2>1. CASE Panic
    BY <2>1 DEF Panic, TypeOK, Module, pool_vars, module_vars
  <2>2. CASE ~Panic
    <3>1. UNCHANGED <<pool_vars, module_vars, lost, alive, events>>
      BY <1>3, <2>2 DEF MemAlloc
    <3>2. PICK r \in FreeRanges(UnitsOf(n)) :
            /\ free' = free \ Span(r)
            /\ ends' = [ends EXCEPT ![r.start] = r.end]
            /\ asked' = [asked EXCEPT ![r.start] = n]
      BY <1>3, <2>2 DEF MemAlloc
    <3>3. r.start \in Units /\ r.end \in 2 .. LastUnit + 1
      BY UnitsNat DEF FreeRanges
    <3>4. n \in Nat
      BY ServerAssumption
    <3>5. /\ free' \subseteq Units /\ ends' \in [Units -> 2 .. LastUnit + 1 \cup {None}]
          /\ asked' \in [Units -> Nat]
      BY <3>2, <3>3, <3>4 DEF TypeOK
    <3>6. QED
      BY <3>1, <3>5 DEF TypeOK, Module, pool_vars, module_vars
  <2>3. QED
    BY <2>1, <2>2
<1>4. ASSUME NEW u \in Units, MemFree(u) PROVE TypeOK'
  <2>1. FreedSpan(u) \subseteq Units
    <3>1. ends[u] \in 2 .. LastUnit + 1 /\ LastUnit \in Nat
      BY <1>4, ServerAssumption DEF MemFree, TypeOK
    <3>2. QED
      BY <3>1 DEF FreedSpan, Units
  <2>2. UNCHANGED <<pool_vars, module_vars, alive, lost, events>>
    BY <1>4 DEF MemFree
  <2>3. /\ free' \subseteq Units /\ ends' \in [Units -> 2 .. LastUnit + 1 \cup {None}]
        /\ asked' \in [Units -> Nat]
    BY <1>4, <2>1 DEF MemFree, TypeOK
  <2>4. QED
    BY <2>2, <2>3 DEF TypeOK, Module, pool_vars, module_vars
<1>5. ASSUME NEW m \in ModuleAddrs, NEW c \in Codes, NEW i \in Ids, ModuleLoad(m, c, i)
      PROVE  TypeOK'
  <2>1. handles' \in [Ids -> Objects \cup {None}] /\ held' \in [Ids -> Objects \cup {None}]
    BY <1>5, TypePool DEF ModuleLoad, Objects
  <2>2. PICK rs \in Placements(c, Len(Globals[c])) :
          /\ free' = free \ Taken(rs)
          /\ modules' = [modules EXCEPT ![m] =
               [globals |-> rs, texrefs |-> [x \in TextureNames |-> None]]]
    BY <1>5 DEF ModuleLoad
  <2>3. Len(Globals[c]) \in 0 .. Len(Globals[c])
    BY ServerAssumption
  <2>4. rs \in Seq(Range)
    BY <2>3, PlacementType
  <2>5. [globals |-> rs, texrefs |-> [x \in TextureNames |-> None]] \in Module
    BY <2>4 DEF Module
  <2>6. modules' \in [ModuleAddrs -> {None} \cup Module] /\ free' \subseteq Units
    BY <2>2, <2>5 DEF TypeOK
  <2>7. code' \in [ModuleAddrs -> Codes \cup {None}]
    BY <1>5 DEF ModuleLoad, TypeOK
  <2>8. UNCHANGED <<functions, args, kernel, ends, asked, lost, alive, events>>
    BY <1>5 DEF ModuleLoad
  <2>9. QED
    BY <2>1, <2>6, <2>7, <2>8 DEF TypeOK
<1>6. ASSUME NEW m \in ModuleAddrs, NEW c \in Codes, ModuleLoadFails(m, c) PROVE TypeOK'
  <2>1. PICK n \in 0 .. Len(Globals[c]) : \E rs \in Placements(c, n) :
          free' = free \ Taken(rs) /\ lost' = lost \cup Taken(rs)
    BY <1>6 DEF ModuleLoadFails
  <2>2. free' \subseteq Units /\ lost' \subseteq Units
    BY <2>1, PlacementType DEF TypeOK
  <2>3. code' \in [ModuleAddrs -> Codes \cup {None}]
    BY <1>6 DEF ModuleLoadFails, TypeOK
  <2>4. UNCHANGED <<pool_vars, modules, functions, args, kernel, ends, asked, alive, events>>
    BY <1>6 DEF ModuleLoadFails
  <2>5. QED
    BY <2>2, <2>3, <2>4 DEF TypeOK, pool_vars
<1>7. ASSUME NEW c \in Codes, ModuleLoadPanics(c) PROVE TypeOK'
  BY <1>7 DEF ModuleLoadPanics, Panic, TypeOK, Module, pool_vars, module_vars
<1>8. ASSUME NEW i \in Ids, ModuleUnload(i) PROVE TypeOK'
  <2> DEFINE m == handles[i]
  <2>1. m \in ModuleAddrs /\ modules[m] \in Module
    BY <1>8, ModuleOf DEF ModuleUnload
  <2>2. Freed(m) \subseteq Units
    <3>1. modules[m].globals \in Seq(Range)
      BY <2>1 DEF Module
    <3>2. \A k \in DOMAIN modules[m].globals : Span(modules[m].globals[k]) \subseteq Units
      BY <3>1, UnitsNat
    <3>3. QED
      BY <3>2 DEF Freed, Taken
  <2>3. free' \subseteq Units
    BY <1>8, <2>2 DEF ModuleUnload, TypeOK
  <2>4. handles' \in [Ids -> Objects \cup {None}]
    BY <1>8 DEF ModuleUnload, TypeOK
  <2>5. held' \in [Ids -> Objects \cup {None}]
    BY <1>8 DEF ModuleUnload, TypeOK
  <2>6. modules' \in [ModuleAddrs -> {None} \cup Module] /\ code' \in [ModuleAddrs -> Codes \cup {None}]
    BY <1>8 DEF ModuleUnload, TypeOK
  <2>7. kernel' \in [FunctionAddrs -> (ModuleAddrs \X FunctionNames) \cup {None}]
    BY <1>8 DEF ModuleUnload, TypeOK
  <2>8. UNCHANGED <<functions, args, ends, asked, lost, alive, events>>
    BY <1>8 DEF ModuleUnload
  <2>9. QED
    BY <2>3, <2>4, <2>5, <2>6, <2>7, <2>8 DEF TypeOK
<1>9. ASSUME NEW h \in Ids, NEW i \in Ids, NEW name \in FunctionNames, NEW f \in FunctionAddrs,
             GetFunction(h, name, f, i)
      PROVE  TypeOK'
  <2> DEFINE m == handles[h]
  <2>1. m \in ModuleAddrs /\ modules[m] \in Module /\ code[m] \in Codes
    BY <1>9, ModuleOf DEF GetFunction
  <2>2. kernel' \in [FunctionAddrs -> (ModuleAddrs \X FunctionNames) \cup {None}]
    <3>1. UNCHANGED kernel \/ kernel' = [kernel EXCEPT ![f] = <<m, name>>]
      BY <1>9 DEF GetFunction, FunctionAt
    <3>2. <<m, name>> \in ModuleAddrs \X FunctionNames
      BY <2>1
    <3>3. kernel \in [FunctionAddrs -> (ModuleAddrs \X FunctionNames) \cup {None}]
      BY DEF TypeOK
    <3> HIDE DEF m
    <3>4. QED
      BY <3>1, <3>2, <3>3
  <2>3. functions' \in [FunctionAddrs -> {None} \cup Seq(Range)]
    <3>1. modules[m].globals \in Seq(Range)
      BY <2>1 DEF Module
    <3>2. functions' = [functions EXCEPT ![f] = IF @ = None THEN modules[m].globals ELSE @]
      BY <1>9 DEF GetFunction
    <3>3. QED
      BY <3>1, <3>2 DEF TypeOK
  <2>4. handles' \in [Ids -> Objects \cup {None}]
    BY <1>9 DEF GetFunction, TypeOK, Objects
  <2>5. held' \in [Ids -> Objects \cup {None}] /\ args' \in [Ids -> (Codes \X FunctionNames) \cup {None}]
    <3>1. CASE Described(i, m, name) /\ held' = [held EXCEPT ![i] = f]
      BY <2>1, <3>1 DEF Described, TypeOK, Objects
    <3>2. QED
      BY <1>9, <3>1 DEF GetFunction, TypeOK
  <2>6. UNCHANGED <<memory_vars, modules, code, alive, events>>
    BY <1>9 DEF GetFunction
  <2>7. QED
    BY <2>2, <2>3, <2>4, <2>5, <2>6 DEF TypeOK, memory_vars
<1>10. ASSUME NEW h \in Ids, NEW i \in Ids, NEW x \in TextureNames, GetTexRef(h, x, i)
       PROVE  TypeOK'
  <2> DEFINE m == handles[h]
  <2>1. m \in ModuleAddrs /\ modules[m] \in Module
    BY <1>10, ModuleOf DEF GetTexRef
  <2>2. UNCHANGED <<memory_vars, functions, args, code, kernel, alive, events>>
    BY <1>10 DEF GetTexRef
  <2>3. <<m, x>> \in Objects
    BY <2>1 DEF Objects
  <2>4. CASE modules[m].texrefs[x] # None
    <3>1. held' = [held EXCEPT ![i] = <<m, x>>] /\ UNCHANGED <<handles, modules>>
      BY <1>10, <2>4 DEF GetTexRef
    <3>2. held' \in [Ids -> Objects \cup {None}]
      BY <2>3, <3>1 DEF TypeOK
    <3>3. QED
      BY <2>2, <3>1, <3>2 DEF TypeOK, memory_vars
  <2>5. CASE modules[m].texrefs[x] = None
    <3>1. Insert(i, <<m, x>>) /\ modules' = [modules EXCEPT ![m].texrefs[x] = i]
      BY <1>10, <2>5 DEF GetTexRef
    <3>2. handles' \in [Ids -> Objects \cup {None}] /\ held' \in [Ids -> Objects \cup {None}]
      BY <2>3, <3>1, TypePool
    <3>3. modules' \in [ModuleAddrs -> {None} \cup Module]
      <4>1. [modules[m] EXCEPT !.texrefs[x] = i] \in Module
        BY <2>1 DEF Module
      <4>2. modules' = [modules EXCEPT ![m] = [modules[m] EXCEPT !.texrefs[x] = i]]
        BY <2>1, <3>1 DEF TypeOK
      <4>3. QED
        BY <4>1, <4>2 DEF TypeOK
    <3>4. QED
      BY <2>2, <3>2, <3>3 DEF TypeOK, memory_vars
  <2>6. QED
    BY <2>4, <2>5
<1>11. CASE UNCHANGED vars
  BY <1>11 DEF TypeOK, Module, vars, pool_vars, memory_vars, module_vars
<1>12. QED
  BY <1>1, <1>2, <1>3, <1>4, <1>5, <1>6, <1>7, <1>8, <1>9, <1>10, <1>11 DEF Next

-----------------------------------------------------------------------------
(* Ids and what they stand for.                                            *)

Pool == HandlesResolve /\ ModulesHeld /\ TexturesHeld /\ CodeLoaded /\ ArgsMatch

(* The id remembered for a texture is the one held for it, and no other.   *)
LEMMA TextureKnown ==
  ASSUME PoolInv, NEW m \in ModuleAddrs, NEW x \in TextureNames,
         modules[m] # None, modules[m].texrefs[x] # None
  PROVE  modules[m].texrefs[x] \in Ids /\ held[modules[m].texrefs[x]] = <<m, x>>
BY DEF PoolInv, TexturesHeld, TypeOK, Module

LEMMA TextureOf ==
  ASSUME PoolInv, NEW m \in ModuleAddrs, NEW x \in TextureNames, NEW i \in Ids,
         held[i] = <<m, x>>
  PROVE  modules[m] # None /\ modules[m].texrefs[x] = i
BY DEF PoolInv, TexturesHeld

(* Steps that touch neither the pool nor the modules.                      *)
LEMMA PoolSame ==
  ASSUME PoolInv, UNCHANGED <<pool_vars, module_vars>>
  PROVE  Pool'
<1>1. UNCHANGED <<handles, held, modules, functions, args, code, kernel>>
  BY DEF pool_vars, module_vars
<1>2. Pool
  BY DEF PoolInv, Pool
<1>3. QED
  BY <1>1, <1>2 DEF Pool, HandlesResolve, ModulesHeld, TexturesHeld, CodeLoaded, ArgsMatch

(* An object that enters a vacant slot is held by that id only.            *)
LEMMA PoolInsert ==
  ASSUME PoolInv, NEW i \in Ids, NEW object \in Objects, Insert(i, object)
  PROVE  /\ held[i] = None /\ HandlesResolve'
         /\ held'[i] = object
         /\ \A j \in Ids : j # i => held'[j] = held[j]
<1>1. handles[i] = None /\ object # None
  BY ServerAssumption DEF Insert, Objects
<1>2. held[i] = None
  BY <1>1 DEF PoolInv, HandlesResolve
<1>3. held'[i] = object /\ \A j \in Ids : j # i => held'[j] = held[j]
  BY DEF Insert, PoolInv, TypeOK
<1>4. handles'[i] = object /\ \A j \in Ids : j # i => handles'[j] = handles[j]
  BY DEF Insert, PoolInv, TypeOK
<1>5. QED
  BY <1>1, <1>2, <1>3, <1>4 DEF HandlesResolve, PoolInv

LEMMA PoolEventCreate ==
  ASSUME PoolInv, NEW e \in EventAddrs, NEW i \in Ids, EventCreate(e, i)
  PROVE  Pool'
<1>1. UNCHANGED <<modules, functions, args, code, kernel>>
  BY DEF EventCreate, module_vars
<1>2. /\ held[i] = None /\ HandlesResolve' /\ held'[i] = e
      /\ \A j \in Ids : j # i => held'[j] = held[j]
  BY PoolInsert DEF EventCreate, Objects
<1>3. ModulesHeld'
  BY <1>1, <1>2, Kinds DEF PoolInv, ModulesHeld
<1>4. TexturesHeld'
  <2> SUFFICES ASSUME NEW m \in ModuleAddrs, NEW x \in TextureNames
               PROVE  /\ modules[m] # None /\ modules[m].texrefs[x] # None
                           => held'[modules[m].texrefs[x]] = <<m, x>>
                      /\ \A j \in Ids : held'[j] = <<m, x>>
                           => modules[m] # None /\ modules[m].texrefs[x] = j
    BY <1>1 DEF TexturesHeld
  <2>1. ASSUME modules[m] # None, modules[m].texrefs[x] # None
        PROVE  held'[modules[m].texrefs[x]] = <<m, x>>
    <3>1. modules[m].texrefs[x] \in Ids /\ held[modules[m].texrefs[x]] = <<m, x>>
      BY <2>1, TextureKnown
    <3>2. QED
      BY <3>1, <1>2, Kinds
  <2>2. ASSUME NEW j \in Ids, held'[j] = <<m, x>>
        PROVE  modules[m] # None /\ modules[m].texrefs[x] = j
    <3>1. j # i
      BY <2>2, <1>2, Kinds
    <3>2. held[j] = <<m, x>>
      BY <2>2, <3>1, <1>2
    <3>3. QED
      BY <3>2, TextureOf
  <2>3. QED
    BY <2>1, <2>2
<1>5. CodeLoaded'
  BY <1>1 DEF PoolInv, CodeLoaded
<1>6. ArgsMatch'
  BY <1>1, <1>2, Kinds DEF PoolInv, ArgsMatch
<1>7. QED
  BY <1>2, <1>3, <1>4, <1>5, <1>6 DEF Pool

LEMMA PoolEventDestroy ==
  ASSUME PoolInv, NEW i \in Ids, EventDestroy(i)
  PROVE  Pool'
<1>1. UNCHANGED <<modules, functions, args, code, kernel>>
  BY DEF EventDestroy, module_vars
<1>2. /\ held[i] \in EventAddrs /\ handles'[i] = None /\ held'[i] = None
      /\ \A j \in Ids : j # i => held'[j] = held[j] /\ handles'[j] = handles[j]
  BY DEF EventDestroy, PoolInv, TypeOK
<1>3. HandlesResolve'
  BY <1>2 DEF PoolInv, HandlesResolve
<1>4. ModulesHeld'
  BY <1>1, <1>2, Kinds DEF PoolInv, ModulesHeld
<1>5. TexturesHeld'
  <2> SUFFICES ASSUME NEW m \in ModuleAddrs, NEW x \in TextureNames
               PROVE  /\ modules[m] # None /\ modules[m].texrefs[x] # None
                           => held'[modules[m].texrefs[x]] = <<m, x>>
                      /\ \A j \in Ids : held'[j] = <<m, x>>
                           => modules[m] # None /\ modules[m].texrefs[x] = j
    BY <1>1 DEF TexturesHeld
  <2>1. ASSUME modules[m] # None, modules[m].texrefs[x] # None
        PROVE  held'[modules[m].texrefs[x]] = <<m, x>>
    <3>1. modules[m].texrefs[x] \in Ids /\ held[modules[m].texrefs[x]] = <<m, x>>
      BY <2>1, TextureKnown
    <3>2. modules[m].texrefs[x] # i
      BY <3>1, <1>2, Kinds
    <3>3. QED
      BY <3>1, <3>2, <1>2
  <2>2. ASSUME NEW j \in Ids, held'[j] = <<m, x>>
        PROVE  modules[m] # None /\ modules[m].texrefs[x] = j
    <3>1. j # i
      BY <2>2, <1>2, Kinds
    <3>2. held[j] = <<m, x>>
      BY <2>2, <3>1, <1>2
    <3>3. QED
      BY <3>2, TextureOf
  <2>3. QED
    BY <2>1, <2>2
<1>6. CodeLoaded'
  BY <1>1 DEF PoolInv, CodeLoaded
<1>7. ArgsMatch'
  BY <1>1, <1>2, Kinds DEF PoolInv, ArgsMatch
<1>8. QED
  BY <1>3, <1>4, <1>5, <1>6, <1>7 DEF Pool

LEMMA PoolModuleLoad ==
  ASSUME PoolInv, NEW m \in ModuleAddrs, NEW c \in Codes, NEW i \in Ids, ModuleLoad(m, c, i)
  PROVE  Pool'
<1>1. /\ held[i] = None /\ HandlesResolve' /\ held'[i] = m
      /\ \A j \in Ids : j # i => held'[j] = held[j]
  BY PoolInsert DEF ModuleLoad, Objects
<1>2. code[m] = None /\ modules[m] = None
  BY DEF ModuleLoad, PoolInv, CodeLoaded
<1>3. /\ code'[m] = c /\ c # None
      /\ \A n \in ModuleAddrs : n # m => code'[n] = code[n] /\ modules'[n] = modules[n]
  BY ServerAssumption DEF ModuleLoad, PoolInv, TypeOK
<1>4. modules'[m] # None /\ \A x \in TextureNames : modules'[m].texrefs[x] = None
  <2>1. PICK rs \in Placements(c, Len(Globals[c])) :
          modules' = [modules EXCEPT ![m] =
            [globals |-> rs, texrefs |-> [x \in TextureNames |-> None]]]
    BY DEF ModuleLoad
  <2>2. modules'[m] = [globals |-> rs, texrefs |-> [x \in TextureNames |-> None]]
    BY <2>1 DEF PoolInv, TypeOK
  <2>3. Len(Globals[c]) \in 0 .. Len(Globals[c])
    BY ServerAssumption
  <2>4. rs \in Seq(Range)
    BY <2>3, PlacementType
  <2>5. modules'[m] \in Module
    BY <2>2, <2>4 DEF Module
  <2>6. QED
    BY <2>2, <2>5, ServerAssumption
<1>5. UNCHANGED <<args, kernel>>
  BY DEF ModuleLoad
<1>6. \A j \in Ids : held[j] # m
  BY <1>2 DEF PoolInv, ModulesHeld
<1>7. ModulesHeld'
  BY <1>1, <1>3, <1>4, <1>6 DEF PoolInv, ModulesHeld
<1>8. TexturesHeld'
  <2> SUFFICES ASSUME NEW n \in ModuleAddrs, NEW x \in TextureNames
               PROVE  /\ modules'[n] # None /\ modules'[n].texrefs[x] # None
                           => held'[modules'[n].texrefs[x]] = <<n, x>>
                      /\ \A j \in Ids : held'[j] = <<n, x>>
                           => modules'[n] # None /\ modules'[n].texrefs[x] = j
    BY DEF TexturesHeld
  <2>1. CASE n = m
    <3>1. modules'[n].texrefs[x] = None
      BY <1>4, <2>1
    <3>2. \A j \in Ids : held[j] # <<n, x>>
      BY <1>2, <2>1, TextureOf
    <3>3. \A j \in Ids : held'[j] # <<n, x>>
      BY <3>2, <1>1, Kinds
    <3>4. QED
      BY <3>1, <3>3
  <2>2. CASE n # m
    <3>1. ASSUME modules[n] # None, modules[n].texrefs[x] # None
          PROVE  held'[modules[n].texrefs[x]] = <<n, x>>
      <4>1. modules[n].texrefs[x] \in Ids /\ held[modules[n].texrefs[x]] = <<n, x>>
        BY <3>1, TextureKnown
      <4>2. QED
        BY <4>1, <1>1, Kinds
    <3>2. ASSUME NEW j \in Ids, held'[j] = <<n, x>>
          PROVE  modules[n] # None /\ modules[n].texrefs[x] = j
      <4>1. j # i
        BY <3>2, <1>1, Kinds
      <4>2. held[j] = <<n, x>>
        BY <3>2, <4>1, <1>1
      <4>3. QED
        BY <4>2, TextureOf
    <3>3. modules'[n] = modules[n]
      BY <1>3, <2>2
    <3>4. QED
      BY <3>1, <3>2, <3>3
  <2>3. QED
    BY <2>1, <2>2
<1>9. CodeLoaded'
  BY <1>2, <1>3, <1>5 DEF PoolInv, CodeLoaded, TypeOK
<1>10. ArgsMatch'
  <2>1. \A f \in FunctionAddrs : kernel[f] # None => kernel[f][1] \in ModuleAddrs \ {m}
    BY <1>2 DEF PoolInv, CodeLoaded, TypeOK
  <2>2. QED
    BY <2>1, <1>1, <1>3, <1>5, Kinds DEF PoolInv, ArgsMatch
<1>11. QED
  BY <1>1, <1>7, <1>8, <1>9, <1>10 DEF Pool

LEMMA PoolModuleLoadFails ==
  ASSUME PoolInv, NEW m \in ModuleAddrs, NEW c \in Codes, ModuleLoadFails(m, c)
  PROVE  Pool'
<1>1. UNCHANGED <<handles, held, modules, args, kernel>>
  BY DEF ModuleLoadFails, pool_vars
<1>2. code[m] = None /\ modules[m] = None
  BY DEF ModuleLoadFails, PoolInv, CodeLoaded
<1>3. code'[m] # None /\ \A n \in ModuleAddrs : n # m => code'[n] = code[n]
  BY ServerAssumption DEF ModuleLoadFails, PoolInv, TypeOK
<1>4. HandlesResolve' /\ ModulesHeld' /\ TexturesHeld'
  BY <1>1 DEF PoolInv, HandlesResolve, ModulesHeld, TexturesHeld
<1>5. \A f \in FunctionAddrs : kernel[f] # None => kernel[f][1] \in ModuleAddrs \ {m}
  BY <1>2 DEF PoolInv, CodeLoaded, TypeOK
<1>6. CodeLoaded'
  BY <1>1, <1>2, <1>3, <1>5 DEF PoolInv, CodeLoaded
<1>7. ArgsMatch'
  BY <1>1, <1>3, <1>5 DEF PoolInv, ArgsMatch
<1>8. QED
  BY <1>4, <1>6, <1>7 DEF Pool

(* An unload vacates the slots of the module and of its textures, and      *)
(* these are the ids the client no longer uses, with those of its kernels. *)
LEMMA PoolModuleUnload ==
  ASSUME PoolInv, NEW i \in Ids, ModuleUnload(i)
  PROVE  Pool'
<1> DEFINE m == handles[i]
<1>1. m \in ModuleAddrs /\ held[i] = m /\ modules[m] \in Module /\ modules[m] # None
  BY ModuleOf DEF ModuleUnload
<1>2. /\ \A j \in Ids : handles'[j] = IF j \in Dropped(m, i) THEN None ELSE handles[j]
      /\ \A j \in Ids : held'[j] =
           IF held[j] \in {m} \cup Kernels(m) \cup ({m} \X TextureNames) THEN None ELSE held[j]
      /\ \A f \in FunctionAddrs : kernel'[f] = IF f \in Kernels(m) THEN None ELSE kernel[f]
      /\ UNCHANGED args
  BY DEF ModuleUnload
<1>3. /\ modules'[m] = None
      /\ \A n \in ModuleAddrs : n # m => modules'[n] = modules[n] /\ code'[n] = code[n]
  BY <1>1 DEF ModuleUnload, PoolInv, TypeOK
<1>4. held[i] # None /\ m # None
  BY <1>1, Kinds
<1> HIDE DEF m
<1>5. \A j \in Ids : held[j] = m => j = i
  BY <1>1 DEF PoolInv, ModulesHeld
<1>6. \A x \in TextureNames : \A j \in Ids : held[j] = <<m, x>> => modules[m].texrefs[x] = j
  BY <1>1, TextureOf
<1>7. \A x \in TextureNames :
        modules[m].texrefs[x] # None => held[modules[m].texrefs[x]] = <<m, x>>
  BY <1>1, TextureKnown
<1>8. ASSUME NEW j \in Ids, j \in Dropped(m, i)
      PROVE  held'[j] = None
  <2>1. CASE j = i
    BY <2>1, <1>1, <1>2
  <2>2. CASE j # i
    <3>1. PICK x \in TextureNames : j = modules[m].texrefs[x]
      BY <1>8, <2>2 DEF Dropped
    <3>2. j # None
      BY ServerAssumption
    <3>3. held[j] = <<m, x>>
      BY <3>1, <3>2, <1>7
    <3>4. QED
      BY <3>3, <1>2
  <2>3. QED
    BY <2>1, <2>2
<1>9. ASSUME NEW j \in Ids, j \notin Dropped(m, i), held'[j] = None
      PROVE  handles[j] \in FunctionAddrs \cup {None}
  <2>1. CASE held[j] = None
    BY <2>1 DEF PoolInv, HandlesResolve
  <2>2. CASE held[j] # None
    <3>1. handles[j] = held[j]
      BY <2>2 DEF PoolInv, HandlesResolve
    <3>2. held[j] # m
      BY <1>9, <1>5 DEF Dropped
    <3>3. held[j] \notin {m} \X TextureNames
      BY <1>9, <1>6 DEF Dropped
    <3>4. held[j] \in Kernels(m)
      BY <1>9, <1>2, <2>2, <3>2, <3>3
    <3>5. QED
      BY <3>1, <3>4 DEF Kernels
  <2>3. QED
    BY <2>1, <2>2
<1>10. HandlesResolve'
  <2> SUFFICES ASSUME NEW j \in Ids
               PROVE  /\ held'[j] # None => handles'[j] = held'[j]
                      /\ held'[j] = None => handles'[j] \in FunctionAddrs \cup {None}
    BY DEF HandlesResolve
  <2>1. CASE j \in Dropped(m, i)
    BY <2>1, <1>2, <1>8
  <2>2. CASE j \notin Dropped(m, i)
    <3>1. handles'[j] = handles[j]
      BY <2>2, <1>2
    <3>2. ASSUME held'[j] # None PROVE handles[j] = held'[j]
      <4>1. held'[j] = held[j] /\ held[j] # None
        BY <3>2, <1>2
      <4>2. QED
        BY <4>1 DEF PoolInv, HandlesResolve
    <3>3. QED
      BY <3>1, <3>2, <2>2, <1>9
  <2>3. QED
    BY <2>1, <2>2
<1>11. \A j \in Ids : held'[j] # None =>
         held'[j] = held[j] /\ held[j] \notin {m} \cup Kernels(m) \cup ({m} \X TextureNames)
  BY <1>2
<1>12. ModulesHeld'
  <2> SUFFICES ASSUME NEW j \in Ids, held'[j] \in ModuleAddrs
               PROVE  /\ modules'[held'[j]] # None
                      /\ \A k \in Ids : held'[k] = held'[j] => j = k
    BY DEF ModulesHeld
  <2>1. held'[j] = held[j] /\ held[j] # m
    BY <1>11, Kinds
  <2>2. modules[held[j]] # None /\ \A k \in Ids : held[k] = held[j] => j = k
    BY <2>1 DEF PoolInv, ModulesHeld
  <2>3. modules'[held[j]] # None
    BY <2>1, <2>2, <1>3
  <2>4. ASSUME NEW k \in Ids, held'[k] = held'[j] PROVE j = k
    BY <2>1, <2>2, <2>4, <1>11, Kinds
  <2>5. QED
    BY <2>1, <2>3, <2>4
<1>13. TexturesHeld'
  <2> SUFFICES ASSUME NEW n \in ModuleAddrs, NEW x \in TextureNames
               PROVE  /\ modules'[n] # None /\ modules'[n].texrefs[x] # None
                           => held'[modules'[n].texrefs[x]] = <<n, x>>
                      /\ \A j \in Ids : held'[j] = <<n, x>>
                           => modules'[n] # None /\ modules'[n].texrefs[x] = j
    BY DEF TexturesHeld
  <2>1. ASSUME modules'[n] # None, modules'[n].texrefs[x] # None
        PROVE  held'[modules'[n].texrefs[x]] = <<n, x>>
    <3>1. n # m /\ modules'[n] = modules[n]
      BY <2>1, <1>3
    <3>2. modules[n].texrefs[x] \in Ids /\ held[modules[n].texrefs[x]] = <<n, x>>
      BY <2>1, <3>1, TextureKnown
    <3>3. <<n, x>> \notin {m} \cup Kernels(m) \cup ({m} \X TextureNames)
      BY <3>1, <1>1, Kinds DEF Kernels
    <3>4. QED
      BY <3>1, <3>2, <3>3, <1>2
  <2>2. ASSUME NEW j \in Ids, held'[j] = <<n, x>>
        PROVE  modules'[n] # None /\ modules'[n].texrefs[x] = j
    <3>1. held[j] = <<n, x>> /\ held[j] \notin {m} \X TextureNames
      BY <2>2, <1>11, Kinds
    <3>2. modules[n] # None /\ modules[n].texrefs[x] = j
      BY <3>1, TextureOf
    <3>3. n # m
      BY <3>1
    <3>4. QED
      BY <3>2, <3>3, <1>3
  <2>3. QED
    BY <2>1, <2>2
<1>14. \A f \in FunctionAddrs : kernel'[f] # None => kernel'[f] = kernel[f] /\ kernel[f][1] # m
  BY <1>2 DEF Kernels
<1>15. CodeLoaded'
  BY <1>3, <1>14 DEF PoolInv, CodeLoaded, TypeOK
<1>16. ArgsMatch'
  <2> SUFFICES ASSUME NEW j \in Ids, held'[j] \in FunctionAddrs
               PROVE  /\ kernel'[held'[j]] # None
                      /\ args'[j] = <<code'[kernel'[held'[j]][1]], kernel'[held'[j]][2]>>
    BY DEF ArgsMatch
  <2>1. held'[j] = held[j] /\ held[j] \notin Kernels(m)
    BY <1>11, Kinds
  <2>2. /\ kernel[held[j]] # None
        /\ args[j] = <<code[kernel[held[j]][1]], kernel[held[j]][2]>>
    BY <2>1 DEF PoolInv, ArgsMatch
  <2>3. kernel'[held[j]] = kernel[held[j]] /\ kernel[held[j]][1] # m
    BY <2>1, <2>2, <1>2 DEF Kernels
  <2>4. kernel[held[j]][1] \in ModuleAddrs
    BY <2>1, <2>2 DEF PoolInv, TypeOK
  <2>5. code'[kernel[held[j]][1]] = code[kernel[held[j]][1]]
    BY <2>3, <2>4, <1>3
  <2>6. QED
    BY <2>1, <2>2, <2>3, <2>5, <1>2
<1>17. QED
  BY <1>10, <1>12, <1>13, <1>15, <1>16 DEF Pool

(* The function at an address is the one asked for, and no other function  *)
(* becomes another.                                                        *)
LEMMA FunctionAtKernel ==
  ASSUME PoolInv, NEW m \in ModuleAddrs, NEW name \in FunctionNames, NEW f \in FunctionAddrs,
         FunctionAt(m, name, f)
  PROVE  /\ kernel'[f] = <<m, name>>
         /\ \A g \in FunctionAddrs : kernel[g] # None => kernel'[g] = kernel[g]
         /\ \A g \in FunctionAddrs : g # f => kernel'[g] = kernel[g]
<1>1. CASE kernel[f] = <<m, name>> /\ UNCHANGED kernel
  BY <1>1
<1>2. CASE kernel[f] = None /\ kernel' = [kernel EXCEPT ![f] = <<m, name>>]
  <2>1. kernel \in [FunctionAddrs -> (ModuleAddrs \X FunctionNames) \cup {None}]
    BY DEF PoolInv, TypeOK
  <2>2. QED
    BY <1>2, <2>1
<1>3. QED
  BY <1>1, <1>2 DEF FunctionAt

LEMMA PoolGetFunction ==
  ASSUME PoolInv, NEW h \in Ids, NEW i \in Ids, NEW name \in FunctionNames,
         NEW f \in FunctionAddrs, GetFunction(h, name, f, i)
  PROVE  Pool'
<1> DEFINE m == handles[h]
<1>1. m \in ModuleAddrs /\ code[m] # None
  BY ModuleOf, ServerAssumption DEF GetFunction
<1>2. /\ FunctionAt(m, name, f) /\ UNCHANGED <<modules, code>>
      /\ handles[i] = None /\ handles' = [handles EXCEPT ![i] = f]
      /\ \/ Described(i, m, name) /\ held' = [held EXCEPT ![i] = f]
         \/ UNCHANGED <<args, held>>
  BY DEF GetFunction
<1> HIDE DEF m
<1>3. /\ kernel'[f] = <<m, name>>
      /\ \A g \in FunctionAddrs : kernel[g] # None => kernel'[g] = kernel[g]
      /\ \A g \in FunctionAddrs : g # f => kernel'[g] = kernel[g]
  BY <1>1, <1>2, FunctionAtKernel
<1>4. held[i] = None
  BY <1>2 DEF PoolInv, HandlesResolve
<1>5. handles'[i] = f /\ \A j \in Ids : j # i => handles'[j] = handles[j]
  BY <1>2 DEF PoolInv, TypeOK
<1>6. CodeLoaded'
  BY <1>1, <1>2, <1>3 DEF PoolInv, CodeLoaded
<1>7. CASE UNCHANGED <<args, held>>
  <2>1. HandlesResolve'
    BY <1>4, <1>5, <1>7 DEF PoolInv, HandlesResolve
  <2>2. ModulesHeld' /\ TexturesHeld'
    BY <1>2, <1>7 DEF PoolInv, ModulesHeld, TexturesHeld
  <2>3. ArgsMatch'
    BY <1>2, <1>3, <1>7 DEF PoolInv, ArgsMatch
  <2>4. QED
    BY <1>6, <2>1, <2>2, <2>3 DEF Pool
<1>8. CASE Described(i, m, name) /\ held' = [held EXCEPT ![i] = f]
  <2>1. held'[i] = f /\ \A j \in Ids : j # i => held'[j] = held[j]
    BY <1>8 DEF PoolInv, TypeOK
  <2>2. args'[i] = <<code[m], name>> /\ \A j \in Ids : j # i => args'[j] = args[j]
    BY <1>8 DEF Described, PoolInv, TypeOK
  <2>3. HandlesResolve'
    BY <1>5, <2>1, Kinds DEF PoolInv, HandlesResolve
  <2>4. \A j \in Ids : held'[j] \notin FunctionAddrs => j # i /\ held'[j] = held[j]
    BY <2>1
  <2>5. ModulesHeld'
    <3> SUFFICES ASSUME NEW j \in Ids, held'[j] \in ModuleAddrs
                 PROVE  modules[held'[j]] # None /\ \A k \in Ids : held'[k] = held'[j] => j = k
      BY <1>2 DEF ModulesHeld
    <3>1. held'[j] = held[j] /\ \A k \in Ids : held'[k] = held'[j] => held[k] = held[j]
      BY <2>4, Kinds
    <3>2. QED
      BY <3>1 DEF PoolInv, ModulesHeld
  <2>6. TexturesHeld'
    <3> SUFFICES ASSUME NEW n \in ModuleAddrs, NEW x \in TextureNames
                 PROVE  /\ modules[n] # None /\ modules[n].texrefs[x] # None
                             => held'[modules[n].texrefs[x]] = <<n, x>>
                        /\ \A j \in Ids : held'[j] = <<n, x>>
                             => modules[n] # None /\ modules[n].texrefs[x] = j
      BY <1>2 DEF TexturesHeld
    <3>1. ASSUME modules[n] # None, modules[n].texrefs[x] # None
          PROVE  held'[modules[n].texrefs[x]] = <<n, x>>
      <4>1. modules[n].texrefs[x] \in Ids /\ held[modules[n].texrefs[x]] = <<n, x>>
        BY <3>1, TextureKnown
      <4>2. QED
        BY <4>1, <1>4, <2>1, Kinds
    <3>2. ASSUME NEW j \in Ids, held'[j] = <<n, x>>
          PROVE  modules[n] # None /\ modules[n].texrefs[x] = j
      <4>1. held[j] = <<n, x>>
        BY <3>2, <2>4, Kinds
      <4>2. QED
        BY <4>1, TextureOf
    <3>3. QED
      BY <3>1, <3>2
  <2>7. ArgsMatch'
    <3> SUFFICES ASSUME NEW j \in Ids, held'[j] \in FunctionAddrs
                 PROVE  /\ kernel'[held'[j]] # None
                        /\ args'[j] = <<code[kernel'[held'[j]][1]], kernel'[held'[j]][2]>>
      BY <1>2 DEF ArgsMatch
    <3>1. CASE j = i
      <4>1. kernel'[f] # None
        BY <1>1, <1>3, ServerAssumption
      <4>2. QED
        BY <3>1, <4>1, <1>3, <2>1, <2>2
    <3>2. CASE j # i
      BY <3>2, <1>3, <2>1, <2>2 DEF PoolInv, ArgsMatch
    <3>3. QED
      BY <3>1, <3>2
  <2>8. QED
    BY <1>6, <2>3, <2>5, <2>6, <2>7 DEF Pool
<1>9. QED
  BY <1>2, <1>7, <1>8

LEMMA PoolGetTexRef ==
  ASSUME PoolInv, NEW h \in Ids, NEW i \in Ids, NEW x \in TextureNames, GetTexRef(h, x, i)
  PROVE  Pool'
<1> DEFINE m == handles[h]
<1>1. m \in ModuleAddrs /\ modules[m] \in Module /\ modules[m] # None
  BY ModuleOf DEF GetTexRef
<1>2. UNCHANGED <<functions, args, code, kernel>>
  BY DEF GetTexRef
<1>3. CASE modules[m].texrefs[x] # None
  <2>1. /\ i = modules[m].texrefs[x] /\ held' = [held EXCEPT ![i] = <<m, x>>]
        /\ UNCHANGED <<handles, modules>>
    BY <1>3 DEF GetTexRef
  <2>2. held[i] = <<m, x>>
    BY <1>1, <1>3, <2>1, TextureKnown
  <2>3. UNCHANGED held
    <3>1. held \in [Ids -> Objects \cup {None}]
      BY DEF PoolInv, TypeOK
    <3>2. QED
      BY <3>1, <2>1, <2>2
  <2>4. QED
    BY <1>2, <2>1, <2>3, PoolSame DEF pool_vars, module_vars
<1>4. CASE modules[m].texrefs[x] = None
  <2>1. Insert(i, <<m, x>>) /\ modules' = [modules EXCEPT ![m].texrefs[x] = i]
    BY <1>4 DEF GetTexRef
  <2>2. <<m, x>> \in Objects
    BY <1>1 DEF Objects
  <2>3. /\ held[i] = None /\ HandlesResolve' /\ held'[i] = <<m, x>>
        /\ \A j \in Ids : j # i => held'[j] = held[j]
    BY <2>1, <2>2, PoolInsert
  <2>4. /\ modules'[m] # None /\ modules'[m].texrefs[x] = i
        /\ \A y \in TextureNames : y # x => modules'[m].texrefs[y] = modules[m].texrefs[y]
        /\ \A n \in ModuleAddrs : n # m => modules'[n] = modules[n]
    <3>1. modules' = [modules EXCEPT ![m] = [modules[m] EXCEPT !.texrefs[x] = i]]
      BY <1>1, <2>1 DEF PoolInv, TypeOK
    <3>2. [modules[m] EXCEPT !.texrefs[x] = i] \in Module
      BY <1>1 DEF Module
    <3>3. modules'[m] = [modules[m] EXCEPT !.texrefs[x] = i]
      BY <1>1, <3>1 DEF PoolInv, TypeOK
    <3>4. modules'[m] # None
      BY <3>2, <3>3, ServerAssumption
    <3>5. \A n \in ModuleAddrs : n # m => modules'[n] = modules[n]
      BY <3>1 DEF PoolInv, TypeOK
    <3>6. modules[m].texrefs \in [TextureNames -> Ids \cup {None}]
      BY <1>1 DEF Module
    <3>7. modules'[m].texrefs = [modules[m].texrefs EXCEPT ![x] = i]
      BY <1>1, <3>3 DEF Module
    <3>8. QED
      BY <3>4, <3>5, <3>6, <3>7
  <2> HIDE DEF m
  <2>5. ModulesHeld'
    <3> SUFFICES ASSUME NEW j \in Ids, held'[j] \in ModuleAddrs
                 PROVE  /\ modules'[held'[j]] # None
                        /\ \A k \in Ids : held'[k] = held'[j] => j = k
      BY DEF ModulesHeld
    <3>1. held'[j] = held[j] /\ \A k \in Ids : held'[k] = held'[j] => held[k] = held[j]
      BY <1>1, <2>3, Kinds
    <3>2. modules[held[j]] # None /\ \A k \in Ids : held[k] = held[j] => j = k
      BY <3>1 DEF PoolInv, ModulesHeld
    <3>3. modules'[held[j]] # None
      BY <3>1, <3>2, <2>4
    <3>4. QED
      BY <3>1, <3>2, <3>3
  <2>6. TexturesHeld'
    <3> SUFFICES ASSUME NEW n \in ModuleAddrs, NEW y \in TextureNames
                 PROVE  /\ modules'[n] # None /\ modules'[n].texrefs[y] # None
                             => held'[modules'[n].texrefs[y]] = <<n, y>>
                        /\ \A j \in Ids : held'[j] = <<n, y>>
                             => modules'[n] # None /\ modules'[n].texrefs[y] = j
      BY DEF TexturesHeld
    <3>1. CASE n = m /\ y = x
      <4>1. \A j \in Ids : held[j] # <<m, x>>
        BY <1>1, <1>4, TextureOf, ServerAssumption
      <4>2. QED
        BY <3>1, <4>1, <2>3, <2>4
    <3>2. CASE ~(n = m /\ y = x)
      <4>1. <<n, y>> # <<m, x>>
        BY <3>2
      <4>2. (modules'[n] # None <=> modules[n] # None) /\ modules'[n].texrefs[y] = modules[n].texrefs[y]
        BY <3>2, <1>1, <2>4
      <4>3. ASSUME modules[n] # None, modules[n].texrefs[y] # None
            PROVE  held'[modules[n].texrefs[y]] = <<n, y>>
        <5>1. modules[n].texrefs[y] \in Ids /\ held[modules[n].texrefs[y]] = <<n, y>>
          BY <4>3, TextureKnown
        <5>2. QED
          BY <5>1, <2>3, Kinds
      <4>4. ASSUME NEW j \in Ids, held'[j] = <<n, y>>
            PROVE  modules[n] # None /\ modules[n].texrefs[y] = j
        <5>1. held[j] = <<n, y>>
          BY <4>4, <4>1, <2>3
        <5>2. QED
          BY <5>1, TextureOf
      <4>5. QED
        BY <4>2, <4>3, <4>4
    <3>3. QED
      BY <3>1, <3>2
  <2>7. CodeLoaded'
    BY <1>1, <1>2, <2>4 DEF PoolInv, CodeLoaded
  <2>8. ArgsMatch'
    <3>1. \A j \in Ids : held'[j] \in FunctionAddrs => held'[j] = held[j]
      BY <1>1, <2>3, Kinds
    <3>2. QED
      BY <3>1, <1>2 DEF PoolInv, ArgsMatch
  <2>9. QED
    BY <2>3, <2>5, <2>6, <2>7, <2>8 DEF Pool
<1>5. QED
  BY <1>3, <1>4

LEMMA PoolInit == Init => PoolInv
<1> SUFFICES ASSUME Init PROVE PoolInv
  OBVIOUS
<1>1. TypeOK
  BY TypeInit
<1>2. /\ \A i \in Ids : handles[i] = None /\ held[i] = None
      /\ \A m \in ModuleAddrs : modules[m] = None
      /\ \A f \in FunctionAddrs : kernel[f] = None
  BY DEF Init
<1>3. HandlesResolve /\ CodeLoaded
  BY <1>2 DEF HandlesResolve, CodeLoaded
<1>4. ModulesHeld /\ TexturesHeld /\ ArgsMatch
  BY <1>2, Kinds DEF ModulesHeld, TexturesHeld, ArgsMatch
<1>5. QED
  BY <1>1, <1>3, <1>4 DEF PoolInv

LEMMA PoolStep == PoolInv /\ [Next]_vars => PoolInv'
<1> SUFFICES ASSUME PoolInv, [Next]_vars PROVE PoolInv'
  OBVIOUS
<1>1. TypeOK'
  BY TypeStep
<1>2. ASSUME NEW n \in Requests, MemAlloc(n) PROVE Pool'
  BY <1>2, PoolSame DEF MemAlloc, Panic
<1>3. ASSUME NEW u \in Units, MemFree(u) PROVE Pool'
  BY <1>3, PoolSame DEF MemFree
<1>4. ASSUME NEW c \in Codes, ModuleLoadPanics(c) PROVE Pool'
  BY <1>4, PoolSame DEF ModuleLoadPanics, Panic
<1>5. ASSUME UNCHANGED vars PROVE Pool'
  <2>1. UNCHANGED <<pool_vars, module_vars>>
    BY <1>5 DEF vars
  <2>2. QED
    BY <2>1, PoolSame
<1>6. ASSUME Next PROVE Pool'
  <2>1. ASSUME NEW e \in EventAddrs, NEW i \in Ids, EventCreate(e, i) PROVE Pool'
    BY <2>1, PoolEventCreate
  <2>2. ASSUME NEW i \in Ids, EventDestroy(i) PROVE Pool'
    BY <2>2, PoolEventDestroy
  <2>3. ASSUME NEW m \in ModuleAddrs, NEW c \in Codes, NEW i \in Ids, ModuleLoad(m, c, i)
        PROVE  Pool'
    BY <2>3, PoolModuleLoad
  <2>4. ASSUME NEW m \in ModuleAddrs, NEW c \in Codes, ModuleLoadFails(m, c) PROVE Pool'
    BY <2>4, PoolModuleLoadFails
  <2>5. ASSUME NEW i \in Ids, ModuleUnload(i) PROVE Pool'
    BY <2>5, PoolModuleUnload
  <2>6. ASSUME NEW h \in Ids, NEW i \in Ids, NEW name \in FunctionNames,
               NEW f \in FunctionAddrs, GetFunction(h, name, f, i)
        PROVE  Pool'
    BY <2>6, PoolGetFunction
  <2>7. ASSUME NEW h \in Ids, NEW i \in Ids, NEW x \in TextureNames, GetTexRef(h, x, i)
        PROVE  Pool'
    BY <2>7, PoolGetTexRef
  <2>8. QED
    BY <1>2, <1>3, <1>4, <1>6, <2>1, <2>2, <2>3, <2>4, <2>5, <2>6, <2>7 DEF Next
<1>7. QED
  BY <1>1, <1>5, <1>6 DEF PoolInv, Pool

-----------------------------------------------------------------------------

(* The server's tables and the client's keep their types: an id is vacant  *)
(* or stands for an object of a known kind, a range lies in the block.     *)
THEOREM TypeCorrect == Spec => []TypeOK
<1>1. PoolInv => TypeOK
  BY DEF PoolInv
<1>2. QED
  BY PoolInit, PoolStep, <1>1, PTL DEF Spec

(* An id leads to the object it was given out for as long as the client    *)
(* may use it: cu_module_unload gives up the ids of exactly that module's  *)
(* textures, however slots and addresses are reused.                       *)
THEOREM HandlesRight == Spec => []HandlesResolve
<1>1. PoolInv => HandlesResolve
  BY DEF PoolInv
<1>2. QED
  BY PoolInit, PoolStep, <1>1, PTL DEF Spec

(* A launch is laid out by the parameters of the function its id stands    *)
(* for: function_args of the client, though never cleared, is overwritten  *)
(* before an id is used again.                                             *)
THEOREM ArgsRight == Spec => []ArgsMatch
<1>1. PoolInv => ArgsMatch
  BY DEF PoolInv
<1>2. QED
  BY PoolInit, PoolStep, <1>1, PTL DEF Spec
=============================================================================
