--------------------------- MODULE ModulesProofs ----------------------------
(* Proofs about the loading of modules, for any processes, versions,       *)
(* threads, libraries and addresses.                                       *)
EXTENDS Modules, FiniteSetTheorems, TLAPS

(* A row holds what its key stands for.                                    *)
RowsRight ==
  \A r \in rows :
    r.binary = [text |-> r.key.hash, zluda |-> r.key.zluda_version,
                isa |-> r.key.device, clock |-> r.key.backend_key]

Loading == {"open", "lookup", "compile", "insert", "load"}

(* A thread inside a call knows what it is for, and once it has a binary   *)
(* it has the one its compiler makes.                                      *)
CallsRight ==
  \A t \in Threads :
    /\ pc[t] = "idle" <=> call[t] = None
    /\ pc[t] \in {"insert", "load"} => binary[t] = Compiled(t, call[t].text, call[t].device)
    /\ pc[t] = "return" => binary[t] \in Binaries \cup {Refused}

(* A thread that loads a library's module for a device is inside           *)
(* get_or_init, and no other is inside the same.                           *)
Initializes(t, l, d) ==
  pc[t] \in Loading /\ call[t].library = l /\ call[t].device = d
OneInitializer ==
  \A t \in Threads : \A l \in Libraries(Home[t]), d \in Devices :
    Initializes(t, l, d) =>
      /\ library[Home[t]][l] # None
      /\ library[Home[t]][l].modules[d] = Busy
      /\ \A u \in Threads : Home[u] = Home[t] /\ Initializes(u, l, d) => u = t

IInv == TypeOK /\ RowsRight /\ CallsRight /\ OneInitializer /\ OneModulePerDevice

-----------------------------------------------------------------------------
LEMMA Constants ==
  /\ \A t \in Threads : Home[t] \in Processes
  /\ \A p \in Processes : \A l \in Libraries(p) : Source[p][l] \in Texts
  /\ \A p \in Processes : \A a \in Heap[p] : a \notin {None, Empty, Busy, Refused, Orphan}
  /\ \A p \in Processes : None \notin Libraries(p) /\ Orphan \notin Libraries(p)
  /\ \A t \in Threads, text \in Texts, d \in Devices : Compiled(t, text, d) \in Binaries
BY ModulesAssumption DEF Binaries

LEMMA LengthType ==
  ASSUME NEW b \in Binaries PROVE Length(b) \in Nat
BY ModulesAssumption DEF Binaries, Compiled, Length

LEMMA InitOK == Init => IInv
<1> SUFFICES ASSUME Init PROVE IInv
  OBVIOUS
<1>1. TypeOK
  BY ModulesAssumption, Constants DEF Init, TypeOK
<1>2. RowsRight /\ CallsRight /\ OneInitializer
  BY Constants DEF Init, RowsRight, CallsRight, OneInitializer, Initializes, Loading
<1>3. OneModulePerDevice
  BY Constants DEF Init, OneModulePerDevice, ModulesOf
<1> QED BY <1>1, <1>2, <1>3 DEF IInv

-----------------------------------------------------------------------------
(* Types.                                                                  *)
LEMMA TypeLibraries ==
  ASSUME TypeOK, NEW t \in Threads, NEW l \in Libraries(Home[t]),
         \/ \E lazy \in BOOLEAN : LoadLibrary(t, l, lazy)
         \/ \E d \in Devices : GetModuleForDevice(t, l, d)
         \/ UnloadLibrary(t, l)
  PROVE  TypeOK'
<1> USE Constants DEF TypeOK, locals
<1> DEFINE p == Home[t]
<1>1. ASSUME NEW lazy \in BOOLEAN, LoadLibrary(t, l, lazy) PROVE TypeOK'
  <2>1. [lazy |-> lazy, modules |-> [d \in Devices |-> Empty]] \in Library(p)
    BY DEF Library
  <2> QED BY <1>1, <2>1 DEF LoadLibrary
<1>2. ASSUME NEW d \in Devices, GetModuleForDevice(t, l, d) PROVE TypeOK'
  <2>1. library[p][l] \in Library(p)
    BY <1>2 DEF GetModuleForDevice
  <2>2. ASSUME NEW value \in {Busy, Refused}
        PROVE  [library[p][l] EXCEPT !.modules[d] = value] \in Library(p)
    BY <2>1 DEF Library
  <2>3. [text |-> Source[p][l], device |-> d, library |-> l] \in Load(p)
    BY DEF Load
  <2>4. CASE library' = Claimed(p, l, d) /\ Start(t, Source[p][l], d, l)
    BY <2>2, <2>3, <2>4 DEF Claimed, Start
  <2>5. CASE library' = [library EXCEPT ![p][l].modules[d] = Refused]
             /\ UNCHANGED <<rows, total, module, locals>>
    BY <2>2, <2>5
  <2>6. CASE /\ pc' = [pc EXCEPT ![t] = "waiting"]
             /\ call' = [call EXCEPT ![t] = [text |-> Source[p][l], device |-> d, library |-> l]]
             /\ UNCHANGED <<rows, total, library, module, cache, binary>>
    BY <2>3, <2>6
  <2> QED BY <1>2, <2>4, <2>5, <2>6 DEF GetModuleForDevice
<1>3. CASE UnloadLibrary(t, l)
  <2>1. ASSUME NEW a \in Heap[p], module[p][a] # None
        PROVE  [module[p][a] EXCEPT !.library = Orphan] \in Module(p)
    BY <2>1 DEF Module
  <2> QED BY <1>3, <2>1 DEF UnloadLibrary
<1> QED BY <1>1, <1>2, <1>3

(* A load that ends while its library is still there.                      *)
LEMMA TypeFinish ==
  ASSUME TypeOK, NEW t \in Threads, call[t] \in Load(Home[t]),
         call[t].library # None => library[Home[t]][call[t].library] # None,
         NEW result \in Heap[Home[t]] \cup {Refused}
  PROVE  /\ DOMAIN Remembered(t, result) = Processes
         /\ \A p \in Processes :
              Remembered(t, result)[p] \in [Libraries(p) -> {None} \cup Library(p)]
<1> DEFINE p == Home[t]
           l == call[t].library
           d == call[t].device
<1>1. CASE l = None
  BY <1>1 DEF Remembered, TypeOK
<1>2. CASE l # None
  <2>1. l \in Libraries(p) /\ d \in Devices /\ p \in Processes
    BY <1>2, Constants DEF Load
  <2>2. [library[p][l] EXCEPT !.modules[d] = result] \in Library(p)
    BY <1>2, <2>1 DEF TypeOK, Library
  <2> QED BY <1>2, <2>1, <2>2 DEF Remembered, TypeOK
<1> QED BY <1>1, <1>2

(* A thread that is inside a load.                                         *)
LEMMA LoadInProgress ==
  ASSUME IInv, NEW t \in Threads, pc[t] \in Loading
  PROVE  /\ call[t] \in Load(Home[t]) /\ call[t] # None
         /\ call[t].text \in Texts /\ call[t].device \in Devices
         /\ call[t].library # None =>
              /\ call[t].library \in Libraries(Home[t])
              /\ library[Home[t]][call[t].library] # None
              /\ library[Home[t]][call[t].library].modules[call[t].device] = Busy
<1>1. call[t] # None /\ call[t] \in Load(Home[t])
  BY DEF IInv, TypeOK, CallsRight, Loading
<1>2. /\ call[t].text \in Texts /\ call[t].device \in Devices
      /\ call[t].library \in Libraries(Home[t]) \cup {None}
  BY <1>1 DEF Load
<1> QED BY <1>1, <1>2 DEF IInv, OneInitializer, Initializes

LEMMA TypeLoads ==
  ASSUME IInv, NEW t \in Threads,
         \/ \E text \in Texts, d \in Devices : LoadData(t, text, d)
         \/ Continue(t)
         \/ \E a \in Heap[Home[t]] : Unload(t, a)
  PROVE  TypeOK'
<1> USE Constants DEF TypeOK, locals
<1>1. TypeOK
  BY DEF IInv
<1>2. ASSUME NEW text \in Texts, NEW d \in Devices, LoadData(t, text, d) PROVE TypeOK'
  <2>1. [text |-> text, device |-> d, library |-> None] \in Load(Home[t])
    BY DEF Load
  <2> QED BY <1>1, <1>2, <2>1 DEF LoadData, Start
<1>3. CASE Awake(t)
  BY <1>1, <1>3 DEF Awake
<1>4. CASE Open(t)
  BY <1>1, <1>4 DEF Open
<1>5. CASE LoadCachedBinary(t)
  BY <1>1, <1>5 DEF LoadCachedBinary
<1>6. CASE Compile(t)
  <2>1. Compiled(t, call[t].text, call[t].device) \in Binaries
    BY <1>6, LoadInProgress DEF Compile, Loading
  <2> QED BY <1>1, <1>6, <2>1 DEF Compile
<1>7. CASE InsertModule(t)
  <2>1. /\ CallKey(t) \in Keys /\ binary[t] \in Binaries
    <3>1. pc[t] = "insert"
      BY <1>7 DEF InsertModule
    <3>2. call[t].text \in Texts /\ call[t].device \in Devices
      BY <3>1, LoadInProgress DEF Loading
    <3> QED BY <3>1, <3>2 DEF IInv, CallsRight, CallKey, Keys
  <2>2. Length(binary[t]) \in Nat
    BY <2>1, LengthType
  <2>3. rows' \subseteq [key : Keys, binary : Binaries] /\ total' \in Nat
    BY <1>1, <1>7, <2>1, <2>2 DEF InsertModule, Grown
  <2>4. pc' \in [Threads -> {"idle", "waiting", "open", "lookup", "compile", "insert", "load", "return"}]
    BY <1>1, <1>7 DEF InsertModule
  <2> QED BY <1>1, <1>7, <2>3, <2>4 DEF InsertModule
<1>8. CASE Fail(t)
  <2>1. pc[t] \in Loading
    BY <1>8 DEF Fail, Loading
  <2> QED BY <1>1, <1>8, <2>1, LoadInProgress, TypeFinish DEF Fail, Finish
<1>9. CASE HipModuleLoadData(t)
  <2>1. PICK a \in Heap[Home[t]] :
          /\ module' = [module EXCEPT ![Home[t]][a] =
               [binary |-> binary[t], library |-> call[t].library, device |-> call[t].device]]
          /\ Finish(t, a)
    BY <1>9 DEF HipModuleLoadData
  <2>2. pc[t] = "load" /\ pc[t] \in Loading
    BY <1>9 DEF HipModuleLoadData, Loading
  <2>3. binary[t] \in Binaries
    BY <2>2, LoadInProgress DEF IInv, CallsRight
  <2>4. [binary |-> binary[t], library |-> call[t].library, device |-> call[t].device]
          \in Module(Home[t])
    BY <2>2, <2>3, LoadInProgress DEF Module
  <2>5. DOMAIN module' = Processes
        /\ \A p \in Processes : module'[p] \in [Heap[p] -> {None} \cup Module(p)]
    BY <1>1, <2>1, <2>4
  <2>6. DOMAIN library' = Processes
        /\ \A p \in Processes : library'[p] \in [Libraries(p) -> {None} \cup Library(p)]
    BY <1>1, <2>1, <2>2, LoadInProgress, TypeFinish DEF Finish
  <2> QED BY <1>1, <1>9, <2>1, <2>5, <2>6 DEF HipModuleLoadData, Finish
<1>10. CASE Return(t)
  BY <1>1, <1>10 DEF Return
<1>11. ASSUME NEW a \in Heap[Home[t]], Unload(t, a) PROVE TypeOK'
  BY <1>1, <1>11 DEF Unload
<1> QED BY <1>2, <1>3, <1>4, <1>5, <1>6, <1>7, <1>8, <1>9, <1>10, <1>11 DEF Continue

LEMMA TypeCrash ==
  ASSUME TypeOK, NEW p \in Processes, Crash(p)
  PROVE  TypeOK'
BY Constants DEF TypeOK, Crash

-----------------------------------------------------------------------------
(* Rows and calls.                                                         *)
LEMMA RowsOK == IInv /\ [Next]_vars => RowsRight'
<1> SUFFICES ASSUME IInv, [Next]_vars PROVE RowsRight'
  OBVIOUS
<1>1. CASE rows' = rows
  BY <1>1 DEF IInv, RowsRight
<1>2. ASSUME NEW t \in Threads, InsertModule(t) PROVE RowsRight'
  <2>1. pc[t] = "insert" /\ rows' \in {rows, rows \cup {[key |-> CallKey(t), binary |-> binary[t]]}}
    BY <1>2 DEF InsertModule
  <2>2. binary[t] = Compiled(t, call[t].text, call[t].device)
    BY <2>1 DEF IInv, CallsRight
  <2>3. ASSUME NEW r, r = [key |-> CallKey(t), binary |-> binary[t]]
        PROVE  r.binary = [text |-> r.key.hash, zluda |-> r.key.zluda_version,
                           isa |-> r.key.device, clock |-> r.key.backend_key]
    BY <2>2, <2>3 DEF CallKey, Key, Compiled
  <2> QED BY <2>1, <2>3 DEF IInv, RowsRight
<1>3. ASSUME NEW t \in Threads, Continue(t) PROVE rows' = rows \/ InsertModule(t)
  BY <1>3 DEF Continue, Awake, Open, LoadCachedBinary, Compile, Fail, HipModuleLoadData, Return
<1>4. ASSUME NEW t \in Threads,
             \/ \E text \in Texts, d \in Devices : LoadData(t, text, d)
             \/ \E l \in Libraries(Home[t]) : UnloadLibrary(t, l)
             \/ \E l \in Libraries(Home[t]), lazy \in BOOLEAN : LoadLibrary(t, l, lazy)
             \/ \E l \in Libraries(Home[t]), d \in Devices : GetModuleForDevice(t, l, d)
             \/ \E a \in Heap[Home[t]] : Unload(t, a)
      PROVE  rows' = rows
  BY <1>4 DEF LoadData, UnloadLibrary, LoadLibrary, GetModuleForDevice, Unload, Start
<1>5. ASSUME NEW p \in Processes, Crash(p) PROVE rows' = rows
  BY <1>5 DEF Crash
<1> QED BY <1>1, <1>2, <1>3, <1>4, <1>5 DEF Next, vars

(* What a row of the key of a call holds is what its compiler makes.       *)
LEMMA CachedBinary ==
  ASSUME IInv, NEW t \in Threads, NEW r \in rows, r.key = CallKey(t)
  PROVE  r.binary = Compiled(t, call[t].text, call[t].device)
BY DEF IInv, RowsRight, CallKey, Key, Compiled

LEMMA CallsOK == IInv /\ [Next]_vars => CallsRight'
<1> SUFFICES ASSUME IInv, [Next]_vars PROVE CallsRight'
  OBVIOUS
<1> USE Constants DEF CallsRight
<1>1. TypeOK /\ CallsRight
  BY DEF IInv
<1>2. CASE UNCHANGED locals
  BY <1>1, <1>2 DEF locals
<1>3. ASSUME NEW t \in Threads, NEW text \in Texts, NEW d \in Devices,
             NEW l \in Libraries(Home[t]) \cup {None}, Start(t, text, d, l)
      PROVE  CallsRight'
  <2>1. [text |-> text, device |-> d, library |-> l] \in Load(Home[t])
    BY DEF Load
  <2>2. [text |-> text, device |-> d, library |-> l] # None
    BY <2>1, ModulesAssumption
  <2> QED BY <1>1, <1>3, <2>2 DEF Start, TypeOK
<1>4. ASSUME NEW t \in Threads, NEW l \in Libraries(Home[t]), NEW d \in Devices,
             GetModuleForDevice(t, l, d)
      PROVE  CallsRight'
  <2>1. [text |-> Source[Home[t]][l], device |-> d, library |-> l] \in Load(Home[t])
    BY DEF Load
  <2>2. [text |-> Source[Home[t]][l], device |-> d, library |-> l] # None
    BY <2>1, ModulesAssumption
  <2>3. CASE /\ pc' = [pc EXCEPT ![t] = "waiting"]
             /\ call' = [call EXCEPT ![t] =
                           [text |-> Source[Home[t]][l], device |-> d, library |-> l]]
             /\ UNCHANGED <<rows, total, library, module, cache, binary>>
    BY <1>1, <2>2, <2>3 DEF TypeOK
  <2>4. CASE Start(t, Source[Home[t]][l], d, l)
    BY <1>3, <2>4
  <2> QED BY <1>2, <1>4, <2>3, <2>4 DEF GetModuleForDevice
<1>5. ASSUME NEW t \in Threads, Continue(t) PROVE CallsRight'
  <2>1. CASE Awake(t)
    BY <1>1, <2>1 DEF Awake, TypeOK
  <2>2. CASE Open(t)
    BY <1>1, <2>2 DEF Open, TypeOK
  <2>3. CASE LoadCachedBinary(t)
    BY <1>1, <2>3, CachedBinary DEF LoadCachedBinary, TypeOK
  <2>4. CASE Compile(t)
    BY <1>1, <2>4 DEF Compile, TypeOK
  <2>5. CASE InsertModule(t)
    BY <1>1, <2>5 DEF InsertModule, TypeOK
  <2>6. CASE Fail(t)
    BY <1>1, <2>6 DEF Fail, Finish, TypeOK
  <2>7. CASE HipModuleLoadData(t)
    <3>1. pc[t] = "load" /\ pc' = [pc EXCEPT ![t] = "return"] /\ UNCHANGED <<call, binary>>
      BY <2>7 DEF HipModuleLoadData, Finish
    <3>2. binary[t] \in Binaries
      BY <1>1, <3>1, LoadInProgress DEF Loading
    <3> QED BY <1>1, <3>1, <3>2 DEF TypeOK
  <2>8. CASE Return(t)
    BY <1>1, <2>8 DEF Return, TypeOK
  <2> QED BY <1>5, <2>1, <2>2, <2>3, <2>4, <2>5, <2>6, <2>7, <2>8 DEF Continue
<1>6. ASSUME NEW p \in Processes, Crash(p) PROVE CallsRight'
  BY <1>1, <1>6 DEF Crash
<1>7. ASSUME NEW t \in Threads, NEW text \in Texts, NEW d \in Devices, LoadData(t, text, d)
      PROVE  CallsRight'
  BY <1>3, <1>7 DEF LoadData
<1> QED BY <1>2, <1>4, <1>5, <1>6, <1>7 DEF Next, vars, LoadLibrary, UnloadLibrary, Unload

-----------------------------------------------------------------------------
(* One thread at a time initializes the module of a library for a device.  *)

(* Enough for a step after which nobody initializes anything anew.         *)
LEMMA InitializersKept ==
  ASSUME OneInitializer,
         \A t \in Threads : \A l \in Libraries(Home[t]), d \in Devices :
           Initializes(t, l, d)' =>
             /\ Initializes(t, l, d)
             /\ library'[Home[t]][l] # None
             /\ library'[Home[t]][l].modules[d] = library[Home[t]][l].modules[d]
  PROVE  OneInitializer'
BY DEF OneInitializer

LEMMA OneInitializerOK == IInv /\ [Next]_vars => OneInitializer'
<1> SUFFICES ASSUME IInv, [Next]_vars PROVE OneInitializer'
  OBVIOUS
<1> USE Constants
<1>1. TypeOK /\ CallsRight /\ OneInitializer
  BY DEF IInv
<1>2. ASSUME NEW t \in Threads, NEW text \in Texts, NEW d \in Devices, LoadData(t, text, d)
      PROVE  OneInitializer'
  <2>1. library' = library /\ pc' = [pc EXCEPT ![t] = "open"]
        /\ call' = [call EXCEPT ![t] = [text |-> text, device |-> d, library |-> None]]
    BY <1>2 DEF LoadData, Start
  <2> QED BY <1>1, <2>1, InitializersKept DEF OneInitializer, Initializes, TypeOK
<1>3. ASSUME NEW t \in Threads, NEW l \in Libraries(Home[t]), NEW lazy \in BOOLEAN,
             LoadLibrary(t, l, lazy)
      PROVE  OneInitializer'
  <2>1. library[Home[t]][l] = None /\ UNCHANGED locals
    BY <1>3 DEF LoadLibrary
  <2>2. \A q \in Processes : \A k \in Libraries(q) :
          library[q][k] # None => library'[q][k] = library[q][k]
    BY <1>1, <1>3, <2>1 DEF LoadLibrary, TypeOK
  <2> QED BY <1>1, <2>1, <2>2, InitializersKept DEF OneInitializer, Initializes, locals
<1>4. ASSUME NEW t \in Threads, NEW l \in Libraries(Home[t]), NEW d \in Devices,
             GetModuleForDevice(t, l, d)
      PROVE  OneInitializer'
  <2> DEFINE p == Home[t]
  <2>1. pc[t] = "idle" /\ library[p][l] # None /\ library[p][l] \in Library(p)
    BY <1>1, <1>4 DEF GetModuleForDevice, TypeOK
  <2>2. CASE /\ library[p][l].modules[d] = Empty
             /\ library' = Claimed(p, l, d)
             /\ Start(t, Source[p][l], d, l)
    <3>1. \A q \in Processes : \A k \in Libraries(q), e \in Devices :
            library[q][k] # None =>
              /\ library'[q][k] # None
              /\ library'[q][k].modules[e] =
                   IF q = p /\ k = l /\ e = d THEN Busy ELSE library[q][k].modules[e]
      <4>1. [library[p][l] EXCEPT !.modules[d] = Busy] \in Library(p)
        BY <2>1 DEF Library
      <4>2. [library[p][l] EXCEPT !.modules[d] = Busy] # None
        BY <4>1, ModulesAssumption
      <4> QED BY <1>1, <2>1, <2>2, <4>2 DEF Claimed, TypeOK, Library
    <3>2. /\ pc' = [pc EXCEPT ![t] = "open"]
          /\ call' = [call EXCEPT ![t] = [text |-> Source[p][l], device |-> d, library |-> l]]
      BY <2>2 DEF Start
    <3>3. \A u \in Threads : Home[u] = p => ~Initializes(u, l, d)
      BY <1>1, <2>2, ModulesAssumption DEF OneInitializer
    <3>4. \A u \in Threads : \A k \in Libraries(Home[u]), e \in Devices :
            Initializes(u, k, e)' => \/ Initializes(u, k, e) /\ u # t
                                     \/ u = t /\ k = l /\ e = d
      BY <1>1, <3>2 DEF Initializes, TypeOK
    <3>5. ASSUME NEW u \in Threads, NEW k \in Libraries(Home[u]), NEW e \in Devices,
                 Initializes(u, k, e)'
          PROVE  /\ library'[Home[u]][k] # None
                 /\ library'[Home[u]][k].modules[e] = Busy
                 /\ \A w \in Threads : Home[w] = Home[u] /\ Initializes(w, k, e)' => w = u
      <4>1. CASE u = t /\ k = l /\ e = d
        BY <2>1, <3>1, <3>3, <3>4, <4>1
      <4>2. CASE Initializes(u, k, e) /\ u # t
        <5>1. ~(Home[u] = p /\ k = l /\ e = d)
          BY <3>3, <4>2
        <5>2. \A w \in Threads : Home[w] = Home[u] /\ Initializes(w, k, e) => w = u
          BY <1>1, <4>2 DEF OneInitializer
        <5> QED BY <1>1, <3>1, <3>4, <4>2, <5>1, <5>2 DEF OneInitializer
      <4> QED BY <3>4, <3>5, <4>1, <4>2
    <3> QED BY <3>5 DEF OneInitializer
  <2>3. CASE /\ library[p][l].modules[d] = Empty
             /\ library' = [library EXCEPT ![p][l].modules[d] = Refused]
             /\ UNCHANGED <<rows, total, module, locals>>
    <3>1. \A q \in Processes : \A k \in Libraries(q), e \in Devices :
            library[q][k] # None =>
              /\ library'[q][k] # None
              /\ library'[q][k].modules[e] =
                   IF q = p /\ k = l /\ e = d THEN Refused ELSE library[q][k].modules[e]
      <4>1. [library[p][l] EXCEPT !.modules[d] = Refused] \in Library(p)
        BY <2>1 DEF Library
      <4>2. [library[p][l] EXCEPT !.modules[d] = Refused] # None
        BY <4>1, ModulesAssumption
      <4> QED BY <1>1, <2>1, <2>3, <4>2 DEF TypeOK, Library
    <3>2. \A u \in Threads : Home[u] = p => ~Initializes(u, l, d)
      BY <1>1, <2>3, ModulesAssumption DEF OneInitializer
    <3>3. pc' = pc /\ call' = call
      BY <2>3 DEF locals
    <3> QED BY <1>1, <3>1, <3>2, <3>3, InitializersKept DEF OneInitializer, Initializes
  <2>4. CASE /\ pc' = [pc EXCEPT ![t] = "waiting"]
             /\ call' = [call EXCEPT ![t] = [text |-> Source[p][l], device |-> d, library |-> l]]
             /\ UNCHANGED <<rows, total, library, module, cache, binary>>
    BY <1>1, <2>4, InitializersKept DEF OneInitializer, Initializes, Loading, TypeOK
  <2> QED BY <1>4, <2>2, <2>3, <2>4 DEF GetModuleForDevice
<1>5. ASSUME NEW t \in Threads, Continue(t) PROVE OneInitializer'
  <2>1. CASE Awake(t) \/ Return(t)
    BY <1>1, <2>1, InitializersKept DEF Awake, Return, OneInitializer, Initializes, Loading, TypeOK
  <2>2. CASE Open(t) \/ LoadCachedBinary(t) \/ Compile(t) \/ InsertModule(t)
    <3>1. pc[t] \in Loading /\ library' = library /\ call' = call
          /\ \A u \in Threads : u # t => pc'[u] = pc[u]
      BY <1>1, <2>2 DEF Open, LoadCachedBinary, Compile, InsertModule, Loading, TypeOK
    <3> QED BY <1>1, <3>1, InitializersKept DEF OneInitializer, Initializes
  <2>3. CASE Fail(t) \/ HipModuleLoadData(t)
    <3>1. PICK result \in Heap[Home[t]] \cup {Refused} : Finish(t, result)
      BY <2>3 DEF Fail, HipModuleLoadData
    <3>2. pc[t] \in Loading /\ call' = call /\ pc' = [pc EXCEPT ![t] = "return"]
          /\ library' = Remembered(t, result)
      BY <2>3, <3>1 DEF Fail, HipModuleLoadData, Finish, Loading
    <3>3. CASE call[t].library = None
      BY <1>1, <3>2, <3>3, InitializersKept
        DEF OneInitializer, Initializes, Remembered, Loading, TypeOK
    <3>4. CASE call[t].library # None
      <4> DEFINE p == Home[t]
                 l == call[t].library
                 d == call[t].device
      <4>1. l \in Libraries(p) /\ d \in Devices /\ p \in Processes /\ library[p][l] # None
        BY <3>2, <3>4, LoadInProgress
      <4>2. [library[p][l] EXCEPT !.modules[d] = result] \in Library(p)
        BY <1>1, <4>1 DEF TypeOK, Library
      <4>3. \A q \in Processes : \A k \in Libraries(q), e \in Devices :
              library[q][k] # None =>
                /\ library'[q][k] # None
                /\ library'[q][k].modules[e] =
                     IF q = p /\ k = l /\ e = d THEN result ELSE library[q][k].modules[e]
        <5>1. library' = [library EXCEPT ![p][l].modules[d] = result]
          BY <3>2, <3>4 DEF Remembered
        <5>2. [library[p][l] EXCEPT !.modules[d] = result] # None
          BY <4>1, <4>2, ModulesAssumption
        <5>3. library[p][l] \in Library(p)
          BY <1>1, <4>1 DEF TypeOK
        <5> QED BY <1>1, <4>1, <5>1, <5>2, <5>3 DEF TypeOK, Library
      <4>4. \A u \in Threads : Home[u] = p /\ Initializes(u, l, d) => u = t
        BY <1>1, <3>2, <4>1 DEF OneInitializer, Initializes
      <4>5. \A u \in Threads : \A k \in Libraries(Home[u]), e \in Devices :
              Initializes(u, k, e)' => Initializes(u, k, e) /\ u # t
        BY <1>1, <3>2 DEF Initializes, Loading, TypeOK
      <4>6. \A u \in Threads : \A k \in Libraries(Home[u]), e \in Devices :
              Initializes(u, k, e)' => ~(Home[u] = p /\ k = l /\ e = d)
        BY <4>4, <4>5
      <4> QED BY <1>1, <4>3, <4>5, <4>6, InitializersKept DEF OneInitializer
    <3> QED BY <3>3, <3>4
  <2> QED BY <1>5, <2>1, <2>2, <2>3 DEF Continue
<1>6. ASSUME NEW t \in Threads, NEW l \in Libraries(Home[t]), UnloadLibrary(t, l)
      PROVE  OneInitializer'
  <2>1. \A u \in Threads : pc[u] \in Loading => call[u] # None
    BY <1>1 DEF CallsRight, Loading
  <2>2. \A u \in Threads, e \in Devices : Home[u] = Home[t] => ~Initializes(u, l, e)
    BY <1>6, <2>1 DEF UnloadLibrary, Initializes
  <2>3. UNCHANGED locals
        /\ \A q \in Processes : \A k \in Libraries(q) :
             ~(q = Home[t] /\ k = l) => library'[q][k] = library[q][k]
    BY <1>1, <1>6 DEF UnloadLibrary, TypeOK
  <2> QED BY <1>1, <2>2, <2>3, InitializersKept DEF OneInitializer, Initializes, locals
<1>7. ASSUME NEW p \in Processes, Crash(p) PROVE OneInitializer'
  <2>1. /\ \A u \in Threads : IF Home[u] = p THEN pc'[u] = "idle"
                              ELSE pc'[u] = pc[u] /\ call'[u] = call[u]
        /\ \A q \in Processes : q # p => library'[q] = library[q]
    BY <1>1, <1>7 DEF Crash, TypeOK
  <2> QED BY <1>1, <2>1, InitializersKept DEF OneInitializer, Initializes, Loading
<1>8. CASE library' = library /\ UNCHANGED locals
  BY <1>1, <1>8, InitializersKept DEF OneInitializer, Initializes, locals
<1> QED BY <1>2, <1>3, <1>4, <1>5, <1>6, <1>7, <1>8 DEF Next, vars, Unload

-----------------------------------------------------------------------------
(* One module for each device.                                             *)
Loaded(p, a, l, d) ==
  module[p][a] # None /\ module[p][a].library = l /\ module[p][a].device = d

Given(p, l, d) ==
  IF library[p][l] = None THEN {} ELSE {library[p][l].modules[d]} \cap Heap[p]

LEMMA NothingGiven ==
  ASSUME NEW p \in Processes, NEW l \in Libraries(p), NEW d \in Devices
  PROVE  /\ library[p][l] = None \/ library[p][l].modules[d] \in {Empty, Busy, Refused}
              => Given(p, l, d) = {}
         /\ library'[p][l] = None \/ library'[p][l].modules[d] \in {Empty, Busy, Refused}
              => Given(p, l, d)' = {}
BY Constants DEF Given

LEMMA OneModuleMeans ==
  /\ OneModulePerDevice <=>
       \A p \in Processes : \A l \in Libraries(p), d \in Devices :
         {a \in Heap[p] : Loaded(p, a, l, d)} = Given(p, l, d)
  /\ OneModulePerDevice' <=>
       \A p \in Processes : \A l \in Libraries(p), d \in Devices :
         {a \in Heap[p] : Loaded(p, a, l, d)'} = Given(p, l, d)'
BY DEF OneModulePerDevice, ModulesOf, Loaded, Given

(* Enough for a step that leaves the modules of all libraries alone.       *)
LEMMA ModulesKept ==
  ASSUME OneModulePerDevice,
         \A p \in Processes : \A l \in Libraries(p), d \in Devices :
           /\ \A a \in Heap[p] : Loaded(p, a, l, d)' <=> Loaded(p, a, l, d)
           /\ Given(p, l, d)' = Given(p, l, d)
  PROVE  OneModulePerDevice'
<1>1. ASSUME NEW p \in Processes, NEW l \in Libraries(p), NEW d \in Devices
      PROVE  {a \in Heap[p] : Loaded(p, a, l, d)'} = {a \in Heap[p] : Loaded(p, a, l, d)}
  OBVIOUS
<1> QED BY <1>1, OneModuleMeans

LEMMA OneModuleOK == IInv /\ [Next]_vars => OneModulePerDevice'
<1> SUFFICES ASSUME IInv, [Next]_vars PROVE OneModulePerDevice'
  OBVIOUS
<1> USE Constants
<1>1. TypeOK /\ CallsRight /\ OneInitializer /\ OneModulePerDevice
  BY DEF IInv
<1>2. CASE library' = library /\ module' = module
  BY <1>1, <1>2, ModulesKept DEF Loaded, Given
<1>3. ASSUME NEW t \in Threads, NEW l \in Libraries(Home[t]), NEW lazy \in BOOLEAN,
             LoadLibrary(t, l, lazy)
      PROVE  OneModulePerDevice'
  <2>1. library[Home[t]][l] = None /\ module' = module
        /\ library'[Home[t]][l] = [lazy |-> lazy, modules |-> [d \in Devices |-> Empty]]
        /\ \A q \in Processes : \A k \in Libraries(q) :
             ~(q = Home[t] /\ k = l) => library'[q][k] = library[q][k]
    BY <1>1, <1>3 DEF LoadLibrary, TypeOK
  <2>2. \A q \in Processes : \A k \in Libraries(q), e \in Devices : Given(q, k, e)' = Given(q, k, e)
    <3>1. ASSUME NEW q \in Processes, NEW k \in Libraries(q), NEW e \in Devices
          PROVE  Given(q, k, e)' = Given(q, k, e)
      <4>1. CASE q = Home[t] /\ k = l
        <5>1. library'[q][k].modules[e] = Empty
          BY <2>1, <4>1
        <5>2. library[q][k] = None
          BY <2>1, <4>1
        <5>3. Given(q, k, e) = {} /\ Given(q, k, e)' = {}
          BY <5>1, <5>2, NothingGiven
        <5> QED BY <5>3
      <4>2. CASE ~(q = Home[t] /\ k = l)
        BY <2>1, <4>2 DEF Given
      <4> QED BY <4>1, <4>2
    <3> QED BY <3>1
  <2> QED BY <1>1, <2>1, <2>2, ModulesKept DEF Loaded
<1>4. ASSUME NEW t \in Threads, NEW l \in Libraries(Home[t]), NEW d \in Devices,
             GetModuleForDevice(t, l, d)
      PROVE  OneModulePerDevice'
  <2> DEFINE p == Home[t]
  <2>1. library[p][l] # None /\ library[p][l] \in Library(p)
    BY <1>1, <1>4 DEF GetModuleForDevice, TypeOK
  <2>2. ASSUME NEW value \in {Busy, Refused}, library[p][l].modules[d] = Empty,
               library' = [library EXCEPT ![p][l].modules[d] = value], module' = module
        PROVE  OneModulePerDevice'
    <3>1. [library[p][l] EXCEPT !.modules[d] = value] \in Library(p)
      BY <2>1 DEF Library
    <3>2. [library[p][l] EXCEPT !.modules[d] = value] # None
      <4>1. p \in Processes
        OBVIOUS
      <4> QED BY <3>1, <4>1, ModulesAssumption
    <3>3. \A q \in Processes : \A k \in Libraries(q), e \in Devices :
            /\ library'[q][k] = None <=> library[q][k] = None
            /\ library[q][k] # None => library'[q][k].modules[e] =
                   IF q = p /\ k = l /\ e = d THEN value ELSE library[q][k].modules[e]
      BY <1>1, <2>1, <2>2, <3>2 DEF TypeOK, Library
    <3>4. \A q \in Processes : \A k \in Libraries(q), e \in Devices :
            Given(q, k, e)' = Given(q, k, e)
      <4>1. ASSUME NEW q \in Processes, NEW k \in Libraries(q), NEW e \in Devices
            PROVE  Given(q, k, e)' = Given(q, k, e)
        <5>1. CASE q = p /\ k = l /\ e = d
          <6>1. library'[q][k].modules[e] = value
            BY <2>1, <2>2, <3>3, <5>1
          <6> QED BY <2>1, <2>2, <5>1, <6>1, NothingGiven
        <5>2. CASE ~(q = p /\ k = l /\ e = d)
          BY <3>3, <5>2 DEF Given
        <5> QED BY <5>1, <5>2
      <4> QED BY <4>1
    <3> QED BY <1>1, <2>2, <3>4, ModulesKept DEF Loaded
  <2> QED BY <1>2, <1>4, <2>2 DEF GetModuleForDevice, Claimed, Start
<1>5. ASSUME NEW t \in Threads, Fail(t) \/ HipModuleLoadData(t) PROVE OneModulePerDevice'
  <2> DEFINE p == Home[t]
             l == call[t].library
             d == call[t].device
  <2>1. pc[t] \in Loading
    BY <1>5 DEF Fail, HipModuleLoadData, Loading
  <2>2. CASE Fail(t)
    <3>1. CASE l = None
      BY <1>2, <2>2, <3>1 DEF Fail, Finish, Remembered
    <3>2. CASE l # None
      <4>1. l \in Libraries(p) /\ d \in Devices /\ p \in Processes /\ library[p][l] # None
            /\ library[p][l].modules[d] = Busy /\ library[p][l] \in Library(p)
        BY <1>1, <2>1, <3>2, LoadInProgress DEF TypeOK
      <4>2. [library[p][l] EXCEPT !.modules[d] = Refused] \in Library(p)
        BY <4>1 DEF Library
      <4>3. [library[p][l] EXCEPT !.modules[d] = Refused] # None
        BY <4>2, <4>1, ModulesAssumption
      <4>4. \A q \in Processes : \A k \in Libraries(q), e \in Devices :
              /\ library'[q][k] = None <=> library[q][k] = None
              /\ library[q][k] # None => library'[q][k].modules[e] =
                     IF q = p /\ k = l /\ e = d THEN Refused ELSE library[q][k].modules[e]
        BY <1>1, <2>2, <3>2, <4>1, <4>3 DEF Fail, Finish, Remembered, TypeOK, Library
      <4>5. \A q \in Processes : \A k \in Libraries(q), e \in Devices :
              Given(q, k, e)' = Given(q, k, e)
        <5>1. ASSUME NEW q \in Processes, NEW k \in Libraries(q), NEW e \in Devices
              PROVE  Given(q, k, e)' = Given(q, k, e)
          <6>1. CASE q = p /\ k = l /\ e = d
            <7>1. library'[q][k].modules[e] = Refused
              BY <4>1, <4>4, <6>1
            <7> QED BY <4>1, <6>1, <7>1, NothingGiven
          <6>2. CASE ~(q = p /\ k = l /\ e = d)
            BY <4>4, <6>2 DEF Given
          <6> QED BY <6>1, <6>2
        <5> QED BY <5>1
      <4> QED BY <1>1, <2>2, <4>5, ModulesKept DEF Fail, Loaded
    <3> QED BY <3>1, <3>2
  <2>3. CASE HipModuleLoadData(t)
    <3> DEFINE loaded == [binary |-> binary[t], library |-> l, device |-> d]
    <3>1. PICK a \in Heap[p] : /\ module[p][a] = None
                               /\ module' = [module EXCEPT ![p][a] = loaded]
                               /\ library' = Remembered(t, a)
      BY <2>3 DEF HipModuleLoadData, Finish
    <3>2. pc[t] = "load" /\ p \in Processes /\ d \in Devices
      BY <2>1, <2>3, LoadInProgress DEF HipModuleLoadData
    <3>3. loaded # None
      <4>1. loaded \in Module(p)
        BY <1>1, <2>1, <3>2, LoadInProgress DEF CallsRight, Module, Load
      <4> QED BY <3>2, <4>1, ModulesAssumption
    <3>4. \A q \in Processes : \A b \in Heap[q], k \in Libraries(q), e \in Devices :
            Loaded(q, b, k, e)' <=> \/ Loaded(q, b, k, e)
                                    \/ q = p /\ b = a /\ k = l /\ e = d
      BY <1>1, <3>1, <3>2, <3>3 DEF Loaded, TypeOK
    <3>5. CASE l = None
      BY <1>1, <3>1, <3>4, <3>5, ModulesKept DEF Remembered, Given
    <3>6. CASE l # None
      <4>1. l \in Libraries(p) /\ library[p][l] # None
            /\ library[p][l].modules[d] = Busy /\ library[p][l] \in Library(p)
        BY <1>1, <2>1, <3>2, <3>6, LoadInProgress DEF TypeOK
      <4>2. [library[p][l] EXCEPT !.modules[d] = a] \in Library(p)
        BY <3>2, <4>1 DEF Library
      <4>3. [library[p][l] EXCEPT !.modules[d] = a] # None
        BY <3>2, <4>2, ModulesAssumption
      <4>4. \A q \in Processes : \A k \in Libraries(q), e \in Devices :
              /\ library'[q][k] = None <=> library[q][k] = None
              /\ library[q][k] # None => library'[q][k].modules[e] =
                     IF q = p /\ k = l /\ e = d THEN a ELSE library[q][k].modules[e]
        <5>1. library' = [library EXCEPT ![p][l].modules[d] = a]
          BY <3>1, <3>6 DEF Remembered
        <5> QED BY <1>1, <3>2, <4>1, <4>3, <5>1 DEF TypeOK, Library
      <4>5. ASSUME NEW q \in Processes, NEW k \in Libraries(q), NEW e \in Devices
            PROVE  {b \in Heap[q] : Loaded(q, b, k, e)'} = Given(q, k, e)'
        <5>1. {b \in Heap[q] : Loaded(q, b, k, e)} = Given(q, k, e)
          BY <1>1, OneModuleMeans
        <5>2. CASE q = p /\ k = l /\ e = d
          <6>1. Given(q, k, e) = {} /\ Given(q, k, e)' = {a}
            BY <3>2, <4>1, <4>4, <5>2 DEF Given
          <6> QED BY <3>4, <5>1, <5>2, <6>1
        <5>3. CASE ~(q = p /\ k = l /\ e = d)
          <6>1. \A b \in Heap[q] : Loaded(q, b, k, e)' <=> Loaded(q, b, k, e)
            BY <3>4, <5>3
          <6>2. Given(q, k, e)' = Given(q, k, e)
            BY <4>4, <5>3 DEF Given
          <6> QED BY <5>1, <6>1, <6>2
        <5> QED BY <5>2, <5>3
      <4> QED BY <4>5, OneModuleMeans
    <3> QED BY <3>5, <3>6
  <2> QED BY <1>5, <2>2, <2>3
<1>6. ASSUME NEW t \in Threads, NEW a \in Heap[Home[t]], Unload(t, a) PROVE OneModulePerDevice'
  <2>1. \A q \in Processes : \A b \in Heap[q], k \in Libraries(q), e \in Devices :
          Loaded(q, b, k, e)' <=> Loaded(q, b, k, e)
    BY <1>1, <1>6 DEF Unload, Loaded, TypeOK
  <2> QED BY <1>1, <1>6, <2>1, ModulesKept DEF Unload, Given
<1>7. ASSUME NEW t \in Threads, NEW l \in Libraries(Home[t]), UnloadLibrary(t, l)
      PROVE  OneModulePerDevice'
  <2> DEFINE p == Home[t]
  <2>1. \A q \in Processes : \A k \in Libraries(q) :
          library'[q][k] = IF q = p /\ k = l THEN None ELSE library[q][k]
    BY <1>1, <1>7 DEF UnloadLibrary, TypeOK
  <2>2. \A a \in Heap[p] :
          module'[p][a] = IF module[p][a] # None /\ module[p][a].library = l
                          THEN [module[p][a] EXCEPT !.library = Orphan] ELSE module[p][a]
    BY <1>1, <1>7 DEF UnloadLibrary, TypeOK
  <2>3. \A q \in Processes : q # p => module'[q] = module[q]
    BY <1>1, <1>7 DEF UnloadLibrary, TypeOK
  <2>4. ASSUME NEW a \in Heap[p], module[p][a] # None, module[p][a].library = l
        PROVE  module'[p][a].library = Orphan
    <3>1. module[p][a] \in Module(p)
      BY <1>1, <2>4 DEF TypeOK
    <3> QED BY <2>2, <2>4, <3>1 DEF Module
  <2>5. ASSUME NEW q \in Processes, NEW b \in Heap[q], NEW k \in Libraries(q), NEW e \in Devices
        PROVE  Loaded(q, b, k, e)' <=> Loaded(q, b, k, e) /\ ~(q = p /\ k = l)
    <3>1. CASE q # p
      BY <2>3, <3>1 DEF Loaded
    <3>2. CASE q = p /\ module[p][b] # None /\ module[p][b].library = l
      BY <2>4, <3>2 DEF Loaded
    <3>3. CASE q = p /\ ~(module[p][b] # None /\ module[p][b].library = l)
      BY <2>2, <3>3 DEF Loaded
    <3> QED BY <3>1, <3>2, <3>3
  <2>6. ASSUME NEW q \in Processes, NEW k \in Libraries(q), NEW e \in Devices
        PROVE  {b \in Heap[q] : Loaded(q, b, k, e)'} = Given(q, k, e)'
    <3>1. {b \in Heap[q] : Loaded(q, b, k, e)} = Given(q, k, e)
      BY <1>1, OneModuleMeans
    <3>2. CASE q = p /\ k = l
      BY <2>1, <2>5, <3>2 DEF Given
    <3>3. CASE ~(q = p /\ k = l)
      <4>1. Given(q, k, e)' = Given(q, k, e)
        BY <2>1, <3>3 DEF Given
      <4> QED BY <2>5, <3>1, <3>3, <4>1
    <3> QED BY <3>2, <3>3
  <2> QED BY <2>6, OneModuleMeans
<1>8. ASSUME NEW p \in Processes, Crash(p) PROVE OneModulePerDevice'
  <2>1. \A q \in Processes : \A k \in Libraries(q) :
          library'[q][k] = IF q = p THEN None ELSE library[q][k]
    BY <1>1, <1>8 DEF Crash, TypeOK
  <2>2. \A q \in Processes : \A a \in Heap[q] :
          module'[q][a] = IF q = p THEN None ELSE module[q][a]
    BY <1>1, <1>8 DEF Crash, TypeOK
  <2> QED BY <1>1, <2>1, <2>2 DEF OneModulePerDevice, ModulesOf
<1>9. ASSUME NEW t \in Threads, Continue(t) PROVE OneModulePerDevice'
  BY <1>2, <1>5, <1>9 DEF Continue, Awake, Open, LoadCachedBinary, Compile, InsertModule, Return
<1>10. ASSUME NEW t \in Threads, NEW text \in Texts, NEW d \in Devices, LoadData(t, text, d)
       PROVE  OneModulePerDevice'
  BY <1>2, <1>10 DEF LoadData, Start
<1> QED BY <1>2, <1>3, <1>4, <1>6, <1>7, <1>8, <1>9, <1>10 DEF Next, vars

-----------------------------------------------------------------------------
LEMMA TypeKept == IInv /\ [Next]_vars => TypeOK'
<1> SUFFICES ASSUME IInv, [Next]_vars PROVE TypeOK'
  OBVIOUS
<1>1. TypeOK
  BY DEF IInv
<1>2. CASE UNCHANGED vars
  BY <1>1, <1>2 DEF TypeOK, vars, locals
<1>3. ASSUME NEW t \in Threads,
             \/ Continue(t)
             \/ \E text \in Texts, d \in Devices : LoadData(t, text, d)
             \/ \E a \in Heap[Home[t]] : Unload(t, a)
      PROVE  TypeOK'
  BY <1>3, TypeLoads
<1>4. ASSUME NEW t \in Threads, NEW l \in Libraries(Home[t]),
             \/ \E lazy \in BOOLEAN : LoadLibrary(t, l, lazy)
             \/ \E d \in Devices : GetModuleForDevice(t, l, d)
             \/ UnloadLibrary(t, l)
      PROVE  TypeOK'
  BY <1>1, <1>4, TypeLibraries
<1>5. ASSUME NEW p \in Processes, Crash(p) PROVE TypeOK'
  BY <1>1, <1>5, TypeCrash
<1> QED BY <1>2, <1>3, <1>4, <1>5 DEF Next

THEOREM Invariant == Spec => []IInv
<1>1. IInv /\ [Next]_vars => IInv'
  BY TypeKept, RowsOK, CallsOK, OneInitializerOK, OneModuleOK DEF IInv
<1> QED BY InitOK, <1>1, PTL DEF Spec

(* The cache, the libraries and the calls in progress keep their types,    *)
(* for any processes of any versions that end at any moment.               *)
THEOREM TypeCorrect == Spec => []TypeOK
<1>1. IInv => TypeOK
  BY DEF IInv
<1> QED BY Invariant, <1>1, PTL

(* However threads race for the module of a library, and whatever fails,   *)
(* there is one for each device.                                           *)
THEOREM OneModule == Spec => []OneModulePerDevice
<1>1. IInv => OneModulePerDevice
  BY DEF IInv
<1> QED BY Invariant, <1>1, PTL

-----------------------------------------------------------------------------
(* The sum of a table: MapThenSumSet takes the rows in some order, and     *)
(* what matters is that the order does not.                                *)

(* A set of numbers has a least one.                                       *)
LEMMA LeastNumber ==
  ASSUME NEW S \in SUBSET Nat, S # {}
  PROVE  \E n \in S : \A m \in S : n <= m
<1> DEFINE Less == {ss \in Nat \X Nat : ss[1] < ss[2]}
<1>1. IsWellFoundedOn(Less, Nat)
  BY NatLessThanWellFounded DEF OpToRel
<1>2. PICK n \in S : \A m \in S : <<m, n>> \notin Less
  <2> HIDE DEF Less
  <2> QED BY <1>1, WFMin
<1>3. ASSUME NEW m \in S PROVE n <= m
  <2>1. m \in Nat /\ n \in Nat /\ <<m, n>> \in Nat \X Nat
    OBVIOUS
  <2>2. ~(m < n)
    BY <1>2, <2>1
  <2> QED BY <2>1, <2>2
<1> QED BY <1>3

Sum(S) == MapThenSumSet(LAMBDA r : Length(r.binary), S)

(* The recursive function the sum is defined with.                         *)
Picked(s) == CHOOSE x \in s : TRUE
Adds(f, s) == IF s = {} THEN 0 ELSE Length(Picked(s).binary) + f[s \ {Picked(s)}]
IsSum(f, S) == f = [s \in SUBSET S |-> Adds(f, s)]

LEMMA SumIs ==
  ASSUME NEW S
  PROVE  Sum(S) = (CHOOSE f : IsSum(f, S))[S]
BY DEF Sum, MapThenSumSet, MapThenFoldSet, IsSum, Adds, Picked

LEMMA PickedIn == ASSUME NEW s, s # {} PROVE Picked(s) \in s
BY DEF Picked

(* It exists: it is built up by the size of the sets.                      *)
LEMMA SumExists ==
  ASSUME NEW S, IsFiniteSet(S)
  PROVE  \E f : IsSum(f, S)
<1> DEFINE Level(n) == {s \in SUBSET S : Cardinality(s) <= n}
           Upto(f, n) == f = [s \in Level(n) |-> Adds(f, s)]
           Bad == {n \in Nat : \A f : ~Upto(f, n)}
<1>1. ASSUME NEW s \in SUBSET S
      PROVE  /\ Cardinality(s) \in Nat /\ Cardinality(s) <= Cardinality(S) /\ Cardinality(S) \in Nat
             /\ Cardinality(s) = 0 <=> s = {}
             /\ \A x \in s : Cardinality(s \ {x}) = Cardinality(s) - 1
  BY FS_Subset, FS_CardinalityType, FS_EmptySet, FS_RemoveElement
<1>2. Bad = {}
  <2> SUFFICES ASSUME Bad # {} PROVE FALSE
    OBVIOUS
  <2>1. PICK n \in Bad : \A m \in Bad : n <= m
    <3> HIDE DEF Bad, Upto
    <3>1. Bad \in SUBSET Nat
      BY DEF Bad
    <3> QED BY <3>1, LeastNumber
  <2>2. n \in Nat /\ \A f : ~Upto(f, n)
    OBVIOUS
  <2>3. CASE n = 0
    <3> DEFINE f == [s \in Level(0) |-> 0]
    <3>1. \A s \in Level(0) : s = {}
      BY <1>1
    <3>2. \A s \in Level(0) : Adds(f, s) = 0
      BY <3>1 DEF Adds
    <3> HIDE DEF Level
    <3>3. Upto(f, 0)
      BY <3>2
    <3> QED BY <3>3, <2>2, <2>3
  <2>4. CASE n # 0
    <3>1. n - 1 \in Nat /\ n - 1 \notin Bad
      <4> HIDE DEF Bad
      <4>1. n - 1 \in Nat /\ ~(n <= n - 1)
        BY <2>2, <2>4
      <4> QED BY <2>1, <4>1
    <3>2. PICK g : Upto(g, n - 1)
      BY <3>1
    <3> DEFINE f == [s \in Level(n) |-> Adds(g, s)]
    <3>3. \A s \in Level(n - 1) : s \in Level(n) /\ g[s] = Adds(g, s) /\ f[s] = g[s]
      <4>1. ASSUME NEW s \in Level(n - 1) PROVE s \in Level(n)
        BY <1>1, <2>2, <3>1
      <4>2. ASSUME NEW s \in Level(n - 1) PROVE g[s] = Adds(g, s)
        <5> HIDE DEF Level
        <5> QED BY <3>2
      <4> HIDE DEF Level
      <4> QED BY <4>1, <4>2
    <3>4. ASSUME NEW s \in Level(n), s # {} PROVE s \ {Picked(s)} \in Level(n - 1)
      BY <1>1, <2>2, <3>4, PickedIn
    <3>5. ASSUME NEW s \in Level(n) PROVE Adds(f, s) = Adds(g, s)
      <4> HIDE DEF Level, f
      <4> QED BY <3>3, <3>4 DEF Adds
    <3>6. Upto(f, n)
      <4> HIDE DEF Level
      <4> QED BY <3>5
    <3> QED BY <3>6, <2>2
  <2> QED BY <2>3, <2>4
<1>3. Cardinality(S) \notin Bad /\ Cardinality(S) \in Nat
  BY <1>2, FS_CardinalityType
<1>4. PICK f : Upto(f, Cardinality(S))
  BY <1>3
<1>5. Level(Cardinality(S)) = SUBSET S
  BY <1>1
<1> QED BY <1>4, <1>5 DEF IsSum

Summable(S) == IsFiniteSet(S) /\ \A r \in S : Length(r.binary) \in Nat

(* Whatever element is taken first.                                        *)
LEMMA SumRemove ==
  ASSUME NEW S, Summable(S), NEW f, IsSum(f, S)
  PROVE  \A s \in SUBSET S : f[s] \in Nat /\ \A r \in s : f[s] = Length(r.binary) + f[s \ {r}]
<1> DEFINE Good(s) == f[s] \in Nat /\ \A r \in s : f[s] = Length(r.binary) + f[s \ {r}]
           Bad == {n \in Nat : \E s \in SUBSET S : Cardinality(s) = n /\ ~Good(s)}
<1>1. ASSUME NEW s \in SUBSET S
      PROVE  /\ Cardinality(s) \in Nat
             /\ \A x \in s : Cardinality(s \ {x}) = Cardinality(s) - 1
             /\ f[s] = Adds(f, s)
  <2>1. IsFiniteSet(s)
    BY FS_Subset DEF Summable
  <2>2. f[s] = Adds(f, s)
    BY DEF IsSum
  <2> QED BY <2>1, <2>2, FS_CardinalityType, FS_RemoveElement
<1>2. Bad = {}
  <2> SUFFICES ASSUME Bad # {} PROVE FALSE
    OBVIOUS
  <2>1. PICK n \in Bad : \A m \in Bad : n <= m
    <3> HIDE DEF Bad
    <3>1. Bad \in SUBSET Nat
      BY DEF Bad
    <3> QED BY <3>1, LeastNumber
  <2>2. PICK s \in SUBSET S : Cardinality(s) = n /\ ~Good(s)
    OBVIOUS
  <2>3. ASSUME NEW r \in s PROVE Good(s \ {r})
    <3>1. Cardinality(s \ {r}) = n - 1 /\ Cardinality(s \ {r}) \in Nat
      BY <1>1, <2>2
    <3>2. ~(n <= n - 1) /\ s \ {r} \in SUBSET S
      BY <3>1, <1>1, <2>2
    <3> HIDE DEF Good
    <3>3. n - 1 \notin Bad
      <4> HIDE DEF Bad
      <4> QED BY <2>1, <3>2
    <3> QED BY <3>1, <3>2, <3>3
  <2>4. CASE s = {}
    BY <2>2, <2>4, <1>1 DEF Adds
  <2>5. CASE s # {}
    <3> DEFINE x == Picked(s)
    <3>1. x \in s
      BY <2>5, PickedIn
    <3> HIDE DEF x
    <3>2. f[s] = Length(x.binary) + f[s \ {x}]
      BY <2>5, <1>1 DEF Adds, x
    <3>3. \A r \in s : Length(r.binary) \in Nat /\ f[s \ {r}] \in Nat
      BY <2>3 DEF Summable
    <3>4. ASSUME NEW r \in s, r # x PROVE f[s] = Length(r.binary) + f[s \ {r}]
      <4>1. r \in s \ {x} /\ x \in s \ {r} /\ (s \ {x}) \ {r} = (s \ {r}) \ {x}
        BY <3>1, <3>4
      <4>2. f[s \ {x}] = Length(r.binary) + f[(s \ {x}) \ {r}]
        BY <3>1, <4>1, <2>3
      <4>3. f[s \ {r}] = Length(x.binary) + f[(s \ {r}) \ {x}]
        BY <4>1, <2>3
      <4>4. f[(s \ {x}) \ {r}] \in Nat
        <5> DEFINE t == (s \ {x}) \ {r}
        <5>1. Cardinality(s \ {x}) = n - 1 /\ Cardinality(t) = n - 2 /\ Cardinality(t) \in Nat
          <6>1. s \ {x} \in SUBSET S /\ r \in s \ {x} /\ n \in Nat
            BY <4>1
          <6>2. Cardinality(s \ {x}) = n - 1
            BY <1>1, <2>2, <3>1
          <6>3. Cardinality(t) = Cardinality(s \ {x}) - 1 /\ t \in SUBSET S
            BY <1>1, <6>1
          <6> QED BY <6>1, <6>2, <6>3, <1>1
        <5>2. ~(n <= n - 2) /\ t \in SUBSET S
          BY <1>1, <2>2, <5>1
        <5> HIDE DEF Good, t
        <5>3. n - 2 \notin Bad
          <6> HIDE DEF Bad
          <6> QED BY <2>1, <5>2
        <5>4. Good(t)
          BY <5>1, <5>2, <5>3
        <5> QED BY <5>4 DEF Good, t
      <4>5. Length(x.binary) \in Nat /\ Length(r.binary) \in Nat
        BY <3>1, <3>3, <3>4
      <4> QED BY <3>2, <4>1, <4>2, <4>3, <4>4, <4>5
    <3>5. Good(s)
      <4>1. f[s] \in Nat
        BY <3>1, <3>2, <3>3
      <4>2. \A r \in s : f[s] = Length(r.binary) + f[s \ {r}]
        BY <3>2, <3>4
      <4> QED BY <4>1, <4>2
    <3> QED BY <3>5, <2>2
  <2> QED BY <2>4, <2>5
<1>3. ASSUME NEW s \in SUBSET S PROVE Good(s)
  <2> HIDE DEF Good
  <2> QED BY <1>1, <1>2
<1> QED BY <1>3

(* A function for a set is also one for its subsets.                       *)
LEMMA SumSame ==
  ASSUME NEW S, Summable(S), NEW T \in SUBSET S, NEW f, IsSum(f, S), NEW g, IsSum(g, T)
  PROVE  f[T] = g[T]
<1> DEFINE Bad == {n \in Nat : \E s \in SUBSET T : Cardinality(s) = n /\ f[s] # g[s]}
<1>1. ASSUME NEW s \in SUBSET T
      PROVE  /\ Cardinality(s) \in Nat
             /\ \A x \in s : Cardinality(s \ {x}) = Cardinality(s) - 1
             /\ f[s] = Adds(f, s) /\ g[s] = Adds(g, s)
  <2>1. IsFiniteSet(s) /\ s \in SUBSET S
    BY FS_Subset DEF Summable
  <2>2. f[s] = Adds(f, s) /\ g[s] = Adds(g, s)
    BY <2>1 DEF IsSum
  <2> QED BY <2>1, <2>2, FS_CardinalityType, FS_RemoveElement
<1>2. Bad = {}
  <2> SUFFICES ASSUME Bad # {} PROVE FALSE
    OBVIOUS
  <2>1. PICK n \in Bad : \A m \in Bad : n <= m
    <3> HIDE DEF Bad
    <3>1. Bad \in SUBSET Nat
      BY DEF Bad
    <3> QED BY <3>1, LeastNumber
  <2>2. PICK s \in SUBSET T : Cardinality(s) = n /\ f[s] # g[s]
    OBVIOUS
  <2>3. s # {}
    BY <1>1, <2>2 DEF Adds
  <2>4. Picked(s) \in s
    BY <2>3, PickedIn
  <2> DEFINE t == s \ {Picked(s)}
  <2>5. f[t] # g[t] /\ t \in SUBSET T
    BY <1>1, <2>2, <2>3 DEF Adds
  <2>6. Cardinality(t) = n - 1 /\ Cardinality(t) \in Nat /\ n \in Nat
    BY <1>1, <2>2, <2>4
  <2> HIDE DEF t
  <2>7. n - 1 \in Bad
    BY <2>5, <2>6
  <2> HIDE DEF Bad
  <2>8. n <= n - 1
    BY <2>1, <2>7
  <2> QED BY <2>6, <2>8
<1> QED BY <1>1, <1>2

LEMMA SumEmpty == Sum({}) = 0
<1>1. PICK f : IsSum(f, {})
  BY SumExists, FS_EmptySet
<1>2. IsSum(CHOOSE h : IsSum(h, {}), {})
  BY <1>1
<1> DEFINE h == CHOOSE h : IsSum(h, {})
<1>3. h[{}] = Adds(h, {})
  BY <1>2 DEF IsSum
<1> QED BY <1>3, SumIs DEF Adds

LEMMA SumAdd ==
  ASSUME NEW S, NEW r, r \notin S, Summable(S), Length(r.binary) \in Nat
  PROVE  /\ Summable(S \cup {r})
         /\ Sum(S) \in Nat
         /\ Sum(S \cup {r}) = Sum(S) + Length(r.binary)
<1> DEFINE T == S \cup {r}
           f == CHOOSE h : IsSum(h, T)
           g == CHOOSE h : IsSum(h, S)
<1>1. Summable(T)
  BY FS_AddElement DEF Summable
<1>2. IsSum(f, T) /\ IsSum(g, S)
  BY <1>1, SumExists DEF Summable
<1>3. Sum(T) = f[T] /\ Sum(S) = g[S]
  BY SumIs
<1> HIDE DEF f, g
<1>4. f[T] = Length(r.binary) + f[T \ {r}]
  <2>1. T \in SUBSET T /\ r \in T
    OBVIOUS
  <2> HIDE DEF T
  <2> QED BY <2>1, <1>1, <1>2, SumRemove
<1>5. T \ {r} = S /\ S \in SUBSET T
  OBVIOUS
<1>6. f[S] = g[S]
  <2> HIDE DEF T
  <2> QED BY <1>1, <1>2, <1>5, SumSame
<1>7. f[S] \in Nat
  <2> HIDE DEF T
  <2> QED BY <1>1, <1>2, <1>5, SumRemove
<1>8. Sum(T) = Length(r.binary) + Sum(S) /\ Sum(S) \in Nat
  <2> HIDE DEF T
  <2> QED BY <1>3, <1>4, <1>5, <1>6, <1>7
<1> HIDE DEF T
<1>9. Sum(T) = Sum(S) + Length(r.binary)
  BY <1>8
<1> QED BY <1>1, <1>8, <1>9 DEF T
-----------------------------------------------------------------------------
(* The size of the table.                                                  *)
Counted == IsFiniteSet(rows) /\ total = Sum(rows)

LEMMA CountedMeans == Counted => SizeExact
BY DEF Counted, SizeExact, Sum, MapThenSumSet, MapThenFoldSet

LEMMA CountedOK == IInv /\ Counted /\ [Next]_vars => Counted'
<1> SUFFICES ASSUME IInv, Counted, [Next]_vars PROVE Counted'
  OBVIOUS
<1>1. CASE rows' = rows /\ total' = total
  BY <1>1 DEF Counted
<1>2. ASSUME NEW t \in Threads, InsertModule(t) PROVE Counted'
  <2>1. CASE UNCHANGED <<rows, total>>
    BY <1>1, <2>1
  <2>2. CASE /\ ~Rejected(CallKey(t))
             /\ rows' = rows \cup {[key |-> CallKey(t), binary |-> binary[t]]}
             /\ total' = Grown(binary[t])
    <3> DEFINE r == [key |-> CallKey(t), binary |-> binary[t]]
    <3>1. r \notin rows
      BY <2>2 DEF Rejected
    <3>2. binary[t] \in Binaries
      BY <1>2, Constants, LoadInProgress DEF IInv, CallsRight, InsertModule, Load, Loading
    <3>3. Length(r.binary) \in Nat
      BY <3>2, LengthType
    <3>4. Summable(rows)
      BY LengthType DEF Counted, Summable, IInv, TypeOK
    <3>5. total = Sum(rows)
      BY DEF Counted
    <3>6. total' = total + Length(r.binary) /\ rows' = rows \cup {r}
      BY <2>2 DEF Grown
    <3> HIDE DEF r
    <3>7. Summable(rows') /\ total' = Sum(rows')
      BY <3>1, <3>3, <3>4, <3>5, <3>6, SumAdd
    <3> QED BY <3>7 DEF Counted, Summable
  <2> QED BY <1>2, <2>1, <2>2 DEF InsertModule
<1>3. ASSUME NEW t \in Threads, Continue(t) PROVE (rows' = rows /\ total' = total) \/ InsertModule(t)
  BY <1>3 DEF Continue, Awake, Open, LoadCachedBinary, Compile, Fail, HipModuleLoadData, Return
<1>4. ASSUME NEW t \in Threads,
             \/ \E text \in Texts, d \in Devices : LoadData(t, text, d)
             \/ \E l \in Libraries(Home[t]) : UnloadLibrary(t, l)
             \/ \E l \in Libraries(Home[t]), lazy \in BOOLEAN : LoadLibrary(t, l, lazy)
             \/ \E l \in Libraries(Home[t]), d \in Devices : GetModuleForDevice(t, l, d)
             \/ \E a \in Heap[Home[t]] : Unload(t, a)
      PROVE  rows' = rows /\ total' = total
  BY <1>4 DEF LoadData, UnloadLibrary, LoadLibrary, GetModuleForDevice, Unload, Start
<1>5. ASSUME NEW p \in Processes, Crash(p) PROVE rows' = rows /\ total' = total
  BY <1>5 DEF Crash
<1> QED BY <1>1, <1>2, <1>3, <1>4, <1>5 DEF Next, vars

(* The size the triggers keep is that of the binaries in the table,        *)
(* whichever processes insert a key at once, fail to, or end.              *)
THEOREM SizeRight == Spec => []SizeExact
<1>1. Init => Counted
  BY FS_EmptySet, SumEmpty DEF Init, Counted
<1> QED BY Invariant, <1>1, CountedMeans, CountedOK, PTL DEF Spec

-----------------------------------------------------------------------------
(* The implementation of ModuleLoads.                                      *)
Asking ==
  [t \in Threads |-> IF pc[t] \in Loading
                     THEN [text |-> call[t].text, device |-> call[t].device] ELSE None]
Having == [t \in Threads |-> IF pc[t] = "return" THEN binary[t] ELSE None]

LEMMA LoadsInit == Init => Loads!Init
BY DEF Init, Loads!Init

LEMMA LoadsVars == Loads!vars = <<Asking, Having>> /\ Loads!vars' = <<Asking', Having'>>
BY DEF Loads!vars, Asking, Having, Loading

(* A load in progress ends.                                                *)
LEMMA EndsLoad ==
  ASSUME IInv, NEW t \in Threads, pc[t] \in Loading,
         pc' = [pc EXCEPT ![t] = "return"], call' = call,
         NEW result \in {Refused, Compiled(t, call[t].text, call[t].device)},
         binary' = [binary EXCEPT ![t] = result]
  PROVE  Loads!End(t)
<1>1. /\ Asking[t] = [text |-> call[t].text, device |-> call[t].device]
      /\ Asking[t] # None
  <2>1. [text |-> call[t].text, device |-> call[t].device] \in [text : Texts, device : Devices]
    BY LoadInProgress
  <2> QED BY <2>1, ModulesAssumption DEF Asking
<1>2. Asking' = [Asking EXCEPT ![t] = None]
  BY DEF Asking, Loading, IInv, TypeOK
<1>3. Having' = [Having EXCEPT ![t] = result]
  BY DEF Having, Loading, IInv, TypeOK
<1> QED BY <1>1, <1>2, <1>3 DEF Loads!End, Asking, Having, Loading

(* A load begins.                                                          *)
LEMMA BeginsLoad ==
  ASSUME IInv, NEW t \in Threads, NEW text \in Texts, NEW d \in Devices,
         NEW l, pc[t] = "idle", Start(t, text, d, l)
  PROVE  Loads!Begin(t)
<1>1. Asking' = [Asking EXCEPT ![t] = [text |-> text, device |-> d]]
  BY DEF Asking, Loading, Start, IInv, TypeOK
<1>2. Having' = Having
  BY DEF Having, Start, IInv, TypeOK
<1>3. Asking[t] = None /\ Having[t] = None
  BY DEF Asking, Having, Loading
<1> QED BY <1>1, <1>2, <1>3 DEF Loads!Begin, Asking, Having, Loading

LEMMA LoadsNext == IInv /\ [Next]_vars => [Loads!Next]_(Loads!vars)
<1> SUFFICES ASSUME IInv, [Next]_vars PROVE Loads!Next \/ UNCHANGED <<Asking, Having>>
  BY LoadsVars
<1>1. TypeOK /\ CallsRight
  BY DEF IInv
<1>2. ASSUME UNCHANGED locals PROVE UNCHANGED <<Asking, Having>>
  BY <1>2 DEF Asking, Having, locals
<1>3. ASSUME NEW t \in Threads, NEW text \in Texts, NEW d \in Devices, LoadData(t, text, d)
      PROVE  Loads!Next
  BY <1>3, BeginsLoad DEF LoadData, Loads!Next
<1>4. ASSUME NEW t \in Threads, NEW l \in Libraries(Home[t]), NEW d \in Devices,
             GetModuleForDevice(t, l, d)
      PROVE  Loads!Next \/ UNCHANGED <<Asking, Having>>
  <2>1. pc[t] = "idle"
    BY <1>4 DEF GetModuleForDevice
  <2>2. CASE Start(t, Source[Home[t]][l], d, l)
    BY <2>1, <2>2, Constants, BeginsLoad DEF Loads!Next
  <2>3. CASE /\ pc' = [pc EXCEPT ![t] = "waiting"]
             /\ call' = [call EXCEPT ![t] =
                           [text |-> Source[Home[t]][l], device |-> d, library |-> l]]
             /\ UNCHANGED <<rows, total, library, module, cache, binary>>
    BY <1>1, <2>1, <2>3 DEF Asking, Having, Loading, TypeOK
  <2> QED BY <1>2, <1>4, <2>2, <2>3 DEF GetModuleForDevice
<1>5. ASSUME NEW t \in Threads, Awake(t) PROVE UNCHANGED <<Asking, Having>>
  BY <1>1, <1>5 DEF Awake, Asking, Having, Loading, TypeOK
<1>6. ASSUME NEW t \in Threads,
             Open(t) \/ LoadCachedBinary(t) \/ Compile(t) \/ InsertModule(t)
      PROVE  UNCHANGED <<Asking, Having>>
  <2>1. /\ pc[t] \in Loading /\ call' = call
        /\ pc'[t] \in Loading /\ \A u \in Threads \ {t} : pc'[u] = pc[u] /\ binary'[u] = binary[u]
    BY <1>1, <1>6 DEF Open, LoadCachedBinary, Compile, InsertModule, Loading, TypeOK
  <2>2. \A u \in Threads : pc[u] \in Loading <=> pc'[u] \in Loading
    BY <2>1
  <2>3. \A u \in Threads : IF pc[u] = "return" THEN pc'[u] = "return" /\ binary'[u] = binary[u]
                           ELSE pc'[u] # "return"
    BY <2>1 DEF Loading
  <2>4. Asking' = Asking
    BY <2>1, <2>2 DEF Asking
  <2>5. Having' = Having
    BY <2>3 DEF Having
  <2> QED BY <2>4, <2>5
<1>7. ASSUME NEW t \in Threads, Fail(t) PROVE Loads!Next
  BY <1>7, EndsLoad DEF Fail, Finish, Loading, Loads!Next
<1>8. ASSUME NEW t \in Threads, HipModuleLoadData(t) PROVE Loads!Next
  <2>1. /\ pc[t] = "load" /\ pc' = [pc EXCEPT ![t] = "return"] /\ call' = call /\ binary' = binary
    BY <1>8 DEF HipModuleLoadData, Finish
  <2>2. binary' = [binary EXCEPT ![t] = Compiled(t, call[t].text, call[t].device)]
    BY <1>1, <2>1 DEF CallsRight, TypeOK
  <2> QED BY <2>1, <2>2, EndsLoad DEF Loading, Loads!Next
<1>9. ASSUME NEW t \in Threads, Return(t) PROVE Loads!Next
  <2>1. Asking' = Asking
    BY <1>1, <1>9 DEF Return, Asking, Loading, TypeOK
  <2>2. Having' = [Having EXCEPT ![t] = None]
    BY <1>1, <1>9 DEF Return, Having, TypeOK
  <2>3. Having[t] # None
    BY <1>1, <1>9, ModulesAssumption DEF Return, Having, CallsRight
  <2> QED BY <2>1, <2>2, <2>3 DEF Loads!Return, Loads!Next, Asking, Having, Loading
<1>10. ASSUME NEW p \in Processes, Crash(p) PROVE Loads!Next
  <2> DEFINE ended == {t \in Threads : Home[t] = p}
  <2>1. Asking' = [t \in Threads |-> IF t \in ended THEN None ELSE Asking[t]]
    BY <1>10 DEF Crash, Asking, Loading
  <2>2. Having' = [t \in Threads |-> IF t \in ended THEN None ELSE Having[t]]
    BY <1>10 DEF Crash, Having
  <2>3. Loads!Abandon(ended)
    BY <2>1, <2>2 DEF Loads!Abandon, Asking, Having, Loading
  <2>4. ended \in SUBSET Threads
    OBVIOUS
  <2> QED BY <2>3, <2>4 DEF Loads!Next
<1>11. ASSUME NEW t \in Threads, Continue(t) PROVE Loads!Next \/ UNCHANGED <<Asking, Having>>
  BY <1>5, <1>6, <1>7, <1>8, <1>9, <1>11 DEF Continue
<1>12. ASSUME NEW t \in Threads,
              \/ \E l \in Libraries(Home[t]) : UnloadLibrary(t, l)
              \/ \E l \in Libraries(Home[t]), lazy \in BOOLEAN : LoadLibrary(t, l, lazy)
              \/ \E a \in Heap[Home[t]] : Unload(t, a)
       PROVE  UNCHANGED <<Asking, Having>>
  BY <1>2, <1>12 DEF UnloadLibrary, LoadLibrary, Unload
<1>13. CASE UNCHANGED vars
  BY <1>2, <1>13 DEF vars
<1> QED BY <1>3, <1>4, <1>10, <1>11, <1>12, <1>13 DEF Next

(* What the cache adds is not seen: every load ends as one without a cache *)
(* would, whatever other processes and versions write and whenever they    *)
(* end.                                                                    *)
THEOREM CacheTransparent == Spec => LoadsImplemented
BY LoadsInit, LoadsNext, Invariant, PTL DEF Spec, LoadsImplemented, Loads!Spec
=============================================================================
