------------------------- MODULE ServerMemoryProofs -------------------------
(* Proofs about the device memory of the 64-bit server, for any size of    *)
(* the block, modules and requests.                                        *)
EXTENDS ServerProofs

(* An allocation has at least one unit, and room for what was asked.       *)
Roomy ==
  \A s \in Units : ends[s] # None => s < ends[s] /\ asked[s] <= (ends[s] - s) * Unit

MemoryInv == PoolInv /\ Roomy /\ UnitsAccounted

-----------------------------------------------------------------------------
(* Arithmetic.                                                             *)
LEMMA Division ==
  ASSUME NEW a \in Nat, NEW d \in Nat \ {0}
  PROVE  /\ a \div d \in Nat
         /\ (a \div d) * d <= a /\ a < (a \div d) * d + d
OBVIOUS

LEMMA Below ==
  ASSUME NEW a \in Nat, NEW b \in Nat, NEW d \in Nat \ {0}
  PROVE  /\ a * d <= b <=> a <= b \div d
         /\ b < a * d <=> b \div d < a
<1> DEFINE q == b \div d
<1>1. q \in Nat /\ q * d <= b /\ b < q * d + d
  BY Division
<1> HIDE DEF q
<1>2. a <= q => a * d <= q * d
  BY <1>1
<1>3. q < a => q * d + d <= a * d
  <2>1. q < a => q + 1 <= a
    BY <1>1
  <2>2. q + 1 <= a => (q + 1) * d <= a * d
    BY <1>1
  <2>3. (q + 1) * d = q * d + d
    BY <1>1
  <2> QED BY <2>1, <2>2, <2>3
<1>4. a * d \in Nat /\ q * d \in Nat
  BY <1>1
<1>5. (a * d <= b <=> a <= q) /\ (b < a * d <=> q < a)
  BY <1>1, <1>2, <1>3, <1>4
<1> QED BY <1>5 DEF q

(* The units of a size hold that many bytes, unless they are none.         *)
LEMMA UnitsEnough ==
  ASSUME NEW n \in 0 .. Wrap - 1, UnitsOf(n) # 0
  PROVE  UnitsOf(n) \in Nat /\ n <= UnitsOf(n) * Unit
<1>1. Unit \in Nat \ {0} /\ Wrap \in Nat /\ LastUnit \in Nat /\ (LastUnit + 1) * Unit <= Wrap
  BY ServerAssumption
<1>2. Unit <= Wrap
  <2>1. LastUnit * Unit \in Nat /\ (LastUnit + 1) * Unit = LastUnit * Unit + Unit
    BY <1>1
  <2> QED BY <1>1, <2>1
<1> DEFINE q == (n + Unit - 1) \div Unit
<1>3. n + Unit - 1 \in Nat
  BY <1>1
<1>4. q \in Nat /\ q * Unit <= n + Unit - 1 /\ n + Unit - 1 < q * Unit + Unit
  BY <1>1, <1>3, Division
<1>5. UnitsOf(n) = ((q * Unit) % Wrap) \div Unit
  BY DEF UnitsOf
<1> HIDE DEF q
<1>6. q * Unit \in Nat /\ n <= q * Unit
  BY <1>1, <1>4
<1>7. CASE q * Unit < Wrap
  <2>1. (q * Unit) % Wrap = q * Unit
    BY <1>1, <1>6, <1>7
  <2>2. (q * Unit) \div Unit = q
    BY <1>1, <1>4
  <2> QED BY <1>4, <1>5, <1>6, <2>1, <2>2
<1>8. CASE Wrap <= q * Unit
  <2>1. q * Unit - Wrap \in 0 .. Unit - 2
    BY <1>1, <1>4, <1>6, <1>8
  <2>2. (q * Unit) % Wrap = q * Unit - Wrap
    BY <1>1, <1>2, <1>6, <2>1
  <2>3. UnitsOf(n) = 0
    BY <1>1, <1>5, <2>1, <2>2
  <2> QED BY <2>3
<1> QED BY <1>1, <1>6, <1>7, <1>8

-----------------------------------------------------------------------------
(* Owners of a unit, and what the steps of the server make of them.        *)
LEMMA OwnersAre ==
  ASSUME NEW u
  PROVE  \A o : o \in Owners(u) <=>
           \/ \E s \in Units : ends[s] # None /\ u \in s .. ends[s] - 1 /\ o = <<"alloc", s>>
           \/ \E m \in ModuleAddrs :
                modules[m] # None /\ \E k \in DOMAIN modules[m].globals :
                  u \in Span(modules[m].globals[k]) /\ o = <<"global", m, k>>
           \/ u \in lost /\ o = <<"lost", u>>
<1>1. \A o : o \in Allocations(u) <=>
        \E s \in Units : ends[s] # None /\ u \in s .. ends[s] - 1 /\ o = <<"alloc", s>>
  BY DEF Allocations
<1>2. \A m, o : o \in GlobalsOf(m, u) <=>
        \E k \in DOMAIN modules[m].globals :
          u \in Span(modules[m].globals[k]) /\ o = <<"global", m, k>>
  BY DEF GlobalsOf
<1>3. \A o : o \in GlobalsAt(u) <=>
        \E m \in ModuleAddrs : modules[m] # None /\ o \in GlobalsOf(m, u)
  BY DEF GlobalsAt
<1>4. \A o : o \in LostAt(u) <=> u \in lost /\ o = <<"lost", u>>
  BY DEF LostAt
<1>5. Owners(u) = Allocations(u) \cup GlobalsAt(u) \cup LostAt(u)
  BY DEF Owners
<1>6. \A o : o \in Owners(u) <=>
        o \in Allocations(u) \/ o \in GlobalsAt(u) \/ o \in LostAt(u)
  BY <1>5
<1> HIDE DEF Owners
<1> QED BY <1>1, <1>2, <1>3, <1>4, <1>6

LEMMA Distinct ==
  ASSUME NEW a, NEW b, NEW c, NEW d, NEW e
  PROVE  /\ <<"alloc", a>> # <<"global", b, c>>
         /\ <<"alloc", a>> # <<"lost", d>>
         /\ <<"global", b, c>> # <<"lost", d>>
         /\ <<"alloc", a>> = <<"alloc", d>> => a = d
         /\ <<"global", b, c>> = <<"global", d, e>> => b = d /\ c = e
OBVIOUS

(* Units that are free have no owner, the others one.                      *)
LEMMA Accounted ==
  ASSUME UnitsAccounted, NEW u \in Units
  PROVE  /\ u \in free => \A o : o \notin Owners(u)
         /\ u \notin free => \E o : o \in Owners(u)
         /\ \A o, p : o \in Owners(u) /\ p \in Owners(u) => o = p
BY DEF UnitsAccounted

(* A step takes free units, each for one owner, or gives units up.         *)
LEMMA AccountedTaken ==
  ASSUME UnitsAccounted, NEW took \in SUBSET free, free' = free \ took,
         \A u \in Units : u \notin took => Owners(u)' = Owners(u),
         \A u \in Units : u \in took => \E o : Owners(u)' = Owners(u) \cup {o}
  PROVE  UnitsAccounted'
<1> SUFFICES ASSUME NEW u \in Units
             PROVE  IF u \in free' THEN Owners(u)' = {} ELSE \E o \in Owners(u)' : Owners(u)' = {o}
  BY DEF UnitsAccounted
<1>1. IF u \in free THEN Owners(u) = {} ELSE \E o \in Owners(u) : Owners(u) = {o}
  BY DEF UnitsAccounted
<1>2. CASE u \in took
  <2>1. PICK o : Owners(u)' = Owners(u) \cup {o}
    BY <1>2
  <2>2. Owners(u)' = {o} /\ u \notin free'
    BY <1>1, <1>2, <2>1
  <2> QED BY <2>2
<1>3. CASE u \notin took
  BY <1>1, <1>3
<1> QED BY <1>2, <1>3

LEMMA AccountedGiven ==
  ASSUME UnitsAccounted, NEW gave \in SUBSET Units, free' = free \cup gave,
         \A u \in Units : u \notin gave => Owners(u)' = Owners(u),
         \A u \in Units : u \in gave => \E o \in Owners(u) : Owners(u)' = Owners(u) \ {o}
  PROVE  UnitsAccounted'
<1> SUFFICES ASSUME NEW u \in Units
             PROVE  IF u \in free' THEN Owners(u)' = {} ELSE \E o \in Owners(u)' : Owners(u)' = {o}
  BY DEF UnitsAccounted
<1>1. IF u \in free THEN Owners(u) = {} ELSE \E o \in Owners(u) : Owners(u) = {o}
  BY DEF UnitsAccounted
<1>2. CASE u \in gave
  <2>1. PICK o \in Owners(u) : Owners(u)' = Owners(u) \ {o}
    BY <1>2
  <2>2. Owners(u)' = {} /\ u \in free'
    BY <1>1, <1>2, <2>1
  <2> QED BY <2>2
<1>3. CASE u \notin gave
  BY <1>1, <1>3
<1> QED BY <1>2, <1>3

(* A step that leaves memory and the globals of modules alone.             *)
LEMMA MemoryKept ==
  ASSUME MemoryInv,
         UNCHANGED memory_vars,
         \A m \in ModuleAddrs :
           /\ modules'[m] = None <=> modules[m] = None
           /\ modules[m] # None => modules'[m].globals = modules[m].globals
  PROVE  Roomy' /\ UnitsAccounted'
<1>1. Roomy'
  BY DEF MemoryInv, Roomy, memory_vars
<1>2. \A u : Owners(u)' = Owners(u)
  <2> TAKE u
  <2>1. \A m \in ModuleAddrs : modules[m] # None => GlobalsOf(m, u)' = GlobalsOf(m, u)
    BY DEF GlobalsOf
  <2>2. Allocations(u)' = Allocations(u) /\ LostAt(u)' = LostAt(u)
    BY DEF Allocations, LostAt, memory_vars
  <2>3. GlobalsAt(u)' = GlobalsAt(u)
    BY <2>1 DEF GlobalsAt
  <2> QED BY <2>2, <2>3 DEF Owners
<1>3. UnitsAccounted'
  BY <1>2 DEF MemoryInv, UnitsAccounted, memory_vars
<1> QED BY <1>1, <1>3

LEMMA MemoryAlloc ==
  ASSUME MemoryInv, NEW n \in Requests, MemAlloc(n)
  PROVE  Roomy' /\ UnitsAccounted'
<1> TypeOK /\ Roomy /\ UnitsAccounted
  BY DEF MemoryInv, PoolInv
<1>1. CASE UnitsOf(n) = 0 /\ Panic
  <2>1. UNCHANGED <<memory_vars, modules>>
    BY <1>1 DEF Panic, memory_vars, module_vars
  <2> QED BY <2>1, MemoryKept
<1>2. CASE UnitsOf(n) # 0
  <2>1. PICK r \in FreeRanges(UnitsOf(n)) :
          /\ free' = free \ Span(r)
          /\ ends' = [ends EXCEPT ![r.start] = r.end]
          /\ asked' = [asked EXCEPT ![r.start] = n]
          /\ UNCHANGED <<modules, lost>>
    BY <1>2 DEF MemAlloc, module_vars
  <2>2. /\ r \in Range /\ Span(r) \subseteq free /\ r.end - r.start = UnitsOf(n)
        /\ r.start \in Units /\ r.end \in 2 .. LastUnit + 1 /\ r.start < r.end
        /\ Span(r) = r.start .. r.end - 1 /\ Span(r) \subseteq Units
    BY <2>1, UnitsNat DEF FreeRanges, Range, Span
  <2>3. LastUnit \in Nat /\ r.start \in Nat /\ r.end \in Nat /\ Unit \in Nat
    BY <2>2, ServerAssumption DEF Units
  <2>4. ends[r.start] = None
    <3>1. r.start \in free
      BY <2>2, <2>3
    <3>2. <<"alloc", r.start>> \notin Owners(r.start)
      BY <2>2, <3>1, Accounted
    <3>3. ends[r.start] # None => ends[r.start] \in 2 .. LastUnit + 1 /\ r.start < ends[r.start]
      BY <2>2 DEF TypeOK, Roomy
    <3>4. ends[r.start] # None => r.start \in r.start .. ends[r.start] - 1
      BY <2>3, <3>3
    <3> QED BY <2>2, <3>2, <3>4, OwnersAre
  <2>5. Roomy'
    <3>1. n <= (r.end - r.start) * Unit
      BY <1>2, <2>2, UnitsEnough, ServerAssumption
    <3> QED BY <2>1, <2>2, <3>1 DEF Roomy, TypeOK
  <2>6. \A u : GlobalsAt(u)' = GlobalsAt(u) /\ LostAt(u)' = LostAt(u)
    BY <2>1 DEF GlobalsAt, GlobalsOf, LostAt
  <2>7. \A u \in Units : u \notin Span(r) => Allocations(u)' = Allocations(u)
    BY <2>1, <2>2, <2>4 DEF Allocations, TypeOK
  <2>8. None \notin 2 .. LastUnit + 1
    BY ServerAssumption
  <2>9. \A u \in Units : u \in Span(r) => Allocations(u)' = Allocations(u) \cup {<<"alloc", r.start>>}
    BY <2>1, <2>2, <2>4, <2>8 DEF Allocations, TypeOK
  <2>10. \A u \in Units : u \notin Span(r) => Owners(u)' = Owners(u)
    BY <2>6, <2>7 DEF Owners
  <2>11. \A u \in Units : u \in Span(r) => Owners(u)' = Owners(u) \cup {<<"alloc", r.start>>}
    BY <2>6, <2>9 DEF Owners
  <2>12. UnitsAccounted'
    <3>1. Span(r) \in SUBSET free
      BY <2>2
    <3>2. \A u \in Units : u \in Span(r) => \E o : Owners(u)' = Owners(u) \cup {o}
      BY <2>11
    <3> QED BY <2>1, <2>10, <3>1, <3>2, AccountedTaken
  <2> QED BY <2>5, <2>12
<1> QED BY <1>1, <1>2 DEF MemAlloc

LEMMA MemoryFree ==
  ASSUME MemoryInv, NEW s \in Units, MemFree(s)
  PROVE  Roomy' /\ UnitsAccounted'
<1> TypeOK /\ Roomy /\ UnitsAccounted
  BY DEF MemoryInv, PoolInv
<1>1. /\ ends[s] # None /\ ends[s] \in 2 .. LastUnit + 1 /\ FreedSpan(s) = s .. ends[s] - 1
      /\ free' = free \cup FreedSpan(s) /\ ends' = [ends EXCEPT ![s] = None]
      /\ asked' = [asked EXCEPT ![s] = 0] /\ UNCHANGED <<modules, lost>>
  BY DEF MemFree, FreedSpan, TypeOK, module_vars
<1>2. FreedSpan(s) \subseteq Units
  BY <1>1, ServerAssumption DEF Units
<1>3. Roomy'
  BY <1>1 DEF Roomy, TypeOK
<1>4. \A u : GlobalsAt(u)' = GlobalsAt(u) /\ LostAt(u)' = LostAt(u)
  BY <1>1 DEF GlobalsAt, GlobalsOf, LostAt
<1>5. \A u \in Units : Allocations(u)' = Allocations(u) \ {<<"alloc", s>>}
  BY <1>1 DEF Allocations, TypeOK
<1>6. \A u \in Units : u \in FreedSpan(s) <=> <<"alloc", s>> \in Owners(u)
  <2> TAKE u \in Units
  <2>1. u \in FreedSpan(s) <=> <<"alloc", s>> \in Allocations(u)
    BY <1>1 DEF Allocations
  <2>2. <<"alloc", s>> \notin GlobalsAt(u) /\ <<"alloc", s>> \notin LostAt(u)
    BY DEF GlobalsAt, GlobalsOf, LostAt
  <2> QED BY <2>1, <2>2 DEF Owners
<1>7. \A u \in Units : Owners(u)' = Owners(u) \ {<<"alloc", s>>}
  <2> TAKE u \in Units
  <2>1. <<"alloc", s>> \notin GlobalsAt(u) /\ <<"alloc", s>> \notin LostAt(u)
    BY DEF GlobalsAt, GlobalsOf, LostAt
  <2> QED BY <1>4, <1>5, <2>1 DEF Owners
<1>8. UnitsAccounted'
  <2>1. FreedSpan(s) \in SUBSET Units
    BY <1>2
  <2>2. \A u \in Units : u \notin FreedSpan(s) => Owners(u)' = Owners(u)
    BY <1>6, <1>7
  <2>3. \A u \in Units : u \in FreedSpan(s) => \E o \in Owners(u) : Owners(u)' = Owners(u) \ {o}
    BY <1>6, <1>7
  <2> QED BY <1>1, <2>1, <2>2, <2>3, AccountedGiven
<1> QED BY <1>3, <1>8

(* The ranges got for the globals of a module are free and do not overlap. *)
LEMMA Placed ==
  ASSUME MemoryInv, NEW c \in Codes, NEW n \in 0 .. Len(Globals[c]), NEW rs \in Placements(c, n)
  PROVE  /\ DOMAIN rs = 1 .. n /\ Taken(rs) \in SUBSET free
         /\ \A u \in Taken(rs) : \E k \in DOMAIN rs :
              u \in Span(rs[k]) /\ \A l \in DOMAIN rs : u \in Span(rs[l]) => k = l
<1>1. DOMAIN rs = 1 .. n
  BY DEF Placements
<1>2. /\ \A k \in DOMAIN rs : rs[k] \in FreeRanges(UnitsOf(Globals[c][k].size))
      /\ \A k, l \in DOMAIN rs : k # l => Span(rs[k]) \cap Span(rs[l]) = {}
  BY <1>1 DEF Placements
<1>3. \A k \in DOMAIN rs : Span(rs[k]) \subseteq free
  BY <1>2 DEF FreeRanges
<1> QED BY <1>1, <1>2, <1>3 DEF Taken

LEMMA MemoryModuleLoad ==
  ASSUME MemoryInv, NEW m \in ModuleAddrs, NEW c \in Codes, NEW i \in Ids, ModuleLoad(m, c, i)
  PROVE  Roomy' /\ UnitsAccounted'
<1> TypeOK /\ Roomy /\ UnitsAccounted
  BY DEF MemoryInv, PoolInv
<1>1. modules[m] = None
  BY DEF ModuleLoad, MemoryInv, PoolInv, CodeLoaded
<1>2. PICK rs \in Placements(c, Len(Globals[c])) :
        /\ free' = free \ Taken(rs)
        /\ modules' = [modules EXCEPT ![m] =
             [globals |-> rs, texrefs |-> [x \in TextureNames |-> None]]]
        /\ UNCHANGED <<ends, asked, lost>>
  BY DEF ModuleLoad
<1>3. Len(Globals[c]) \in 0 .. Len(Globals[c])
  BY ServerAssumption
<1>4. /\ Taken(rs) \in SUBSET free
      /\ \A u \in Taken(rs) : \E k \in DOMAIN rs :
           u \in Span(rs[k]) /\ \A l \in DOMAIN rs : u \in Span(rs[l]) => k = l
  BY <1>3, Placed
<1>5. Roomy'
  BY <1>2 DEF Roomy
<1>6. modules'[m] # None /\ modules'[m].globals = rs
      /\ \A o \in ModuleAddrs : o # m => modules'[o] = modules[o]
  <2>1. rs \in Seq(Range)
    BY <1>3, PlacementType
  <2>2. [globals |-> rs, texrefs |-> [x \in TextureNames |-> None]] \in Module
    BY <2>1 DEF Module
  <2>3. None \notin Module
    BY ServerAssumption
  <2> QED BY <1>2, <2>2, <2>3 DEF TypeOK
<1>7. \A u : Allocations(u)' = Allocations(u) /\ LostAt(u)' = LostAt(u)
  BY <1>2 DEF Allocations, LostAt
<1>8. \A u : GlobalsAt(u)' = GlobalsAt(u) \cup GlobalsOf(m, u)'
  <2> TAKE u
  <2>1. \A o \in ModuleAddrs : o # m => GlobalsOf(o, u)' = GlobalsOf(o, u)
    BY <1>6 DEF GlobalsOf
  <2> QED BY <1>1, <1>6, <2>1 DEF GlobalsAt
<1>9. \A u \in Units : u \notin Taken(rs) => Owners(u)' = Owners(u)
  <2> SUFFICES ASSUME NEW u \in Units, u \notin Taken(rs) PROVE Owners(u)' = Owners(u)
    OBVIOUS
  <2>1. \A k \in DOMAIN rs : u \notin Span(rs[k])
    BY DEF Taken
  <2>2. GlobalsOf(m, u)' = {}
    BY <1>6, <2>1 DEF GlobalsOf, Span
  <2> QED BY <1>7, <1>8, <2>2 DEF Owners
<1>10. \A u \in Units : u \in Taken(rs) => \E o : Owners(u)' = Owners(u) \cup {o}
  <2> SUFFICES ASSUME NEW u \in Units, u \in Taken(rs) PROVE \E o : Owners(u)' = Owners(u) \cup {o}
    OBVIOUS
  <2>1. PICK k \in DOMAIN rs : u \in Span(rs[k]) /\ \A l \in DOMAIN rs : u \in Span(rs[l]) => k = l
    BY <1>4
  <2>2. GlobalsOf(m, u)' = {<<"global", m, k>>}
    BY <1>6, <2>1 DEF GlobalsOf, Span
  <2> QED BY <1>7, <1>8, <2>2 DEF Owners
<1> QED BY <1>2, <1>4, <1>5, <1>9, <1>10, AccountedTaken

LEMMA MemoryModuleLoadFails ==
  ASSUME MemoryInv, NEW m \in ModuleAddrs, NEW c \in Codes, ModuleLoadFails(m, c)
  PROVE  Roomy' /\ UnitsAccounted'
<1> TypeOK /\ Roomy /\ UnitsAccounted
  BY DEF MemoryInv, PoolInv
<1>1. PICK n \in 0 .. Len(Globals[c]) : \E rs \in Placements(c, n) :
        free' = free \ Taken(rs) /\ lost' = lost \cup Taken(rs)
  BY DEF ModuleLoadFails
<1>2. PICK rs \in Placements(c, n) : free' = free \ Taken(rs) /\ lost' = lost \cup Taken(rs)
  BY <1>1
<1>3. Taken(rs) \in SUBSET free
  BY Placed
<1>4. UNCHANGED <<modules, ends, asked>>
  BY DEF ModuleLoadFails
<1>5. Roomy'
  BY <1>4 DEF Roomy
<1>6. \A u : Allocations(u)' = Allocations(u) /\ GlobalsAt(u)' = GlobalsAt(u)
  BY <1>4 DEF Allocations, GlobalsAt, GlobalsOf
<1>7. \A u \in Units : u \notin Taken(rs) => LostAt(u)' = LostAt(u)
  BY <1>2 DEF LostAt
<1>8. \A u \in Units : u \in Taken(rs) => LostAt(u)' = LostAt(u) \cup {<<"lost", u>>}
  BY <1>2 DEF LostAt
<1>9. \A u \in Units : u \notin Taken(rs) => Owners(u)' = Owners(u)
  BY <1>6, <1>7 DEF Owners
<1>10. \A u \in Units : u \in Taken(rs) => Owners(u)' = Owners(u) \cup {<<"lost", u>>}
  BY <1>6, <1>8 DEF Owners
<1>11. \A u \in Units : u \in Taken(rs) => \E o : Owners(u)' = Owners(u) \cup {o}
  BY <1>10
<1> QED BY <1>2, <1>3, <1>5, <1>9, <1>11, AccountedTaken

LEMMA MemoryModuleUnload ==
  ASSUME MemoryInv, NEW i \in Ids, ModuleUnload(i)
  PROVE  Roomy' /\ UnitsAccounted'
<1> TypeOK /\ Roomy /\ UnitsAccounted /\ PoolInv
  BY DEF MemoryInv, PoolInv
<1> DEFINE m == handles[i]
<1>1. m \in ModuleAddrs /\ modules[m] # None /\ modules[m] \in Module
  BY ModuleOf DEF ModuleUnload
<1>2. /\ free' = free \cup Freed(m) /\ modules' = [modules EXCEPT ![m] = None]
      /\ UNCHANGED <<ends, asked, lost>>
  BY DEF ModuleUnload
<1> HIDE DEF m
<1> DEFINE rs == modules[m].globals
<1>3. Freed(m) = Taken(rs) /\ rs \in Seq(Range)
  BY <1>1 DEF Freed, Module
<1>4. Taken(rs) \in SUBSET Units
  BY <1>3, UnitsNat DEF Taken
<1> HIDE DEF rs
<1>5. Roomy'
  BY <1>2 DEF Roomy
<1>6. \A u : Allocations(u)' = Allocations(u) /\ LostAt(u)' = LostAt(u)
  BY <1>2 DEF Allocations, LostAt
<1>7. \A u : GlobalsAt(u)' = GlobalsAt(u) \ GlobalsOf(m, u)
  <2> TAKE u
  <2>1. /\ modules'[m] = None
        /\ \A o \in ModuleAddrs : o # m => modules'[o] = modules[o]
    BY <1>1, <1>2 DEF TypeOK
  <2>2. \A o \in ModuleAddrs : o # m => GlobalsOf(o, u)' = GlobalsOf(o, u)
    BY <2>1 DEF GlobalsOf
  <2>3. \A o \in ModuleAddrs : o # m => GlobalsOf(o, u) \cap GlobalsOf(m, u) = {}
    BY DEF GlobalsOf
  <2> QED BY <1>1, <2>1, <2>2, <2>3 DEF GlobalsAt
<1>8. \A u : Allocations(u) \cap GlobalsOf(m, u) = {} /\ LostAt(u) \cap GlobalsOf(m, u) = {}
  BY DEF Allocations, GlobalsOf, LostAt
<1>9. \A u : Owners(u)' = Owners(u) \ GlobalsOf(m, u) /\ GlobalsOf(m, u) \subseteq Owners(u)
  <2> TAKE u
  <2>1. GlobalsOf(m, u) \subseteq GlobalsAt(u)
    BY <1>1 DEF GlobalsAt
  <2> QED BY <1>6, <1>7, <1>8, <2>1 DEF Owners
<1>10. \A u \in Units : u \notin Taken(rs) => Owners(u)' = Owners(u)
  <2> SUFFICES ASSUME NEW u \in Units, u \notin Taken(rs) PROVE Owners(u)' = Owners(u)
    OBVIOUS
  <2>1. GlobalsOf(m, u) = {}
    BY DEF GlobalsOf, Taken, rs
  <2> QED BY <1>9, <2>1
<1>11. \A u \in Units : u \in Taken(rs) => \E o \in Owners(u) : Owners(u)' = Owners(u) \ {o}
  <2> SUFFICES ASSUME NEW u \in Units, u \in Taken(rs)
               PROVE  \E o \in Owners(u) : Owners(u)' = Owners(u) \ {o}
    OBVIOUS
  <2>1. PICK k \in DOMAIN rs : u \in Span(rs[k])
    BY DEF Taken
  <2>2. <<"global", m, k>> \in GlobalsOf(m, u)
    BY <2>1 DEF GlobalsOf, rs
  <2>3. GlobalsOf(m, u) = {<<"global", m, k>>}
    BY <1>9, <2>2, Accounted
  <2> QED BY <1>9, <2>3
<1>12. UnitsAccounted'
  BY <1>2, <1>3, <1>4, <1>10, <1>11, AccountedGiven
<1> QED BY <1>5, <1>12

-----------------------------------------------------------------------------
LEMMA MemoryInit == Init => MemoryInv
<1> SUFFICES ASSUME Init PROVE MemoryInv
  OBVIOUS
<1>1. Roomy
  BY DEF Init, Roomy
<1>2. \A u : Allocations(u) = {} /\ GlobalsAt(u) = {} /\ LostAt(u) = {}
  BY DEF Init, Allocations, GlobalsAt, LostAt
<1>3. UnitsAccounted
  BY <1>2 DEF Init, UnitsAccounted, Owners
<1> QED BY <1>1, <1>3, PoolInit DEF MemoryInv

LEMMA MemoryStep == MemoryInv /\ [Next]_vars => MemoryInv'
<1> SUFFICES ASSUME MemoryInv, [Next]_vars PROVE Roomy' /\ UnitsAccounted'
  BY PoolStep DEF MemoryInv
<1> TypeOK /\ PoolInv
  BY DEF MemoryInv, PoolInv
<1>1. ASSUME UNCHANGED <<memory_vars, modules>> PROVE Roomy' /\ UnitsAccounted'
  BY <1>1, MemoryKept
<1>2. CASE UNCHANGED vars
  BY <1>1, <1>2 DEF vars, module_vars
<1>3. ASSUME NEW e \in EventAddrs, NEW i \in Ids, EventCreate(e, i) PROVE Roomy' /\ UnitsAccounted'
  BY <1>1, <1>3 DEF EventCreate, module_vars
<1>4. ASSUME NEW i \in Ids, EventDestroy(i) PROVE Roomy' /\ UnitsAccounted'
  BY <1>1, <1>4 DEF EventDestroy, module_vars
<1>5. ASSUME NEW c \in Codes, ModuleLoadPanics(c) PROVE Roomy' /\ UnitsAccounted'
  BY <1>1, <1>5 DEF ModuleLoadPanics, Panic, module_vars, memory_vars
<1>6. ASSUME NEW h \in Ids, NEW i \in Ids, NEW name \in FunctionNames, NEW f \in FunctionAddrs,
             GetFunction(h, name, f, i)
      PROVE  Roomy' /\ UnitsAccounted'
  BY <1>1, <1>6 DEF GetFunction
<1>7. ASSUME NEW h \in Ids, NEW i \in Ids, NEW x \in TextureNames, GetTexRef(h, x, i)
      PROVE  Roomy' /\ UnitsAccounted'
  <2>1. UNCHANGED memory_vars
    BY <1>7 DEF GetTexRef
  <2>2. handles[h] \in ModuleAddrs /\ modules[handles[h]] \in Module /\ None \notin Module
    BY <1>7, ModuleOf, ServerAssumption DEF GetTexRef
  <2>3. modules' = modules \/ modules' = [modules EXCEPT ![handles[h]].texrefs[x] = i]
    BY <1>7 DEF GetTexRef
  <2>4. CASE modules' = modules
    BY <1>1, <2>1, <2>4
  <2>5. CASE modules' = [modules EXCEPT ![handles[h]].texrefs[x] = i]
    <3>1. modules'[handles[h]].globals = modules[handles[h]].globals /\ modules'[handles[h]] # None
      <4>1. modules'[handles[h]] = [modules[handles[h]] EXCEPT !.texrefs[x] = i]
        BY <2>2, <2>5 DEF TypeOK
      <4>2. modules'[handles[h]].globals = modules[handles[h]].globals /\ modules'[handles[h]] \in Module
        BY <2>2, <4>1 DEF Module
      <4> QED BY <2>2, <4>2
    <3>2. \A m \in ModuleAddrs : m # handles[h] => modules'[m] = modules[m]
      BY <2>5 DEF TypeOK
    <3> QED BY <2>1, <2>2, <3>1, <3>2, MemoryKept
  <2> QED BY <2>3, <2>4, <2>5
<1> QED
  BY <1>2, <1>3, <1>4, <1>5, <1>6, <1>7, MemoryAlloc, MemoryFree, MemoryModuleLoad,
     MemoryModuleLoadFails, MemoryModuleUnload
    DEF Next

THEOREM MemoryInvariant == Spec => []MemoryInv
BY MemoryInit, MemoryStep, PTL DEF Spec

(* Device memory is never handed out twice, and only failed loads lose     *)
(* any: each unit is free or has exactly one owner, however allocations    *)
(* and modules come and go.                                                *)
THEOREM MemoryAccounted == Spec => []UnitsAccounted
BY MemoryInvariant, PTL DEF MemoryInv

-----------------------------------------------------------------------------
(* Addresses.                                                              *)

(* An allocation does not reach the next one.                              *)
LEMMA AllocationsApart ==
  ASSUME MemoryInv, NEW s \in Units, NEW v \in Units, ends[s] # None, ends[v] # None, s <= v, v < ends[s]
  PROVE  s = v
<1>1. v \in s .. ends[s] - 1 /\ v \in v .. ends[v] - 1
  BY ServerAssumption DEF MemoryInv, PoolInv, TypeOK, Roomy, Units
<1>2. <<"alloc", s>> \in Owners(v) /\ <<"alloc", v>> \in Owners(v)
  BY <1>1, OwnersAre
<1> QED BY <1>2, Accounted, Distinct DEF MemoryInv

LEMMA RangeExact == MemoryInv => AddressRangeExact
<1> SUFFICES ASSUME MemoryInv, NEW b \in 0 .. (LastUnit + 1) * Unit - 1
             PROVE
               LET asking == {u \in Units : ends[u] # None /\ b \in u * Unit .. u * Unit + asked[u] - 1}
                   within == {u \in Units : ends[u] # None /\ b \in u * Unit .. ends[u] * Unit - 1}
               IN asking \subseteq GetRange(b) /\ GetRange(b) = within
  BY DEF AddressRangeExact
<1> DEFINE asking == {u \in Units : ends[u] # None /\ b \in u * Unit .. u * Unit + asked[u] - 1}
           within == {u \in Units : ends[u] # None /\ b \in u * Unit .. ends[u] * Unit - 1}
           at == b \div Unit
<1>1. Unit \in Nat \ {0} /\ LastUnit \in Nat /\ (LastUnit + 1) * Unit \in Nat
  BY ServerAssumption
<1>2. b \in Nat /\ at \in Nat
  BY <1>1, Division
<1>3. ASSUME NEW u \in Units, ends[u] # None
      PROVE  /\ u \in Nat /\ ends[u] \in Nat /\ u < ends[u] /\ asked[u] \in Nat
             /\ asked[u] <= (ends[u] - u) * Unit
  BY <1>1, <1>3 DEF MemoryInv, PoolInv, TypeOK, Roomy, Units
<1>4. \A u \in Units : u \in within <=> ends[u] # None /\ u <= at /\ at < ends[u]
  <2> TAKE u \in Units
  <2>1. CASE ends[u] # None
    <3>1. u \in Nat /\ ends[u] \in Nat
      BY <1>3, <2>1
    <3>2. u * Unit <= b <=> u <= at
      BY <1>1, <1>2, <3>1, Below
    <3>3. b < ends[u] * Unit <=> at < ends[u]
      BY <1>1, <1>2, <3>1, Below
    <3>4. u * Unit \in Nat /\ ends[u] * Unit \in Nat
      BY <1>1, <3>1
    <3>5. b \in u * Unit .. ends[u] * Unit - 1 <=> u * Unit <= b /\ b < ends[u] * Unit
      BY <1>2, <3>4
    <3> QED BY <2>1, <3>2, <3>3, <3>5
  <2> QED BY <2>1
<1>5. \A u \in Units : u \in GetRange(b) <=>
        /\ ends[u] # None /\ u <= at /\ at < ends[u]
        /\ \A v \in Units : ends[v] # None /\ v <= at => v <= u
  BY DEF GetRange, Starts
<1>6. GetRange(b) \subseteq Units
  BY DEF GetRange, Starts
<1> HIDE DEF at
<1>7. within \subseteq GetRange(b)
  <2> SUFFICES ASSUME NEW u \in within, NEW v \in Units, ends[v] # None, v <= at
               PROVE  v <= u
    BY <1>4, <1>5
  <2>1. u \in Units /\ ends[u] # None /\ u <= at /\ at < ends[u]
    BY <1>4
  <2>2. u \in Nat /\ v \in Nat /\ ends[u] \in Nat
    BY <1>3, <2>1
  <2>3. u <= v => u = v
    BY <1>2, <2>1, <2>2, AllocationsApart
  <2> QED BY <2>2, <2>3
<1>8. GetRange(b) = within
  BY <1>4, <1>5, <1>6, <1>7
<1>9. asking \subseteq within
  <2> SUFFICES ASSUME NEW u \in Units, ends[u] # None, b \in u * Unit .. u * Unit + asked[u] - 1
               PROVE  b \in u * Unit .. ends[u] * Unit - 1
    OBVIOUS
  <2>1. /\ u \in Nat /\ ends[u] \in Nat /\ u < ends[u] /\ asked[u] \in Nat
        /\ asked[u] <= (ends[u] - u) * Unit
    BY <1>3
  <2>2. (ends[u] - u) * Unit = ends[u] * Unit - u * Unit
    BY <1>1, <2>1
  <2>3. u * Unit \in Nat /\ ends[u] * Unit \in Nat
    BY <1>1, <2>1
  <2> QED BY <1>2, <2>1, <2>2, <2>3
<1> HIDE DEF asking, within
<1> QED BY <1>8, <1>9 DEF asking, within

(* The address of a byte the client asked for leads to its allocation and  *)
(* to no other, and an address in no allocation leads to none.             *)
THEOREM AddressesExact == Spec => []AddressRangeExact
BY MemoryInvariant, RangeExact, PTL
=============================================================================
