--------------------------- MODULE InsertionProofs ---------------------------
(***************************************************************************)
(* Proofs about ModeInsertion: on every path of the code that is produced, *)
(* an instruction runs in the modes it asks for until the run is misled,   *)
(* and the passes fail on no program but a flawed one.                     *)
(*                                                                         *)
(* The proof goes along the pass.  The modes the propagation of one slot   *)
(* ends with are those that the paths of the graph bring (SettledExact),   *)
(* so that an edge between different modes leads to a node with a prologue *)
(* (EdgeCovered).  The graph of a program is well formed once the          *)
(* preparing passes are done (PreparedOK, GraphOK).  In the code of a      *)
(* block what is known of the modes before every statement follows from    *)
(* the statements before it, unless a setting is folded (EmissionOK).  The *)
(* invariant of a run then says that the hardware has the modes known      *)
(* where the code is, and that the open calls are calls of one method by   *)
(* another (Placed, Nested).  Where nothing is flawed every node of the    *)
(* graph is reached from a kernel (KeptReached), so that no mode is left   *)
(* open and no prologue is missing (NoFailure).                            *)
(*                                                                         *)
(* There is no induction over data: a set of numbers for which something   *)
(* fails has a least one (LeastNumber), and that leads to a contradiction. *)
(***************************************************************************)
EXTENDS ModeInsertion, FiniteSetTheorems, SequenceTheorems, TLAPS

(* A set of numbers has a least one.                                       *)
LEMMA LeastNumber ==
  ASSUME NEW S \in SUBSET Nat, S # {}
  PROVE  \E n \in S : \A m \in S : n <= m
<1> DEFINE Less == {ss \in Nat \X Nat : ss[1] < ss[2]}
<1>1. IsWellFoundedOn(Less, Nat)
  BY NatLessThanWellFounded DEF OpToRel
<1>2. PICK n \in S : \A m \in S : <<m, n>> \notin Less
  <2> HIDE DEF Less
  <2> QED BY <1>1, WFMin
<1>3. ASSUME NEW m \in S PROVE n <= m
  <2>1. m \in Nat /\ n \in Nat /\ <<m, n>> \in Nat \X Nat
    OBVIOUS
  <2>2. ~(m < n)
    BY <1>2, <2>1
  <2> QED BY <2>1, <2>2
<1> QED BY <1>3

-----------------------------------------------------------------------------
(* Steps through a finite set.                                             *)
Further(next, U) == U \cup UNION {next[m] : m \in U}
IsSteps(f, S, from, next) ==
  f = [i \in 0 .. Cardinality(S) |-> IF i = 0 THEN from ELSE Further(next, f[i - 1])]

LEMMA SpreadIs ==
  ASSUME NEW S, NEW from, NEW next
  PROVE  Spread(S, from, next) = (CHOOSE f : IsSteps(f, S, from, next))[Cardinality(S)]
BY DEF Spread, IsSteps, Further

LEMMA StepsExist ==
  ASSUME NEW S, IsFiniteSet(S), NEW from, NEW next
  PROVE  \E f : IsSteps(f, S, from, next)
<1> DEFINE Upto(f, n) == f = [i \in 0 .. n |-> IF i = 0 THEN from ELSE Further(next, f[i - 1])]
           Bad == {n \in Nat : \A f : ~Upto(f, n)}
<1>1. Bad = {}
  <2> SUFFICES ASSUME Bad # {} PROVE FALSE
    OBVIOUS
  <2>1. PICK n \in Bad : \A m \in Bad : n <= m
    <3> HIDE DEF Bad
    <3>1. Bad \in SUBSET Nat
      BY DEF Bad
    <3> QED BY <3>1, LeastNumber
  <2>2. n \in Nat /\ \A f : ~Upto(f, n)
    OBVIOUS
  <2>3. n # 0
    <3> DEFINE f == [i \in 0 .. 0 |-> from]
    <3>1. Upto(f, 0)
      OBVIOUS
    <3> QED BY <3>1, <2>2
  <2>4. n - 1 \in Nat /\ n - 1 \notin Bad
    <3> HIDE DEF Bad
    <3>1. n - 1 \in Nat /\ ~(n <= n - 1)
      BY <2>2, <2>3
    <3> QED BY <2>1, <3>1
  <2>5. PICK g : Upto(g, n - 1)
    BY <2>4
  <2> DEFINE f == [i \in 0 .. n |-> IF i = n THEN Further(next, g[n - 1]) ELSE g[i]]
  <2>6. \A i \in 0 .. n : f[i] = IF i = 0 THEN from ELSE Further(next, f[i - 1])
    BY <2>2, <2>3, <2>5
  <2>7. Upto(f, n)
    <3>1. f = [i \in 0 .. n |-> f[i]]
      OBVIOUS
    <3> HIDE DEF f
    <3> QED BY <2>6, <3>1
  <2> QED BY <2>2, <2>7
<1>2. Cardinality(S) \in Nat
  BY FS_CardinalityType
<1>3. PICK f : Upto(f, Cardinality(S))
  BY <1>1, <1>2
<1> QED BY <1>3 DEF IsSteps

(* As many steps as there are members are enough.                          *)
LEMMA SpreadSteps ==
  ASSUME NEW S, IsFiniteSet(S), NEW from \in SUBSET S, NEW next,
         \A m \in S : next[m] \in SUBSET S
  PROVE  \E f : /\ Spread(S, from, next) = f[Cardinality(S)]
                /\ f[0] = from
                /\ \A i \in 1 .. Cardinality(S) : f[i] = Further(next, f[i - 1])
                /\ \A i \in 0 .. Cardinality(S) : f[i] \in SUBSET S
<1> DEFINE f == CHOOSE f : IsSteps(f, S, from, next)
           N == Cardinality(S)
           Bad == {i \in 0 .. N : f[i] \notin SUBSET S}
<1>1. N \in Nat
  BY FS_CardinalityType
<1>2. IsSteps(f, S, from, next)
  BY StepsExist
<1>3. Spread(S, from, next) = f[N]
  BY SpreadIs
<1> HIDE DEF f, N
<1>4. f[0] = from /\ \A i \in 1 .. N : f[i] = Further(next, f[i - 1])
  BY <1>1, <1>2 DEF IsSteps, N
<1>5. Bad = {}
  <2> SUFFICES ASSUME Bad # {} PROVE FALSE
    OBVIOUS
  <2>1. PICK n \in Bad : \A m \in Bad : n <= m
    <3> HIDE DEF Bad
    <3>1. Bad \in SUBSET Nat
      BY <1>1 DEF Bad
    <3> QED BY <3>1, LeastNumber
  <2>2. n \in 1 .. N /\ n - 1 \in 0 .. N
    BY <1>1, <1>4, <2>1
  <2>3. n - 1 \notin Bad
    <3> HIDE DEF Bad
    <3> QED BY <2>1, <2>2
  <2>4. f[n - 1] \in SUBSET S
    BY <2>2, <2>3
  <2> QED BY <1>4, <2>1, <2>2, <2>4 DEF Further
<1> QED BY <1>3, <1>4, <1>5 DEF N

(* What steps lead to contains where they begin, and no step leads out of  *)
(* it.                                                                     *)
LEMMA SpreadClosed ==
  ASSUME NEW S, IsFiniteSet(S), NEW from \in SUBSET S, NEW next,
         \A m \in S : next[m] \in SUBSET S
  PROVE  /\ Spread(S, from, next) \in SUBSET S
         /\ from \subseteq Spread(S, from, next)
         /\ \A m \in Spread(S, from, next) : next[m] \subseteq Spread(S, from, next)
<1> DEFINE N == Cardinality(S)
<1>1. N \in Nat
  BY FS_CardinalityType
<1>2. PICK f : /\ Spread(S, from, next) = f[N]
               /\ f[0] = from
               /\ \A i \in 1 .. N : f[i] = Further(next, f[i - 1])
               /\ \A i \in 0 .. N : f[i] \in SUBSET S
  BY SpreadSteps
<1> DEFINE Full(i) == /\ from \subseteq f[i]
                      /\ Cardinality(f[i]) >= i \/ Further(next, f[i]) = f[i]
           Bad == {i \in 0 .. N : ~Full(i)}
<1>3. ASSUME NEW i \in 0 .. N
      PROVE  /\ IsFiniteSet(f[i]) /\ Cardinality(f[i]) \in Nat /\ Cardinality(f[i]) <= N
             /\ Cardinality(f[i]) = N => f[i] = S
  BY <1>2, FS_Subset, FS_CardinalityType
<1> HIDE DEF N
<1>4. Bad = {}
  <2> SUFFICES ASSUME Bad # {} PROVE FALSE
    OBVIOUS
  <2>1. PICK n \in Bad : \A m \in Bad : n <= m
    <3> HIDE DEF Bad
    <3>1. Bad \in SUBSET Nat
      BY <1>1 DEF Bad
    <3> QED BY <3>1, LeastNumber
  <2>2. n \in 1 .. N /\ n - 1 \in 0 .. N /\ n \in 0 .. N
    BY <1>1, <1>2, <1>3, <2>1
  <2>3. n - 1 \notin Bad
    <3> HIDE DEF Bad
    <3> QED BY <2>1, <2>2
  <2>4. Full(n - 1)
    <3> HIDE DEF Full
    <3> QED BY <2>2, <2>3
  <2>5. f[n] = Further(next, f[n - 1])
    BY <1>2, <2>2
  <2>6. f[n - 1] \subseteq f[n] /\ from \subseteq f[n]
    BY <2>4, <2>5 DEF Further
  <2>7. CASE f[n] = f[n - 1]
    BY <2>1, <2>4, <2>5, <2>6, <2>7
  <2>8. CASE f[n] # f[n - 1]
    <3>1. Cardinality(f[n - 1]) >= n - 1
      BY <2>4, <2>5, <2>8
    <3>2. Cardinality(f[n - 1]) <= Cardinality(f[n]) /\ Cardinality(f[n - 1]) # Cardinality(f[n])
      BY <1>3, <2>2, <2>6, <2>8, FS_Subset
    <3>3. Cardinality(f[n - 1]) \in Nat /\ Cardinality(f[n]) \in Nat /\ n \in Nat
      BY <1>1, <1>3, <2>2
    <3>4. Cardinality(f[n]) >= n
      BY <3>1, <3>2, <3>3
    <3> QED BY <2>1, <2>6, <3>4
  <2> QED BY <2>7, <2>8
<1>5. N \in 0 .. N
  BY <1>1
<1>6. Full(N)
  <2> HIDE DEF Full
  <2> QED BY <1>4, <1>5
<1>7. Further(next, f[N]) = f[N]
  <2>1. CASE f[N] = S
    BY <2>1 DEF Further
  <2>2. CASE f[N] # S
    <3>1. Cardinality(f[N]) \in Nat /\ Cardinality(f[N]) <= N /\ Cardinality(f[N]) # N
      BY <1>3, <1>5, <2>2
    <3>2. ~(Cardinality(f[N]) >= N)
      BY <1>1, <3>1
    <3> QED BY <1>6, <3>2
  <2> QED BY <2>1, <2>2
<1>8. \A m \in f[N] : next[m] \subseteq f[N]
  BY <1>7 DEF Further
<1> QED BY <1>2, <1>5, <1>6, <1>8

(* And there is no smaller set that nothing leads out of.                  *)
LEMMA SpreadLeast ==
  ASSUME NEW S, IsFiniteSet(S), NEW from \in SUBSET S, NEW next,
         \A m \in S : next[m] \in SUBSET S,
         NEW U, from \subseteq U, \A m \in U \cap S : next[m] \subseteq U
  PROVE  Spread(S, from, next) \subseteq U
<1> DEFINE N == Cardinality(S)
<1>1. N \in Nat
  BY FS_CardinalityType
<1>2. PICK f : /\ Spread(S, from, next) = f[N]
               /\ f[0] = from
               /\ \A i \in 1 .. N : f[i] = Further(next, f[i - 1])
               /\ \A i \in 0 .. N : f[i] \in SUBSET S
  BY SpreadSteps
<1> DEFINE Bad == {i \in 0 .. N : ~(f[i] \subseteq U)}
<1> HIDE DEF N
<1>3. Bad = {}
  <2> SUFFICES ASSUME Bad # {} PROVE FALSE
    OBVIOUS
  <2>1. PICK n \in Bad : \A m \in Bad : n <= m
    <3> HIDE DEF Bad
    <3>1. Bad \in SUBSET Nat
      BY <1>1 DEF Bad
    <3> QED BY <3>1, LeastNumber
  <2>2. n \in 1 .. N /\ n - 1 \in 0 .. N
    BY <1>1, <1>2, <2>1
  <2>3. n - 1 \notin Bad
    <3> HIDE DEF Bad
    <3> QED BY <2>1, <2>2
  <2>4. f[n - 1] \subseteq U /\ f[n - 1] \subseteq S
    BY <1>2, <2>2, <2>3
  <2> QED BY <1>2, <2>1, <2>2, <2>4 DEF Further
<1> QED BY <1>1, <1>2, <1>3

-----------------------------------------------------------------------------
(* The nodes behind a node are those upstream of it, and behind them are   *)
(* the nodes behind their transparent members.                             *)
LEMMA BehindSteps ==
  ASSUME NEW g, IsFiniteSet(g.nodes), NEW n \in g.nodes
  PROVE  /\ Behind(g, n) \in SUBSET g.nodes
         /\ Predecessors(g, n) \subseteq Behind(g, n)
         /\ \A m \in Behind(g, n) \cap Transparent(g) : Predecessors(g, m) \subseteq Behind(g, n)
         /\ \A U : (/\ Predecessors(g, n) \subseteq U
                    /\ \A m \in U \cap Transparent(g) : Predecessors(g, m) \subseteq U)
                   => Behind(g, n) \subseteq U
<1> DEFINE next == [m \in g.nodes |-> IF m \in Transparent(g) THEN Predecessors(g, m) ELSE {}]
<1>1. Behind(g, n) = Spread(g.nodes, Predecessors(g, n), next)
  BY DEF Behind
<1>2. Predecessors(g, n) \in SUBSET g.nodes /\ \A m \in g.nodes : next[m] \in SUBSET g.nodes
  BY DEF Predecessors
<1>3. /\ \A m \in Transparent(g) : m \in g.nodes /\ next[m] = Predecessors(g, m)
      /\ \A m \in g.nodes : m \notin Transparent(g) => next[m] = {}
  BY DEF Transparent, Blocks
<1> HIDE DEF next
<1>4. /\ Behind(g, n) \in SUBSET g.nodes
      /\ Predecessors(g, n) \subseteq Behind(g, n)
      /\ \A m \in Behind(g, n) : next[m] \subseteq Behind(g, n)
  BY <1>1, <1>2, SpreadClosed
<1>5. ASSUME NEW U, Predecessors(g, n) \subseteq U,
             \A m \in U \cap Transparent(g) : Predecessors(g, m) \subseteq U
      PROVE  Behind(g, n) \subseteq U
  <2>1. \A m \in U \cap g.nodes : next[m] \subseteq U
    BY <1>3, <1>5
  <2> QED BY <1>1, <1>2, <1>5, <2>1, SpreadLeast
<1> QED BY <1>3, <1>4, <1>5

LEMMA BehindIsUpstream ==
  ASSUME NEW g, IsFiniteSet(g.nodes), NEW n \in g.nodes
  PROVE  Behind(g, n) = Upstream(g, n)
<1>1. Upstream(g, n) \subseteq Behind(g, n)
  BY BehindSteps DEF Upstream
<1>2. ASSUME NEW m \in Behind(g, n) PROVE m \in Upstream(g, n)
  BY <1>2, BehindSteps DEF Upstream
<1> QED BY <1>1, <1>2

(* The modes the propagation ends with, computed by steps, are those the   *)
(* paths of the graph bring.                                               *)
THEOREM SettledExact ==
  ASSUME NEW g, IsFiniteSet(g.nodes)
  PROVE  Settled(g) = [n \in Blocks(g) |-> Reaching(g, n)]
BY BehindIsUpstream DEF Settled, Reaching, Blocks

LEMMA BehindPredecessor ==
  ASSUME NEW g, IsFiniteSet(g.nodes), NEW n \in g.nodes, NEW m \in Predecessors(g, n)
  PROVE  m \in Behind(g, n) /\ (m \in Transparent(g) => Behind(g, m) \subseteq Behind(g, n))
<1>1. m \in g.nodes
  BY DEF Predecessors
<1> QED BY <1>1, BehindSteps

-----------------------------------------------------------------------------
(* The values and the kernels that reach a node.                           *)
Values(g, n) == {g.last[m] : m \in Behind(g, n) \cap Fixed(g)} \cup ({g.first[n]} \ {NoMode})
Sources(g, n) == Behind(g, n) \cap g.kernels

LEMMA GraphParts ==
  ASSUME NEW g, WellFormed(g)
  PROVE  /\ Blocks(g) \subseteq g.nodes /\ g.kernels \subseteq g.nodes
         /\ Blocks(g) \cap g.kernels = {} /\ Fixed(g) \subseteq Blocks(g)
         /\ Transparent(g) \subseteq Blocks(g)
         /\ \A n \in g.nodes : n \in g.kernels \/ n \in Fixed(g) \/ n \in Transparent(g)
         /\ \A n \in Fixed(g) : g.first[n] \in Modes /\ g.last[n] \in Modes
         /\ \A n \in Transparent(g) : g.first[n] = NoMode /\ n \notin Fixed(g)
<1>1. /\ Blocks(g) \subseteq g.nodes /\ g.kernels \subseteq g.nodes
      /\ Blocks(g) \cap g.kernels = {} /\ Fixed(g) \subseteq Blocks(g)
      /\ Transparent(g) \subseteq Blocks(g)
      /\ \A n \in g.nodes : n \in g.kernels \/ n \in Fixed(g) \/ n \in Transparent(g)
  BY DEF WellFormed, Blocks, Fixed, Transparent
<1>2. ASSUME NEW n \in Fixed(g) PROVE g.first[n] \in Modes /\ g.last[n] \in Modes
  BY DEF WellFormed, Fixed
<1>3. ASSUME NEW n \in Transparent(g) PROVE g.first[n] = NoMode /\ n \notin Fixed(g)
  BY DEF Transparent, Fixed
<1> QED BY <1>1, <1>2, <1>3

(* What arrives at a block: a conflict when two values do, or else the one *)
(* value and the kernels.                                                  *)
LEMMA SettledIs ==
  ASSUME NEW g, WellFormed(g), IsFiniteSet(g.nodes), NEW n \in Blocks(g)
  PROVE  /\ Values(g, n) \subseteq Modes
         /\ Settled(g)[n] = Conflict <=> \E v, w \in Values(g, n) : v # w
         /\ Settled(g)[n] # Conflict =>
              /\ Settled(g)[n].kernels = Sources(g, n)
              /\ \A v \in Values(g, n) : Settled(g)[n].mode = v
              /\ Values(g, n) = {} => Settled(g)[n].mode = NoMode
<1>1. Values(g, n) \subseteq Modes
  <2>1. g.first[n] \in Modes \cup {NoMode}
    BY DEF WellFormed
  <2> QED BY <2>1, GraphParts DEF Values
<1>2. Settled(g)[n] = Brought(g, n, Behind(g, n))
  BY DEF Settled
<1>3. CASE \E v, w \in Values(g, n) : v # w
  <2>1. Settled(g)[n] = Conflict
    BY <1>2, <1>3 DEF Brought, Values
  <2> QED BY <1>1, <1>3, <2>1
<1>4. CASE ~\E v, w \in Values(g, n) : v # w
  <2> DEFINE mode == IF Values(g, n) = {} THEN NoMode ELSE CHOOSE v \in Values(g, n) : TRUE
  <2>1. Settled(g)[n] = Value(mode, Sources(g, n))
    BY <1>2, <1>4 DEF Brought, Values, Sources
  <2>2. mode \in Modes \cup {NoMode}
    BY <1>1
  <2>3. \A v \in Values(g, n) : mode = v
    BY <1>4
  <2>4. Values(g, n) = {} => mode = NoMode
    OBVIOUS
  <2> HIDE DEF mode
  <2>5. Settled(g)[n] # Conflict
    BY <2>1, <2>2, ModesAssumption DEF Conflict, Value
  <2>6. Settled(g)[n].mode = mode /\ Settled(g)[n].kernels = Sources(g, n)
    BY <2>1 DEF Value
  <2> QED BY <1>1, <1>4, <2>3, <2>4, <2>5, <2>6
<1> QED BY <1>3, <1>4

(* What the steps back from a node show of the nodes before it.            *)
LEMMA BehindEdge ==
  ASSUME NEW g, WellFormed(g), IsFiniteSet(g.nodes), NEW m, NEW n, <<m, n>> \in g.edges
  PROVE  /\ m \in g.nodes /\ n \in Blocks(g)
         /\ m \in g.kernels => m \in Sources(g, n)
         /\ m \in Fixed(g) => g.last[m] \in Values(g, n)
         /\ m \in Transparent(g) => /\ Values(g, m) \subseteq Values(g, n)
                                    /\ Sources(g, m) \subseteq Sources(g, n)
<1>1. m \in g.nodes /\ n \in Blocks(g) /\ n \in g.nodes
  BY DEF WellFormed, Blocks
<1>2. m \in Behind(g, n) /\ (m \in Transparent(g) => Behind(g, m) \subseteq Behind(g, n))
  <2>1. m \in Predecessors(g, n)
    BY <1>1 DEF Predecessors
  <2> QED BY <1>1, <2>1, BehindPredecessor
<1>3. m \in Transparent(g) => g.first[m] = NoMode
  BY GraphParts
<1> QED BY <1>1, <1>2, <1>3 DEF Values, Sources

(* The kernels are given modes, and a block that is asked for one and      *)
(* reached only with modes of kernels has that of each, or a prologue.     *)
LEMMA KernelModesOK ==
  ASSUME NEW g, WellFormed(g), IsFiniteSet(g.nodes), NEW modes \in KernelModes(g, Settled(g))
  PROVE  modes \in [g.kernels -> Modes]
<1> DEFINE A == Settled(g)
<1>1. ASSUME NEW k \in g.kernels PROVE Asked(g, A, k) \subseteq Modes
  <2>1. ASSUME NEW n \in Fixed(g), A[n] # Conflict PROVE A[n].mode \in Modes
    <3>1. n \in Blocks(g) /\ g.first[n] \in Modes
      BY GraphParts
    <3>2. g.first[n] \in Values(g, n)
      BY <3>1, ModesAssumption DEF Values
    <3> QED BY <2>1, <3>1, <3>2, SettledIs
  <2> HIDE DEF A
  <2> QED BY <2>1 DEF Asked, MaybeInsert
<1> HIDE DEF A
<1>2. CASE QuickMode(g, A)
  <2>1. modes = QuickModes(g, A)
    BY <1>2 DEF KernelModes, A
  <2>2. \A k \in g.kernels : Asked(g, A, k) # {} => (CHOOSE v \in Asked(g, A, k) : TRUE) \in Modes
    BY <1>1
  <2> QED BY <2>1, <2>2, ModesAssumption DEF QuickModes
<1>3. CASE ~QuickMode(g, A)
  BY <1>3 DEF KernelModes, SlowModes, A
<1> QED BY <1>2, <1>3

(* A block without a prologue whose mode is known gets it on all paths.    *)
LEMMA UniformBehind ==
  ASSUME NEW g, WellFormed(g), IsFiniteSet(g.nodes), NEW modes \in KernelModes(g, Settled(g)),
         NEW n \in Blocks(g), n \notin Inserted(g, Settled(g), modes),
         Resolve(g, Settled(g), modes, n) \notin {NoMode, Clash}
  PROVE  /\ Values(g, n) \subseteq {Resolve(g, Settled(g), modes, n)}
         /\ \A k \in Sources(g, n) : modes[k] = Resolve(g, Settled(g), modes, n)
<1> DEFINE A == Settled(g)
           v == Resolve(g, A, modes, n)
<1>1. n \notin g.kernels
  BY DEF Blocks
<1>2. CASE n \in Fixed(g)
  <2>1. v = g.first[n] /\ v \in Modes
    BY <1>1, <1>2, GraphParts DEF Resolve
  <2>2. v \in Values(g, n)
    BY <2>1, ModesAssumption DEF Values
  <2>3. A[n] # Conflict
    BY <1>2 DEF Inserted, MustInsert
  <2>4. A[n].kernels = Sources(g, n) /\ A[n].mode = v
    BY <2>2, <2>3, SettledIs
  <2>5. Values(g, n) \subseteq {v}
    BY <2>2, <2>3, <2>4, SettledIs
  <2>6. ASSUME NEW k \in Sources(g, n) PROVE modes[k] = v
    <3>1. n \in MaybeInsert(g, A) /\ k \in g.kernels /\ k \in A[n].kernels
      BY <1>2, <2>3, <2>4 DEF MaybeInsert, Sources
    <3>2. CASE QuickMode(g, A)
      <4>1. v \in Asked(g, A, k)
        BY <2>4, <3>1 DEF Asked
      <4>2. modes[k] \in Asked(g, A, k)
        BY <3>1, <3>2, <4>1 DEF KernelModes, QuickModes
      <4> QED BY <3>1, <3>2, <4>1, <4>2 DEF QuickMode
    <3>3. CASE ~QuickMode(g, A)
      <4>1. n \in Satisfied(g, A, modes)
        BY <3>1, <3>3 DEF Inserted
      <4> QED BY <2>4, <3>1, <4>1 DEF Satisfied
    <3> QED BY <3>2, <3>3
  <2> QED BY <2>5, <2>6
<1>3. CASE n \notin Fixed(g)
  <2>1. A[n] # Conflict /\ v = ResolveFast(modes, A[n])
    BY <1>1, <1>3 DEF Resolve
  <2>2. /\ A[n].kernels = Sources(g, n)
        /\ Values(g, n) # {} => \A w \in Values(g, n) : A[n].mode = w
        /\ Values(g, n) \subseteq Modes
    BY <2>1, SettledIs
  <2> DEFINE all == {modes[k] : k \in A[n].kernels} \cup ({A[n].mode} \ {NoMode})
  <2>3. \A x \in all : x = v
    BY <2>1 DEF ResolveFast
  <2>4. Values(g, n) \subseteq all
    BY <2>2, ModesAssumption
  <2> QED BY <2>2, <2>3, <2>4
<1> QED BY <1>2, <1>3

(* The graph's edges are covered: where the mode is known at the end of an *)
(* edge and another at its start, the node at the end has a prologue.      *)
LEMMA EdgeCovered ==
  ASSUME NEW g, WellFormed(g), IsFiniteSet(g.nodes), NEW modes \in KernelModes(g, Settled(g)),
         NEW m, NEW n, <<m, n>> \in g.edges,
         Resolve(g, Settled(g), modes, m) # NoMode, Resolve(g, Settled(g), modes, n) # NoMode,
         ModeChange(Leaves(g, Settled(g), modes, m), Resolve(g, Settled(g), modes, n))
  PROVE  n \in Inserted(g, Settled(g), modes)
<1> DEFINE A == Settled(g)
           v == Resolve(g, A, modes, n)
<1> SUFFICES ASSUME n \notin Inserted(g, A, modes) PROVE FALSE
  OBVIOUS
<1>1. /\ m \in g.nodes /\ n \in Blocks(g)
      /\ m \in g.kernels => m \in Sources(g, n)
      /\ m \in Fixed(g) => g.last[m] \in Values(g, n)
      /\ m \in Transparent(g) => /\ Values(g, m) \subseteq Values(g, n)
                                 /\ Sources(g, m) \subseteq Sources(g, n)
  BY BehindEdge
<1>2. v \notin {NoMode, Clash} /\ Leaves(g, A, modes, m) # v
  BY DEF ModeChange
<1>3. Values(g, n) \subseteq {v} /\ \A k \in Sources(g, n) : modes[k] = v
  BY <1>1, <1>2, UniformBehind
<1> HIDE DEF v, A
<1>4. CASE m \in g.kernels
  <2>1. m \notin Fixed(g)
    BY <1>4, GraphParts
  <2> QED BY <1>1, <1>2, <1>3, <1>4, <2>1 DEF Leaves, Resolve
<1>5. CASE m \in Fixed(g)
  BY <1>1, <1>2, <1>3, <1>5 DEF Leaves
<1>6. CASE m \in Transparent(g)
  <2>1. m \in Blocks(g) /\ m \notin g.kernels /\ m \notin Fixed(g)
    BY <1>6, GraphParts
  <2>2. Values(g, m) \subseteq {v} /\ \A k \in Sources(g, m) : modes[k] = v
    BY <1>1, <1>3, <1>6
  <2>3. A[m] # Conflict
    BY <2>1, <2>2, SettledIs DEF A
  <2>4. A[m].kernels = Sources(g, m) /\ A[m].mode \in {v, NoMode}
    BY <2>1, <2>2, <2>3, SettledIs DEF A
  <2>5. Leaves(g, A, modes, m) = ResolveFast(modes, A[m])
    BY <2>1, <2>3 DEF Leaves, Resolve
  <2>6. ResolveFast(modes, A[m]) # NoMode
    BY <2>1, <2>3 DEF Resolve, A
  <2> DEFINE all == {modes[k] : k \in A[m].kernels} \cup ({A[m].mode} \ {NoMode})
  <2>7. all \subseteq {v}
    BY <2>2, <2>4
  <2>8. ResolveFast(modes, A[m]) = v
    BY <2>6, <2>7 DEF ResolveFast
  <2> QED BY <1>2, <2>5, <2>8
<1> QED BY <1>1, <1>4, <1>5, <1>6, GraphParts

(* Where every node is reached from a kernel something is known of each.   *)
LEMMA Resolved ==
  ASSUME NEW g, WellFormed(g), IsFiniteSet(g.nodes), NEW modes \in KernelModes(g, Settled(g)),
         AllReached(g), NEW n \in g.nodes
  PROVE  Resolve(g, Settled(g), modes, n) # NoMode
<1> DEFINE A == Settled(g)
           U == {m \in g.nodes : m \in g.kernels \/ m \in Fixed(g) \/ Values(g, m) \cup Sources(g, m) # {}}
<1>1. U = g.nodes
  <2>1. ASSUME NEW u \in U, NEW w \in Successors(g, u) PROVE w \in U
    <3>1. <<u, w>> \in g.edges /\ u \in g.nodes /\ w \in g.nodes
      BY DEF Successors
    <3>2. Values(g, w) \cup Sources(g, w) # {}
      BY <3>1, BehindEdge, GraphParts
    <3> QED BY <3>1, <3>2
  <2>2. g.kernels \subseteq U /\ U \in SUBSET g.nodes
    BY GraphParts
  <2> HIDE DEF U
  <2> QED BY <2>1, <2>2 DEF AllReached
<1>2. modes \in [g.kernels -> Modes]
  BY KernelModesOK
<1>3. CASE n \in g.kernels
  BY <1>2, <1>3, ModesAssumption DEF Resolve
<1>4. CASE n \in Fixed(g)
  <2>1. n \notin g.kernels /\ g.first[n] \in Modes
    BY <1>4, GraphParts
  <2> QED BY <1>4, <2>1, ModesAssumption DEF Resolve
<1>5. CASE n \in Transparent(g)
  <2>1. n \in Blocks(g) /\ n \notin g.kernels /\ n \notin Fixed(g)
    BY <1>5, GraphParts
  <2>2. Values(g, n) \cup Sources(g, n) # {} /\ Sources(g, n) \subseteq g.kernels
    BY <1>1, <2>1 DEF Sources
  <2>3. CASE A[n] = Conflict
    BY <2>1, <2>3, ModesAssumption DEF Resolve
  <2>4. CASE A[n] # Conflict
    <3> DEFINE all == {modes[k] : k \in A[n].kernels} \cup ({A[n].mode} \ {NoMode})
    <3>1. /\ A[n].kernels = Sources(g, n) /\ Values(g, n) \subseteq Modes
          /\ \A v \in Values(g, n) : A[n].mode = v
          /\ Values(g, n) = {} => A[n].mode = NoMode
      BY <2>1, <2>4, SettledIs
    <3>2. all \subseteq Modes
      <4>1. \A k \in A[n].kernels : modes[k] \in Modes
        BY <1>2, <2>2, <3>1
      <4>2. A[n].mode \in Modes \cup {NoMode}
        BY <3>1
      <4> HIDE DEF A
      <4> QED BY <4>1, <4>2
    <3>3. all # {}
      BY <2>2, <3>1, ModesAssumption
    <3>4. Resolve(g, A, modes, n) = ResolveFast(modes, A[n])
      BY <2>1, <2>4 DEF Resolve
    <3>5. ResolveFast(modes, A[n]) \in Modes \cup {Clash}
      <4> HIDE DEF A
      <4> QED BY <3>2, <3>3 DEF ResolveFast
    <3> QED BY <3>4, <3>5, ModesAssumption
  <2> QED BY <2>3, <2>4
<1> QED BY <1>3, <1>4, <1>5, GraphParts

(* The modes at the start of the nodes.                                    *)
LEMMA ResolveType ==
  ASSUME NEW g, WellFormed(g), IsFiniteSet(g.nodes), NEW modes \in KernelModes(g, Settled(g)),
         NEW n \in g.nodes
  PROVE  Resolve(g, Settled(g), modes, n) \in Modes \cup {NoMode, Clash}
<1> DEFINE A == Settled(g)
<1>1. modes \in [g.kernels -> Modes]
  BY KernelModesOK
<1>2. CASE n \in g.kernels \/ n \in Fixed(g)
  BY <1>1, <1>2, GraphParts DEF Resolve
<1>3. CASE n \notin g.kernels /\ n \notin Fixed(g) /\ A[n] = Conflict
  BY <1>3 DEF Resolve
<1>4. CASE n \notin g.kernels /\ n \notin Fixed(g) /\ A[n] # Conflict
  <2> DEFINE all == {modes[k] : k \in A[n].kernels} \cup ({A[n].mode} \ {NoMode})
  <2>1. n \in Blocks(g)
    BY <1>4 DEF Blocks
  <2>2. A[n].kernels \subseteq g.kernels /\ A[n].mode \in Modes \cup {NoMode}
    BY <1>4, <2>1, SettledIs DEF Sources
  <2>3. all \subseteq Modes
    <3> HIDE DEF A
    <3> QED BY <1>1, <2>2
  <2>4. Resolve(g, A, modes, n) = ResolveFast(modes, A[n])
    BY <1>4 DEF Resolve
  <2>5. ResolveFast(modes, A[n]) \in Modes \cup {NoMode, Clash}
    <3> HIDE DEF A
    <3> QED BY <2>3 DEF ResolveFast
  <2> QED BY <2>4, <2>5
<1> QED BY <1>2, <1>3, <1>4

-----------------------------------------------------------------------------
(* What both preparing passes keep, and the first of them establishes.     *)
OneReturn(p) == \A f \in Functions(p) : \A b, c \in p.returns[f] : b = c

LEMMA FiniteImage ==
  ASSUME NEW S, IsFiniteSet(S), NEW f
  PROVE  IsFiniteSet({f[x] : x \in S})
<1> DEFINE T == {f[x] : x \in S}
           h == [x \in S |-> f[x]]
<1>1. h \in [S -> T] /\ \A t \in T : \E x \in S : h[x] = t
  OBVIOUS
<1>2. h \in Surjection(S, T)
  BY <1>1 DEF Surjection
<1> HIDE DEF h, T
<1> QED BY <1>2, FS_Surjection DEF T

LEMMA AtMostOne ==
  ASSUME NEW S, IsFiniteSet(S), ~(Cardinality(S) > 1), NEW b \in S, NEW c \in S
  PROVE  b = c
<1>1. Cardinality(S) \in Nat
  BY FS_CardinalityType
<1>2. Cardinality(S) # 0
  BY FS_EmptySet
<1>3. Cardinality(S) = 1
  BY <1>1, <1>2
<1>4. PICK x : S = {x}
  BY <1>3, FS_Singleton
<1> QED BY <1>4

(* Every function is left to return from one block.                        *)
LEMMA NormalizedOK ==
  ASSUME NEW p, IsProgram(p),
         \A f \in Functions(p) : ReturnBlock(f) \notin BlocksOf(p) \cup Methods(p) \cup Called(p)
  PROVE  IsProgram(Normalized(p)) /\ OneReturn(Normalized(p))
<1> DEFINE merged == {f \in Functions(p) : Cardinality(p.returns[f]) > 1}
           added == {ReturnBlock(f) : f \in merged}
           q == Normalized(p)
           Jumps(b) == {ReturnBlock(f) : f \in {g \in merged : b \in p.returns[g]}}
<1>1. /\ q.kernels = p.kernels /\ q.start = p.start
      /\ q.returns = [f \in Functions(p) |-> IF f \in merged THEN {ReturnBlock(f)} ELSE p.returns[f]]
      /\ DOMAIN q.needs = BlocksOf(p) \cup added
      /\ DOMAIN q.calls = BlocksOf(p) \cup added
      /\ \A b \in BlocksOf(p) \cup added :
           q.needs[b] = IF b \in BlocksOf(p) THEN p.needs[b] ELSE <<>>
      /\ \A b \in BlocksOf(p) \cup added :
           q.calls[b] = IF b \in BlocksOf(p) THEN p.calls[b] ELSE None
      /\ q.targets = [b \in BlocksOf(p) \cup added |->
                        IF b \in BlocksOf(p) THEN p.targets[b] \cup Jumps(b) ELSE {}]
  BY DEF Normalized
<1> HIDE DEF q
<1>2. /\ BlocksOf(q) = BlocksOf(p) \cup added /\ Methods(q) = Methods(p)
      /\ Functions(q) = Functions(p)
  BY <1>1 DEF BlocksOf, Methods, Functions
<1>3. Called(q) = Called(p)
  BY <1>1, <1>2 DEF Called
<1>4. merged \subseteq Functions(p) /\ \A b \in BlocksOf(p) : Jumps(b) \subseteq added
  OBVIOUS
<1>5. added \cap (BlocksOf(p) \cup Methods(p) \cup Called(p)) = {}
  OBVIOUS
<1>6. IsFiniteSet(Functions(p)) /\ IsFiniteSet(BlocksOf(p)) /\ IsFiniteSet(merged)
  BY FS_Subset DEF IsProgram
<1>7. IsFiniteSet(added)
  <2> DEFINE h == [f \in merged |-> ReturnBlock(f)]
  <2>1. added = {h[f] : f \in merged}
    OBVIOUS
  <2> HIDE DEF h, merged, added
  <2> QED BY <1>6, <2>1, FiniteImage
<1>8. IsFiniteSet(BlocksOf(q))
  <2> HIDE DEF added
  <2> QED BY <1>2, <1>6, <1>7, FS_Union
<1>9. OneReturn(q)
  <2> SUFFICES ASSUME NEW f \in Functions(p), NEW b \in q.returns[f], NEW c \in q.returns[f]
               PROVE  b = c
    BY <1>2 DEF OneReturn
  <2>1. CASE f \in merged
    BY <1>1, <2>1
  <2>2. CASE f \notin merged
    <3>1. b \in p.returns[f] /\ c \in p.returns[f] /\ ~(Cardinality(p.returns[f]) > 1)
      BY <1>1, <2>2
    <3>2. p.returns[f] \in SUBSET BlocksOf(p)
      BY DEF IsProgram
    <3>3. IsFiniteSet(p.returns[f])
      BY <1>6, <3>2, FS_Subset
    <3> QED BY <3>1, <3>3, AtMostOne
  <2> QED BY <2>1, <2>2
<1>10. PICK owner \in [BlocksOf(p) -> Methods(p)] : Owns(p, owner)
  BY DEF IsProgram
<1> DEFINE method == [b \in BlocksOf(p) \cup added |->
                        IF b \in BlocksOf(p) THEN owner[b] ELSE CHOOSE f \in merged : b = ReturnBlock(f)]
<1>11. \A b \in BlocksOf(p) : method[b] = owner[b]
  OBVIOUS
<1>12. \A f \in merged : ReturnBlock(f) \in added /\ method[ReturnBlock(f)] = f
  <2> SUFFICES ASSUME NEW f \in merged PROVE method[ReturnBlock(f)] = f
    OBVIOUS
  <2>1. ReturnBlock(f) \notin BlocksOf(p) /\ ReturnBlock(f) \in added
    OBVIOUS
  <2>2. method[ReturnBlock(f)] = CHOOSE g \in merged : ReturnBlock(f) = ReturnBlock(g)
    BY <2>1
  <2>3. \A g \in merged : ReturnBlock(f) = ReturnBlock(g) => g = f
    BY DEF ReturnBlock
  <2> QED BY <2>2, <2>3
<1>13. method \in [BlocksOf(q) -> Methods(q)]
  <2>1. \A b \in BlocksOf(p) : owner[b] \in Methods(p)
    OBVIOUS
  <2>2. \A b \in added : method[b] \in Methods(p)
    BY <1>12 DEF IsProgram
  <2> QED BY <1>2, <1>11, <2>1, <2>2
<1> HIDE DEF method
<1>14. Owns(q, method)
  <2>1. ASSUME NEW m \in Methods(p) PROVE method[q.start[m]] = m
    <3>1. p.start[m] \in BlocksOf(p) /\ owner[p.start[m]] = m
      BY <1>10 DEF IsProgram, Owns
    <3> QED BY <1>1, <1>11, <3>1
  <2>2. ASSUME NEW b \in BlocksOf(q), NEW n \in q.targets[b] PROVE method[n] = method[b]
    <3>1. b \in BlocksOf(p) /\ n \in p.targets[b] \cup Jumps(b)
      BY <1>1, <1>2, <2>2
    <3>2. CASE n \in p.targets[b]
      <4>1. n \in BlocksOf(p) /\ owner[n] = owner[b]
        BY <1>10, <3>1, <3>2 DEF IsProgram, Owns
      <4> QED BY <1>11, <3>1, <4>1
    <3>3. CASE n \in Jumps(b)
      <4>1. PICK f \in merged : n = ReturnBlock(f) /\ b \in p.returns[f]
        BY <3>3
      <4>2. owner[b] = f
        BY <1>4, <1>10, <4>1 DEF Owns
      <4> QED BY <1>11, <1>12, <3>1, <4>1, <4>2
    <3> QED BY <3>1, <3>2, <3>3
  <2>3. ASSUME NEW f \in Functions(p), NEW b \in q.returns[f] PROVE method[b] = f
    <3>1. CASE f \in merged
      BY <1>1, <1>12, <3>1
    <3>2. CASE f \notin merged
      <4>1. b \in p.returns[f] /\ p.returns[f] \subseteq BlocksOf(p)
        BY <1>1, <3>2 DEF IsProgram
      <4> QED BY <1>10, <1>11, <4>1 DEF Owns
    <3> QED BY <3>1, <3>2
  <2> QED BY <1>2, <2>1, <2>2, <2>3 DEF Owns
<1>15. q.returns \in [Functions(q) -> SUBSET BlocksOf(q)]
  BY <1>1, <1>2 DEF IsProgram
<1>16. q.start \in [Methods(q) -> BlocksOf(q)]
  BY <1>1, <1>2 DEF IsProgram
<1>17. q.targets \in [BlocksOf(q) -> SUBSET BlocksOf(q)]
  <2>1. \A b \in BlocksOf(p) : p.targets[b] \subseteq BlocksOf(p)
    BY DEF IsProgram
  <2> HIDE DEF added, Jumps
  <2> QED BY <1>1, <1>2, <1>4, <2>1
<1>18. ASSUME NEW b \in BlocksOf(q) PROVE q.needs[b] \in Seq([Slots -> Modes \cup {NoMode}])
  <2>1. CASE b \in BlocksOf(p)
    BY <1>1, <2>1 DEF IsProgram
  <2>2. CASE b \notin BlocksOf(p)
    <3>1. q.needs[b] = <<>>
      BY <1>1, <1>2, <2>2
    <3> QED BY <3>1
  <2> QED BY <2>1, <2>2
<1>19. BlocksOf(q) \cap (Methods(q) \cup Called(q)) = {}
  <2>1. BlocksOf(p) \cap (Methods(p) \cup Called(p)) = {}
    BY DEF IsProgram
  <2> QED BY <1>2, <1>3, <1>5, <2>1
<1>20. /\ q.kernels \subseteq Methods(q) /\ Functions(q) = Methods(q) \ q.kernels
       /\ Called(q) \cap q.kernels = {} /\ None \notin Methods(q) /\ IsFiniteSet(Methods(q))
  BY <1>1, <1>2, <1>3 DEF IsProgram
<1>21. DOMAIN q.calls = BlocksOf(q)
  BY <1>1, <1>2
<1> QED BY <1>8, <1>9, <1>13, <1>14, <1>15, <1>16, <1>17, <1>18, <1>19, <1>20, <1>21 DEF IsProgram, q

(* The blocks that are left are closed under jumps.                        *)
LEMMA ReachedInOK ==
  ASSUME NEW p, IsProgram(p), NEW m \in Methods(p)
  PROVE  /\ ReachedIn(p, m) \subseteq BlocksOf(p)
         /\ p.start[m] \in ReachedIn(p, m)
         /\ \A b \in ReachedIn(p, m) : p.targets[b] \subseteq ReachedIn(p, m)
         /\ \A owner : Owns(p, owner) => \A b \in ReachedIn(p, m) : owner[b] = m
<1>1. /\ IsFiniteSet(BlocksOf(p)) /\ {p.start[m]} \in SUBSET BlocksOf(p)
      /\ \A b \in BlocksOf(p) : p.targets[b] \in SUBSET BlocksOf(p)
  BY DEF IsProgram
<1>2. /\ ReachedIn(p, m) \in SUBSET BlocksOf(p)
      /\ {p.start[m]} \subseteq ReachedIn(p, m)
      /\ \A b \in ReachedIn(p, m) : p.targets[b] \subseteq ReachedIn(p, m)
  BY <1>1, SpreadClosed DEF ReachedIn
<1>3. ASSUME NEW owner, Owns(p, owner) PROVE \A b \in ReachedIn(p, m) : owner[b] = m
  <2> DEFINE U == {b \in BlocksOf(p) : owner[b] = m}
  <2>1. {p.start[m]} \subseteq U
    BY <1>1, <1>3 DEF Owns
  <2>2. \A b \in U \cap BlocksOf(p) : p.targets[b] \subseteq U
    BY <1>1, <1>3 DEF Owns
  <2> HIDE DEF U
  <2>3. ReachedIn(p, m) \subseteq U
    BY <1>1, <2>1, <2>2, SpreadLeast DEF ReachedIn
  <2> QED BY <2>3 DEF U
<1> QED BY <1>2, <1>3

(* remove_unreachable_basic_blocks leaves a program.                       *)
LEMMA PrunedOK ==
  ASSUME NEW p, IsProgram(p), OneReturn(p)
  PROVE  IsProgram(Pruned(p)) /\ OneReturn(Pruned(p))
<1> DEFINE methods == Methods(p) \cap (p.kernels \cup Called(p))
           blocks == UNION {ReachedIn(p, m) : m \in methods}
           q == Pruned(p)
<1>1. /\ q.kernels = p.kernels
      /\ q.start = [m \in methods |-> p.start[m]]
      /\ q.returns = [f \in methods \cap Functions(p) |-> p.returns[f] \cap blocks]
      /\ q.needs = [b \in blocks |-> p.needs[b]]
      /\ q.calls = [b \in blocks |-> p.calls[b]]
      /\ q.targets = [b \in blocks |-> p.targets[b]]
  BY DEF Pruned
<1> HIDE DEF q
<1>2. methods \subseteq Methods(p) /\ blocks \subseteq BlocksOf(p)
  BY ReachedInOK
<1>3. /\ \A m \in methods : p.start[m] \in blocks
      /\ \A b \in blocks : p.targets[b] \subseteq blocks
  BY ReachedInOK
<1>4. ASSUME NEW owner, Owns(p, owner), NEW b \in blocks PROVE owner[b] \in methods
  <2>1. PICK m \in methods : b \in ReachedIn(p, m)
    OBVIOUS
  <2>2. owner[b] = m
    BY <1>2, <1>4, <2>1, ReachedInOK
  <2> QED BY <2>2
<1> HIDE DEF blocks
<1>5. /\ BlocksOf(q) = blocks /\ Methods(q) = methods /\ Functions(q) = methods \cap Functions(p)
  BY <1>1 DEF BlocksOf, Methods, Functions
<1>6. Called(q) \subseteq Called(p)
  BY <1>1, <1>2, <1>5 DEF Called
<1>7. /\ q.kernels \subseteq Methods(q) /\ Functions(q) = Methods(q) \ q.kernels
  BY <1>1, <1>2, <1>5 DEF IsProgram
<1>8. BlocksOf(q) \cap (Methods(q) \cup Called(q)) = {}
  BY <1>2, <1>5, <1>6 DEF IsProgram
<1>9. Called(q) \cap q.kernels = {} /\ None \notin Methods(q)
  BY <1>1, <1>2, <1>5, <1>6 DEF IsProgram
<1>10. IsFiniteSet(Methods(q)) /\ IsFiniteSet(BlocksOf(q))
  BY <1>2, <1>5, FS_Subset DEF IsProgram
<1>11. q.start \in [Methods(q) -> BlocksOf(q)] /\ DOMAIN q.calls = BlocksOf(q)
  BY <1>1, <1>3, <1>5
<1>12. q.returns \in [Functions(q) -> SUBSET BlocksOf(q)]
  BY <1>1, <1>5
<1>13. \A b \in BlocksOf(q) : q.needs[b] \in Seq([Slots -> Modes \cup {NoMode}])
  BY <1>1, <1>2, <1>5 DEF IsProgram
<1>14. q.targets \in [BlocksOf(q) -> SUBSET BlocksOf(q)]
  BY <1>1, <1>3, <1>5
<1>15. \E method \in [BlocksOf(q) -> Methods(q)] : Owns(q, method)
  <2>1. PICK owner \in [BlocksOf(p) -> Methods(p)] : Owns(p, owner)
    BY DEF IsProgram
  <2> DEFINE method == [b \in blocks |-> owner[b]]
  <2>2. method \in [BlocksOf(q) -> Methods(q)]
    BY <1>4, <1>5, <2>1
  <2>3. \A m \in methods : method[q.start[m]] = m
    BY <1>1, <1>2, <1>3, <2>1 DEF Owns
  <2>4. \A b \in blocks : \A n \in q.targets[b] : method[n] = method[b]
    <3> SUFFICES ASSUME NEW b \in blocks, NEW n \in q.targets[b] PROVE method[n] = method[b]
      OBVIOUS
    <3>1. n \in p.targets[b] /\ n \in blocks /\ b \in BlocksOf(p)
      BY <1>1, <1>2, <1>3
    <3> QED BY <2>1, <3>1 DEF Owns
  <2>5. \A f \in Functions(q) : \A b \in q.returns[f] : method[b] = f
    BY <1>1, <1>5, <2>1 DEF Owns
  <2> HIDE DEF method
  <2>6. Owns(q, method)
    BY <1>5, <2>3, <2>4, <2>5 DEF Owns
  <2> QED BY <2>2, <2>6
<1>16. OneReturn(q)
  BY <1>1, <1>5 DEF OneReturn
<1> QED BY <1>7, <1>8, <1>9, <1>10, <1>11, <1>12, <1>13, <1>14, <1>15, <1>16 DEF IsProgram, q

LEMMA PreparedOK ==
  ASSUME NEW p \in Programs
  PROVE  IsProgram(Prepared(p)) /\ OneReturn(Prepared(p))
BY ProgramsAssumption, NormalizedOK, PrunedOK DEF Prepared, IsSource

-----------------------------------------------------------------------------
(* The first and the last instruction that asks for a mode.                *)
LEMMA FirstAndLast ==
  ASSUME NEW S \in SUBSET Nat, NEW N \in Nat, S \subseteq 1 .. N, S # {}
  PROVE  /\ Min(S) \in S /\ \A j \in S : Min(S) <= j
         /\ Max(S) \in S /\ \A j \in S : j <= Max(S)
<1>1. PICK n \in S : \A m \in S : n <= m
  BY LeastNumber
<1>2. Min(S) \in S /\ \A j \in S : Min(S) <= j
  BY <1>1 DEF Min
<1> DEFINE T == {k \in Nat : \A j \in S : j <= k}
<1>3. T \in SUBSET Nat /\ T # {}
  OBVIOUS
<1>4. PICK k \in T : \A l \in T : k <= l
  <2> HIDE DEF T
  <2> QED BY <1>3, LeastNumber
<1>5. k \in S
  <2> SUFFICES ASSUME k \notin S PROVE FALSE
    OBVIOUS
  <2>1. k \in Nat /\ n \in Nat /\ n <= k /\ n \in 1 .. N
    BY <1>3, <1>4
  <2>2. k - 1 \in Nat /\ ~(k <= k - 1)
    BY <2>1
  <2>3. \A j \in S : j <= k - 1
    <3> SUFFICES ASSUME NEW j \in S PROVE j <= k - 1
      OBVIOUS
    <3>1. j <= k /\ j # k /\ j \in Nat
      BY <1>4
    <3> QED BY <2>1, <3>1
  <2> QED BY <1>4, <2>2, <2>3
<1>6. Max(S) \in S /\ \A j \in S : Max(S) >= j
  <2>1. \A j \in S : k >= j
    BY <1>4, <1>5
  <2> QED BY <1>5, <2>1 DEF Max
<1> QED BY <1>2, <1>6

LEMMA AskingIs ==
  ASSUME NEW p, NEW b, NEW s \in Slots, p.needs[b] \in Seq([Slots -> Modes \cup {NoMode}])
  PROVE  /\ Asking(p, b, s) \in SUBSET (1 .. Len(p.needs[b]))
         /\ Asking(p, b, s) = {} => FirstMode(p, b, s) = NoMode /\ LastMode(p, b, s) = NoMode
         /\ Asking(p, b, s) # {} =>
              /\ FirstMode(p, b, s) \in Modes /\ LastMode(p, b, s) \in Modes
              /\ \E i \in Asking(p, b, s) : FirstMode(p, b, s) = p.needs[b][i][s]
              /\ \E i \in Asking(p, b, s) : /\ LastMode(p, b, s) = p.needs[b][i][s]
                                            /\ \A j \in Asking(p, b, s) : j <= i
<1>1. Asking(p, b, s) \in SUBSET (1 .. Len(p.needs[b])) /\ Len(p.needs[b]) \in Nat
  BY DEF Asking
<1>2. \A i \in Asking(p, b, s) : p.needs[b][i][s] \in Modes
  BY DEF Asking
<1>3. Asking(p, b, s) = {} => FirstMode(p, b, s) = NoMode /\ LastMode(p, b, s) = NoMode
  BY DEF FirstMode, LastMode
<1>4. ASSUME Asking(p, b, s) # {}
      PROVE  /\ Min(Asking(p, b, s)) \in Asking(p, b, s)
             /\ Max(Asking(p, b, s)) \in Asking(p, b, s)
             /\ \A j \in Asking(p, b, s) : j <= Max(Asking(p, b, s))
  <2>1. Asking(p, b, s) \in SUBSET Nat
    BY <1>1
  <2> QED BY <1>1, <1>4, <2>1, FirstAndLast
<1> QED BY <1>1, <1>2, <1>3, <1>4 DEF FirstMode, LastMode

-----------------------------------------------------------------------------
(* The graph of a prepared program.                                        *)
LEMMA ReturnNodeIs ==
  ASSUME NEW p, IsProgram(p), NEW f \in Called(p)
  PROVE  /\ ReturnNode(p, f) \in BlocksOf(p) \cup Called(p)
         /\ f \notin Functions(p) => ReturnNode(p, f) = f
         /\ f \in Functions(p) /\ p.returns[f] # {} => ReturnNode(p, f) \in p.returns[f]
BY DEF ReturnNode, IsProgram

(* create_control_flow_graph gives a well formed graph, with an edge for   *)
(* every way the code can go.                                              *)
LEMMA GraphOK ==
  ASSUME NEW p, IsProgram(p), NEW s \in Slots
  PROVE  /\ WellFormed(GraphOf(p, s)) /\ IsFiniteSet(GraphOf(p, s).nodes)
         /\ GraphOf(p, s).nodes = BlocksOf(p) \cup Methods(p) \cup Called(p)
         /\ GraphOf(p, s).kernels = p.kernels
         /\ BlocksOf(p) \subseteq Blocks(GraphOf(p, s))
         /\ \A b \in BlocksOf(p) : /\ GraphOf(p, s).first[b] = FirstMode(p, b, s)
                                   /\ GraphOf(p, s).last[b] = LastMode(p, b, s)
         /\ Fixed(GraphOf(p, s)) = {b \in BlocksOf(p) : Asking(p, b, s) # {}}
         /\ \A m \in Methods(p) : <<m, p.start[m]>> \in GraphOf(p, s).edges
         /\ \A b \in BlocksOf(p) : p.calls[b] # None => <<b, p.calls[b]>> \in GraphOf(p, s).edges
         /\ \A b \in BlocksOf(p) : \A n \in p.targets[b] :
              <<IF p.calls[b] = None THEN b ELSE ReturnNode(p, p.calls[b]), n>> \in GraphOf(p, s).edges
<1> DEFINE g == GraphOf(p, s)
           calling == {b \in BlocksOf(p) : p.calls[b] # None}
           nodes == BlocksOf(p) \cup Methods(p) \cup Called(p)
           starts == {<<m, p.start[m]>> : m \in Methods(p)}
           calls == {<<b, p.calls[b]>> : b \in calling}
           jumps == UNION {{b} \X p.targets[b] : b \in BlocksOf(p) \ calling}
           returns == UNION {{ReturnNode(p, p.calls[b])} \X p.targets[b] : b \in calling}
<1>0. g.edges = starts \cup calls \cup jumps \cup returns
  BY DEF GraphOf
<1>1. /\ g.nodes = nodes /\ g.kernels = p.kernels
      /\ g.first = [n \in nodes \ p.kernels |-> IF n \in BlocksOf(p) THEN FirstMode(p, n, s) ELSE NoMode]
      /\ g.last = [n \in nodes \ p.kernels |-> IF n \in BlocksOf(p) THEN LastMode(p, n, s) ELSE NoMode]
  BY DEF GraphOf
<1> HIDE DEF g
<1>2. /\ p.kernels \subseteq Methods(p) /\ BlocksOf(p) \cap (Methods(p) \cup Called(p)) = {}
      /\ Called(p) \cap p.kernels = {}
      /\ \A m \in Methods(p) : p.start[m] \in BlocksOf(p)
      /\ \A b \in BlocksOf(p) : p.targets[b] \subseteq BlocksOf(p)
  BY DEF IsProgram
<1>3. Blocks(g) = nodes \ p.kernels /\ BlocksOf(p) \subseteq Blocks(g) /\ Called(p) \subseteq Blocks(g)
  BY <1>1, <1>2 DEF Blocks
<1>4. \A b \in calling : p.calls[b] \in Called(p)
  BY DEF Called
<1>5. \A b \in calling : ReturnNode(p, p.calls[b]) \in nodes
  BY <1>4, ReturnNodeIs
<1>6. g.edges \subseteq g.nodes \X Blocks(g)
  <2> SUFFICES ASSUME NEW e \in g.edges PROVE e \in g.nodes \X Blocks(g)
    OBVIOUS
  <2> HIDE DEF nodes
  <2>0. BlocksOf(p) \subseteq nodes /\ Methods(p) \subseteq nodes
    BY DEF nodes
  <2>1. CASE e \in starts
    BY <1>1, <1>2, <1>3, <2>0, <2>1
  <2>2. CASE e \in calls
    BY <1>1, <1>3, <1>4, <2>0, <2>2
  <2>3. CASE e \in jumps
    BY <1>1, <1>2, <1>3, <2>0, <2>3
  <2>4. CASE e \in returns
    BY <1>1, <1>2, <1>3, <1>5, <2>4
  <2> HIDE DEF starts, calls, jumps, returns
  <2> QED BY <1>0, <2>1, <2>2, <2>3, <2>4
<1>7. \A b \in BlocksOf(p) :
        /\ FirstMode(p, b, s) \in Modes \cup {NoMode} /\ LastMode(p, b, s) \in Modes \cup {NoMode}
        /\ FirstMode(p, b, s) = NoMode <=> Asking(p, b, s) = {}
        /\ LastMode(p, b, s) = NoMode <=> Asking(p, b, s) = {}
  BY AskingIs, ModesAssumption DEF IsProgram
<1>8. /\ \A n \in Blocks(g) : g.first[n] = IF n \in BlocksOf(p) THEN FirstMode(p, n, s) ELSE NoMode
      /\ \A n \in Blocks(g) : g.last[n] = IF n \in BlocksOf(p) THEN LastMode(p, n, s) ELSE NoMode
  BY <1>1, <1>3
<1>9. g.first \in [Blocks(g) -> Modes \cup {NoMode}] /\ g.last \in [Blocks(g) -> Modes \cup {NoMode}]
  BY <1>1, <1>3, <1>7
<1>10. \A n \in Blocks(g) : g.first[n] = NoMode <=> g.last[n] = NoMode
  BY <1>7, <1>8
<1>11. WellFormed(g)
  BY <1>1, <1>2, <1>6, <1>9, <1>10 DEF WellFormed
<1>12. IsFiniteSet(g.nodes)
  <2>1. IsFiniteSet(BlocksOf(p)) /\ IsFiniteSet(Methods(p))
    BY DEF IsProgram
  <2>2. IsFiniteSet({p.calls[b] : b \in BlocksOf(p)})
    BY <2>1, FiniteImage
  <2>3. IsFiniteSet(Called(p))
    BY <2>2, FS_Subset DEF Called
  <2>4. IsFiniteSet(BlocksOf(p) \cup Methods(p))
    BY <2>1, FS_Union
  <2>5. IsFiniteSet((BlocksOf(p) \cup Methods(p)) \cup Called(p))
    BY <2>3, <2>4, FS_Union
  <2> QED BY <1>1, <2>5
<1>13. Fixed(g) = {b \in BlocksOf(p) : Asking(p, b, s) # {}}
  BY <1>3, <1>7, <1>8 DEF Fixed
<1>14. ASSUME NEW b \in BlocksOf(p), NEW n \in p.targets[b]
       PROVE  <<IF p.calls[b] = None THEN b ELSE ReturnNode(p, p.calls[b]), n>> \in g.edges
  <2>1. CASE p.calls[b] = None
    <3>1. <<b, n>> \in {b} \X p.targets[b] /\ b \in BlocksOf(p) \ calling
      BY <2>1
    <3>2. <<b, n>> \in jumps
      BY <3>1
    <3> QED BY <1>0, <2>1, <3>2
  <2>2. CASE p.calls[b] # None
    <3>1. <<ReturnNode(p, p.calls[b]), n>> \in {ReturnNode(p, p.calls[b])} \X p.targets[b] /\ b \in calling
      BY <2>2
    <3>2. <<ReturnNode(p, p.calls[b]), n>> \in returns
      BY <3>1
    <3> QED BY <1>0, <2>2, <3>2
  <2> QED BY <2>1, <2>2
<1>15. \A m \in Methods(p) : <<m, p.start[m]>> \in g.edges
  BY <1>0
<1>16. \A b \in BlocksOf(p) : p.calls[b] # None => <<b, p.calls[b]>> \in g.edges
  BY <1>0
<1> QED BY <1>1, <1>3, <1>8, <1>11, <1>12, <1>13, <1>14, <1>15, <1>16 DEF g

-----------------------------------------------------------------------------
Known == Modes \cup {NoMode, Clash}
Needs == [Slots -> Modes \cup {NoMode}]

(* A register has two slots.                                               *)
LEMMA Twins ==
  ASSUME NEW s \in Slots
  PROVE  /\ Twin(s) \in Slots /\ Twin(s) # s /\ Twin(Twin(s)) = s /\ Twin(s)[1] = s[1]
         /\ s[1] \in Registers
         /\ \A t \in Slots : t[1] = s[1] => t \in {s, Twin(s)}
<1>1. PICK r \in Registers, h \in Halves : s = <<r, h>>
  BY DEF Slots
<1>2. PICK o \in Halves : o # h /\ \A x \in Halves : x \in {h, o}
  BY DEF Halves
<1>3. (CHOOSE x \in Halves : x # h) = o /\ (CHOOSE x \in Halves : x # o) = h
  BY <1>2
<1>4. Twin(s) = <<r, o>> /\ Twin(<<r, o>>) = <<r, h>>
  BY <1>1, <1>3 DEF Twin
<1> QED BY <1>1, <1>2, <1>4 DEF Slots

(* The slots are dealt with in an order that names each of them once.      *)
LEMMA SlotOrderIs ==
  /\ \A i \in 1 .. 4 : SlotOrder[i] \in Slots
  /\ SlotOrder[1] # SlotOrder[2] /\ SlotOrder[1] # SlotOrder[3] /\ SlotOrder[1] # SlotOrder[4]
  /\ SlotOrder[2] # SlotOrder[3] /\ SlotOrder[2] # SlotOrder[4] /\ SlotOrder[3] # SlotOrder[4]
  /\ \A s \in Slots : s \in {SlotOrder[1], SlotOrder[2], SlotOrder[3], SlotOrder[4]}
<1>1. /\ SlotOrder[1] = <<"denormal", "f32">> /\ SlotOrder[2] = <<"denormal", "f16f64">>
      /\ SlotOrder[3] = <<"rounding", "f32">> /\ SlotOrder[4] = <<"rounding", "f16f64">>
  BY DEF SlotOrder
<1>2. \A i \in 1 .. 4 : SlotOrder[i] \in Slots
  <2>1. \A i \in 1 .. 4 : i = 1 \/ i = 2 \/ i = 3 \/ i = 4
    OBVIOUS
  <2> QED BY <1>1, <2>1 DEF Slots, Registers, Halves
<1>3. ASSUME NEW s \in Slots
      PROVE  s \in {SlotOrder[1], SlotOrder[2], SlotOrder[3], SlotOrder[4]}
  <2>1. PICK r \in Registers, h \in Halves : s = <<r, h>>
    BY DEF Slots
  <2> QED BY <1>1, <2>1 DEF Registers, Halves
<1> QED BY <1>1, <1>2, <1>3

-----------------------------------------------------------------------------
(* The modes known in a block, before its first statement and after every  *)
(* one of them.  An instruction meets the modes it asks for; a setting     *)
(* gives its slots what is known after it.                                 *)
Follows(known, body, i) ==
  /\ body[i].sets = None =>
       /\ known[i] = known[i - 1]
       /\ \A s \in Slots : body[i].modes[s] \in {NoMode, known[i - 1][s]} \ {Clash}
  /\ body[i].sets # None =>
       \A s \in Slots : IF s[1] = body[i].sets THEN known[i][s] \in {Clash, body[i].modes[s]}
                        ELSE known[i][s] = known[i - 1][s]

KnownBy(known, entry, body, now) ==
  /\ known \in [0 .. Len(body) -> [Slots -> Known]]
  /\ known[0] = entry /\ known[Len(body)] = now
  /\ \A i \in 1 .. Len(body) : Follows(known, body, i)

IsKnown(entry, body, now) ==
  /\ body \in Seq(Statements) /\ entry \in [Slots -> Known] /\ now \in [Slots -> Known]
  /\ \E known : KnownBy(known, entry, body, now)

(* A statement more, and what is known after it.                           *)
LEMMA KnownAppend ==
  ASSUME NEW entry, NEW body, NEW now, IsKnown(entry, body, now),
         NEW statement \in Statements, NEW after \in [Slots -> Known],
         statement.sets = None =>
           /\ after = now
           /\ \A s \in Slots : statement.modes[s] \in {NoMode, now[s]} \ {Clash},
         statement.sets # None =>
           \A s \in Slots : IF s[1] = statement.sets THEN after[s] \in {Clash, statement.modes[s]}
                            ELSE after[s] = now[s]
  PROVE  IsKnown(entry, Append(body, statement), after)
<1> DEFINE longer == Append(body, statement)
           N == Len(body)
<1>1. PICK known : KnownBy(known, entry, body, now)
  BY DEF IsKnown
<1>2. /\ longer \in Seq(Statements) /\ N \in Nat /\ Len(longer) = N + 1
      /\ longer[N + 1] = statement /\ \A i \in 1 .. N : longer[i] = body[i]
  BY DEF IsKnown
<1> HIDE DEF longer, N
<1> DEFINE more == [i \in 0 .. N + 1 |-> IF i = N + 1 THEN after ELSE known[i]]
<1>3. /\ \A i \in 0 .. N : more[i] = known[i] /\ more[i] \in [Slots -> Known]
      /\ more[N + 1] = after /\ DOMAIN more = 0 .. N + 1
  BY <1>1, <1>2 DEF KnownBy, N
<1>4. more \in [0 .. N + 1 -> [Slots -> Known]]
  <2>1. \A i \in 0 .. N + 1 : i = N + 1 \/ i \in 0 .. N
    BY <1>2
  <2>2. \A i \in 0 .. N + 1 : more[i] \in [Slots -> Known]
    <3> HIDE DEF more
    <3> QED BY <1>3, <2>1
  <2>3. more = [i \in 0 .. N + 1 |-> more[i]]
    OBVIOUS
  <2> HIDE DEF more
  <2> QED BY <2>2, <2>3
<1> HIDE DEF more
<1>5. more[0] = entry /\ known[N] = now /\ more[N] = now
  BY <1>1, <1>2, <1>3 DEF KnownBy, N
<1>6. ASSUME NEW i \in 1 .. N + 1 PROVE Follows(more, longer, i)
  <2>1. CASE i = N + 1
    <3>1. i - 1 = N
      BY <1>2, <2>1
    <3>2. longer[i] = statement /\ more[i] = after /\ more[i - 1] = now
      BY <1>2, <1>3, <1>5, <2>1, <3>1
    <3> QED BY <3>2 DEF Follows
  <2>2. CASE i # N + 1
    <3>1. i \in 1 .. N /\ i \in 0 .. N /\ i - 1 \in 0 .. N
      BY <1>2, <2>2
    <3>2. longer[i] = body[i] /\ more[i] = known[i] /\ more[i - 1] = known[i - 1]
      BY <1>2, <1>3, <3>1
    <3>3. Follows(known, body, i)
      BY <1>1, <3>1 DEF KnownBy, N
    <3> QED BY <3>2, <3>3 DEF Follows
  <2> QED BY <2>1, <2>2
<1>7. KnownBy(more, entry, longer, after)
  BY <1>2, <1>3, <1>4, <1>5, <1>6 DEF KnownBy
<1> QED BY <1>2, <1>7 DEF IsKnown, longer

-----------------------------------------------------------------------------
(* What a block asks for, and what is known of the modes while its code is *)
(* emitted: all of it right until a setting is folded.                     *)
Asks(needs, s) == \E i \in DOMAIN needs : needs[i][s] # NoMode
Sound(needs, entry) ==
  /\ needs \in Seq(Needs) /\ entry \in [Slots -> Known]
  /\ \A s \in Slots : Asks(needs, s) => entry[s] \in Modes

Emitters == [now : [Slots -> Known], foldable : [Slots -> Nat],
             body : Seq(Statements), failed : {FALSE}, folded : BOOLEAN]
Emitting(bb, needs, entry) ==
  /\ bb \in Emitters
  /\ \A s \in Slots : Asks(needs, s) => bb.now[s] \in Modes
  /\ ~bb.folded => IsKnown(entry, bb.body, bb.now)

(* One slot of one instruction.                                            *)
LEMMA InsertOneOK ==
  ASSUME NEW needs, NEW entry, Sound(needs, entry), NEW bb, Emitting(bb, needs, entry),
         NEW i \in DOMAIN needs, NEW s \in Slots
  PROVE  /\ Emitting(InsertOne(bb, s, needs[i][s]), needs, entry)
         /\ bb.folded => InsertOne(bb, s, needs[i][s]).folded
         /\ ~InsertOne(bb, s, needs[i][s]).folded =>
              InsertOne(bb, s, needs[i][s]).now =
                [bb.now EXCEPT ![s] = IF needs[i][s] = NoMode THEN @ ELSE needs[i][s]]
<1> DEFINE mode == needs[i][s]
           after == InsertOne(bb, s, mode)
           t == Twin(s)
<1>1. /\ bb.now \in [Slots -> Known] /\ bb.foldable \in [Slots -> Nat]
      /\ bb.body \in Seq(Statements) /\ bb.failed = FALSE
      /\ bb.folded \in BOOLEAN
      /\ bb = [now |-> bb.now, foldable |-> bb.foldable, body |-> bb.body, failed |-> bb.failed,
               folded |-> bb.folded]
  BY DEF Emitting, Emitters
<1>2. mode \in Modes \cup {NoMode}
  BY DEF Sound, Needs
<1>3. t \in Slots /\ t # s /\ Twin(t) = s /\ t[1] = s[1] /\ s[1] \in Registers
  BY Twins
<1>4. CASE mode = NoMode
  <2>1. after = bb
    BY <1>4 DEF InsertOne
  <2>2. bb.now = [bb.now EXCEPT ![s] = IF mode = NoMode THEN @ ELSE mode]
    BY <1>1, <1>4
  <2> QED BY <2>1, <2>2
<1>5. ASSUME mode # NoMode
      PROVE  bb.now[s] \in Modes /\ bb.now[s] # Clash /\ mode \in Modes
  <2>1. Asks(needs, s)
    BY <1>5 DEF Asks
  <2> QED BY <1>2, <1>5, <2>1, ModesAssumption DEF Emitting
<1>6. CASE mode # NoMode /\ bb.now[s] = mode
  <2>1. after = Rely(bb, s)
    BY <1>5, <1>6 DEF InsertOne
  <2>2. after = [now |-> bb.now, foldable |-> [bb.foldable EXCEPT ![s] = 0],
                 body |-> bb.body, failed |-> FALSE, folded |-> bb.folded]
    BY <1>1, <2>1 DEF Rely
  <2> HIDE DEF after
  <2>3. after.now = bb.now /\ after.body = bb.body /\ after.folded = bb.folded
    BY <2>2
  <2>4. after \in Emitters
    BY <1>1, <2>2 DEF Emitters
  <2>5. Emitting(after, needs, entry)
    BY <2>3, <2>4 DEF Emitting
  <2>6. bb.now = [bb.now EXCEPT ![s] = IF mode = NoMode THEN @ ELSE mode]
    BY <1>1, <1>6
  <2> QED BY <2>3, <2>5, <2>6 DEF after
<1>7. CASE mode # NoMode /\ bb.now[s] # mode /\ bb.foldable[s] # 0
  <2> DEFINE at1 == bb.foldable[s]
             body == [bb.body EXCEPT ![at1].modes[s] = mode]
  <2>1. after = Fold(bb, s, mode)
    BY <1>5, <1>7 DEF InsertOne
  <2>2. after = [now |-> bb.now, foldable |-> [bb.foldable EXCEPT ![s] = 0],
                 body |-> body, failed |-> FALSE, folded |-> TRUE]
    BY <1>1, <2>1 DEF Fold, Rely
  <2> HIDE DEF after
  <2>3. body \in Seq(Statements)
    <3>1. ASSUME NEW j \in DOMAIN bb.body PROVE body[j] \in Statements
      <4>1. bb.body[j] \in Statements
        BY <1>1
      <4>2. bb.body[j].modes \in [Slots -> Modes \cup {NoMode}]
            /\ bb.body[j].sets \in Registers \cup {None}
            /\ bb.body[j] = [sets |-> bb.body[j].sets, modes |-> bb.body[j].modes]
        BY <4>1 DEF Statements
      <4>3. [bb.body[j].modes EXCEPT ![s] = mode] \in [Slots -> Modes \cup {NoMode}]
        BY <1>2, <4>2
      <4>4. [bb.body[j] EXCEPT !.modes[s] = mode]
              = [sets |-> bb.body[j].sets, modes |-> [bb.body[j].modes EXCEPT ![s] = mode]]
        BY <4>2
      <4>5. [bb.body[j] EXCEPT !.modes[s] = mode] \in Statements
        BY <4>2, <4>3, <4>4 DEF Statements
      <4>6. body[j] \in {bb.body[j], [bb.body[j] EXCEPT !.modes[s] = mode]}
        OBVIOUS
      <4> QED BY <4>1, <4>5, <4>6
    <3>2. Len(bb.body) \in Nat /\ DOMAIN bb.body = 1 .. Len(bb.body)
      BY <1>1
    <3>3. body = [j \in 1 .. Len(bb.body) |-> body[j]]
      BY <3>2
    <3> HIDE DEF body
    <3>4. body \in [1 .. Len(bb.body) -> Statements]
      BY <3>1, <3>2, <3>3
    <3> QED BY <3>2, <3>4
  <2> HIDE DEF body
  <2>4. [bb.foldable EXCEPT ![s] = 0] \in [Slots -> Nat]
    BY <1>1
  <2>5. after \in Emitters
    BY <1>1, <2>2, <2>3, <2>4 DEF Emitters
  <2>6. Emitting(after, needs, entry)
    BY <2>2, <2>5 DEF Emitting
  <2> QED BY <2>2, <2>6 DEF after
<1>8. CASE mode # NoMode /\ bb.now[s] # mode /\ bb.foldable[s] = 0
  <2> DEFINE modes == [u \in Slots |-> CASE u = s -> mode
                                       [] u = Twin(s) -> TwinMode(bb, s)
                                       [] OTHER -> NoMode]
  <2>1. bb.foldable[s] = 0 /\ bb.now[s] # Clash /\ mode \in Modes
    BY <1>5, <1>8
  <2>2. after = Set(bb, s, mode)
    BY <1>8, <2>1 DEF InsertOne
  <2>3. modes[s] = mode /\ modes[t] = TwinMode(bb, s)
    BY <1>3
  <2>4. TwinMode(bb, s) \in Modes \cup {NoMode} /\ bb.now[t] \in {Clash, TwinMode(bb, s)}
    BY <1>1, <1>3, ModesAssumption DEF TwinMode, Known
  <2>5. modes \in [Slots -> Modes \cup {NoMode}]
    BY <2>1, <2>4
  <2> HIDE DEF modes
  <2>6. SetMode(s[1], modes) \in Statements /\ s[1] # None
    BY <1>3, <2>5, ProgramsAssumption DEF SetMode, Statements
  <2> DEFINE now == [bb.now EXCEPT ![s] = mode]
  <2>7. /\ now \in [Slots -> Known] /\ now[s] = mode
        /\ \A u \in Slots : u # s => now[u] = bb.now[u]
    BY <1>1, <2>1 DEF Known
  <2> DEFINE foldable == [[bb.foldable EXCEPT ![s] = 0] EXCEPT ![t] = Len(bb.body) + 1]
  <2>8. after = [now |-> now, foldable |-> foldable,
                 body |-> Append(bb.body, SetMode(s[1], modes)), failed |-> FALSE,
                 folded |-> bb.folded]
    BY <1>1, <2>2 DEF Set, modes
  <2> HIDE DEF after, now, foldable
  <2>9. ASSUME ~bb.folded PROVE IsKnown(entry, after.body, after.now)
    <3>1. ASSUME NEW u \in Slots
          PROVE  IF u[1] = s[1] THEN now[u] \in {Clash, modes[u]} ELSE now[u] = bb.now[u]
      <4>1. CASE u[1] = s[1]
        <5>1. u \in {s, t}
          BY <4>1, Twins
        <5> QED BY <1>3, <2>3, <2>4, <2>7, <4>1, <5>1
      <4>2. CASE u[1] # s[1]
        BY <2>7, <4>2
      <4> QED BY <4>1, <4>2
    <3>2. SetMode(s[1], modes).sets = s[1] /\ SetMode(s[1], modes).modes = modes
      BY DEF SetMode
    <3>3. IsKnown(entry, bb.body, bb.now)
      BY <2>9 DEF Emitting
    <3>4. IsKnown(entry, Append(bb.body, SetMode(s[1], modes)), now)
      BY <2>6, <2>7, <3>1, <3>2, <3>3, KnownAppend
    <3> QED BY <2>8, <3>4
  <2>10. foldable \in [Slots -> Nat]
    <3>1. Len(bb.body) + 1 \in Nat
      BY <1>1
    <3> QED BY <1>1, <1>3, <3>1 DEF foldable
  <2>11. ASSUME NEW u \in Slots, Asks(needs, u) PROVE after.now[u] \in Modes
    <3>1. bb.now[u] \in Modes
      BY <2>11 DEF Emitting
    <3> QED BY <2>1, <2>7, <2>8, <3>1
  <2>12. Emitting(after, needs, entry)
    <3>1. Append(bb.body, SetMode(s[1], modes)) \in Seq(Statements)
      BY <1>1, <2>6
    <3>2. after \in Emitters
      BY <1>1, <2>7, <2>8, <2>10, <3>1 DEF Emitters
    <3>3. after.folded = bb.folded
      BY <2>8
    <3> QED BY <2>9, <2>11, <3>2, <3>3 DEF Emitting
  <2>13. now = [bb.now EXCEPT ![s] = IF mode = NoMode THEN @ ELSE mode]
    BY <1>8 DEF now
  <2> QED BY <2>8, <2>12, <2>13 DEF after
<1> QED BY <1>4, <1>6, <1>7, <1>8

-----------------------------------------------------------------------------
AfterAsking(now, need, s) == IF need[s] = NoMode THEN now[s] ELSE need[s]

(* An instruction: the modes it asks for are known when it runs.           *)
LEMMA InsertOK ==
  ASSUME NEW needs, NEW entry, Sound(needs, entry), NEW bb, Emitting(bb, needs, entry),
         NEW i \in DOMAIN needs
  PROVE  /\ Emitting(Insert(bb, needs[i]), needs, entry)
         /\ bb.folded => Insert(bb, needs[i]).folded
         /\ ~Insert(bb, needs[i]).folded =>
              \A s \in Slots : Insert(bb, needs[i]).now[s] = AfterAsking(bb.now, needs[i], s)
<1> DEFINE s1 == SlotOrder[1]
           s2 == SlotOrder[2]
           s3 == SlotOrder[3]
           s4 == SlotOrder[4]
           b1 == InsertOne(bb, s1, needs[i][s1])
           b2 == InsertOne(b1, s2, needs[i][s2])
           b3 == InsertOne(b2, s3, needs[i][s3])
           b4 == InsertOne(b3, s4, needs[i][s4])
           after == Insert(bb, needs[i])
<1>1. after = [b4 EXCEPT !.body = Append(@, Instruction(needs[i]))]
  BY DEF Insert
<1>2. /\ s1 \in Slots /\ s2 \in Slots /\ s3 \in Slots /\ s4 \in Slots
      /\ s1 # s2 /\ s1 # s3 /\ s1 # s4 /\ s2 # s3 /\ s2 # s4 /\ s3 # s4
      /\ \A s \in Slots : s \in {s1, s2, s3, s4}
  BY SlotOrderIs
<1> HIDE DEF s1, s2, s3, s4
<1>3. /\ Emitting(b1, needs, entry)
      /\ bb.folded => b1.folded
      /\ ~b1.folded =>
           b1.now = [bb.now EXCEPT ![s1] = IF needs[i][s1] = NoMode THEN @ ELSE needs[i][s1]]
  BY <1>2, InsertOneOK
<1> HIDE DEF b1
<1>4. /\ Emitting(b2, needs, entry)
      /\ b1.folded => b2.folded
      /\ ~b2.folded =>
           b2.now = [b1.now EXCEPT ![s2] = IF needs[i][s2] = NoMode THEN @ ELSE needs[i][s2]]
  BY <1>2, <1>3, InsertOneOK
<1> HIDE DEF b2
<1>5. /\ Emitting(b3, needs, entry)
      /\ b2.folded => b3.folded
      /\ ~b3.folded =>
           b3.now = [b2.now EXCEPT ![s3] = IF needs[i][s3] = NoMode THEN @ ELSE needs[i][s3]]
  BY <1>2, <1>4, InsertOneOK
<1> HIDE DEF b3
<1>6. /\ Emitting(b4, needs, entry)
      /\ b3.folded => b4.folded
      /\ ~b4.folded =>
           b4.now = [b3.now EXCEPT ![s4] = IF needs[i][s4] = NoMode THEN @ ELSE needs[i][s4]]
  BY <1>2, <1>5, InsertOneOK
<1> HIDE DEF b4, after
<1>7. ASSUME ~b4.folded PROVE \A s \in Slots : b4.now[s] = AfterAsking(bb.now, needs[i], s)
  <2>0. ~b1.folded /\ ~b2.folded /\ ~b3.folded /\ ~b4.folded
    BY <1>3, <1>4, <1>5, <1>6, <1>7
  <2>1. /\ bb.now \in [Slots -> Known] /\ b1.now \in [Slots -> Known]
        /\ b2.now \in [Slots -> Known] /\ b3.now \in [Slots -> Known]
    BY <1>3, <1>4, <1>5 DEF Emitting, Emitters
  <2> SUFFICES ASSUME NEW s \in Slots PROVE b4.now[s] = AfterAsking(bb.now, needs[i], s)
    OBVIOUS
  <2>2. CASE s = s1
    BY <1>2, <1>3, <1>4, <1>5, <1>6, <2>0, <2>1, <2>2 DEF AfterAsking
  <2>3. CASE s = s2
    BY <1>2, <1>3, <1>4, <1>5, <1>6, <2>0, <2>1, <2>3 DEF AfterAsking
  <2>4. CASE s = s3
    BY <1>2, <1>3, <1>4, <1>5, <1>6, <2>0, <2>1, <2>4 DEF AfterAsking
  <2>5. CASE s = s4
    BY <1>2, <1>3, <1>4, <1>5, <1>6, <2>0, <2>1, <2>5 DEF AfterAsking
  <2> QED BY <1>2, <2>2, <2>3, <2>4, <2>5
<1>8. /\ b4.now \in [Slots -> Known] /\ b4.foldable \in [Slots -> Nat]
      /\ b4.body \in Seq(Statements) /\ b4.failed = FALSE
      /\ b4.folded \in BOOLEAN
      /\ b4 = [now |-> b4.now, foldable |-> b4.foldable, body |-> b4.body, failed |-> b4.failed,
               folded |-> b4.folded]
  BY <1>6 DEF Emitting, Emitters
<1>9. after = [now |-> b4.now, foldable |-> b4.foldable,
               body |-> Append(b4.body, Instruction(needs[i])), failed |-> FALSE,
               folded |-> b4.folded]
  BY <1>1, <1>8
<1>10. Instruction(needs[i]) \in Statements /\ Instruction(needs[i]).sets = None
       /\ Instruction(needs[i]).modes = needs[i]
  BY DEF Sound, Needs, Instruction, Statements
<1>11. ASSUME ~b4.folded, NEW s \in Slots PROVE needs[i][s] \in {NoMode, b4.now[s]} \ {Clash}
  <2>1. needs[i][s] \in Modes \cup {NoMode}
    BY DEF Sound, Needs
  <2> QED BY <1>7, <1>11, <2>1, ModesAssumption DEF AfterAsking
<1>12. ASSUME ~b4.folded PROVE IsKnown(entry, Append(b4.body, Instruction(needs[i])), b4.now)
  <2>1. IsKnown(entry, b4.body, b4.now)
    BY <1>6, <1>12 DEF Emitting
  <2> QED BY <1>8, <1>10, <1>11, <1>12, <2>1, KnownAppend
<1>13. Append(b4.body, Instruction(needs[i])) \in Seq(Statements)
  BY <1>8, <1>10
<1>14. after \in Emitters
  BY <1>8, <1>9, <1>13 DEF Emitters
<1>15. after.now = b4.now /\ after.folded = b4.folded
       /\ after.body = Append(b4.body, Instruction(needs[i]))
  BY <1>9
<1>16. Emitting(after, needs, entry)
  BY <1>6, <1>12, <1>14, <1>15 DEF Emitting
<1> QED BY <1>3, <1>4, <1>5, <1>6, <1>7, <1>15, <1>16 DEF after

-----------------------------------------------------------------------------
(* The instructions of a block, one after the other.                       *)
Blank(entry) == [now |-> entry, foldable |-> [s \in Slots |-> 0], body |-> <<>>,
                 failed |-> FALSE, folded |-> FALSE]
IsEmission(f, entry, needs, N) ==
  f = [i \in 0 .. N |-> IF i = 0 THEN Blank(entry) ELSE Insert(f[i - 1], needs[i])]

LEMMA EmissionIs ==
  ASSUME NEW entry, NEW needs
  PROVE  Emission(entry, needs) = (CHOOSE f : IsEmission(f, entry, needs, Len(needs)))[Len(needs)]
BY DEF Emission, IsEmission, Blank

LEMMA EmissionExists ==
  ASSUME NEW entry, NEW needs, NEW N \in Nat
  PROVE  \E f : IsEmission(f, entry, needs, N)
<1> DEFINE Bad == {n \in Nat : \A f : ~IsEmission(f, entry, needs, n)}
<1>1. Bad = {}
  <2> SUFFICES ASSUME Bad # {} PROVE FALSE
    OBVIOUS
  <2>1. PICK n \in Bad : \A m \in Bad : n <= m
    <3> HIDE DEF Bad
    <3>1. Bad \in SUBSET Nat
      BY DEF Bad
    <3> QED BY <3>1, LeastNumber
  <2>2. n \in Nat /\ \A f : ~IsEmission(f, entry, needs, n)
    OBVIOUS
  <2>3. n # 0
    <3> DEFINE f == [i \in 0 .. 0 |-> Blank(entry)]
    <3>1. IsEmission(f, entry, needs, 0)
      BY DEF IsEmission
    <3> QED BY <3>1, <2>2
  <2>4. n - 1 \in Nat /\ n - 1 \notin Bad
    <3> HIDE DEF Bad
    <3>1. n - 1 \in Nat /\ ~(n <= n - 1)
      BY <2>2, <2>3
    <3> QED BY <2>1, <3>1
  <2>5. PICK g : IsEmission(g, entry, needs, n - 1)
    BY <2>4
  <2> DEFINE f == [i \in 0 .. n |-> IF i = n THEN Insert(g[n - 1], needs[n]) ELSE g[i]]
  <2>6. \A i \in 0 .. n : f[i] = IF i = 0 THEN Blank(entry) ELSE Insert(f[i - 1], needs[i])
    BY <2>2, <2>3, <2>5 DEF IsEmission
  <2>7. IsEmission(f, entry, needs, n)
    <3>1. f = [i \in 0 .. n |-> f[i]]
      OBVIOUS
    <3> HIDE DEF f
    <3> QED BY <2>6, <3>1 DEF IsEmission
  <2> QED BY <2>2, <2>7
<1> QED BY <1>1

(* The block is emitted and, unless a setting was folded, leaves the modes *)
(* its last instructions ask for.                                          *)
LeftAfter(needs, entry, i, now) ==
  \A s \in Slots :
    /\ (\A j \in 1 .. i : needs[j][s] = NoMode) => now[s] = entry[s]
    /\ \A j \in 1 .. i : (needs[j][s] # NoMode /\ \A k \in 1 .. i : needs[k][s] # NoMode => k <= j)
                           => now[s] = needs[j][s]

LEMMA EmissionOK ==
  ASSUME NEW needs, NEW entry, Sound(needs, entry)
  PROVE  /\ Emitting(Emission(entry, needs), needs, entry)
         /\ ~Emission(entry, needs).folded =>
              LeftAfter(needs, entry, Len(needs), Emission(entry, needs).now)
<1> DEFINE N == Len(needs)
           f == CHOOSE f : IsEmission(f, entry, needs, N)
           Done(i) == /\ Emitting(f[i], needs, entry)
                      /\ ~f[i].folded => LeftAfter(needs, entry, i, f[i].now)
           Bad == {i \in 0 .. N : ~Done(i)}
<1>1. N \in Nat /\ DOMAIN needs = 1 .. N
  BY DEF Sound
<1>2. Emission(entry, needs) = f[N]
  BY EmissionIs
<1>3. IsEmission(f, entry, needs, N)
  BY <1>1, EmissionExists
<1> HIDE DEF f, N
<1>4. f[0] = Blank(entry) /\ \A i \in 1 .. N : f[i] = Insert(f[i - 1], needs[i])
  BY <1>1, <1>3 DEF IsEmission
<1>5. Done(0)
  <2>1. Blank(entry) \in Emitters /\ Blank(entry).now = entry /\ Blank(entry).body = <<>>
        /\ entry \in [Slots -> Known]
    <3>1. entry \in [Slots -> Known]
      BY DEF Sound
    <3>2. <<>> \in Seq(Statements)
      OBVIOUS
    <3> QED BY <3>1, <3>2 DEF Blank, Emitters
  <2>2. IsKnown(entry, <<>>, entry)
    <3> DEFINE known == [i \in 0 .. 0 |-> entry]
    <3>1. KnownBy(known, entry, <<>>, entry)
      BY <2>1 DEF KnownBy
    <3>2. <<>> \in Seq(Statements)
      OBVIOUS
    <3> HIDE DEF known
    <3> QED BY <2>1, <3>1, <3>2 DEF IsKnown
  <2>3. Emitting(Blank(entry), needs, entry)
    BY <2>1, <2>2 DEF Emitting, Sound
  <2>4. LeftAfter(needs, entry, 0, entry)
    BY DEF LeftAfter
  <2> QED BY <1>4, <2>1, <2>3, <2>4
<1>6. ASSUME NEW i \in 1 .. N, Done(i - 1) PROVE Done(i)
  <2>1. i \in DOMAIN needs /\ i - 1 \in 0 .. N
    BY <1>1
  <2>2. /\ Emitting(f[i], needs, entry)
        /\ f[i - 1].folded => f[i].folded
        /\ ~f[i].folded =>
             \A s \in Slots : f[i].now[s] = AfterAsking(f[i - 1].now, needs[i], s)
    BY <1>4, <1>6, <2>1, InsertOK
  <2>3. ASSUME ~f[i].folded PROVE LeftAfter(needs, entry, i, f[i].now)
    <3> SUFFICES ASSUME NEW s \in Slots
                 PROVE  /\ (\A j \in 1 .. i : needs[j][s] = NoMode) => f[i].now[s] = entry[s]
                        /\ \A j \in 1 .. i :
                             (needs[j][s] # NoMode /\ \A k \in 1 .. i : needs[k][s] # NoMode => k <= j)
                               => f[i].now[s] = needs[j][s]
      BY DEF LeftAfter
    <3>1. /\ i \in Nat /\ \A j \in 1 .. i : j = i \/ j \in 1 .. i - 1
          /\ \A j \in 1 .. i - 1 : j \in 1 .. i
      BY <1>1
    <3>2. CASE needs[i][s] = NoMode
      <4>1. f[i].now[s] = f[i - 1].now[s]
        BY <2>2, <2>3, <3>2 DEF AfterAsking
      <4>2. LeftAfter(needs, entry, i - 1, f[i - 1].now)
        BY <1>6, <2>2, <2>3
      <4> QED BY <3>1, <3>2, <4>1, <4>2 DEF LeftAfter
    <3>3. CASE needs[i][s] # NoMode
      <4>1. f[i].now[s] = needs[i][s]
        BY <2>2, <2>3, <3>3 DEF AfterAsking
      <4>2. \A j \in 1 .. i : i <= j => j = i
        BY <1>1
      <4>3. i \in 1 .. i
        BY <1>1
      <4> QED BY <3>3, <4>1, <4>2, <4>3
    <3> QED BY <3>2, <3>3
  <2> QED BY <2>2, <2>3
<1>7. Bad = {}
  <2> SUFFICES ASSUME Bad # {} PROVE FALSE
    OBVIOUS
  <2>1. PICK n \in Bad : \A m \in Bad : n <= m
    <3> HIDE DEF Bad
    <3>1. Bad \in SUBSET Nat
      BY <1>1 DEF Bad
    <3> QED BY <3>1, LeastNumber
  <2>2. n \in 0 .. N /\ ~Done(n)
    OBVIOUS
  <2> HIDE DEF Done
  <2>3. n \in 1 .. N /\ n - 1 \in 0 .. N
    BY <1>1, <1>5, <2>2
  <2>4. n - 1 \notin Bad
    <3> HIDE DEF Bad
    <3> QED BY <2>1, <2>3
  <2> QED BY <1>6, <2>2, <2>3, <2>4
<1>8. Done(N)
  <2> HIDE DEF Done
  <2> QED BY <1>1, <1>7
<1> QED BY <1>2, <1>8 DEF N

(* A block whose entry has the modes its first instructions ask for.       *)
LEMMA BlockEmitted ==
  ASSUME NEW p, IsProgram(p), NEW b \in BlocksOf(p), NEW entry \in [Slots -> Known],
         \A s \in Slots : Asking(p, b, s) # {} => entry[s] = FirstMode(p, b, s)
  PROVE  LET e == Emission(entry, p.needs[b])
         IN  /\ e.failed = FALSE /\ e.body \in Seq(Statements) /\ e.now \in [Slots -> Known]
             /\ ~e.folded =>
                  /\ IsKnown(entry, e.body, e.now)
                  /\ \A s \in Slots : e.now[s] = IF Asking(p, b, s) = {} THEN entry[s]
                                                 ELSE LastMode(p, b, s)
<1> DEFINE needs == p.needs[b]
           e == Emission(entry, needs)
<1>1. needs \in Seq(Needs)
  BY DEF IsProgram, Needs
<1>3. ASSUME NEW s \in Slots, Asks(needs, s)
      PROVE  entry[s] \in Modes
  <2>1. Asking(p, b, s) # {}
    BY <1>3 DEF Asks, Asking
  <2>2. FirstMode(p, b, s) \in Modes
    BY <1>1, <2>1, AskingIs DEF Needs
  <2> QED BY <2>1, <2>2
<1>4. Sound(needs, entry)
  BY <1>1, <1>3 DEF Sound
<1>5. Emitting(e, needs, entry) /\ (~e.folded => LeftAfter(needs, entry, Len(needs), e.now))
  BY <1>4, EmissionOK
<1> HIDE DEF e
<1>6. ASSUME ~e.folded, NEW s \in Slots
      PROVE  e.now[s] = IF Asking(p, b, s) = {} THEN entry[s] ELSE LastMode(p, b, s)
  <2>1. DOMAIN needs = 1 .. Len(needs) /\ Asking(p, b, s) = {i \in DOMAIN needs : needs[i][s] # NoMode}
    BY <1>1 DEF Asking
  <2>2. CASE Asking(p, b, s) = {}
    BY <1>5, <1>6, <2>1, <2>2 DEF LeftAfter
  <2>3. CASE Asking(p, b, s) # {}
    <3>1. PICK i \in Asking(p, b, s) : /\ LastMode(p, b, s) = needs[i][s]
                                       /\ \A j \in Asking(p, b, s) : j <= i
      BY <1>1, <2>3, AskingIs DEF Needs
    <3> QED BY <1>5, <1>6, <2>1, <2>3, <3>1 DEF LeftAfter
  <2> QED BY <2>2, <2>3
<1> QED BY <1>5, <1>6 DEF Emitting, Emitters, e

-----------------------------------------------------------------------------
Nodes == BlocksOf(program) \cup Methods(program) \cup Called(program)

(* The program is prepared, and what is solved is a solution.              *)
Prepares ==
  /\ source \in Programs /\ program = Prepared(source)
  /\ IsProgram(program) /\ OneReturn(program)
  /\ None \notin [block : BlocksOf(program), index : Nat]
  /\ Refused \notin Translations(program)
  /\ DOMAIN solution = Slots
  /\ \A s \in Slots : solution[s] = None \/ solution[s] \in Solutions(GraphOf(program, s))

(* Nothing is left open, and the code is what is emitted for the blocks.   *)
Open(s) == \E n \in Nodes : Entry(n)[s] = NoMode
Emits ==
  code \notin {None, Refused} =>
    Solved /\ ~Fails /\ code = [b \in BlocksOf(program) |-> EmittedBlock(b)]

LEMMA SolvedBy ==
  ASSUME Prepares, Solved, NEW s \in Slots
  PROVE  LET g == GraphOf(program, s)
         IN  \E modes \in KernelModes(g, Settled(g)) :
               /\ DOMAIN solution[s].entry = Nodes
               /\ \A n \in Nodes : Entry(n)[s] = Resolve(g, Settled(g), modes, n)
               /\ solution[s].inserted = Inserted(g, Settled(g), modes)
<1> DEFINE g == GraphOf(program, s)
<1>1. solution[s] \in Solutions(g)
  BY DEF Prepares, Solved
<1>2. PICK modes \in KernelModes(g, Settled(g)) :
        solution[s] = [kernels |-> modes,
                       entry |-> [n \in g.nodes |-> Resolve(g, Settled(g), modes, n)],
                       inserted |-> Inserted(g, Settled(g), modes)]
  BY <1>1 DEF Solutions
<1>3. g.nodes = Nodes
  BY DEF GraphOf, Nodes
<1> HIDE DEF g
<1>4. \A n \in Nodes : Entry(n)[s] = solution[s].entry[n]
  BY DEF Entry
<1> QED BY <1>2, <1>3, <1>4 DEF g

(* A block that asks for a mode starts in the mode it asks for first.      *)
LEMMA EntryIs ==
  ASSUME Prepares, Solved
  PROVE  /\ \A n \in Nodes : Entry(n) \in [Slots -> Known]
         /\ \A b \in BlocksOf(program), s \in Slots :
              Asking(program, b, s) # {} => Entry(b)[s] = FirstMode(program, b, s)
<1>1. ASSUME NEW s \in Slots
      PROVE  /\ \A n \in Nodes : Entry(n)[s] \in Known
             /\ \A b \in BlocksOf(program) :
                  Asking(program, b, s) # {} => Entry(b)[s] = FirstMode(program, b, s)
  <2> DEFINE g == GraphOf(program, s)
  <2>1. PICK modes \in KernelModes(g, Settled(g)) :
               \A n \in Nodes : Entry(n)[s] = Resolve(g, Settled(g), modes, n)
    BY SolvedBy
  <2>2. IsProgram(program)
    BY DEF Prepares
  <2>3. /\ WellFormed(g) /\ IsFiniteSet(g.nodes) /\ g.nodes = Nodes
        /\ BlocksOf(program) \subseteq Blocks(g)
        /\ \A b \in BlocksOf(program) : g.first[b] = FirstMode(program, b, s)
        /\ Fixed(g) = {b \in BlocksOf(program) : Asking(program, b, s) # {}}
    BY <2>2, GraphOK DEF Nodes
  <2> HIDE DEF g
  <2>4. \A n \in Nodes : Entry(n)[s] \in Known
    BY <2>1, <2>3, ResolveType DEF Known
  <2>5. ASSUME NEW b \in BlocksOf(program), Asking(program, b, s) # {}
        PROVE  Entry(b)[s] = FirstMode(program, b, s)
    <3>1. b \in Fixed(g) /\ b \notin g.kernels /\ b \in Nodes
      BY <2>3, <2>5 DEF Blocks, Nodes
    <3> QED BY <2>1, <2>3, <3>1 DEF Resolve
  <2> QED BY <2>4, <2>5
<1>2. \A n : Entry(n) = [s \in Slots |-> solution[s].entry[n]]
  BY DEF Entry
<1>3. ASSUME NEW n \in Nodes PROVE Entry(n) \in [Slots -> Known]
  <2>1. \A s \in Slots : Entry(n)[s] \in Known
    BY <1>1
  <2> QED BY <1>2, <2>1
<1> QED BY <1>1, <1>3

(* The modes known in a block.                                             *)
KnownIn(b) == CHOOSE known : KnownBy(known, Entry(b), Emitted(b).body, Emitted(b).now)

(* The code of a block is emitted.  Unless a setting was folded, it goes   *)
(* from the modes resolved at its start to those its last instructions     *)
(* ask for.                                                                *)
LEMMA BlockOK ==
  ASSUME Prepares, Solved, NEW b \in BlocksOf(program)
  PROVE  /\ Emitted(b).failed = FALSE /\ Emitted(b).body \in Seq(Statements)
         /\ Emitted(b).now \in [Slots -> Known]
         /\ ~Emitted(b).folded =>
              /\ KnownBy(KnownIn(b), Entry(b), Emitted(b).body, Emitted(b).now)
              /\ \A s \in Slots : Emitted(b).now[s] = IF Asking(program, b, s) = {} THEN Entry(b)[s]
                                                      ELSE LastMode(program, b, s)
<1>1. Entry(b) \in [Slots -> Known] /\ b \in Nodes
  BY EntryIs DEF Nodes
<1>2. \A s \in Slots : Asking(program, b, s) # {} => Entry(b)[s] = FirstMode(program, b, s)
  BY EntryIs
<1>3. IsProgram(program)
  BY DEF Prepares
<1>4. /\ Emitted(b).failed = FALSE /\ Emitted(b).body \in Seq(Statements)
      /\ Emitted(b).now \in [Slots -> Known]
      /\ ~Emitted(b).folded =>
           /\ IsKnown(Entry(b), Emitted(b).body, Emitted(b).now)
           /\ \A s \in Slots : Emitted(b).now[s] = IF Asking(program, b, s) = {} THEN Entry(b)[s]
                                                   ELSE LastMode(program, b, s)
  BY <1>1, <1>2, <1>3, BlockEmitted DEF Emitted
<1>5. ASSUME ~Emitted(b).folded
      PROVE  KnownBy(KnownIn(b), Entry(b), Emitted(b).body, Emitted(b).now)
  <2>1. \E known : KnownBy(known, Entry(b), Emitted(b).body, Emitted(b).now)
    BY <1>4, <1>5 DEF IsKnown
  <2> HIDE DEF KnownBy
  <2> QED BY <2>1 DEF KnownIn
<1> QED BY <1>4, <1>5

(* The modes at the end of a node's code.                                  *)
EndOf(n, s) ==
  IF n \in BlocksOf(program) /\ Asking(program, n, s) # {} THEN LastMode(program, n, s)
  ELSE Entry(n)[s]

(* An edge to a node that has no prologue brings the mode known there.     *)
LEMMA EdgeOK ==
  ASSUME Prepares, Solved, NEW s \in Slots, ~Open(s),
         NEW m, NEW n, <<m, n>> \in GraphOf(program, s).edges, n \notin solution[s].inserted
  PROVE  ~ModeChange(EndOf(m, s), Entry(n)[s])
<1> DEFINE g == GraphOf(program, s)
<1>1. PICK modes \in KernelModes(g, Settled(g)) :
             /\ \A x \in Nodes : Entry(x)[s] = Resolve(g, Settled(g), modes, x)
             /\ solution[s].inserted = Inserted(g, Settled(g), modes)
  BY SolvedBy
<1>2. IsProgram(program)
  BY DEF Prepares
<1>3. /\ WellFormed(g) /\ IsFiniteSet(g.nodes) /\ g.nodes = Nodes
      /\ \A b \in BlocksOf(program) : g.last[b] = LastMode(program, b, s)
      /\ Fixed(g) = {b \in BlocksOf(program) : Asking(program, b, s) # {}}
  BY <1>2, GraphOK DEF Nodes
<1> HIDE DEF g
<1>4. m \in Nodes /\ n \in Nodes
  <2>1. <<m, n>> \in g.edges
    BY DEF g
  <2> QED BY <1>3, <2>1 DEF WellFormed, Blocks
<1>5. EndOf(m, s) = Leaves(g, Settled(g), modes, m)
  BY <1>1, <1>3, <1>4 DEF EndOf, Leaves
<1>6. /\ Resolve(g, Settled(g), modes, m) # NoMode
      /\ Resolve(g, Settled(g), modes, n) # NoMode
  BY <1>1, <1>4 DEF Open
<1>7. <<m, n>> \in g.edges
  BY DEF g
<1> QED BY <1>1, <1>3, <1>4, <1>5, <1>6, <1>7, EdgeCovered

LEMMA NotOpen ==
  ASSUME Prepares, Solved, ~Fails, NEW s \in Slots
  PROVE  ~Open(s)
<1>1. DOMAIN solution[s].entry = Nodes
  BY SolvedBy
<1>2. \A n \in Nodes : Entry(n)[s] = solution[s].entry[n]
  BY DEF Entry
<1> QED BY <1>1, <1>2 DEF Open, Fails

(* A function that is not misleading returns in the modes its last block   *)
(* starts in.                                                              *)
LEMMA ReturnsSteady ==
  ASSUME Prepares, Solved, NEW b \in Returning(program), ~Misleading(b), NEW s \in Slots
  PROVE  b \in BlocksOf(program) /\ EndOf(b, s) = Entry(b)[s]
<1>1. b \in BlocksOf(program)
  <2>1. PICK f \in Functions(program) : b \in program.returns[f]
    BY DEF Returning
  <2> QED BY <2>1 DEF Prepares, IsProgram
<1>2. ~Emitted(b).folded /\ Emitted(b).now[s] = Entry(b)[s]
  BY DEF Misleading
<1>3. Emitted(b).now[s] = IF Asking(program, b, s) = {} THEN Entry(b)[s]
                          ELSE LastMode(program, b, s)
  BY <1>1, <1>2, BlockOK
<1> QED BY <1>1, <1>2, <1>3 DEF EndOf

-----------------------------------------------------------------------------
(* Where the code leads.                                                   *)
Arrives(n, modes) == \A s \in Slots : Entry(n)[s] \in {Clash, modes[s]}

(* Through the prologues, or past them, to a node.                         *)
LEMMA ThroughOK ==
  ASSUME NEW n, NEW modes, NEW R,
         \A s \in Slots : s[1] \notin R => Entry(n)[s] \in {Clash, modes[s]}
  PROVE  Arrives(n, Through(modes, n, R))
BY DEF Arrives, Through

LEMMA ThroughJump ==
  ASSUME NEW n, NEW now, NEW modes, \A s \in Slots : now[s] \in {Clash, modes[s]}
  PROVE  Arrives(n, Through(modes, n, Redirected(now, n)))
<1> SUFFICES ASSUME NEW s \in Slots, s[1] \notin Redirected(now, n)
             PROVE  Entry(n)[s] \in {Clash, modes[s]}
  BY ThroughOK
<1>1. PICK r \in Registers, h \in Halves : s = <<r, h>> /\ s[1] = r
  BY DEF Slots
<1>2. ~ModeChange(now[s], Entry(n)[s])
  BY <1>1 DEF Redirected
<1> QED BY <1>2 DEF ModeChange

LEMMA ThroughStart ==
  ASSUME Prepares, Solved, \A s \in Slots : ~Open(s), NEW m \in Methods(program), NEW modes, Arrives(m, modes)
  PROVE  Arrives(program.start[m], Through(modes, program.start[m], Prologues(program.start[m])))
<1> DEFINE n == program.start[m]
<1> SUFFICES ASSUME NEW s \in Slots, s[1] \notin Prologues(n)
             PROVE  Entry(n)[s] \in {Clash, modes[s]}
  BY ThroughOK
<1>1. n \notin solution[s].inserted
  <2>1. PICK r \in Registers, h \in Halves : s = <<r, h>> /\ s[1] = r
    BY DEF Slots
  <2> QED BY <2>1 DEF Prologues
<1>2. IsProgram(program)
  BY DEF Prepares
<1>3. <<m, n>> \in GraphOf(program, s).edges
  BY <1>2, GraphOK
<1>4. ~ModeChange(EndOf(m, s), Entry(n)[s])
  BY <1>1, <1>3, EdgeOK
<1>5. m \notin BlocksOf(program)
  BY <1>2 DEF IsProgram
<1> QED BY <1>4, <1>5 DEF EndOf, Arrives, ModeChange

(* A call in the modes known is entered in those the pass resolved.        *)
LEMMA CallArrives ==
  ASSUME Emits, code \notin {None, Refused}, NEW b \in BlocksOf(program), program.calls[b] # None,
         NEW modes, \A s \in Slots : Emitted(b).now[s] \in {Clash, modes[s]}
  PROVE  Arrives(program.calls[b], modes)
<1> SUFFICES ASSUME NEW s \in Slots PROVE Entry(program.calls[b])[s] \in {Clash, modes[s]}
  BY DEF Arrives
<1>1. Redirected(Emitted(b).now, program.calls[b]) = {}
  BY DEF Emits, Fails
<1>2. PICK r \in Registers, h \in Halves : s = <<r, h>>
  BY DEF Slots
<1>3. ~ModeChange(Emitted(b).now[s], Entry(program.calls[b])[s])
  BY <1>1, <1>2 DEF Redirected
<1> QED BY <1>3 DEF ModeChange

-----------------------------------------------------------------------------
(* The method of every block.                                              *)
Owner == CHOOSE owner \in [BlocksOf(program) -> Methods(program)] : Owns(program, owner)

(* What is known before a statement of a block is so of the modes given:   *)
(* of the first whatever the block holds, of the others unless a setting   *)
(* was folded in it.                                                       *)
KnownAt(b, i, modes) ==
  /\ i = 1 => Arrives(b, modes)
  /\ ~Emitted(b).folded => \A s \in Slots : KnownIn(b)[i - 1][s] \in {Clash, modes[s]}

(* Where the code runs, the hardware has the modes that are known there,   *)
(* unless the run was misled.                                              *)
Placed ==
  at # None =>
    /\ code \notin {None, Refused}
    /\ at \in [block : BlocksOf(program), index : Nat]
    /\ at.index \in 1 .. Len(Emitted(at.block).body) + 1
    /\ ~misled => KnownAt(at.block, at.index, hardware)

(* The methods whose calls are open call one another.                      *)
Caller(i) == IF i = Len(stack) THEN at.block ELSE stack[i + 1]
Nested ==
  IF at = None THEN stack = <<>>
  ELSE /\ stack \in Seq(BlocksOf(program))
       /\ \A i \in 1 .. Len(stack) : program.calls[stack[i]] = Owner[Caller(i)]

IInv == Prepares /\ Emits /\ Placed /\ Nested /\ misled \in BOOLEAN

LEMMA OwnerOK ==
  ASSUME Prepares
  PROVE  Owner \in [BlocksOf(program) -> Methods(program)] /\ Owns(program, Owner)
<1>1. \E owner \in [BlocksOf(program) -> Methods(program)] : Owns(program, owner)
  BY DEF Prepares, IsProgram
<1> QED BY <1>1 DEF Owner

LEMMA InitOK == ASSUME Init PROVE IInv
<1>1. source \in Programs /\ program = Prepared(source)
  BY DEF Init
<1>2. Prepares
  BY <1>1, PreparedOK, ProgramsAssumption DEF Init, Prepares
<1> QED BY <1>2 DEF Init, IInv, Emits, Placed, Nested

-----------------------------------------------------------------------------
LEMMA RefuseOK == ASSUME IInv, Refuse PROVE IInv'
<1>1. /\ code = None /\ code' = Refused
      /\ source' = source /\ program' = program /\ solution' = solution
      /\ at' = at /\ stack' = stack /\ hardware' = hardware /\ misled' = misled
  BY DEF Refuse, given
<1>2. at = None
  BY <1>1 DEF IInv, Placed
<1>3. Prepares'
  BY <1>1 DEF IInv, Prepares
<1> QED BY <1>1, <1>2, <1>3 DEF IInv, Emits, Placed, Nested

LEMMA SolveOK == ASSUME IInv, NEW s \in Slots, Solve(s) PROVE IInv'
<1>1. /\ solution[s] = None
      /\ source' = source /\ program' = program /\ code' = code
      /\ at' = at /\ stack' = stack /\ hardware' = hardware /\ misled' = misled
  BY DEF Solve, given
<1>2. PICK found \in Solutions(GraphOf(program, s)) : solution' = [solution EXCEPT ![s] = found]
  BY DEF Solve
<1>3. code \in {None, Refused} /\ at = None
  BY <1>1 DEF IInv, Emits, Solved, Placed
<1>4. Prepares'
  <2>1. \A t \in Slots : solution'[t] = None \/ solution'[t] \in Solutions(GraphOf(program, t))
    BY <1>2 DEF IInv, Prepares
  <2>2. DOMAIN solution' = Slots
    BY <1>2 DEF IInv, Prepares
  <2> QED BY <1>1, <2>1, <2>2 DEF IInv, Prepares
<1> QED BY <1>1, <1>3, <1>4 DEF IInv, Emits, Placed, Nested

LEMMA EmitOK == ASSUME IInv, Emit PROVE IInv'
<1>1. /\ Solved /\ code = None
      /\ code' = IF Fails THEN Refused ELSE [b \in BlocksOf(program) |-> EmittedBlock(b)]
      /\ source' = source /\ program' = program /\ solution' = solution
      /\ at' = at /\ stack' = stack /\ hardware' = hardware /\ misled' = misled
  BY DEF Emit, given
<1>2. at = None
  BY <1>1 DEF IInv, Placed
<1>3. Prepares'
  BY <1>1 DEF IInv, Prepares
<1>4. Solved' /\ (Fails' <=> Fails) /\ \A b : EmittedBlock(b)' = EmittedBlock(b)
  BY <1>1 DEF Solved, Fails, EmittedBlock, Emitted, Entry, Leaving, ExitModes, Redirected, Prologues
<1>5. Emits'
  BY <1>1, <1>4 DEF Emits
<1> QED BY <1>1, <1>2, <1>3, <1>5 DEF IInv, Placed, Nested

-----------------------------------------------------------------------------
(* Steps of the code leave the rest alone.                                 *)
LEMMA Static ==
  ASSUME IInv, UNCHANGED <<given, solution, code>>
  PROVE  /\ Prepares' /\ Emits' /\ Owner' = Owner
         /\ program' = program /\ solution' = solution /\ code' = code
         /\ \A b : Emitted(b)' = Emitted(b) /\ KnownIn(b)' = KnownIn(b)
         /\ \A n : Entry(n)' = Entry(n)
<1>1. source' = source /\ program' = program /\ solution' = solution /\ code' = code
  BY DEF given
<1>2. \A n : Entry(n)' = Entry(n)
  BY <1>1 DEF Entry
<1>3. \A b : Emitted(b)' = Emitted(b) /\ KnownIn(b)' = KnownIn(b)
  BY <1>1 DEF Emitted, Entry, KnownIn
<1>4. Solved' <=> Solved
  BY <1>1 DEF Solved
<1>5. (Fails' <=> Fails) /\ \A b : EmittedBlock(b)' = EmittedBlock(b)
  BY <1>1 DEF Fails, EmittedBlock, Emitted, Entry, Leaving, ExitModes, Redirected, Prologues
<1>6. Emits'
  BY <1>1, <1>4, <1>5 DEF IInv, Emits
<1>7. Prepares'
  BY <1>1 DEF IInv, Prepares
<1>8. Owner' = Owner
  BY <1>1 DEF Owner
<1> QED BY <1>1, <1>2, <1>3, <1>6, <1>7, <1>8

(* What is known of the place a step leads to.                             *)
LEMMA KnownThere ==
  ASSUME IInv, UNCHANGED <<given, solution, code>>,
         NEW b, NEW i, (at.block)' = b, (at.index)' = i
  PROVE  /\ Emitted(at.block)' = Emitted(b)
         /\ KnownAt(at.block, at.index, hardware)' <=> KnownAt(b, i, hardware')
<1>1. program' = program /\ solution' = solution
  BY DEF given
<1>2. Entry(at.block)' = Entry(b)
  BY <1>1 DEF Entry
<1>3. Emitted(at.block)' = Emitted(b)
  BY <1>1 DEF Emitted, Entry
<1>4. KnownIn(at.block)' = KnownIn(b)
  BY <1>1 DEF Emitted, KnownIn, Entry
<1>5. Arrives(at.block, hardware)' <=> Arrives(b, hardware')
  BY <1>2 DEF Arrives
<1> QED BY <1>3, <1>4, <1>5 DEF KnownAt

(* A block that is not misleading is left without being misled.            *)
LEMMA LeaveIs ==
  ASSUME IInv, NEW b, Leave(b)
  PROVE  misled' \in BOOLEAN /\ (~misled' => ~misled /\ ~Misleading(b) /\ ~Emitted(b).folded)
BY DEF Leave, IInv, Misleading

LEMMA Translated ==
  ASSUME IInv, code \notin {None, Refused}
  PROVE  /\ Prepares /\ Solved /\ ~Fails /\ \A s \in Slots : ~Open(s)
         /\ \A b \in BlocksOf(program) : /\ code[b].body = Emitted(b).body
                                         /\ \A n \in program.targets[b] :
                                              code[b].sets[n] = Redirected(Leaving(b), n)
<1>1. Prepares /\ Solved /\ ~Fails /\ code = [b \in BlocksOf(program) |-> EmittedBlock(b)]
  BY DEF IInv, Emits
<1>2. \A b \in BlocksOf(program) : /\ code[b].body = Emitted(b).body
                                   /\ \A n \in program.targets[b] :
                                        code[b].sets[n] = Redirected(Leaving(b), n)
  BY <1>1 DEF EmittedBlock
<1> QED BY <1>1, <1>2, NotOpen

(* A block is entered in the modes known at its start.                     *)
LEMMA EnterOK ==
  ASSUME IInv, UNCHANGED <<given, solution, code>>, code \notin {None, Refused},
         NEW n \in BlocksOf(program), Goto(n), ~misled' => Arrives(n, hardware')
  PROVE  Placed' /\ at' # None /\ at'.block = n
<1>1. at' = [block |-> n, index |-> 1] /\ (at.block)' = n /\ (at.index)' = 1
  BY DEF Goto
<1>2. at' \in [block : BlocksOf(program), index : Nat]
  BY <1>1
<1>3. Prepares /\ Solved
  BY Translated
<1>4. /\ Emitted(n).body \in Seq(Statements)
      /\ ~Emitted(n).folded => KnownIn(n)[0] = Entry(n)
  BY <1>3, BlockOK DEF KnownBy
<1>5. 1 \in 1 .. Len(Emitted(n).body) + 1 /\ 1 - 1 = 0
  BY <1>4
<1>6. ~misled' => KnownAt(n, 1, hardware')
  BY <1>4, <1>5 DEF Arrives, KnownAt
<1>7. at' # None
  BY <1>2, <1>3 DEF Prepares
<1>8. Placed'
  <2>1. /\ Emitted(at.block)' = Emitted(n)
        /\ KnownAt(at.block, at.index, hardware)' <=> KnownAt(n, 1, hardware')
    BY <1>1, KnownThere
  <2>2. code' \notin {None, Refused} /\ program' = program
    BY Static
  <2> QED BY <1>1, <1>2, <1>5, <1>6, <2>1, <2>2 DEF Placed
<1> QED BY <1>1, <1>7, <1>8

(* At the end of a block the hardware has the modes its code leaves.       *)
LEMMA AtEndOK ==
  ASSUME IInv, Running, AtEnd
  PROVE  /\ at.block \in BlocksOf(program)
         /\ ~misled /\ ~Emitted(at.block).folded =>
              \A s \in Slots : Emitted(at.block).now[s] \in {Clash, hardware[s]}
<1>1. /\ at.block \in BlocksOf(program) /\ at.index \in 1 .. Len(Emitted(at.block).body) + 1
      /\ ~misled => KnownAt(at.block, at.index, hardware)
  BY DEF IInv, Placed, Running
<1>2. /\ code[at.block].body = Emitted(at.block).body /\ Emitted(at.block).body \in Seq(Statements)
      /\ ~Emitted(at.block).folded =>
           KnownIn(at.block)[Len(Emitted(at.block).body)] = Emitted(at.block).now
  BY <1>1, Translated, BlockOK DEF Running, KnownBy
<1>3. at.index - 1 = Len(Emitted(at.block).body)
  <2>1. Len(Emitted(at.block).body) \in Nat
    BY <1>2
  <2> QED BY <1>1, <1>2, <2>1 DEF AtEnd
<1> QED BY <1>1, <1>2, <1>3 DEF KnownAt

LEMMA JumpFromOK ==
  ASSUME IInv, UNCHANGED <<given, solution, code>>, code \notin {None, Refused},
         NEW b \in BlocksOf(program), JumpFrom(b),
         ~misled' => \A s \in Slots : Leaving(b)[s] \in {Clash, hardware[s]}
  PROVE  Placed' /\ at' # None /\ at'.block \in BlocksOf(program) /\ Owner[at'.block] = Owner[b]
<1>1. PICK n \in program.targets[b] : Goto(n) /\ hardware' = Through(hardware, n, code[b].sets[n])
  BY DEF JumpFrom
<1>2. Prepares /\ code[b].sets[n] = Redirected(Leaving(b), n)
  BY Translated
<1>3. ~misled' => Arrives(n, hardware')
  BY <1>1, <1>2, ThroughJump
<1>4. n \in BlocksOf(program) /\ Owner[n] = Owner[b]
  BY <1>2, OwnerOK DEF Prepares, IsProgram, Owns
<1> QED BY <1>1, <1>3, <1>4, EnterOK

-----------------------------------------------------------------------------
LEMMA LaunchOK == ASSUME IInv, NEW k \in program.kernels, Launch(k) PROVE IInv'
<1> DEFINE n == program.start[k]
<1>1. /\ code \notin {None, Refused} /\ at = None /\ Goto(n)
      /\ hardware' = Through(Entry(k), n, Prologues(n))
      /\ UNCHANGED <<given, solution, code>> /\ stack' = stack /\ misled' = FALSE
  BY DEF Launch, EnterMethod
<1>2. Prepares /\ Solved /\ \A s \in Slots : ~Open(s)
  BY <1>1, Translated
<1>3. k \in Methods(program) /\ n \in BlocksOf(program)
  BY <1>2 DEF Prepares, IsProgram
<1>4. Arrives(k, Entry(k))
  BY DEF Arrives
<1>5. Arrives(n, hardware')
  BY <1>1, <1>2, <1>3, <1>4, ThroughStart
<1>6. Placed' /\ at' # None
  BY <1>1, <1>3, <1>5, EnterOK
<1>7. stack' = <<>>
  BY <1>1 DEF IInv, Nested
<1>8. Nested'
  BY <1>6, <1>7 DEF Nested
<1>9. misled' \in BOOLEAN
  BY <1>1
<1> QED BY <1>1, <1>6, <1>8, <1>9, Static DEF IInv

LEMMA ExecuteOK == ASSUME IInv, Execute PROVE IInv'
<1> DEFINE b == at.block
           i == at.index
           known == KnownIn(b)
           next == Emitted(b).body[i]
<1>1. /\ Running /\ ~AtEnd /\ at' = [at EXCEPT !.index = @ + 1]
      /\ UNCHANGED <<given, solution, code>> /\ stack' = stack /\ misled' = misled
  BY DEF Execute
<1>2. /\ b \in BlocksOf(program) /\ i \in 1 .. Len(Emitted(b).body) + 1
      /\ at \in [block : BlocksOf(program), index : Nat]
      /\ ~misled /\ ~Emitted(b).folded => \A s \in Slots : known[i - 1][s] \in {Clash, hardware[s]}
  BY <1>1 DEF IInv, Placed, KnownAt, Running
<1>3. Prepares /\ Solved /\ code[b].body = Emitted(b).body
  BY <1>1, <1>2, Translated DEF Running
<1>4. /\ Emitted(b).body \in Seq(Statements)
      /\ ~Emitted(b).folded => KnownBy(known, Entry(b), Emitted(b).body, Emitted(b).now)
  BY <1>2, <1>3, BlockOK
<1>5. i \in 1 .. Len(Emitted(b).body)
  <2>1. Len(Emitted(b).body) \in Nat /\ ~(i > Len(Emitted(b).body))
    BY <1>1, <1>3, <1>4 DEF AtEnd
  <2> QED BY <1>2, <2>1
<1>6. hardware' = IF next.sets = None THEN hardware
                  ELSE [s \in Slots |-> IF s[1] = next.sets THEN next.modes[s] ELSE hardware[s]]
  BY <1>1, <1>3 DEF Execute
<1>7. ASSUME ~misled, ~Emitted(b).folded PROVE \A s \in Slots : known[i][s] \in {Clash, hardware'[s]}
  <2>1. Follows(known, Emitted(b).body, i)
    BY <1>4, <1>5, <1>7 DEF KnownBy
  <2>2. CASE next.sets = None
    BY <1>2, <1>6, <1>7, <2>1, <2>2 DEF Follows
  <2>3. CASE next.sets # None
    <3> SUFFICES ASSUME NEW s \in Slots PROVE known[i][s] \in {Clash, hardware'[s]}
      OBVIOUS
    <3>1. hardware'[s] = IF s[1] = next.sets THEN next.modes[s] ELSE hardware[s]
      BY <1>6, <2>3
    <3>2. IF s[1] = next.sets THEN known[i][s] \in {Clash, next.modes[s]}
          ELSE known[i][s] = known[i - 1][s]
      BY <2>1, <2>3 DEF Follows
    <3> QED BY <1>2, <1>7, <3>1, <3>2
  <2> QED BY <2>2, <2>3
<1>8. at' = [block |-> b, index |-> i + 1] /\ i + 1 \in 1 .. Len(Emitted(b).body) + 1
      /\ (i + 1) - 1 = i /\ i + 1 \in Nat /\ i + 1 # 1
  <2>1. at = [block |-> at.block, index |-> at.index]
    BY <1>2
  <2>2. Len(Emitted(b).body) \in Nat
    BY <1>4
  <2>3. at' = [block |-> b, index |-> i + 1]
    BY <1>1, <2>1
  <2> QED BY <1>5, <2>2, <2>3
<1>9. at' \in [block : BlocksOf(program), index : Nat] /\ at' # None
      /\ (at.block)' = b /\ (at.index)' = i + 1
  BY <1>2, <1>3, <1>8 DEF Prepares
<1>10. ~misled' => KnownAt(b, i + 1, hardware')
  BY <1>1, <1>7, <1>8 DEF KnownAt
<1>11. Placed'
  <2>1. /\ Emitted(at.block)' = Emitted(b)
        /\ KnownAt(at.block, at.index, hardware)' <=> KnownAt(b, i + 1, hardware')
    BY <1>1, <1>9, KnownThere
  <2>2. code' \notin {None, Refused} /\ program' = program
    BY <1>1, Static DEF Running
  <2> HIDE DEF b, i, known
  <2> QED BY <1>8, <1>9, <1>10, <2>1, <2>2 DEF Placed
<1>12. Nested'
  <2>1. /\ Owner' = Owner /\ at # None /\ program' = program /\ stack' = stack /\ at'.block = at.block
        /\ at' # None
    BY <1>1, <1>9, Static DEF Running
  <2> QED BY <2>1 DEF IInv, Nested, Caller
<1>13. misled' \in BOOLEAN
  BY <1>1 DEF IInv
<1> QED BY <1>1, <1>11, <1>12, <1>13, Static DEF IInv

(* A jump within a method leaves the open calls as they are.               *)
LEMMA NestedJump ==
  ASSUME IInv, Running, UNCHANGED <<given, solution, code>>, stack' = stack,
         at' # None, Owner[at'.block] = Owner[at.block]
  PROVE  Nested'
<1>1. Owner' = Owner /\ at # None /\ program' = program
  BY Static DEF Running
<1>2. stack \in Seq(BlocksOf(program)) /\ \A i \in 1 .. Len(stack) : program.calls[stack[i]] = Owner[Caller(i)]
  BY <1>1 DEF IInv, Nested
<1>3. \A i \in 1 .. Len(stack) : Owner[Caller(i)] = Owner[Caller(i)']
  BY DEF Caller
<1> QED BY <1>1, <1>2, <1>3 DEF Nested

LEMMA JumpOK == ASSUME IInv, Jump PROVE IInv'
<1>1. /\ Running /\ AtEnd /\ program.calls[at.block] = None /\ JumpFrom(at.block) /\ Leave(at.block)
      /\ UNCHANGED <<given, solution, code>> /\ stack' = stack
  BY DEF Jump
<1>2. misled' \in BOOLEAN /\ (~misled' => ~misled /\ ~Emitted(at.block).folded)
  BY <1>1, LeaveIs
<1>3. /\ at.block \in BlocksOf(program)
      /\ ~misled' => \A s \in Slots : Leaving(at.block)[s] \in {Clash, hardware[s]}
  BY <1>1, <1>2, AtEndOK DEF Leaving
<1>4. Placed' /\ at' # None /\ Owner[at'.block] = Owner[at.block]
  BY <1>1, <1>3, JumpFromOK DEF Running
<1>5. Nested'
  BY <1>1, <1>4, NestedJump
<1> QED BY <1>1, <1>2, <1>4, <1>5, Static DEF IInv

LEMMA CallDeclaredOK == ASSUME IInv, CallDeclared PROVE IInv'
<1> DEFINE d == program.calls[at.block]
<1>1. /\ Running /\ AtEnd /\ d \notin Methods(program) \cup {None} /\ JumpFrom(at.block)
      /\ Leave(at.block) /\ UNCHANGED <<given, solution, code>> /\ stack' = stack
  BY DEF CallDeclared
<1>2. misled' \in BOOLEAN /\ (~misled' => ~misled /\ ~Emitted(at.block).folded)
  BY <1>1, LeaveIs
<1>3. at.block \in BlocksOf(program) /\ (~misled' => Arrives(d, hardware))
  <2>1. code \notin {None, Refused} /\ Emits
    BY <1>1 DEF Running, IInv
  <2> QED BY <1>1, <1>2, <2>1, AtEndOK, CallArrives
<1>4. ReturnNode(program, d) = d
  <2>1. IsProgram(program)
    BY DEF IInv, Prepares
  <2>2. d \notin Functions(program)
    BY <1>1, <2>1 DEF IsProgram
  <2> QED BY <2>2 DEF ReturnNode
<1>5. ~misled' => \A s \in Slots : Leaving(at.block)[s] \in {Clash, hardware[s]}
  BY <1>1, <1>3, <1>4 DEF Leaving, ExitModes, Arrives
<1>6. Placed' /\ at' # None /\ Owner[at'.block] = Owner[at.block]
  BY <1>1, <1>3, <1>5, JumpFromOK DEF Running
<1>7. Nested'
  BY <1>1, <1>6, NestedJump
<1> QED BY <1>1, <1>2, <1>6, <1>7, Static DEF IInv

LEMMA CallOK == ASSUME IInv, Call PROVE IInv'
<1> DEFINE f == program.calls[at.block]
           n == program.start[f]
<1>1. /\ Running /\ AtEnd /\ f \in Methods(program) /\ Goto(n)
      /\ hardware' = Through(hardware, n, Prologues(n)) /\ stack' = Append(stack, at.block)
      /\ Leave(at.block) /\ UNCHANGED <<given, solution, code>>
  BY DEF Call, EnterMethod
<1>2. Prepares /\ Solved /\ \A s \in Slots : ~Open(s)
  BY <1>1, Translated DEF Running
<1>3. f # None /\ n \in BlocksOf(program)
  BY <1>1, <1>2 DEF Prepares, IsProgram
<1>0. misled' \in BOOLEAN /\ (~misled' => ~misled /\ ~Emitted(at.block).folded)
  BY <1>1, LeaveIs
<1>4. at.block \in BlocksOf(program) /\ (~misled' => Arrives(f, hardware))
  <2>1. code \notin {None, Refused} /\ Emits
    BY <1>1 DEF Running, IInv
  <2> QED BY <1>0, <1>1, <1>3, <2>1, AtEndOK, CallArrives
<1>5. ~misled' => Arrives(n, hardware')
  BY <1>1, <1>2, <1>4, ThroughStart
<1>6. Placed' /\ at' # None /\ at'.block = n
  BY <1>1, <1>3, <1>5, EnterOK DEF Running
<1>7. Nested'
  <2>1. /\ Owner' = Owner /\ program' = program /\ at # None
    BY <1>1, Static DEF Running
  <2>2. /\ stack \in Seq(BlocksOf(program))
        /\ \A i \in 1 .. Len(stack) : program.calls[stack[i]] = Owner[Caller(i)]
    BY <2>1 DEF IInv, Nested
  <2> DEFINE N == Len(stack)
  <2>3. /\ N \in Nat /\ stack' \in Seq(BlocksOf(program)) /\ Len(stack') = N + 1
        /\ stack'[N + 1] = at.block /\ \A i \in 1 .. N : stack'[i] = stack[i]
    BY <1>1, <1>4, <2>2
  <2>4. Owner[n] = f
    BY <1>1, <1>2, OwnerOK DEF Owns
  <2> HIDE DEF N
  <2>5. ASSUME NEW i \in 1 .. N + 1 PROVE program.calls[stack'[i]] = Owner[Caller(i)']
    <3>1. CASE i = N + 1
      <4>1. Caller(i)' = n
        BY <1>6, <2>3, <3>1 DEF Caller
      <4> HIDE DEF n
      <4> QED BY <2>3, <2>4, <3>1, <4>1
    <3>2. CASE i # N + 1
      <4>1. i \in 1 .. N /\ (i = N \/ i + 1 \in 1 .. N)
        BY <2>3, <3>2
      <4>2. Caller(i)' = stack'[i + 1]
        BY <2>3, <3>2 DEF Caller
      <4>3. Caller(i)' = Caller(i)
        BY <2>3, <4>1, <4>2 DEF Caller, N
      <4> QED BY <2>2, <2>3, <4>1, <4>3 DEF N
    <3> QED BY <3>1, <3>2
  <2> QED BY <1>6, <2>1, <2>3, <2>5 DEF Nested
<1> QED BY <1>0, <1>1, <1>6, <1>7, Static DEF IInv

(* What is left when the last call returns.                                *)
LEMMA FrontIs ==
  ASSUME NEW S, NEW q \in Seq(S), q # <<>>
  PROVE  /\ Front(q) \in Seq(S) /\ Len(Front(q)) = Len(q) - 1
         /\ \A i \in 1 .. Len(q) - 1 : Front(q)[i] = q[i]
<1>1. Len(q) \in Nat /\ Len(q) >= 1 /\ \A i \in 1 .. Len(q) : q[i] \in S
  OBVIOUS
<1>2. Front(q) = SubSeq(q, 1, Len(q) - 1)
  BY DEF Front
<1> DEFINE n == Len(q) - 1
<1>3. /\ SubSeq(q, 1, n) \in Seq(S)
      /\ Len(SubSeq(q, 1, n)) = IF 1 <= n THEN n - 1 + 1 ELSE 0
      /\ \A i \in 1 .. n - 1 + 1 : SubSeq(q, 1, n)[i] = q[1 + i - 1]
  <2>1. n \in Int /\ \A i \in 1 .. n : q[i] \in S
    BY <1>1
  <2> HIDE DEF n
  <2> QED BY <2>1, SubSeqProperties
<1>4. n \in Nat
  BY <1>1
<1> HIDE DEF n
<1>5. (IF 1 <= n THEN n - 1 + 1 ELSE 0) = n /\ \A i \in 1 .. n : i \in 1 .. n - 1 + 1 /\ 1 + i - 1 = i
  BY <1>4
<1>6. Front(q) = SubSeq(q, 1, n)
  BY <1>2 DEF n
<1>7. Len(Front(q)) = n
  BY <1>3, <1>5, <1>6
<1>8. \A i \in 1 .. n : Front(q)[i] = q[i]
  BY <1>3, <1>5, <1>6
<1> QED BY <1>3, <1>6, <1>7, <1>8 DEF n

LEMMA ReturnOK == ASSUME IInv, Return PROVE IInv'
<1> DEFINE r == at.block
           N == Len(stack)
           b == stack[N]
<1>1. /\ Running /\ AtEnd /\ r \in Returning(program) /\ stack # <<>>
      /\ JumpFrom(b) /\ stack' = Front(stack) /\ Leave(r)
      /\ UNCHANGED <<given, solution, code>>
  BY DEF Return, Last
<1>2. Prepares /\ Solved /\ IsProgram(program) /\ OneReturn(program)
  BY <1>1, Translated DEF Running, Prepares
<1>3. at # None /\ Owner' = Owner
  BY <1>1, Static DEF Running
<1>4. /\ stack \in Seq(BlocksOf(program))
      /\ \A i \in 1 .. N : program.calls[stack[i]] = Owner[Caller(i)]
  BY <1>3 DEF IInv, Nested
<1>5. N \in Nat /\ N >= 1 /\ N \in 1 .. N /\ b \in BlocksOf(program)
  BY <1>1, <1>4
<1>6. program.calls[b] = Owner[r]
  BY <1>4, <1>5 DEF Caller
<1>7. PICK f \in Functions(program) : r \in program.returns[f]
  BY <1>1 DEF Returning
<1>8. Owner[r] = f
  BY <1>2, <1>7, OwnerOK DEF Owns
<1>9. ReturnNode(program, f) = r
  BY <1>2, <1>7 DEF ReturnNode, OneReturn
<1>10. f # None
  BY <1>2 DEF IsProgram
<1>0. misled' \in BOOLEAN /\ (~misled' => ~misled /\ ~Misleading(r) /\ ~Emitted(r).folded)
  BY <1>1, LeaveIs
<1>11. ASSUME ~misled' PROVE \A s \in Slots : Leaving(b)[s] \in {Clash, hardware[s]}
  <2> SUFFICES ASSUME NEW s \in Slots PROVE Leaving(b)[s] \in {Clash, hardware[s]}
    OBVIOUS
  <2>1. Leaving(b) = Entry(r)
    BY <1>6, <1>8, <1>9, <1>10 DEF Leaving, ExitModes
  <2>2. Emitted(r).now = Entry(r)
    BY <1>0, <1>1, <1>11 DEF Misleading
  <2>3. Emitted(r).now[s] \in {Clash, hardware[s]}
    BY <1>0, <1>1, <1>11, AtEndOK
  <2> QED BY <2>1, <2>2, <2>3
<1>12. Placed' /\ at' # None /\ Owner[at'.block] = Owner[b]
  BY <1>1, <1>5, <1>11, JumpFromOK DEF Running
<1>13. Nested'
  <2>1. /\ stack' \in Seq(BlocksOf(program)) /\ Len(stack') = N - 1
        /\ \A i \in 1 .. N - 1 : stack'[i] = stack[i]
    BY <1>1, <1>4, FrontIs
  <2> HIDE DEF N
  <2>2. ASSUME NEW i \in 1 .. N - 1 PROVE program.calls[stack'[i]] = Owner[Caller(i)']
    <3>1. i \in 1 .. N /\ i # N
      BY <1>5
    <3>2. program.calls[stack[i]] = Owner[stack[i + 1]]
      BY <1>4, <3>1 DEF Caller, N
    <3>3. CASE i = N - 1
      <4>1. Caller(i)' = at'.block
        BY <2>1, <3>3 DEF Caller
      <4>2. stack[i + 1] = b
        BY <1>5, <3>3
      <4> QED BY <1>12, <2>1, <3>2, <4>1, <4>2
    <3>4. CASE i # N - 1
      <4>1. i + 1 \in 1 .. N - 1
        BY <1>5, <3>4
      <4>2. Caller(i)' = stack[i + 1]
        BY <2>1, <3>4, <4>1 DEF Caller
      <4> QED BY <2>1, <3>2, <4>2
    <3> QED BY <3>3, <3>4
  <2>3. program' = program
    BY <1>1, Static
  <2> QED BY <1>3, <1>12, <2>1, <2>2, <2>3 DEF Nested
<1> QED BY <1>0, <1>1, <1>12, <1>13, Static DEF IInv

LEMMA ExitOK == ASSUME IInv, Exit PROVE IInv'
BY Static DEF Exit, IInv, Placed, Nested

LEMMA StutterOK == ASSUME IInv, UNCHANGED vars PROVE IInv'
<1>1. /\ UNCHANGED <<given, solution, code>> /\ at' = at /\ stack' = stack
      /\ hardware' = hardware /\ misled' = misled
  BY DEF vars
<1>2. Placed'
  <2>1. /\ Emitted(at.block)' = Emitted(at.block)
        /\ KnownAt(at.block, at.index, hardware)' <=> KnownAt(at.block, at.index, hardware')
    BY <1>1, KnownThere
  <2>2. program' = program /\ code' = code
    BY <1>1, Static
  <2> QED BY <1>1, <2>1, <2>2 DEF IInv, Placed
<1>3. Nested'
  <2>1. Owner' = Owner /\ program' = program
    BY <1>1, Static
  <2> QED BY <1>1, <2>1 DEF IInv, Nested, Caller
<1> QED BY <1>1, <1>2, <1>3, Static DEF IInv

LEMMA NextOK == IInv /\ [Next]_vars => IInv'
<1> SUFFICES ASSUME IInv, [Next]_vars PROVE IInv'
  OBVIOUS
<1>1. CASE UNCHANGED vars
  BY <1>1, StutterOK
<1>2. ASSUME NEW s \in Slots, Solve(s) PROVE IInv'
  BY <1>2, SolveOK
<1>3. CASE Emit
  BY <1>3, EmitOK
<1>4. ASSUME NEW k \in program.kernels, Launch(k) PROVE IInv'
  BY <1>4, LaunchOK
<1>5. CASE Execute
  BY <1>5, ExecuteOK
<1>6. CASE Jump
  BY <1>6, JumpOK
<1>7. CASE CallDeclared
  BY <1>7, CallDeclaredOK
<1>8. CASE Call
  BY <1>8, CallOK
<1>9. CASE Return
  BY <1>9, ReturnOK
<1>10. CASE Exit
  BY <1>10, ExitOK
<1>11. CASE Refuse
  BY <1>11, RefuseOK
<1> QED BY <1>1, <1>2, <1>3, <1>4, <1>5, <1>6, <1>7, <1>8, <1>9, <1>10, <1>11 DEF Next

(* Instructions run in the modes they ask for.                             *)
LEMMA HonouredBy == IInv => HonouredUntilMisled
<1> DEFINE b == at.block
           i == at.index
           next == Emitted(b).body[i]
<1> SUFFICES ASSUME IInv, Running, ~AtEnd, ~misled, ~Emitted(b).folded,
                    code[b].body[i].sets = None, NEW s \in Slots
             PROVE  code[b].body[i].modes[s] \in {NoMode, hardware[s]}
  BY DEF HonouredUntilMisled, ModesHonoured
<1>1. /\ b \in BlocksOf(program) /\ i \in 1 .. Len(Emitted(b).body) + 1
      /\ KnownIn(b)[i - 1][s] \in {Clash, hardware[s]}
  BY DEF IInv, Placed, KnownAt, Running
<1>2. Prepares /\ Solved /\ code[b].body = Emitted(b).body
  BY <1>1, Translated DEF Running
<1>3. KnownBy(KnownIn(b), Entry(b), Emitted(b).body, Emitted(b).now) /\ Emitted(b).body \in Seq(Statements)
  BY <1>1, <1>2, BlockOK
<1>4. i \in 1 .. Len(Emitted(b).body)
  <2>1. Len(Emitted(b).body) \in Nat /\ ~(i > Len(Emitted(b).body))
    BY <1>2, <1>3 DEF AtEnd
  <2> QED BY <1>1, <2>1
<1>5. Follows(KnownIn(b), Emitted(b).body, i)
  BY <1>3, <1>4 DEF KnownBy
<1>6. next.sets = None /\ next.modes[s] \in {NoMode, KnownIn(b)[i - 1][s]} \ {Clash}
  BY <1>2, <1>5 DEF Follows
<1> QED BY <1>1, <1>2, <1>6

LEMMA ResolvedBy == IInv => EntryAsResolved
BY DEF EntryAsResolved, IInv, Placed, KnownAt, Arrives, Running

(* Whatever the programs: where the code is, the hardware has the modes    *)
(* that are known there, unless the run was misled.                        *)
THEOREM Invariant == Spec => []IInv
<1>1. Init => IInv
  BY InitOK
<1>2. IInv /\ [Next]_vars => IInv'
  BY NextOK
<1> QED BY <1>1, <1>2, PTL DEF Spec

(* Every instruction of the code that apply_global_mode_controls emits     *)
(* runs in the modes it asks for, for every program, however often it      *)
(* loops and calls itself, until the run is in a block where a setting was *)
(* folded, or has left one or returned in other modes than the caller goes *)
(* by.                                                                     *)
THEOREM ModesAreHonoured == Spec => []HonouredUntilMisled
<1>1. Spec => []IInv
  BY Invariant
<1> QED BY <1>1, HonouredBy, PTL

(* A block whose mode at the start ResolvedControlFlowGraph knows is       *)
(* entered in that mode, by jumps, calls and returns, through its prologue *)
(* or past it, whatever the program, until the run is misled.              *)
THEOREM EntersAsResolved == Spec => []EntryAsResolved
<1>1. Spec => []IInv
  BY Invariant
<1> QED BY <1>1, ResolvedBy, PTL

-----------------------------------------------------------------------------
(* Every mode is resolved where every node of the graph is reached.        *)
LEMMA AllResolved ==
  ASSUME Prepares, Solved, NEW s \in Slots, AllReached(GraphOf(program, s))
  PROVE  ~Open(s)
<1> DEFINE g == GraphOf(program, s)
<1>1. PICK modes \in KernelModes(g, Settled(g)) :
             \A x \in Nodes : Entry(x)[s] = Resolve(g, Settled(g), modes, x)
  BY SolvedBy
<1>2. WellFormed(g) /\ IsFiniteSet(g.nodes) /\ g.nodes = Nodes
  BY GraphOK DEF Prepares, Nodes
<1>3. AllReached(g)
  OBVIOUS
<1> HIDE DEF g
<1> QED BY <1>1, <1>2, <1>3, Resolved DEF Open

(* No prologue is missing.                                                 *)
LEMMA PrologueOK ==
  ASSUME Prepares, Solved, \A s \in Slots : ~Open(s), NEW m, NEW n, NEW now,
         \A s \in Slots : <<m, n>> \in GraphOf(program, s).edges /\ now[s] = EndOf(m, s)
  PROVE  Redirected(now, n) \subseteq Prologues(n)
<1> SUFFICES ASSUME NEW r \in Registers, NEW h \in Halves, ModeChange(now[<<r, h>>], Entry(n)[<<r, h>>])
             PROVE  n \in solution[<<r, h>>].inserted
  BY DEF Redirected, Prologues
<1>1. <<r, h>> \in Slots
  BY DEF Slots
<1> QED BY <1>1, EdgeOK

LEMMA NothingInserted ==
  ASSUME Prepares, Solved, NEW n, n \notin BlocksOf(program)
  PROVE  Prologues(n) = {}
<1> SUFFICES ASSUME NEW s \in Slots PROVE n \notin solution[s].inserted
  BY DEF Prologues, Slots
<1> DEFINE g == GraphOf(program, s)
<1>1. PICK modes \in KernelModes(g, Settled(g)) : solution[s].inserted = Inserted(g, Settled(g), modes)
  BY SolvedBy
<1>2. Fixed(g) = {b \in BlocksOf(program) : Asking(program, b, s) # {}}
  BY GraphOK DEF Prepares
<1> HIDE DEF g
<1> QED BY <1>1, <1>2 DEF Inserted, MustInsert, MaybeInsert

(* None of the errors of the pass, where every node is reached, functions  *)
(* return, calls are followed by code, and no block misleads.              *)
LEMMA NoFailure ==
  ASSUME Prepares, Solved,
         \A s \in Slots : AllReached(GraphOf(program, s)),
         \A f \in Functions(program) : program.returns[f] # {},
         \A b \in BlocksOf(program) : program.calls[b] # None => program.targets[b] # {},
         \A b \in BlocksOf(program) : ~Misleading(b)
  PROVE  ~Fails
<1>1. IsProgram(program)
  BY DEF Prepares
<1>2. \A f \in Functions(program) : program.returns[f] # {}
  OBVIOUS
<1>3. \A s \in Slots : ~Open(s)
  BY AllResolved
<1>4. \A s \in Slots : \A n \in DOMAIN solution[s].entry : solution[s].entry[n] # NoMode
  <2> SUFFICES ASSUME NEW s \in Slots, NEW n \in DOMAIN solution[s].entry
               PROVE  solution[s].entry[n] # NoMode
    OBVIOUS
  <2>1. DOMAIN solution[s].entry = Nodes
    BY SolvedBy
  <2>2. Entry(n)[s] = solution[s].entry[n]
    BY DEF Entry
  <2> QED BY <1>3, <2>1, <2>2 DEF Open
<1>5. ASSUME NEW b \in BlocksOf(program)
      PROVE  /\ ~Emitted(b).failed /\ Emitted(b).now \in [Slots -> Known]
             /\ \A s \in Slots : Emitted(b).now[s] = EndOf(b, s)
  <2>1. ~Emitted(b).folded
    BY DEF Misleading
  <2> QED BY <2>1, BlockOK DEF EndOf
<1>6. ASSUME NEW b \in BlocksOf(program), program.calls[b] # None
      PROVE  Redirected(Emitted(b).now, program.calls[b]) = {}
  <2> DEFINE f == program.calls[b]
  <2>1. \A s \in Slots : <<b, f>> \in GraphOf(program, s).edges
    BY <1>1, <1>6, GraphOK
  <2>2. Redirected(Emitted(b).now, f) \subseteq Prologues(f)
    BY <1>3, <1>5, <2>1, PrologueOK
  <2>3. f \notin BlocksOf(program)
    BY <1>1, <1>6 DEF IsProgram, Called
  <2> QED BY <2>2, <2>3, NothingInserted
<1>7. ASSUME NEW b \in BlocksOf(program), NEW n \in program.targets[b]
      PROVE  Redirected(Leaving(b), n) \subseteq Prologues(n)
  <2> DEFINE m == IF program.calls[b] = None THEN b ELSE ReturnNode(program, program.calls[b])
  <2>1. \A s \in Slots : <<m, n>> \in GraphOf(program, s).edges
    BY <1>1, GraphOK
  <2>2. ASSUME NEW s \in Slots PROVE Leaving(b)[s] = EndOf(m, s)
    <3>1. CASE program.calls[b] = None
      BY <1>5, <3>1 DEF Leaving
    <3>2. CASE program.calls[b] # None
      <4> DEFINE f == program.calls[b]
      <4>1. m = ReturnNode(program, f) /\ Leaving(b) = Entry(m)
        BY <3>2 DEF Leaving, ExitModes
      <4>2. f \in Called(program)
        BY <3>2 DEF Called
      <4>3. CASE f \in Functions(program)
        <5>1. m \in program.returns[f]
          BY <1>1, <1>2, <4>1, <4>2, <4>3, ReturnNodeIs
        <5>2. m \in Returning(program) /\ m \in BlocksOf(program)
          BY <1>1, <4>3, <5>1 DEF Returning, IsProgram
        <5> QED BY <4>1, <5>2, ReturnsSteady
      <4>4. CASE f \notin Functions(program)
        <5> HIDE DEF m, f
        <5>1. m = f
          BY <1>1, <4>1, <4>2, <4>4, ReturnNodeIs
        <5>2. f \notin BlocksOf(program)
          BY <1>1, <4>2 DEF IsProgram
        <5> QED BY <4>1, <5>1, <5>2 DEF EndOf
      <4> QED BY <4>3, <4>4
    <3> QED BY <3>1, <3>2
  <2> HIDE DEF m
  <2> QED BY <1>3, <2>1, <2>2, PrologueOK
<1> QED BY <1>2, <1>4, <1>5, <1>6, <1>7 DEF Fails

(* What is emitted is a translation.                                       *)
LEMMA TranslationType ==
  ASSUME Prepares, Solved
  PROVE  [b \in BlocksOf(program) |-> EmittedBlock(b)] \in Translations(program)
<1> DEFINE B == BlocksOf(program)
           Sets == UNION {[C -> SUBSET Registers] : C \in SUBSET B}
<1> SUFFICES ASSUME NEW b \in B PROVE EmittedBlock(b) \in [body : Seq(Statements), sets : Sets]
  BY DEF Translations
<1>1. Emitted(b).body \in Seq(Statements)
  BY BlockOK
<1>2. program.targets[b] \in SUBSET B
  BY DEF Prepares, IsProgram
<1> DEFINE f == [n \in program.targets[b] |-> Redirected(Leaving(b), n)]
<1>3. f \in [program.targets[b] -> SUBSET Registers]
  BY DEF Redirected
<1>4. f \in Sets
  <2> HIDE DEF f, B
  <2> QED BY <1>2, <1>3
<1> QED BY <1>1, <1>4 DEF EmittedBlock

-----------------------------------------------------------------------------
(* What pruning leaves is reached, in a program that calls no function in  *)
(* vain and whose functions return.                                        *)

(* The methods that remove_unreachable_basic_blocks keeps are those a run  *)
(* can enter.                                                              *)
LEMMA EnteredOK ==
  ASSUME NEW p, IsProgram(p), ~CalledInVain(p)
  PROVE  /\ Entered(p) = Methods(p) \cap (p.kernels \cup Called(p))
         /\ \A m \in Entered(p) : CalledIn(p, m) \subseteq Entered(p)
         /\ \A U : (p.kernels \subseteq U /\ \A m \in U \cap Methods(p) : CalledIn(p, m) \subseteq U)
                   => Entered(p) \subseteq U
<1> DEFINE next == [m \in Methods(p) |-> CalledIn(p, m)]
           kept == Methods(p) \cap (p.kernels \cup Called(p))
<1>1. /\ IsFiniteSet(Methods(p)) /\ p.kernels \in SUBSET Methods(p)
      /\ Functions(p) = Methods(p) \ p.kernels /\ Called(p) \cap p.kernels = {}
      /\ None \notin Methods(p)
  BY DEF IsProgram
<1>2. ASSUME NEW m \in Methods(p) PROVE CalledIn(p, m) \subseteq kept
  <2>1. ReachedIn(p, m) \subseteq BlocksOf(p)
    BY ReachedInOK
  <2> QED BY <1>1, <2>1 DEF CalledIn, Called
<1>3. \A m \in Methods(p) : next[m] = CalledIn(p, m) /\ next[m] \in SUBSET Methods(p)
  BY <1>2
<1>4. Entered(p) = Spread(Methods(p), p.kernels, next)
  BY DEF Entered
<1> HIDE DEF next
<1>5. /\ Entered(p) \in SUBSET Methods(p) /\ p.kernels \subseteq Entered(p)
      /\ \A m \in Entered(p) : next[m] \subseteq Entered(p)
  BY <1>1, <1>3, <1>4, SpreadClosed
<1>6. ASSUME NEW U, p.kernels \subseteq U, \A m \in U \cap Methods(p) : CalledIn(p, m) \subseteq U
      PROVE  Entered(p) \subseteq U
  <2>1. \A m \in U \cap Methods(p) : next[m] \subseteq U
    BY <1>3, <1>6
  <2> QED BY <1>1, <1>3, <1>4, <1>6, <2>1, SpreadLeast
<1>7. Entered(p) \subseteq kept
  <2>1. p.kernels \subseteq kept /\ \A m \in kept \cap Methods(p) : CalledIn(p, m) \subseteq kept
    BY <1>1, <1>2
  <2> HIDE DEF kept
  <2> QED BY <1>6, <2>1
<1>8. kept \subseteq Entered(p)
  BY <1>1, <1>5 DEF CalledInVain
<1>9. \A m \in Entered(p) : CalledIn(p, m) \subseteq Entered(p)
  BY <1>3, <1>5
<1> QED BY <1>6, <1>7, <1>8, <1>9

(* A set with the first block of a method, and with what its members jump  *)
(* to, but for the calls of G, has all that is passed while the functions  *)
(* of G do not return.                                                     *)
LEMMA PassedLeast ==
  ASSUME NEW p, IsProgram(p), NEW m \in Methods(p), NEW G,
         NEW U, p.start[m] \in U,
         \A b \in U \cap ReachedIn(p, m) : p.calls[b] \notin G => p.targets[b] \subseteq U
  PROVE  Passed(p, m, G) \subseteq U \cap ReachedIn(p, m)
<1> DEFINE next == [b \in BlocksOf(p) |-> IF p.calls[b] \in G THEN {} ELSE p.targets[b]]
           V == U \cap ReachedIn(p, m)
<1>1. /\ IsFiniteSet(BlocksOf(p)) /\ {p.start[m]} \in SUBSET BlocksOf(p)
      /\ \A b \in BlocksOf(p) : p.targets[b] \in SUBSET BlocksOf(p)
  BY DEF IsProgram
<1>2. \A b \in BlocksOf(p) : /\ next[b] \in SUBSET BlocksOf(p)
                             /\ p.calls[b] \in G => next[b] = {}
                             /\ p.calls[b] \notin G => next[b] = p.targets[b]
  BY <1>1
<1>3. Passed(p, m, G) = Spread(BlocksOf(p), {p.start[m]}, next)
  BY DEF Passed
<1> HIDE DEF next
<1>4. /\ p.start[m] \in ReachedIn(p, m)
      /\ \A b \in ReachedIn(p, m) : p.targets[b] \subseteq ReachedIn(p, m)
  BY ReachedInOK
<1>5. {p.start[m]} \subseteq V /\ \A b \in V \cap BlocksOf(p) : next[b] \subseteq V
  BY <1>2, <1>4
<1> HIDE DEF V
<1>6. Passed(p, m, G) \subseteq V
  BY <1>1, <1>2, <1>3, <1>5, SpreadLeast
<1> QED BY <1>6 DEF V

(* The same of the blocks of the method.                                   *)
LEMMA ReachedLeast ==
  ASSUME NEW p, IsProgram(p), NEW m \in Methods(p), NEW U, p.start[m] \in U,
         \A b \in U \cap ReachedIn(p, m) : p.targets[b] \subseteq U
  PROVE  ReachedIn(p, m) \subseteq U
<1> DEFINE V == U \cap ReachedIn(p, m)
<1>1. /\ IsFiniteSet(BlocksOf(p)) /\ {p.start[m]} \in SUBSET BlocksOf(p)
      /\ \A b \in BlocksOf(p) : p.targets[b] \in SUBSET BlocksOf(p)
  BY DEF IsProgram
<1>2. /\ p.start[m] \in ReachedIn(p, m)
      /\ \A b \in ReachedIn(p, m) : p.targets[b] \subseteq ReachedIn(p, m)
  BY ReachedInOK
<1>3. {p.start[m]} \subseteq V /\ \A b \in V \cap BlocksOf(p) : p.targets[b] \subseteq V
  BY <1>2
<1> HIDE DEF V
<1>4. ReachedIn(p, m) \subseteq V
  BY <1>1, <1>3, SpreadLeast DEF ReachedIn
<1> QED BY <1>4 DEF V

(* What the program has left of the methods a run can enter.               *)
LEMMA PrunedIs ==
  ASSUME NEW p, IsProgram(p), ~CalledInVain(p)
  PROVE  LET q == Pruned(p)
             blocks == UNION {ReachedIn(p, m) : m \in Entered(p)}
         IN  /\ q.kernels = p.kernels /\ Methods(q) = Entered(p) /\ BlocksOf(q) = blocks
             /\ Functions(q) = Entered(p) \cap Functions(p)
             /\ \A m \in Entered(p) : q.start[m] = p.start[m]
             /\ \A f \in Functions(q) : q.returns[f] = p.returns[f] \cap blocks
             /\ \A b \in blocks : q.calls[b] = p.calls[b] /\ q.targets[b] = p.targets[b]
<1> DEFINE methods == Methods(p) \cap (p.kernels \cup Called(p))
           blocks == UNION {ReachedIn(p, m) : m \in methods}
           q == Pruned(p)
<1>1. /\ q.kernels = p.kernels
      /\ q.start = [m \in methods |-> p.start[m]]
      /\ q.returns = [f \in methods \cap Functions(p) |-> p.returns[f] \cap blocks]
      /\ q.needs = [b \in blocks |-> p.needs[b]]
      /\ q.calls = [b \in blocks |-> p.calls[b]]
      /\ q.targets = [b \in blocks |-> p.targets[b]]
  BY DEF Pruned
<1>2. Entered(p) = methods
  BY EnteredOK
<1> HIDE DEF q, methods
<1> QED BY <1>1, <1>2 DEF Methods, BlocksOf, Functions, q

(* Every function returns that is left.                                    *)
LEMMA KeptReturn ==
  ASSUME NEW p, IsProgram(p), ~CalledInVain(p), ~Endless(p), NEW f \in Functions(Pruned(p))
  PROVE  Pruned(p).returns[f] # {}
<1> DEFINE q == Pruned(p)
<1> SUFFICES ASSUME q.returns[f] = {} PROVE FALSE
  OBVIOUS
<1>1. /\ f \in Entered(p) /\ f \in Functions(p)
      /\ p.returns[f] \cap ReachedIn(p, f) \subseteq q.returns[f]
  BY PrunedIs
<1>2. f \in Methods(p)
  BY <1>1 DEF IsProgram
<1>3. Passed(p, f, {f}) \subseteq ReachedIn(p, f)
  <2>1. /\ p.start[f] \in ReachedIn(p, f)
        /\ \A b \in ReachedIn(p, f) : p.targets[b] \subseteq ReachedIn(p, f)
    BY <1>2, ReachedInOK
  <2> QED BY <1>2, <2>1, PassedLeast
<1> HIDE DEF q
<1>4. p.returns[f] \cap Passed(p, f, {f}) = {}
  BY <1>1, <1>3
<1> QED BY <1>1, <1>4 DEF Endless

(* Every node of the graph is reached from a kernel.                       *)
LEMMA KeptReached ==
  ASSUME NEW p, IsProgram(p), OneReturn(p), ~CalledInVain(p), ~Endless(p), NEW s \in Slots
  PROVE  AllReached(GraphOf(Pruned(p), s))
<1> DEFINE q == Pruned(p)
           g == GraphOf(q, s)
           blocks == UNION {ReachedIn(p, m) : m \in Entered(p)}
<1>1. IsProgram(q) /\ OneReturn(q)
  BY PrunedOK
<1>2. /\ q.kernels = p.kernels /\ Methods(q) = Entered(p) /\ BlocksOf(q) = blocks
      /\ Functions(q) = Entered(p) \cap Functions(p)
      /\ \A m \in Entered(p) : q.start[m] = p.start[m]
      /\ \A f \in Functions(q) : q.returns[f] = p.returns[f] \cap blocks
      /\ \A b \in blocks : q.calls[b] = p.calls[b] /\ q.targets[b] = p.targets[b]
  BY PrunedIs
<1>3. \A f \in Functions(q) : q.returns[f] # {}
  BY KeptReturn
<1>4. /\ Entered(p) \subseteq Methods(p) /\ Functions(p) \subseteq Methods(p)
      /\ \A m \in Entered(p) : ReachedIn(p, m) \subseteq blocks
      /\ \A m \in Entered(p) : CalledIn(p, m) \subseteq Entered(p)
  <2>1. Functions(p) \subseteq Methods(p)
    BY DEF IsProgram
  <2>2. /\ Entered(p) \subseteq Methods(p)
        /\ \A m \in Entered(p) : CalledIn(p, m) \subseteq Entered(p)
    BY EnteredOK
  <2>3. \A m \in Entered(p) : ReachedIn(p, m) \subseteq blocks
    OBVIOUS
  <2> QED BY <2>1, <2>2, <2>3
<1> HIDE DEF q, blocks
<1>5. /\ g.nodes = BlocksOf(q) \cup Methods(q) \cup Called(q) /\ g.kernels = q.kernels
      /\ \A m \in Methods(q) : <<m, q.start[m]>> \in g.edges
      /\ \A b \in BlocksOf(q) : q.calls[b] # None => <<b, q.calls[b]>> \in g.edges
      /\ \A b \in BlocksOf(q) : \A n \in q.targets[b] :
           <<IF q.calls[b] = None THEN b ELSE ReturnNode(q, q.calls[b]), n>> \in g.edges
      /\ WellFormed(g)
  BY <1>1, GraphOK
<1> HIDE DEF g
<1> SUFFICES ASSUME NEW U \in SUBSET g.nodes, g.kernels \subseteq U,
                    \A u \in U : Successors(g, u) \subseteq U
             PROVE  U = g.nodes
  BY DEF AllReached, g, q
<1>6. ASSUME NEW x \in U, NEW y, <<x, y>> \in g.edges PROVE y \in U
  BY <1>5, <1>6 DEF Successors, WellFormed, Blocks
<1> DEFINE G == {f \in Functions(p) \cap Entered(p) : f \in U /\ ReturnNode(q, f) \notin U}
<1>7. ASSUME NEW b \in U \cap blocks, p.calls[b] # None PROVE p.calls[b] \in U
  <2>1. <<b, p.calls[b]>> \in g.edges
    BY <1>2, <1>5, <1>7
  <2> QED BY <1>6, <2>1
<1>8. ASSUME NEW b \in U \cap blocks, p.calls[b] \notin G PROVE p.targets[b] \subseteq U
  <2> SUFFICES ASSUME NEW n \in p.targets[b] PROVE n \in U
    OBVIOUS
  <2>1. /\ q.calls[b] = p.calls[b] /\ b \in BlocksOf(q)
        /\ <<IF p.calls[b] = None THEN b ELSE ReturnNode(q, p.calls[b]), n>> \in g.edges
    BY <1>2, <1>5
  <2>2. CASE p.calls[b] = None
    BY <1>6, <2>1, <2>2
  <2>3. CASE p.calls[b] # None
    <3> DEFINE h == p.calls[b]
    <3>1. h \in U
      BY <1>7, <2>3
    <3>2. h \in Called(q)
      BY <2>1, <2>3 DEF Called
    <3>3. ReturnNode(q, h) \in U
      <4>1. CASE h \in Functions(q)
        BY <1>2, <1>8, <3>1, <4>1
      <4>2. CASE h \notin Functions(q)
        <5> HIDE DEF h
        <5>1. ReturnNode(q, h) = h
          BY <1>1, <3>2, <4>2, ReturnNodeIs
        <5> QED BY <3>1, <5>1
      <4> QED BY <4>1, <4>2
    <3> QED BY <1>6, <2>1, <2>3, <3>3
  <2> QED BY <2>2, <2>3
<1>9. ASSUME NEW m \in Entered(p) \cap U PROVE p.start[m] \in U
  BY <1>2, <1>5, <1>6
<1>10. G = {}
  <2> SUFFICES ASSUME G # {} PROVE FALSE
    OBVIOUS
  <2>1. PICK f \in G : p.returns[f] \cap Passed(p, f, G) # {}
    <3>1. G \in SUBSET (Functions(p) \cap Entered(p))
      OBVIOUS
    <3> HIDE DEF G
    <3> QED BY <3>1 DEF Endless
  <2>2. /\ f \in Functions(p) /\ f \in Entered(p) /\ f \in U /\ ReturnNode(q, f) \notin U
        /\ f \in Methods(p) /\ f \in Functions(q)
    BY <1>2, <1>4
  <2> HIDE DEF G
  <2>3. \A b \in U \cap ReachedIn(p, f) : p.calls[b] \notin G => p.targets[b] \subseteq U
    BY <1>4, <1>8, <2>2
  <2>4. p.start[f] \in U
    BY <1>9, <2>2
  <2>5. Passed(p, f, G) \subseteq U \cap ReachedIn(p, f)
    BY <2>2, <2>3, <2>4, PassedLeast
  <2>6. PICK r \in p.returns[f] : r \in U /\ r \in ReachedIn(p, f)
    BY <2>1, <2>5
  <2>7. r \in q.returns[f]
    BY <1>2, <1>4, <2>2, <2>6
  <2>8. ReturnNode(q, f) = r
    BY <1>1, <2>2, <2>7 DEF ReturnNode, OneReturn
  <2> QED BY <2>2, <2>6, <2>8
<1>11. \A b \in U \cap blocks : p.targets[b] \subseteq U
  BY <1>8, <1>10
<1> HIDE DEF G
<1>12. ASSUME NEW m \in Entered(p) \cap U PROVE ReachedIn(p, m) \subseteq U
  <2>1. \A b \in U \cap ReachedIn(p, m) : p.targets[b] \subseteq U
    BY <1>4, <1>11
  <2>2. p.start[m] \in U /\ m \in Methods(p)
    BY <1>4, <1>9
  <2> QED BY <2>1, <2>2, ReachedLeast
<1>13. Entered(p) \subseteq U
  <2> DEFINE V == Entered(p) \cap U
  <2>1. p.kernels \subseteq V
    BY <1>1, <1>2, <1>5 DEF IsProgram
  <2>2. ASSUME NEW m \in V PROVE CalledIn(p, m) \subseteq V
    <3> SUFFICES ASSUME NEW f \in CalledIn(p, m) PROVE f \in U
      BY <1>4
    <3>1. PICK b \in ReachedIn(p, m) : f = p.calls[b] /\ f \in Functions(p)
      BY DEF CalledIn
    <3>2. b \in U \cap blocks
      BY <1>4, <1>12
    <3>3. p.calls[b] # None
      BY <1>4, <3>1 DEF IsProgram
    <3> QED BY <1>7, <3>1, <3>2, <3>3
  <2> HIDE DEF V
  <2>3. Entered(p) \subseteq V
    BY <2>1, <2>2, EnteredOK
  <2> QED BY <2>3 DEF V
<1>14. blocks \subseteq U
  BY <1>12, <1>13 DEF blocks
<1>15. Called(q) \subseteq U
  BY <1>2, <1>7, <1>14 DEF Called
<1> QED BY <1>2, <1>5, <1>13, <1>14, <1>15

-----------------------------------------------------------------------------
(* No program fails that is not flawed.                                    *)
LEMMA SoundOnes == ASSUME Prepares, Solved, ~Flawed PROVE ~Fails
<1> DEFINE p == Normalized(source)
<1>1. /\ ~CalledInVain(p) /\ ~Endless(p)
      /\ \A m \in Entered(p) : \A b \in ReachedIn(p, m) : p.calls[b] # None => p.targets[b] # {}
      /\ \A b \in BlocksOf(program) : ~Misleading(b)
  BY DEF Flawed
<1>2. program = Pruned(p) /\ IsProgram(p) /\ OneReturn(p)
  BY ProgramsAssumption, NormalizedOK DEF Prepares, Prepared, IsSource
<1> HIDE DEF p
<1>3. \A s \in Slots : AllReached(GraphOf(program, s))
  BY <1>1, <1>2, KeptReached
<1>4. \A f \in Functions(program) : program.returns[f] # {}
  BY <1>1, <1>2, KeptReturn
<1>5. ASSUME NEW b \in BlocksOf(program), program.calls[b] # None PROVE program.targets[b] # {}
  <2>1. /\ b \in UNION {ReachedIn(p, m) : m \in Entered(p)}
        /\ program.calls[b] = p.calls[b] /\ program.targets[b] = p.targets[b]
    BY <1>1, <1>2, PrunedIs
  <2> QED BY <1>1, <1>5, <2>1
<1> QED BY <1>1, <1>3, <1>4, <1>5, NoFailure

(* What is wrong with the source stays wrong.                              *)
FlawedSource ==
  LET p == Normalized(source) IN
  \/ PruningFails(p)
  \/ CalledInVain(p)
  \/ Endless(p)
  \/ \E m \in Entered(p) : \E b \in ReachedIn(p, m) : p.calls[b] # None /\ p.targets[b] = {}

LEMMA FlawedIs ==
  Flawed <=> FlawedSource \/ (Solved /\ \E b \in BlocksOf(program) : Misleading(b))
BY DEF Flawed, FlawedSource

LEMMA FlawedSame ==
  ASSUME UNCHANGED <<given, solution>>
  PROVE  Flawed' <=> Flawed
<1>1. source' = source /\ program' = program /\ solution' = solution
  BY DEF given
<1>2. FlawedSource' <=> FlawedSource
  BY <1>1 DEF FlawedSource
<1>3. Solved' <=> Solved
  BY <1>1 DEF Solved
<1>4. \A b : Misleading(b)' <=> Misleading(b)
  BY <1>1 DEF Misleading, Emitted, Entry
<1>5. Flawed' <=> FlawedSource' \/ (Solved' /\ \E b \in BlocksOf(program') : Misleading(b)')
  BY DEF Flawed, FlawedSource
<1> QED BY <1>1, <1>2, <1>3, <1>4, <1>5, FlawedIs

FInv == IInv /\ OnlyFlawedRefused

LEMMA FInvInit == ASSUME Init PROVE FInv
BY InitOK, ProgramsAssumption DEF Init, FInv, OnlyFlawedRefused

LEMMA FInvNext == ASSUME FInv, [Next]_vars PROVE FInv'
<1>1. IInv'
  BY NextOK DEF FInv
<1> SUFFICES ASSUME code' = Refused PROVE Flawed'
  BY <1>1 DEF FInv, OnlyFlawedRefused
<1>2. CASE Refuse
  <2>1. PruningFails(Normalized(source)) /\ UNCHANGED <<given, solution>>
    BY <1>2 DEF Refuse
  <2>2. Flawed
    BY <2>1 DEF Flawed
  <2> QED BY <2>1, <2>2, FlawedSame
<1>3. ASSUME NEW s \in Slots, Solve(s) PROVE Flawed'
  <2>1. code = Refused /\ source' = source /\ ~Solved
    BY <1>3 DEF Solve, given, Solved
  <2>2. FlawedSource
    BY <2>1, FlawedIs DEF FInv, OnlyFlawedRefused
  <2>3. FlawedSource'
    BY <2>1, <2>2 DEF FlawedSource
  <2>4. Flawed' <=> FlawedSource' \/ (Solved' /\ \E b \in BlocksOf(program') : Misleading(b)')
    BY DEF Flawed, FlawedSource
  <2> QED BY <2>3, <2>4
<1>4. CASE Emit
  <2>1. /\ Solved /\ UNCHANGED <<given, solution>>
        /\ code' = IF Fails THEN Refused ELSE [b \in BlocksOf(program) |-> EmittedBlock(b)]
    BY <1>4 DEF Emit
  <2>2. Prepares
    BY DEF FInv, IInv
  <2>3. Fails
    <3>1. Refused \notin Translations(program)
      BY <2>2 DEF Prepares
    <3>2. [b \in BlocksOf(program) |-> EmittedBlock(b)] \in Translations(program)
      BY <2>1, <2>2, TranslationType
    <3> QED BY <2>1, <3>1, <3>2
  <2>4. Flawed
    BY <2>1, <2>2, <2>3, SoundOnes
  <2> QED BY <2>1, <2>4, FlawedSame
<1>5. CASE \/ UNCHANGED vars \/ \E k \in program.kernels : Launch(k)
           \/ Execute \/ Jump \/ CallDeclared \/ Call \/ Return \/ Exit
  <2>1. UNCHANGED <<given, solution>> /\ code' = code
    BY <1>5 DEF vars, Launch, Execute, Jump, CallDeclared, Call, Return, Exit
  <2>2. Flawed
    BY <2>1 DEF FInv, OnlyFlawedRefused
  <2> QED BY <2>1, <2>2, FlawedSame
<1> QED BY <1>2, <1>3, <1>4, <1>5 DEF Next

(* Whatever the programs, the passes fail on no other than the flawed: the *)
(* errors they raise for code they take to be unreachable, a mode left     *)
(* unresolved and a prologue missing, are met only where a function is     *)
(* called in vain or does not return, a body ends in a call or does not    *)
(* open with a label, the address of a function is taken, or a block       *)
(* misleads.                                                               *)
THEOREM OnlyFlawedFail == Spec => []OnlyFlawedRefused
<1>1. Init => FInv
  BY FInvInit
<1>2. FInv /\ [Next]_vars => FInv'
  BY FInvNext
<1>3. FInv => OnlyFlawedRefused
  BY DEF FInv
<1> QED BY <1>1, <1>2, <1>3, PTL DEF Spec
=============================================================================
