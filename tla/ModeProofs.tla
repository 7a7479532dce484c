----------------------------- MODULE ModeProofs -----------------------------
(***************************************************************************)
(* Proofs about ModePropagation, for every control flow graph: what the    *)
(* loop computes is what the paths of the graph bring to each block, and   *)
(* every jump that changes the mode finds a block where it is set.         *)
(***************************************************************************)
EXTENDS ModePropagation, FiniteSetTheorems, TLAPS

(* The order in which what is known of a mode grows.                       *)
Leq(a, b) ==
  \/ b = Conflict
  \/ a # Conflict /\ a.mode \in {NoMode, b.mode} /\ a.kernels \subseteq b.kernels

LEMMA MergeType ==
  ASSUME NEW g, NEW a \in Arrival(g), NEW b \in Arrival(g)
  PROVE  MergeWith(a, b) \in Arrival(g)
BY ModesAssumption DEF MergeWith, Arrival, Value, Conflict

(* Merging gives the least upper bound.                                    *)
LEMMA MergeBound ==
  ASSUME NEW g, NEW a \in Arrival(g), NEW b \in Arrival(g)
  PROVE  Leq(a, MergeWith(a, b)) /\ Leq(b, MergeWith(a, b))
BY ModesAssumption DEF MergeWith, Arrival, Value, Conflict, Leq

LEMMA MergeLeast ==
  ASSUME NEW g, NEW a \in Arrival(g), NEW b \in Arrival(g), NEW c \in Arrival(g),
         Leq(a, c), Leq(b, c)
  PROVE  Leq(MergeWith(a, b), c)
BY ModesAssumption DEF MergeWith, Arrival, Value, Conflict, Leq

LEMMA LeqOrder ==
  ASSUME NEW g, NEW a \in Arrival(g), NEW b \in Arrival(g), NEW c \in Arrival(g)
  PROVE  /\ Leq(a, a)
         /\ Leq(a, b) /\ Leq(b, c) => Leq(a, c)
         /\ Leq(a, b) /\ Leq(b, a) => a = b
BY ModesAssumption DEF Arrival, Value, Conflict, Leq

(* When merge_with reports no change there is none.                        *)
LEMMA MergeUnchanged ==
  ASSUME NEW g, NEW a \in Arrival(g), NEW b \in Arrival(g), ~MergeChanges(a, b)
  PROVE  MergeWith(a, b) = a
BY ModesAssumption DEF MergeWith, MergeChanges, Arrival, Value, Conflict

LEMMA MergeSelf ==
  ASSUME NEW g, NEW a \in Arrival(g)
  PROVE  MergeWith(a, a) = a
BY ModesAssumption DEF MergeWith, Arrival, Value, Conflict

-----------------------------------------------------------------------------
(* Paths.                                                                  *)
LEMMA UpstreamStep ==
  ASSUME NEW g, NEW n \in g.nodes, NEW m \in Predecessors(g, n)
  PROVE  /\ m \in Upstream(g, n)
         /\ m \in Transparent(g) => Upstream(g, m) \subseteq Upstream(g, n)
<1>1. m \in Upstream(g, n)
  BY DEF Upstream, Predecessors
<1>2. ASSUME m \in Transparent(g), NEW p \in Upstream(g, m)
      PROVE  p \in Upstream(g, n)
  <2>1. SUFFICES ASSUME NEW U \in SUBSET g.nodes, Predecessors(g, n) \subseteq U,
                        \A u \in U \cap Transparent(g) : Predecessors(g, u) \subseteq U
                 PROVE  p \in U
    BY <1>2 DEF Upstream
  <2>2. Predecessors(g, m) \subseteq U
    BY <2>1, <1>2
  <2> QED BY <1>2, <2>1, <2>2 DEF Upstream
<1> QED BY <1>1, <1>2

LEMMA GraphTypes ==
  ASSUME NEW g, WellFormed(g)
  PROVE  /\ Blocks(g) \subseteq g.nodes
         /\ \A n \in Fixed(g) : g.first[n] \in Modes /\ g.last[n] \in Modes
         /\ \A n \in Transparent(g) : g.first[n] = NoMode
         /\ \A n \in g.nodes : \A m \in Successors(g, n) :
              m \in Blocks(g) /\ n \in Predecessors(g, m)
         /\ \A n \in g.nodes : n \in g.kernels \/ n \in Fixed(g) \/ n \in Transparent(g)
         /\ Fixed(g) \cap g.kernels = {} /\ Transparent(g) \cap g.kernels = {}
         /\ Fixed(g) \subseteq Blocks(g) /\ Transparent(g) \subseteq Blocks(g)
BY DEF WellFormed, Blocks, Fixed, Transparent, Successors, Predecessors

LEMMA ReachingType ==
  ASSUME NEW g, WellFormed(g), NEW n \in Blocks(g)
  PROVE  Reaching(g, n) \in Arrival(g)
<1> DEFINE up == Upstream(g, n)
           values == {g.last[m] : m \in up \cap Fixed(g)} \cup ({g.first[n]} \ {NoMode})
<1>1. values \subseteq Modes
  BY GraphTypes DEF WellFormed
<1>2. values # {} => (CHOOSE v \in values : TRUE) \in Modes
  BY <1>1
<1> HIDE DEF values
<1>3. Reaching(g, n) = IF \E v, w \in values : v # w THEN Conflict
                       ELSE Value(IF values = {} THEN NoMode ELSE CHOOSE v \in values : TRUE,
                                  up \cap g.kernels)
  BY DEF Reaching, Brought, values
<1> QED BY <1>2, <1>3 DEF Arrival, Value

(* What reaches a node includes what each predecessor passes on, of what   *)
(* reaches it.                                                             *)
LEMMA ReachingStep ==
  ASSUME NEW g, WellFormed(g), NEW known \in [Blocks(g) -> Arrival(g)],
         \A b \in Blocks(g) : Leq(known[b], Reaching(g, b)),
         NEW n \in Blocks(g), NEW m \in Predecessors(g, n)
  PROVE  Leq(ExitOf(g, known, m), Reaching(g, n))
<1> DEFINE Vs(b) == {g.last[p] : p \in Upstream(g, b) \cap Fixed(g)}
                      \cup ({g.first[b]} \ {NoMode})
           R(b) == IF \E v, w \in Vs(b) : v # w THEN Conflict
                   ELSE Value(IF Vs(b) = {} THEN NoMode ELSE CHOOSE v \in Vs(b) : TRUE,
                              Upstream(g, b) \cap g.kernels)
<1>1. \A b : Reaching(g, b) = R(b)
  BY DEF Reaching, Brought
<1>2. m \in Upstream(g, n) /\ (m \in Transparent(g) => Upstream(g, m) \subseteq Upstream(g, n))
  BY UpstreamStep, GraphTypes
<1>3. m \in g.nodes
  BY DEF Predecessors
<1>4. CASE m \in g.kernels
  <2>1. ExitOf(g, known, m) = Value(NoMode, {m})
    BY <1>4 DEF ExitOf
  <2> HIDE DEF Vs
  <2>2. m \in Upstream(g, n) \cap g.kernels
    BY <1>2, <1>4
  <2>3. R(n) = Conflict \/ R(n).kernels = Upstream(g, n) \cap g.kernels
    BY DEF Value
  <2>4. ExitOf(g, known, m) # Conflict
    BY <2>1, ModesAssumption DEF Value, Conflict
  <2> HIDE DEF R
  <2> QED BY <2>1, <2>2, <2>3, <2>4, <1>1 DEF Leq, Value
<1>5. CASE m \in Fixed(g)
  <2>1. ExitOf(g, known, m) = Value(g.last[m], {})
    BY <1>5, GraphTypes DEF ExitOf
  <2>2. g.last[m] \in Vs(n) /\ g.last[m] \in Modes
    BY <1>2, <1>5, GraphTypes
  <2> HIDE DEF Vs
  <2> QED BY <2>1, <2>2, <1>1, ModesAssumption DEF Leq, Value, Conflict
<1>6. CASE m \in Transparent(g)
  <2>1. ExitOf(g, known, m) = known[m]
    BY <1>6, GraphTypes DEF ExitOf, Transparent
  <2>2. m \in Blocks(g) /\ g.first[m] = NoMode
    BY <1>6, GraphTypes
  <2>3. Vs(m) \subseteq Vs(n)
    BY <1>2, <1>6, <2>2
  <2>4. Upstream(g, m) \cap g.kernels \subseteq Upstream(g, n) \cap g.kernels
    BY <1>2, <1>6
  <2>5. Vs(m) \subseteq Modes /\ Vs(n) \subseteq Modes
    BY <2>2, GraphTypes DEF WellFormed
  <2>6. Leq(R(m), R(n))
    <3> HIDE DEF Vs
    <3>1. CASE \E v, w \in Vs(n) : v # w
      BY <3>1 DEF Leq
    <3>2. CASE ~(\E v, w \in Vs(n) : v # w)
      <4>1. ~(\E v, w \in Vs(m) : v # w)
        BY <3>2, <2>3
      <4>2. Vs(m) # {} => (CHOOSE v \in Vs(m) : TRUE) \in Vs(m)
                          /\ (CHOOSE v \in Vs(n) : TRUE) \in Vs(n) /\ Vs(n) # {}
        BY <2>3
      <4>3. Vs(m) # {} => (CHOOSE v \in Vs(m) : TRUE) = (CHOOSE v \in Vs(n) : TRUE)
        BY <4>2, <2>3, <3>2
      <4> QED BY <4>1, <4>2, <4>3, <3>2, <2>4, <2>5, ModesAssumption DEF Leq, Value, Conflict
    <3> QED BY <3>1, <3>2
  <2> HIDE DEF R
  <2>7. Leq(known[m], R(m))
    BY <2>2, <1>1
  <2>8. known[m] \in Arrival(g) /\ R(m) \in Arrival(g) /\ R(n) \in Arrival(g)
    BY <2>2, <1>1, ReachingType
  <2> QED BY <2>1, <2>6, <2>7, <2>8, <1>1, LeqOrder
<1> QED BY <1>3, <1>4, <1>5, <1>6, GraphTypes

-----------------------------------------------------------------------------
(* The invariant of the loop.                                              *)

(* Nothing is recorded that no path brings.                                *)
Sound == \A n \in Blocks(cfg) : Leq(arrived[n], Reaching(cfg, n))

(* What a block asks for is part of what is recorded.                      *)
Own == \A n \in Blocks(cfg) : Leq(Value(cfg.first[n], {}), arrived[n])

(* A node not on the list has passed on all it has.                        *)
Closed ==
  \A m \in cfg.nodes : \A n \in Successors(cfg, m) :
    roots[m] > 0 \/ Leq(ExitOf(cfg, arrived, m), arrived[n])

(* The kernels get their modes at the end.                                 *)
ChosenLast == chosen # NotChosen => Propagated /\ chosen \in KernelModes(cfg, arrived)

IInv == cfg \in Graphs /\ TypeOK /\ Sound /\ Own /\ Closed /\ ChosenLast

LEMMA ExitType ==
  ASSUME NEW g, WellFormed(g), NEW arr \in [Blocks(g) -> Arrival(g)], NEW n \in g.nodes
  PROVE  ExitOf(g, arr, n) \in Arrival(g)
<1>1. CASE n \in g.kernels
  BY <1>1 DEF ExitOf, Arrival, Value
<1>2. CASE n \in Fixed(g)
  BY <1>2, GraphTypes DEF ExitOf, Arrival, Value
<1>3. CASE n \in Transparent(g)
  BY <1>3, GraphTypes DEF ExitOf, Transparent
<1> QED BY <1>1, <1>2, <1>3, GraphTypes

LEMMA StartOK ==
  ASSUME NEW g, WellFormed(g), NEW n \in Blocks(g)
  PROVE  /\ Value(g.first[n], {}) \in Arrival(g)
         /\ Leq(Value(g.first[n], {}), Reaching(g, n))
<1> DEFINE values == {g.last[m] : m \in Upstream(g, n) \cap Fixed(g)}
                       \cup ({g.first[n]} \ {NoMode})
<1>1. g.first[n] \in Modes \cup {NoMode}
  BY DEF WellFormed
<1>2. Value(g.first[n], {}) \in Arrival(g) /\ Value(g.first[n], {}) # Conflict
  BY <1>1, ModesAssumption DEF Arrival, Value, Conflict
<1>3. g.first[n] # NoMode => g.first[n] \in values
  OBVIOUS
<1> HIDE DEF values
<1>4. Reaching(g, n) = IF \E v, w \in values : v # w THEN Conflict
                       ELSE Value(IF values = {} THEN NoMode ELSE CHOOSE v \in values : TRUE,
                                  Upstream(g, n) \cap g.kernels)
  BY DEF Reaching, Brought, values
<1>5. CASE g.first[n] = NoMode
  BY <1>2, <1>4, <1>5 DEF Leq, Value
<1>6. CASE g.first[n] # NoMode
  <2>1. (CHOOSE v \in values : TRUE) \in values
    BY <1>3, <1>6
  <2> QED BY <1>2, <1>3, <1>4, <1>6, <2>1 DEF Leq, Value
<1> QED BY <1>2, <1>5, <1>6

LEMMA InitOK == Init => IInv
<1> SUFFICES ASSUME Init PROVE IInv
  OBVIOUS
<1>1. cfg \in Graphs /\ WellFormed(cfg)
  BY GraphsAssumption DEF Init
<1>2. TypeOK
  BY <1>1, StartOK DEF Init, TypeOK
<1>3. Sound
  BY <1>1, StartOK DEF Init, Sound
<1>4. Own
  BY <1>1, StartOK, LeqOrder DEF Init, Own
<1>5. ASSUME NEW m \in cfg.nodes, NEW n \in Successors(cfg, m), ~(roots[m] > 0)
      PROVE  Leq(ExitOf(cfg, arrived, m), arrived[n])
  <2>1. m \in Transparent(cfg)
    BY <1>5 DEF Init
  <2>2. ExitOf(cfg, arrived, m) = Value(NoMode, {})
    BY <2>1, <1>1, GraphTypes DEF ExitOf, Init, Transparent
  <2>3. Value(NoMode, {}) # Conflict
    BY ModesAssumption DEF Value, Conflict
  <2> QED BY <2>2, <2>3 DEF Leq, Value
<1>6. Closed
  BY <1>5 DEF Closed
<1>7. ChosenLast
  BY DEF Init, ChosenLast
<1> QED BY <1>1, <1>2, <1>3, <1>4, <1>6, <1>7 DEF IInv

(* A merge keeps what was there and adds what the visited node passes on.  *)
LEMMA VisitMerges ==
  ASSUME IInv, NEW n \in cfg.nodes, Visit(n), NEW m \in Blocks(cfg)
  PROVE  /\ arrived'[m] \in Arrival(cfg)
         /\ Leq(arrived[m], arrived'[m])
         /\ m \in Successors(cfg, n) =>
              /\ arrived'[m] = MergeWith(arrived[m], ExitOf(cfg, arrived, n))
              /\ Leq(ExitOf(cfg, arrived, n), arrived'[m])
         /\ m \notin Successors(cfg, n) => arrived'[m] = arrived[m]
<1>1. WellFormed(cfg) /\ arrived \in [Blocks(cfg) -> Arrival(cfg)]
  BY DEF IInv, TypeOK
<1>2. ExitOf(cfg, arrived, n) \in Arrival(cfg) /\ arrived[m] \in Arrival(cfg)
  BY <1>1, ExitType
<1>3. arrived'[m] = IF m \in Successors(cfg, n)
                    THEN MergeWith(arrived[m], ExitOf(cfg, arrived, n)) ELSE arrived[m]
  BY DEF Visit
<1> QED BY <1>2, <1>3, MergeType, MergeBound, LeqOrder

LEMMA VisitOK == ASSUME IInv, NEW n \in cfg.nodes, Visit(n) PROVE IInv'
<1>1. WellFormed(cfg) /\ arrived \in [Blocks(cfg) -> Arrival(cfg)] /\ roots \in [cfg.nodes -> Nat]
  BY DEF IInv, TypeOK
<1>2. cfg' = cfg /\ chosen' = chosen /\ cfg' \in Graphs
  BY DEF Visit, IInv
<1>3. TypeOK'
  <2>1. arrived' \in [Blocks(cfg) -> Arrival(cfg)]
    BY VisitMerges DEF Visit
  <2>2. roots' \in [cfg.nodes -> Nat]
    BY <1>1 DEF Visit
  <2> QED BY <2>1, <2>2, <1>1, <1>2 DEF TypeOK, IInv
<1>4. Sound'
  <2>1. ASSUME NEW m \in Blocks(cfg) PROVE Leq(arrived'[m], Reaching(cfg, m))
    <3>1. Leq(arrived[m], Reaching(cfg, m)) /\ Reaching(cfg, m) \in Arrival(cfg)
          /\ arrived[m] \in Arrival(cfg) /\ ExitOf(cfg, arrived, n) \in Arrival(cfg)
      BY <1>1, ReachingType, ExitType DEF IInv, Sound
    <3>2. CASE m \in Successors(cfg, n)
      <4>1. n \in Predecessors(cfg, m)
        BY <3>2, <1>1, GraphTypes
      <4>2. Leq(ExitOf(cfg, arrived, n), Reaching(cfg, m))
        BY <4>1, <1>1, ReachingStep DEF IInv, Sound
      <4> QED BY <4>2, <3>1, <3>2, VisitMerges, MergeLeast
    <3>3. CASE m \notin Successors(cfg, n)
      BY <3>1, <3>3, VisitMerges
    <3> QED BY <3>2, <3>3
  <2> QED BY <2>1, <1>2 DEF Sound
<1>5. Own'
  <2>1. ASSUME NEW m \in Blocks(cfg) PROVE Leq(Value(cfg.first[m], {}), arrived'[m])
    <3>1. Leq(Value(cfg.first[m], {}), arrived[m])
      BY DEF IInv, Own
    <3> QED BY <3>1, <1>1, VisitMerges, StartOK, LeqOrder
  <2> QED BY <2>1, <1>2 DEF Own
<1>6. Closed'
  <2>1. ASSUME NEW p \in cfg.nodes, NEW q \in Successors(cfg, p), ~(roots'[p] > 0)
        PROVE  Leq(ExitOf(cfg, arrived', p), arrived'[q])
    <3>1. q \in Blocks(cfg)
      BY <1>1, GraphTypes
    <3>2. p \in Transparent(cfg) => arrived'[p] = arrived[p]
      <4>1. CASE p # n /\ p \in Successors(cfg, n)
        <5>1. p \notin Requeued(n)
          BY <4>1, <2>1, <1>1 DEF Visit
        <5>2. SUFFICES ASSUME p \in Transparent(cfg) PROVE arrived'[p] = arrived[p]
          OBVIOUS
        <5>3. ~MergeChanges(arrived[p], ExitOf(cfg, arrived, n)) /\ p \in Blocks(cfg)
          BY <5>1, <5>2, <4>1, <1>1, GraphTypes DEF Requeued
        <5> QED BY <5>3, <4>1, <1>1, VisitMerges, ExitType, MergeUnchanged
      <4>2. CASE p = n /\ p \in Successors(cfg, n)
        <5>1. SUFFICES ASSUME p \in Transparent(cfg) PROVE arrived'[p] = arrived[p]
          OBVIOUS
        <5>2. p \in Blocks(cfg) /\ ExitOf(cfg, arrived, n) = arrived[p]
          BY <5>1, <4>2, <1>1, GraphTypes DEF ExitOf, Transparent
        <5> QED BY <5>2, <4>2, <1>1, VisitMerges, MergeSelf
      <4>3. CASE p \notin Successors(cfg, n)
        BY <4>3, <1>1, VisitMerges, GraphTypes
      <4> QED BY <4>1, <4>2, <4>3
    <3>3. ExitOf(cfg, arrived', p) = ExitOf(cfg, arrived, p)
      BY <3>2, <1>1, GraphTypes DEF ExitOf
    <3>4. ExitOf(cfg, arrived, p) \in Arrival(cfg) /\ arrived[q] \in Arrival(cfg)
      BY <1>1, <3>1, ExitType
    <3>5. CASE p = n
      BY <3>1, <3>3, <3>5, VisitMerges
    <3>6. CASE p # n
      <4>1. ~(roots[p] > 0)
        BY <3>6, <2>1, <1>1 DEF Visit
      <4>2. Leq(ExitOf(cfg, arrived, p), arrived[q])
        BY <4>1 DEF IInv, Closed
      <4> QED BY <4>2, <3>1, <3>3, <3>4, VisitMerges, LeqOrder
    <3> QED BY <3>5, <3>6
  <2> QED BY <2>1, <1>2 DEF Closed
<1>7. ChosenLast'
  BY <1>1, <1>2 DEF IInv, ChosenLast, Propagated, Visit
<1> QED BY <1>2, <1>3, <1>4, <1>5, <1>6, <1>7 DEF IInv

(* A block whose entry is no conflict is recorded with the mode it asks    *)
(* for.                                                                    *)
LEMMA FixedMode ==
  ASSUME IInv, NEW n \in Fixed(cfg), arrived[n] # Conflict
  PROVE  arrived[n].mode = cfg.first[n] /\ cfg.first[n] \in Modes
<1>1. WellFormed(cfg)
  BY DEF IInv, TypeOK
<1>2. n \in Blocks(cfg) /\ cfg.first[n] \in Modes
  BY <1>1, GraphTypes
<1>3. Leq(Value(cfg.first[n], {}), arrived[n])
  BY <1>2 DEF IInv, Own
<1> QED BY <1>2, <1>3, ModesAssumption DEF Leq, Value

LEMMA KernelModesType ==
  ASSUME IInv, NEW modes \in KernelModes(cfg, arrived)
  PROVE  modes \in [cfg.kernels -> Modes]
<1>1. ASSUME NEW k \in cfg.kernels PROVE Asked(cfg, arrived, k) \subseteq Modes
  BY FixedMode DEF Asked, MaybeInsert
<1>2. CASE QuickMode(cfg, arrived)
  <2>1. modes = QuickModes(cfg, arrived)
    BY <1>2 DEF KernelModes
  <2>2. ASSUME NEW k \in cfg.kernels
        PROVE  (IF Asked(cfg, arrived, k) = {} THEN Default
                ELSE CHOOSE v \in Asked(cfg, arrived, k) : TRUE) \in Modes
    <3>1. CASE Asked(cfg, arrived, k) = {}
      BY <3>1, ModesAssumption
    <3>2. CASE Asked(cfg, arrived, k) # {}
      BY <3>2, <1>1
    <3> QED BY <3>1, <3>2
  <2> QED BY <2>1, <2>2 DEF QuickModes
<1>3. CASE ~QuickMode(cfg, arrived)
  BY <1>3 DEF KernelModes, SlowModes
<1> QED BY <1>2, <1>3

LEMMA ChooseOK == IInv /\ Choose => IInv'
<1> SUFFICES ASSUME IInv, Choose PROVE IInv'
  OBVIOUS
<1>1. cfg' = cfg /\ arrived' = arrived /\ roots' = roots /\ chosen' \in KernelModes(cfg, arrived)
  BY DEF Choose
<1>2. TypeOK'
  BY <1>1, KernelModesType DEF IInv, TypeOK
<1>3. Sound' /\ Own' /\ Closed'
  BY <1>1 DEF IInv, Sound, Own, Closed
<1>4. ChosenLast'
  BY <1>1 DEF ChosenLast, Propagated, Choose
<1> QED BY <1>1, <1>2, <1>3, <1>4 DEF IInv

LEMMA NextOK == IInv /\ [Next]_vars => IInv'
<1> SUFFICES ASSUME IInv, [Next]_vars PROVE IInv'
  OBVIOUS
<1>1. ASSUME NEW n \in cfg.nodes, Visit(n) PROVE IInv'
  BY <1>1, VisitOK
<1>2. CASE Choose
  BY <1>2, ChooseOK
<1>3. CASE UNCHANGED vars
  BY <1>3 DEF vars, IInv, TypeOK, Sound, Own, Closed, ChosenLast, Propagated
<1> QED BY <1>1, <1>2, <1>3 DEF Next

THEOREM Invariant == Spec => []IInv
<1>1. Init => IInv
  BY InitOK
<1>2. IInv /\ [Next]_vars => IInv'
  BY NextOK
<1> QED BY <1>1, <1>2, PTL DEF Spec

(* For every graph the state of the pass has its type.                     *)
THEOREM TypeCorrect == Spec => []TypeOK
<1>1. IInv => TypeOK
  BY DEF IInv
<1> QED BY <1>1, Invariant, PTL

-----------------------------------------------------------------------------
(* At the end what is recorded is what the paths bring, for every graph    *)
(* and every order of the visits.                                          *)
LEMMA ReachingRecorded ==
  ASSUME IInv, Propagated, NEW n \in Blocks(cfg)
  PROVE  Leq(Reaching(cfg, n), arrived[n])
<1> DEFINE U == {m \in cfg.nodes : Leq(ExitOf(cfg, arrived, m), arrived[n])}
           values == {cfg.last[m] : m \in Upstream(cfg, n) \cap Fixed(cfg)}
                       \cup ({cfg.first[n]} \ {NoMode})
<1>1. WellFormed(cfg) /\ arrived \in [Blocks(cfg) -> Arrival(cfg)]
  BY DEF IInv, TypeOK
<1>2. \A m \in cfg.nodes : \A p \in Successors(cfg, m) :
        Leq(ExitOf(cfg, arrived, m), arrived[p])
  BY <1>1 DEF IInv, Closed, Propagated
<1>3. Predecessors(cfg, n) \subseteq U
  BY <1>2 DEF Predecessors, Successors, Blocks
<1>4. ASSUME NEW u \in U \cap Transparent(cfg), NEW p \in Predecessors(cfg, u)
      PROVE  p \in U
  <2>1. u \in Blocks(cfg) /\ ExitOf(cfg, arrived, u) = arrived[u]
    BY <1>1, GraphTypes DEF ExitOf, Transparent
  <2>2. p \in cfg.nodes /\ Leq(ExitOf(cfg, arrived, p), arrived[u])
    BY <1>2, <2>1 DEF Predecessors, Successors, Blocks
  <2>3. ExitOf(cfg, arrived, p) \in Arrival(cfg)
    BY <1>1, <2>2, ExitType
  <2> QED BY <1>1, <2>1, <2>2, <2>3, LeqOrder
<1>5. Upstream(cfg, n) \subseteq U
  <2>1. U \in SUBSET cfg.nodes
    OBVIOUS
  <2> HIDE DEF U
  <2> QED BY <1>3, <1>4, <2>1 DEF Upstream
<1>6. CASE arrived[n] = Conflict
  BY <1>6 DEF Leq
<1>7. CASE arrived[n] # Conflict
  <2>1. ASSUME NEW m \in Upstream(cfg, n) \cap Fixed(cfg) PROVE cfg.last[m] = arrived[n].mode
    <3>1. ExitOf(cfg, arrived, m) = Value(cfg.last[m], {}) /\ cfg.last[m] \in Modes
      BY <1>1, GraphTypes DEF ExitOf
    <3>2. Leq(ExitOf(cfg, arrived, m), arrived[n])
      BY <1>5
    <3> QED BY <3>1, <3>2, <1>7, ModesAssumption DEF Leq, Value
  <2>2. cfg.first[n] # NoMode => cfg.first[n] = arrived[n].mode
    BY <1>7, FixedMode DEF Fixed
  <2>3. \A v \in values : v = arrived[n].mode
    BY <2>1, <2>2
  <2>4. Upstream(cfg, n) \cap cfg.kernels \subseteq arrived[n].kernels
    <3>1. ASSUME NEW k \in Upstream(cfg, n) \cap cfg.kernels PROVE k \in arrived[n].kernels
      <4>1. Leq(Value(NoMode, {k}), arrived[n])
        BY <1>5 DEF ExitOf
      <4> QED BY <4>1, <1>7, ModesAssumption DEF Leq, Value
    <3> QED BY <3>1
  <2>5. values # {} => (CHOOSE v \in values : TRUE) = arrived[n].mode
    BY <2>3
  <2> HIDE DEF values
  <2>6. Reaching(cfg, n) = IF \E v, w \in values : v # w THEN Conflict
                           ELSE Value(IF values = {} THEN NoMode ELSE CHOOSE v \in values : TRUE,
                                      Upstream(cfg, n) \cap cfg.kernels)
    BY DEF Reaching, Brought, values
  <2>7. Reaching(cfg, n) = Value(IF values = {} THEN NoMode ELSE arrived[n].mode,
                                 Upstream(cfg, n) \cap cfg.kernels)
    BY <2>3, <2>5, <2>6
  <2>8. arrived[n] \in Arrival(cfg)
    BY <1>1
  <2>9. arrived[n].mode \in Modes \cup {NoMode}
    BY <2>8, <1>7 DEF Arrival
  <2> QED BY <2>4, <2>7, <2>9, ModesAssumption DEF Leq, Value, Conflict
<1> QED BY <1>6, <1>7

THEOREM PropagationExact == Spec => []Exact
<1>1. ASSUME IInv PROVE Exact
  <2>1. ASSUME Propagated, NEW n \in Blocks(cfg) PROVE arrived[n] = Reaching(cfg, n)
    <3>1. arrived[n] \in Arrival(cfg) /\ Reaching(cfg, n) \in Arrival(cfg)
      BY <1>1, ReachingType DEF IInv, TypeOK
    <3>2. Leq(arrived[n], Reaching(cfg, n))
      BY <1>1 DEF IInv, Sound
    <3>3. Leq(Reaching(cfg, n), arrived[n])
      BY <1>1, <2>1, ReachingRecorded
    <3> QED BY <3>1, <3>2, <3>3, LeqOrder
  <2> QED BY <2>1 DEF Exact
<1> QED BY <1>1, Invariant, PTL

-----------------------------------------------------------------------------
(* With modes chosen for the kernels.                                      *)
All(n) == {chosen[k] : k \in arrived[n].kernels} \cup ({arrived[n].mode} \ {NoMode})

LEMMA ResolveTransparent ==
  ASSUME IInv, NEW n \in Transparent(cfg)
  PROVE  Resolve(cfg, arrived, chosen, n)
           = IF arrived[n] = Conflict THEN Clash
             ELSE IF All(n) = {} THEN NoMode
             ELSE IF \E v, w \in All(n) : v # w THEN Clash
             ELSE CHOOSE v \in All(n) : TRUE
<1>1. WellFormed(cfg)
  BY DEF IInv, TypeOK
<1> QED BY <1>1, GraphTypes DEF Resolve, ResolveFast, All, Transparent

(* What comes from transparent blocks is a mode of a kernel or of a block. *)
LEMMA AllType ==
  ASSUME IInv, chosen # NotChosen, NEW n \in Blocks(cfg), arrived[n] # Conflict
  PROVE  All(n) \subseteq Modes
<1>1. arrived[n] \in [mode : Modes \cup {NoMode}, kernels : SUBSET cfg.kernels]
  BY DEF IInv, TypeOK, Arrival
<1>2. chosen \in [cfg.kernels -> Modes]
  BY DEF IInv, TypeOK
<1> QED BY <1>1, <1>2 DEF All

(* In a graph all of whose nodes are reached from kernels something        *)
(* arrives at each.                                                        *)
LEMMA SomethingArrives ==
  ASSUME IInv, Propagated, AllReached(cfg), NEW n \in Transparent(cfg)
  PROVE  arrived[n] # Value(NoMode, {})
<1> DEFINE U == {m \in cfg.nodes : m \in Transparent(cfg) => arrived[m] # Value(NoMode, {})}
<1>1. WellFormed(cfg) /\ arrived \in [Blocks(cfg) -> Arrival(cfg)]
  BY DEF IInv, TypeOK
<1>2. cfg.kernels \subseteq U
  BY <1>1, GraphTypes DEF WellFormed
<1>3. ASSUME NEW u \in U, NEW m \in Successors(cfg, u) PROVE m \in U
  <2>1. m \in Blocks(cfg) /\ m \in cfg.nodes
    BY <1>1, GraphTypes
  <2>2. Leq(ExitOf(cfg, arrived, u), arrived[m])
    BY <1>1 DEF IInv, Closed, Propagated
  <2>3. ExitOf(cfg, arrived, u) # Value(NoMode, {}) /\ ExitOf(cfg, arrived, u) \in Arrival(cfg)
    <3>1. CASE u \in cfg.kernels
      BY <3>1, <1>1, ExitType DEF ExitOf, Value
    <3>2. CASE u \in Fixed(cfg)
      BY <3>2, <1>1, GraphTypes, ExitType, ModesAssumption DEF ExitOf, Value
    <3>3. CASE u \in Transparent(cfg)
      BY <3>3, <1>1, GraphTypes, ExitType DEF ExitOf, Transparent
    <3> QED BY <3>1, <3>2, <3>3, <1>1, GraphTypes
  <2>4. arrived[m] # Value(NoMode, {})
    BY <2>2, <2>3, ModesAssumption DEF Leq, Value, Conflict, Arrival
  <2> QED BY <2>1, <2>4
<1>4. U = cfg.nodes
  <2>1. U \in SUBSET cfg.nodes /\ \A u \in U : Successors(cfg, u) \subseteq U
    BY <1>3
  <2> HIDE DEF U
  <2> QED BY <1>2, <2>1 DEF AllReached
<1>5. n \in cfg.nodes
  BY <1>1, GraphTypes
<1> QED BY <1>4, <1>5

LEMMA ResolveTransparentValue ==
  ASSUME IInv, chosen # NotChosen, AllReached(cfg), NEW n \in Transparent(cfg)
  PROVE  \/ Resolve(cfg, arrived, chosen, n) = Clash
         \/ /\ Resolve(cfg, arrived, chosen, n) \in Modes
            /\ arrived[n] # Conflict
            /\ All(n) = {Resolve(cfg, arrived, chosen, n)}
<1>1. WellFormed(cfg) /\ Propagated
  BY DEF IInv, TypeOK, ChosenLast
<1>2. n \in Blocks(cfg) /\ arrived[n] # Value(NoMode, {})
  BY <1>1, GraphTypes, SomethingArrives
<1>3. CASE arrived[n] = Conflict
  BY <1>3, ResolveTransparent
<1>4. CASE arrived[n] # Conflict
  <2>1. arrived[n] \in [mode : Modes \cup {NoMode}, kernels : SUBSET cfg.kernels]
    BY <1>2, <1>4 DEF IInv, TypeOK, Arrival
  <2>2. All(n) # {}
    <3>1. CASE arrived[n].kernels # {}
      BY <3>1 DEF All
    <3>2. CASE arrived[n].mode # NoMode
      BY <3>2 DEF All
    <3> QED BY <3>1, <3>2, <2>1, <1>2 DEF Value
  <2>3. All(n) \subseteq Modes
    BY <1>2, <1>4, AllType
  <2>4. (CHOOSE v \in All(n) : TRUE) \in All(n)
    BY <2>2
  <2> QED BY <1>4, <2>2, <2>3, <2>4, ResolveTransparent
<1> QED BY <1>3, <1>4

(* The errors of an unresolved mode are never returned.                    *)
THEOREM EveryBlockResolved == Spec => []Resolved
<1>1. ASSUME IInv PROVE Resolved
  <2>1. ASSUME chosen # NotChosen, AllReached(cfg), NEW n \in cfg.nodes
        PROVE  Resolve(cfg, arrived, chosen, n) # NoMode
    <3>1. WellFormed(cfg) /\ chosen \in [cfg.kernels -> Modes]
      BY <1>1, <2>1 DEF IInv, TypeOK
    <3>2. CASE n \in cfg.kernels
      BY <3>1, <3>2, ModesAssumption DEF Resolve
    <3>3. CASE n \in Fixed(cfg)
      BY <3>1, <3>3, GraphTypes, ModesAssumption DEF Resolve, ResolveFast
    <3>4. CASE n \in Transparent(cfg)
      BY <1>1, <2>1, <3>4, ResolveTransparentValue, ModesAssumption
    <3> QED BY <3>1, <3>2, <3>3, <3>4, GraphTypes
  <2> QED BY <2>1 DEF Resolved
<1> QED BY <1>1, Invariant, PTL

(* A kernel that reaches a block with another mode than the block asks for *)
(* makes the block one of those where the mode is set.                     *)
LEMMA KernelDisagrees ==
  ASSUME IInv, chosen # NotChosen, NEW n \in Fixed(cfg), NEW k \in cfg.kernels,
         arrived[n] # Conflict, k \in arrived[n].kernels, chosen[k] # cfg.first[n]
  PROVE  n \in Inserted(cfg, arrived, chosen)
<1>1. chosen \in KernelModes(cfg, arrived)
  BY DEF IInv, ChosenLast
<1>2. n \in MaybeInsert(cfg, arrived)
  BY DEF MaybeInsert
<1>3. arrived[n].mode = cfg.first[n]
  BY FixedMode
<1>4. n \notin Satisfied(cfg, arrived, chosen)
  BY <1>3 DEF Satisfied
<1>5. ~QuickMode(cfg, arrived)
  <2>1. SUFFICES ASSUME QuickMode(cfg, arrived) PROVE FALSE
    OBVIOUS
  <2>2. chosen[k] = IF Asked(cfg, arrived, k) = {} THEN Default
                    ELSE CHOOSE v \in Asked(cfg, arrived, k) : TRUE
    BY <1>1, <2>1 DEF KernelModes, QuickModes
  <2>3. arrived[n].mode \in Asked(cfg, arrived, k)
    BY <1>2 DEF Asked
  <2>4. (CHOOSE v \in Asked(cfg, arrived, k) : TRUE) \in Asked(cfg, arrived, k)
    BY <2>3
  <2>5. chosen[k] = arrived[n].mode
    BY <2>1, <2>2, <2>3, <2>4 DEF QuickMode
  <2> QED BY <2>5, <1>3
<1> QED BY <1>2, <1>4, <1>5 DEF Inserted

(* No jump needs a prologue that was not made.                             *)
THEOREM EveryJumpCovered == Spec => []JumpsCovered
<1>1. ASSUME IInv, chosen # NotChosen, AllReached(cfg),
             NEW m \in cfg.nodes, NEW n \in Successors(cfg, m),
             ModeChange(Leaves(cfg, arrived, chosen, m), Resolve(cfg, arrived, chosen, n)),
             n \notin Inserted(cfg, arrived, chosen)
      PROVE  FALSE
  <2> DEFINE R == Resolve(cfg, arrived, chosen, n)
             L == Leaves(cfg, arrived, chosen, m)
  <2>1. WellFormed(cfg) /\ Propagated /\ arrived \in [Blocks(cfg) -> Arrival(cfg)]
        /\ chosen \in [cfg.kernels -> Modes]
    BY <1>1 DEF IInv, TypeOK, ChosenLast
  <2>2. n \in Blocks(cfg) /\ n \notin cfg.kernels
    BY <2>1, GraphTypes DEF Blocks
  <2>3. Leq(ExitOf(cfg, arrived, m), arrived[n])
    BY <1>1, <2>1 DEF IInv, Closed, Propagated
  <2>4. R # Clash /\ L # R
    BY <1>1 DEF ModeChange
  <2>5. arrived[n] # Conflict
    <3>1. CASE n \in Fixed(cfg)
      BY <1>1, <3>1 DEF Inserted, MustInsert
    <3>2. CASE n \in Transparent(cfg)
      BY <1>1, <2>4, <3>2, ResolveTransparent
    <3> QED BY <2>1, <2>2, <3>1, <3>2, GraphTypes
  <2>6. CASE m \in cfg.kernels
    <3>1. L = chosen[m] /\ L \in Modes
      BY <2>1, <2>6, GraphTypes DEF Leaves, Resolve, ResolveFast
    <3>2. m \in arrived[n].kernels
      BY <2>3, <2>5, <2>6, ModesAssumption DEF ExitOf, Leq, Value
    <3>3. CASE n \in Fixed(cfg)
      <4>1. R = cfg.first[n]
        BY <2>2, <3>3 DEF Resolve
      <4> QED BY <1>1, <2>4, <2>5, <2>6, <3>1, <3>2, <3>3, <4>1, KernelDisagrees
    <3>4. CASE n \in Transparent(cfg)
      <4>1. All(n) = {R}
        BY <1>1, <2>4, <3>4, ResolveTransparentValue
      <4>2. L \in All(n)
        BY <3>1, <3>2 DEF All
      <4> QED BY <2>4, <4>1, <4>2
    <3> QED BY <2>1, <2>2, <3>3, <3>4, GraphTypes
  <2>7. CASE m \in Fixed(cfg)
    <3>1. L = cfg.last[m] /\ L \in Modes
      BY <2>1, <2>7, GraphTypes DEF Leaves
    <3>2. arrived[n].mode = L
      <4>1. ExitOf(cfg, arrived, m) = Value(cfg.last[m], {})
        BY <2>1, <2>7, GraphTypes DEF ExitOf
      <4> QED BY <2>3, <2>5, <3>1, <4>1, ModesAssumption DEF Leq, Value
    <3>3. CASE n \in Fixed(cfg)
      BY <1>1, <2>2, <2>4, <2>5, <3>2, <3>3, FixedMode DEF Resolve, ResolveFast
    <3>4. CASE n \in Transparent(cfg)
      <4>1. All(n) = {R}
        BY <1>1, <2>4, <3>4, ResolveTransparentValue
      <4>2. L \in All(n)
        BY <3>1, <3>2, ModesAssumption DEF All
      <4> QED BY <2>4, <4>1, <4>2
    <3> QED BY <2>1, <2>2, <3>3, <3>4, GraphTypes
  <2>8. CASE m \in Transparent(cfg)
    <3>1. m \in Blocks(cfg) /\ m \notin Fixed(cfg) /\ ExitOf(cfg, arrived, m) = arrived[m]
          /\ L = Resolve(cfg, arrived, chosen, m)
      BY <2>1, <2>8, GraphTypes DEF ExitOf, Leaves, Transparent
    <3>2. arrived[m] # Conflict /\ arrived[m].kernels \subseteq arrived[n].kernels
          /\ arrived[m].mode \in {NoMode, arrived[n].mode}
      BY <2>3, <2>5, <3>1 DEF Leq
    <3>3. All(m) \subseteq All(n)
      BY <3>2 DEF All
    <3>4. All(m) \subseteq Modes
      BY <1>1, <3>1, <3>2, AllType
    <3>5. \E v \in All(m) : v # R
      <4>1. All(m) # {}
        <5>1. Resolve(cfg, arrived, chosen, m) # NoMode
          BY <1>1, <2>8, ResolveTransparentValue, ModesAssumption
        <5> QED BY <1>1, <2>8, <3>2, <5>1, ResolveTransparent
      <4>2. CASE \E v, w \in All(m) : v # w
        BY <4>2
      <4>3. CASE ~(\E v, w \in All(m) : v # w)
        <5>1. L = CHOOSE v \in All(m) : TRUE
          BY <1>1, <2>8, <3>1, <3>2, <4>1, <4>3, ResolveTransparent
        <5>2. L \in All(m)
          BY <5>1, <4>1
        <5> QED BY <5>2, <2>4
      <4> QED BY <4>2, <4>3
    <3>6. CASE n \in Transparent(cfg)
      <4>1. All(n) = {R}
        BY <1>1, <2>4, <3>6, ResolveTransparentValue
      <4> QED BY <3>3, <3>5, <4>1
    <3>7. CASE n \in Fixed(cfg)
      <4>1. R = cfg.first[n] /\ arrived[n].mode = R
        BY <1>1, <2>2, <2>5, <3>7, FixedMode DEF Resolve, ResolveFast
      <4>2. \E k \in arrived[m].kernels : chosen[k] # R
        BY <3>2, <3>5, <4>1 DEF All
      <4>3. PICK k \in arrived[n].kernels : chosen[k] # R
        BY <3>2, <4>2
      <4>4. k \in cfg.kernels
        BY <2>1, <2>2, <2>5, <4>3 DEF Arrival
      <4> QED BY <1>1, <2>5, <3>7, <4>1, <4>3, <4>4, KernelDisagrees
    <3> QED BY <2>1, <2>2, <3>6, <3>7, GraphTypes
  <2> QED BY <2>1, <2>6, <2>7, <2>8, GraphTypes
<1>2. IInv => JumpsCovered
  BY <1>1 DEF JumpsCovered
<1> QED BY <1>2, Invariant, PTL

(* A property of what predecessors pass on that goes against the flow      *)
(* holds of everything upstream: here, being below a bound.                *)
LEMMA UpstreamBelow ==
  ASSUME IInv, Propagated, NEW n \in Blocks(cfg), NEW c \in Arrival(cfg),
         \A m \in Predecessors(cfg, n) : Leq(ExitOf(cfg, arrived, m), c)
  PROVE  \A m \in Upstream(cfg, n) : Leq(ExitOf(cfg, arrived, m), c)
<1> DEFINE U == {m \in cfg.nodes : Leq(ExitOf(cfg, arrived, m), c)}
<1>1. WellFormed(cfg) /\ arrived \in [Blocks(cfg) -> Arrival(cfg)]
  BY DEF IInv, TypeOK
<1>2. Predecessors(cfg, n) \subseteq U
  BY DEF Predecessors
<1>3. ASSUME NEW u \in U \cap Transparent(cfg), NEW p \in Predecessors(cfg, u)
      PROVE  p \in U
  <2>1. u \in Blocks(cfg) /\ u \in cfg.nodes /\ ExitOf(cfg, arrived, u) = arrived[u]
    BY <1>1, GraphTypes DEF ExitOf, Transparent
  <2>2. p \in cfg.nodes /\ u \in Successors(cfg, p)
    BY <2>1 DEF Predecessors, Successors
  <2>3. Leq(ExitOf(cfg, arrived, p), arrived[u]) /\ ExitOf(cfg, arrived, p) \in Arrival(cfg)
    BY <1>1, <2>2, ExitType DEF IInv, Closed, Propagated
  <2> QED BY <1>1, <2>1, <2>2, <2>3, LeqOrder
<1>4. Upstream(cfg, n) \subseteq U
  <2>1. U \in SUBSET cfg.nodes
    OBVIOUS
  <2> HIDE DEF U
  <2> QED BY <1>2, <1>3, <2>1 DEF Upstream
<1> QED BY <1>4

(* When every predecessor leaves the mode n asks for, so does everything   *)
(* upstream.                                                               *)
LEMMA AllAgree ==
  ASSUME IInv, chosen # NotChosen, AllReached(cfg), NEW n \in Fixed(cfg),
         \A m \in Predecessors(cfg, n) : Leaves(cfg, arrived, chosen, m) = cfg.first[n]
  PROVE  /\ arrived[n] # Conflict
         /\ \A k \in arrived[n].kernels : chosen[k] = cfg.first[n]
<1> DEFINE v == cfg.first[n]
           agreeing == {k \in cfg.kernels : chosen[k] = v}
           c == Value(v, agreeing)
<1>1. WellFormed(cfg) /\ Propagated /\ arrived \in [Blocks(cfg) -> Arrival(cfg)]
      /\ chosen \in [cfg.kernels -> Modes] /\ n \in Blocks(cfg) /\ v \in Modes
  BY GraphTypes DEF IInv, TypeOK, ChosenLast
<1>2. c \in Arrival(cfg) /\ c # Conflict
  BY <1>1, ModesAssumption DEF Arrival, Value, Conflict
<1>3. ASSUME NEW m \in Predecessors(cfg, n) PROVE Leq(ExitOf(cfg, arrived, m), c)
  <2>1. m \in cfg.nodes /\ Leaves(cfg, arrived, chosen, m) = v
    BY <1>3 DEF Predecessors
  <2>2. CASE m \in cfg.kernels
    <3>1. chosen[m] = v
      BY <1>1, <2>1, <2>2, GraphTypes DEF Leaves, Resolve, ResolveFast
    <3> QED BY <2>2, <3>1, ModesAssumption DEF ExitOf, Leq, Value, Conflict
  <2>3. CASE m \in Fixed(cfg)
    BY <1>1, <2>1, <2>3, GraphTypes, ModesAssumption DEF Leaves, ExitOf, Leq, Value, Conflict
  <2>4. CASE m \in Transparent(cfg)
    <3>1. m \in Blocks(cfg) /\ m \notin Fixed(cfg) /\ ExitOf(cfg, arrived, m) = arrived[m]
          /\ Resolve(cfg, arrived, chosen, m) = v
      BY <1>1, <2>1, <2>4, GraphTypes DEF ExitOf, Leaves, Transparent
    <3>2. arrived[m] # Conflict /\ All(m) = {v}
      BY <1>1, <2>4, <3>1, ResolveTransparentValue, ModesAssumption
    <3>3. arrived[m].mode \in {NoMode, v} /\ \A k \in arrived[m].kernels : chosen[k] = v
      BY <3>2 DEF All
    <3>4. arrived[m].kernels \subseteq cfg.kernels
      BY <1>1, <3>1, <3>2 DEF Arrival
    <3> QED BY <3>1, <3>2, <3>3, <3>4 DEF Leq, Value
  <2> QED BY <1>1, <2>1, <2>2, <2>3, <2>4, GraphTypes
<1>4. \A m \in Upstream(cfg, n) : Leq(ExitOf(cfg, arrived, m), c)
  <2> HIDE DEF c
  <2> QED BY <1>1, <1>2, <1>3, UpstreamBelow
<1>5. arrived[n] = Reaching(cfg, n)
  BY <1>1, ReachingType, ReachingRecorded, LeqOrder DEF IInv, Sound
<1> DEFINE values == {cfg.last[m] : m \in Upstream(cfg, n) \cap Fixed(cfg)} \cup ({v} \ {NoMode})
<1>6. \A w \in values : w = v
  <2>1. ASSUME NEW m \in Upstream(cfg, n) \cap Fixed(cfg) PROVE cfg.last[m] = v
    <3>1. ExitOf(cfg, arrived, m) = Value(cfg.last[m], {}) /\ cfg.last[m] \in Modes
      BY <1>1, GraphTypes DEF ExitOf
    <3> QED BY <1>2, <1>4, <3>1, ModesAssumption DEF Leq, Value
  <2> QED BY <2>1
<1>7. \A k \in Upstream(cfg, n) \cap cfg.kernels : chosen[k] = v
  <2>1. ASSUME NEW k \in Upstream(cfg, n) \cap cfg.kernels PROVE chosen[k] = v
    <3>1. ExitOf(cfg, arrived, k) = Value(NoMode, {k})
      BY DEF ExitOf
    <3> QED BY <1>2, <1>4, <3>1 DEF Leq, Value
  <2> QED BY <2>1
<1> HIDE DEF values
<1>8. Reaching(cfg, n) = IF \E u, w \in values : u # w THEN Conflict
                         ELSE Value(IF values = {} THEN NoMode ELSE CHOOSE u \in values : TRUE,
                                    Upstream(cfg, n) \cap cfg.kernels)
  BY DEF Reaching, Brought, values
<1>9. Reaching(cfg, n) = Value(IF values = {} THEN NoMode ELSE CHOOSE u \in values : TRUE,
                               Upstream(cfg, n) \cap cfg.kernels)
  BY <1>6, <1>8
<1>10. (IF values = {} THEN NoMode ELSE CHOOSE u \in values : TRUE) \in {NoMode, v}
  BY <1>6
<1>11. arrived[n].mode \in {NoMode, v} /\ arrived[n].kernels = Upstream(cfg, n) \cap cfg.kernels
  BY <1>5, <1>9, <1>10 DEF Value
<1>12. arrived[n] # Conflict
  BY <1>1, <1>11, ModesAssumption DEF Value, Conflict
<1> QED BY <1>7, <1>11, <1>12

(* And no mode is set where every jump already brings it.                  *)
THEOREM NoInsertionIdle == Spec => []NoIdleInsertion
<1>1. ASSUME IInv, chosen # NotChosen, AllReached(cfg),
             NEW n \in Inserted(cfg, arrived, chosen)
      PROVE  \E m \in Predecessors(cfg, n) :
               ModeChange(Leaves(cfg, arrived, chosen, m), Resolve(cfg, arrived, chosen, n))
  <2>1. SUFFICES ASSUME \A m \in Predecessors(cfg, n) :
                          ~ModeChange(Leaves(cfg, arrived, chosen, m),
                                      Resolve(cfg, arrived, chosen, n))
                 PROVE  FALSE
    OBVIOUS
  <2>2. n \in Fixed(cfg)
    BY <1>1 DEF Inserted, MustInsert, MaybeInsert
  <2>3. Resolve(cfg, arrived, chosen, n) = cfg.first[n] /\ cfg.first[n] \in Modes
    BY <1>1, <2>2, GraphTypes DEF Resolve, IInv, TypeOK
  <2>4. \A m \in Predecessors(cfg, n) : Leaves(cfg, arrived, chosen, m) = cfg.first[n]
    BY <2>1, <2>3, ModesAssumption DEF ModeChange
  <2>5. arrived[n] # Conflict /\ \A k \in arrived[n].kernels : chosen[k] = cfg.first[n]
    BY <1>1, <2>2, <2>4, AllAgree
  <2>6. arrived[n].mode = cfg.first[n]
    BY <1>1, <2>2, <2>5, FixedMode
  <2> QED BY <1>1, <2>5, <2>6 DEF Inserted, MustInsert, MaybeInsert, Satisfied
<1>2. IInv => NoIdleInsertion
  BY <1>1 DEF NoIdleInsertion
<1> QED BY <1>2, Invariant, PTL

-----------------------------------------------------------------------------
(* How many blocks have their mode set.                                    *)

(* The fewer blocks that depend on the kernels are content, the more are   *)
(* set.                                                                    *)
LEMMA MoreSatisfied ==
  ASSUME NEW A, NEW M, IsFiniteSet(A), IsFiniteSet(M), A \cap M = {},
         NEW S \in SUBSET M, NEW T \in SUBSET M, Cardinality(S) >= Cardinality(T)
  PROVE  Cardinality(A \cup (M \ S)) <= Cardinality(A \cup (M \ T))
<1>1. ASSUME NEW U \in SUBSET M
      PROVE  /\ Cardinality(A \cup (M \ U)) = Cardinality(A) + Cardinality(M) - Cardinality(U)
             /\ Cardinality(A) \in Nat /\ Cardinality(M) \in Nat /\ Cardinality(U) \in Nat
  <2>1. IsFiniteSet(U) /\ IsFiniteSet(M \ U)
    BY FS_Subset, FS_Difference
  <2>2. Cardinality(M \ U) = Cardinality(M) - Cardinality(U)
    <3>1. M \cap U = U
      OBVIOUS
    <3> QED BY <3>1, FS_Difference
  <2>3. Cardinality(A \cup (M \ U))
          = Cardinality(A) + Cardinality(M \ U) - Cardinality(A \cap (M \ U))
    BY <2>1, FS_Union
  <2>4. Cardinality(A \cap (M \ U)) = 0
    <3>1. A \cap (M \ U) = {}
      OBVIOUS
    <3> QED BY <3>1, FS_EmptySet
  <2>5. Cardinality(A) \in Nat /\ Cardinality(M) \in Nat /\ Cardinality(U) \in Nat
        /\ Cardinality(M \ U) \in Nat
    BY <2>1, FS_CardinalityType
  <2> QED BY <2>2, <2>3, <2>4, <2>5
<1> QED BY <1>1

(* A kernel nobody asks for a mode does not matter.                        *)
LEMMA UnaskedKernels ==
  ASSUME NEW g, NEW arr, NEW modes \in [g.kernels -> Modes],
         \A n \in MaybeInsert(g, arr) : arr[n].kernels \subseteq g.kernels
  PROVE  LET assigned == [k \in g.kernels |-> IF Asked(g, arr, k) = {} THEN Default ELSE modes[k]]
         IN  Satisfied(g, arr, assigned) = Satisfied(g, arr, modes)
<1> DEFINE assigned == [k \in g.kernels |-> IF Asked(g, arr, k) = {} THEN Default ELSE modes[k]]
<1>1. ASSUME NEW n \in MaybeInsert(g, arr), NEW k \in arr[n].kernels
      PROVE  assigned[k] = modes[k]
  <2>1. arr[n].mode \in Asked(g, arr, k) /\ k \in g.kernels
    BY <1>1 DEF Asked
  <2> QED BY <2>1
<1> HIDE DEF assigned
<1>2. Satisfied(g, arr, assigned) = Satisfied(g, arr, modes)
  BY <1>1 DEF Satisfied
<1> QED BY <1>2 DEF assigned

LEMMA FewestOf ==
  ASSUME NEW g, WellFormed(g), IsFiniteSet(g.nodes), NEW arr \in [Blocks(g) -> Arrival(g)],
         NEW picked \in KernelModes(g, arr), NEW modes \in [g.kernels -> Modes]
  PROVE  Cardinality(Inserted(g, arr, picked))
           <= Cardinality(MustInsert(g, arr) \cup (MaybeInsert(g, arr) \ Satisfied(g, arr, modes)))
<1> DEFINE must == MustInsert(g, arr)
           maybe == MaybeInsert(g, arr)
<1>1. /\ must \subseteq g.nodes /\ maybe \subseteq g.nodes /\ must \cap maybe = {}
      /\ \A n \in maybe : arr[n].kernels \subseteq g.kernels
  BY GraphTypes DEF MustInsert, MaybeInsert, Arrival, Conflict
<1>2. IsFiniteSet(must) /\ IsFiniteSet(maybe)
  BY <1>1, FS_Subset
<1>3. \A a : Satisfied(g, arr, a) \in SUBSET maybe
  BY DEF Satisfied
<1>4. CASE QuickMode(g, arr)
  <2> DEFINE other == must \cup (maybe \ Satisfied(g, arr, modes))
  <2>1. Inserted(g, arr, picked) = must /\ must \in SUBSET other /\ IsFiniteSet(other)
    <3>1. IsFiniteSet(maybe \ Satisfied(g, arr, modes))
      BY <1>2, FS_Difference
    <3> QED BY <1>2, <1>4, <3>1, FS_Union DEF Inserted
  <2> HIDE DEF other, must
  <2>2. Cardinality(must) <= Cardinality(other)
    BY <2>1, FS_Subset
  <2> QED BY <2>1, <2>2 DEF other, must
<1>5. CASE ~QuickMode(g, arr)
  <2> DEFINE assigned == [k \in g.kernels |-> IF Asked(g, arr, k) = {} THEN Default ELSE modes[k]]
  <2>1. picked \in SlowModes(g, arr)
    BY <1>5 DEF KernelModes
  <2>2. assigned \in [g.kernels -> Modes]
        /\ \A k \in g.kernels : Asked(g, arr, k) = {} => assigned[k] = Default
    BY ModesAssumption
  <2>3. Satisfied(g, arr, assigned) = Satisfied(g, arr, modes)
    BY <1>1, UnaskedKernels
  <2> HIDE DEF assigned
  <2>4. Cardinality(Satisfied(g, arr, picked)) >= Cardinality(Satisfied(g, arr, assigned))
    BY <2>1, <2>2 DEF SlowModes
  <2>5. Inserted(g, arr, picked) = must \cup (maybe \ Satisfied(g, arr, picked))
    BY <1>5 DEF Inserted
  <2> HIDE DEF must, maybe
  <2>6. Cardinality(must \cup (maybe \ Satisfied(g, arr, picked)))
          <= Cardinality(must \cup (maybe \ Satisfied(g, arr, modes)))
    BY <1>1, <1>2, <1>3, <2>3, <2>4, MoreSatisfied
  <2> QED BY <2>5, <2>6 DEF must, maybe
<1> QED BY <1>4, <1>5

(* No other modes of the kernels need fewer blocks to set theirs, whether  *)
(* or not the pass asks the solver.                                        *)
THEOREM FewestChosen == Spec => []FewestInsertions
<1>1. ASSUME IInv, chosen # NotChosen, NEW modes \in [cfg.kernels -> Modes]
      PROVE  Cardinality(Inserted(cfg, arrived, chosen))
               <= Cardinality(MustInsert(cfg, arrived)
                                \cup (MaybeInsert(cfg, arrived) \ Satisfied(cfg, arrived, modes)))
  <2>1. WellFormed(cfg) /\ IsFiniteSet(cfg.nodes) /\ arrived \in [Blocks(cfg) -> Arrival(cfg)]
        /\ chosen \in KernelModes(cfg, arrived)
    BY <1>1, FiniteGraphs DEF IInv, TypeOK, ChosenLast
  <2> QED BY <2>1, FewestOf
<1>2. IInv => FewestInsertions
  BY <1>1 DEF FewestInsertions
<1> QED BY <1>2, Invariant, PTL
=============================================================================
