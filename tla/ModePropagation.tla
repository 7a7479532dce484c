-------------------------- MODULE ModePropagation --------------------------
(***************************************************************************)
(* compute_single_mode_insertions and optimize_mode_insertions of          *)
(* ptx/src/pass/instruction_mode_to_global_mode/mod.rs: where in a module  *)
(* one mode has to be set, and with which mode each kernel starts.         *)
(*                                                                         *)
(* A worklist carries the mode each node leaves to its successors until    *)
(* nothing changes.  The code takes nodes from the list in the order they  *)
(* were put there; here in any order, so that the result is seen not to    *)
(* depend on it.  Blocks that only some kernels disagree with are settled  *)
(* by choosing the modes of the kernels.                                   *)
(***************************************************************************)
EXTENDS ModeGraph

CONSTANTS
  Graphs,    \* the control flow graphs to choose from
  NotChosen  \* the kernels have no modes yet

ASSUME GraphsAssumption == \A g \in Graphs : WellFormed(g)
ASSUME FiniteGraphs == \A g \in Graphs : IsFiniteSet(g.nodes)

VARIABLES
  cfg,      \* the graph, never changed
  arrived,  \* propagation_state: what is known on entry to each block
  roots,    \* how often each node is on the worklist
  chosen    \* the modes of the kernels, once chosen

vars == <<cfg, arrived, roots, chosen>>

TypeOK ==
  /\ WellFormed(cfg)
  /\ arrived \in [Blocks(cfg) -> Arrival(cfg)]
  /\ roots \in [cfg.nodes -> Nat]
  /\ chosen \in {NotChosen} \cup [cfg.kernels -> Modes]

Init ==
  /\ cfg \in Graphs
  /\ arrived = [n \in Blocks(cfg) |-> Value(cfg.first[n], {})]
  /\ roots = [n \in cfg.nodes |-> IF n \in Transparent(cfg) THEN 0 ELSE 1]
  /\ chosen = NotChosen

Propagated == \A n \in cfg.nodes : roots[n] = 0

(* The successors of n that go on the list: those that pass on what        *)
(* arrives and were changed, and n itself when it asks for another mode    *)
(* than it leaves to itself.                                               *)
Requeued_Self(n) ==
  IF \E m \in Successors(cfg, n) : MergeChanges(arrived[m], ExitOf(cfg, arrived, n))
  THEN {n} ELSE {}
Requeued(n) ==
  {m \in Successors(cfg, n) :
     IF m = n
     THEN m \in Fixed(cfg) /\ arrived[m] # Conflict /\ arrived[m].mode # cfg.last[m]
     ELSE m \in Transparent(cfg) /\ MergeChanges(arrived[m], ExitOf(cfg, arrived, n))}

(* One turn of the loop: n is taken from the list and merged into each of  *)
(* its successors.                                                         *)
Visit(n) ==
  /\ roots[n] > 0
  /\ arrived' = [m \in Blocks(cfg) |->
                   IF m \in Successors(cfg, n)
                   THEN MergeWith(arrived[m], ExitOf(cfg, arrived, n))
                   ELSE arrived[m]]
  /\ roots' = [m \in cfg.nodes |->
                 (roots[m] - (IF m = n THEN 1 ELSE 0))
                   + (IF m \in Requeued(n) THEN 1 ELSE 0)]
  /\ UNCHANGED <<cfg, chosen>>

Choose ==
  /\ Propagated
  /\ chosen = NotChosen
  /\ chosen' \in KernelModes(cfg, arrived)
  /\ UNCHANGED <<cfg, arrived, roots>>

Next == (\E n \in cfg.nodes : Visit(n)) \/ Choose

Spec == Init /\ [][Next]_vars /\ WF_vars(Next)

-----------------------------------------------------------------------------
(* When the list is empty, each block holds what its paths bring to it:    *)
(* values met on different paths are never lost, whatever the order of the *)
(* visits and the cycles, and no value comes from behind a block that sets *)
(* its own.                                                                *)
Exact == Propagated => \A n \in Blocks(cfg) : arrived[n] = Reaching(cfg, n)

(* A block reached from a kernel has a mode, or a conflict, to be resolved *)
(* to: the errors resolve_mode and from_kernel_modes_overlap return are    *)
(* never returned.                                                         *)
Resolved ==
  chosen # NotChosen /\ AllReached(cfg)
    => \A n \in cfg.nodes : Resolve(cfg, arrived, chosen, n) # NoMode

(* Every jump that changes the mode leads to a block on whose entry the    *)
(* mode is set: no jump needs a prologue that was not made.                *)
JumpsCovered ==
  chosen # NotChosen /\ AllReached(cfg)
    => \A m \in cfg.nodes : \A n \in Successors(cfg, m) :
         ModeChange(Leaves(cfg, arrived, chosen, m), Resolve(cfg, arrived, chosen, n))
           => n \in Inserted(cfg, arrived, chosen)

(* And only those blocks: with the kernels' modes as chosen, no mode is    *)
(* set on entry to a block that every jump reaches with it.                *)
NoIdleInsertion ==
  chosen # NotChosen /\ AllReached(cfg)
    => \A n \in Inserted(cfg, arrived, chosen) :
         \E m \in Predecessors(cfg, n) :
           ModeChange(Leaves(cfg, arrived, chosen, m), Resolve(cfg, arrived, chosen, n))

(* No other modes of the kernels would have needed fewer of them: when     *)
(* each kernel is asked for one mode the integer program is not missed.    *)
FewestInsertions ==
  chosen # NotChosen
    => \A modes \in [cfg.kernels -> Modes] :
         Cardinality(Inserted(cfg, arrived, chosen))
           <= Cardinality(MustInsert(cfg, arrived)
                            \cup (MaybeInsert(cfg, arrived) \ Satisfied(cfg, arrived, modes)))

(* The loop ends, although merging reports a change when nothing changed:  *)
(* blocks of a cycle do not keep putting each other on the list.           *)
ReachesEnd == <>(chosen # NotChosen)
=============================================================================
