----------------------------- MODULE ModeGraph -----------------------------
(***************************************************************************)
(* The data of the pass that turns modes of instructions (denormals,       *)
(* rounding) into modes of the hardware                                    *)
(* (ptx/src/pass/instruction_mode_to_global_mode/mod.rs), for one mode.    *)
(*                                                                         *)
(* A control flow graph is a record: its nodes, the nodes among them that  *)
(* stand for kernels, its edges, and for every other node the modes its    *)
(* first and its last instruction that needs one asks for (NoMode when no  *)
(* instruction does).  A call is an edge to the node of the function and   *)
(* one from the block that returns to the block after the call.            *)
(***************************************************************************)
EXTENDS Integers, FiniteSets

CONSTANTS
  Modes,     \* the values of the mode
  Default,   \* the value a kernel gets when nothing observes it
  NoMode,    \* no value asked for, or none known
  Clash      \* different values

ASSUME ModesAssumption ==
  /\ Default \in Modes
  /\ NoMode \notin Modes
  /\ Clash \notin Modes
  /\ NoMode # Clash

Blocks(g) == g.nodes \ g.kernels
Fixed(g) == {n \in Blocks(g) : g.first[n] # NoMode}
Transparent(g) == Blocks(g) \ Fixed(g)
Successors(g, n) == {m \in g.nodes : <<n, m>> \in g.edges}
Predecessors(g, n) == {m \in g.nodes : <<m, n>> \in g.edges}

(* Nothing jumps to a kernel, and a block asks for a mode at its end iff   *)
(* it does at its start.                                                   *)
WellFormed(g) ==
  /\ g.kernels \subseteq g.nodes
  /\ g.edges \subseteq g.nodes \X Blocks(g)
  /\ g.first \in [Blocks(g) -> Modes \cup {NoMode}]
  /\ g.last \in [Blocks(g) -> Modes \cup {NoMode}]
  /\ \A n \in Blocks(g) : g.first[n] = NoMode <=> g.last[n] = NoMode

(* Every node is reached from a kernel.                                    *)
AllReached(g) ==
  \A U \in SUBSET g.nodes :
    (g.kernels \subseteq U /\ \A u \in U : Successors(g, u) \subseteq U) => U = g.nodes

-----------------------------------------------------------------------------
(* What is known of the mode on entry to a node: the value every path to   *)
(* it gives, if any, and the kernels from which it is reached with the     *)
(* mode of the kernel.                                                     *)
Value(mode, kernels) == [mode |-> mode, kernels |-> kernels]
Conflict == Value(Clash, {})
Arrival(g) == [mode : Modes \cup {NoMode}, kernels : SUBSET g.kernels] \cup {Conflict}

MergeWith_Kept(this, from) ==
  Value(IF this.mode = NoMode THEN from.mode
        ELSE IF from.mode \in {NoMode, this.mode} THEN this.mode
        ELSE Clash,
        this.kernels \cup from.kernels)
MergeWith(this, from) ==
  IF \/ Conflict \in {this, from}
     \/ NoMode \notin {this.mode, from.mode} /\ this.mode # from.mode
  THEN Conflict
  ELSE Value(IF this.mode = NoMode THEN from.mode ELSE this.mode,
             this.kernels \cup from.kernels)

(* The flag merge_with returns: it is also set when "from" has fewer       *)
(* kernels.                                                                *)
MergeChanges_ValueOnly(this, from) ==
  /\ this # Conflict
  /\ from = Conflict \/ from.mode \notin {NoMode, this.mode}
MergeChanges(this, from) ==
  /\ this # Conflict
  /\ \/ from = Conflict
     \/ from.mode \notin {NoMode, this.mode}
     \/ this.kernels # from.kernels

(* What a node passes on: a kernel its own mode, a block that asks for     *)
(* modes the last of them, any other block what arrives.                   *)
ExitOf(g, arrived, n) ==
  IF n \in g.kernels THEN Value(NoMode, {n})
  ELSE IF n \in Fixed(g) THEN Value(g.last[n], {})
  ELSE arrived[n]

-----------------------------------------------------------------------------
(* What arrives at a node, by the paths of the graph.                      *)

(* The nodes from which a path of transparent blocks leads to n: the       *)
(* least set with the predecessors of n and of its transparent members.    *)
Upstream(g, n) ==
  LET Closed == {U \in SUBSET g.nodes :
                   /\ Predecessors(g, n) \subseteq U
                   /\ \A u \in U \cap Transparent(g) : Predecessors(g, u) \subseteq U}
  IN  {m \in g.nodes : \A U \in Closed : m \in U}

(* One value when all blocks upstream leave it and n itself asks for it.   *)
Brought(g, n, up) ==
  LET values == {g.last[m] : m \in up \cap Fixed(g)} \cup ({g.first[n]} \ {NoMode})
  IN  IF \E v, w \in values : v # w THEN Conflict
      ELSE Value(IF values = {} THEN NoMode ELSE CHOOSE v \in values : TRUE,
                 up \cap g.kernels)
Reaching(g, n) == Brought(g, n, Upstream(g, n))

-----------------------------------------------------------------------------
(* The choice of modes for the kernels, from what arrived at the nodes.    *)

(* Blocks that certainly need a mode set on entry.                         *)
MustInsert(g, arrived) == {n \in Fixed(g) : arrived[n] = Conflict}

(* Blocks that need one unless their kernels have the mode they ask for.   *)
MaybeInsert(g, arrived) ==
  {n \in Fixed(g) : arrived[n] # Conflict /\ arrived[n].kernels # {}}

Asked(g, arrived, k) ==
  {arrived[n].mode : n \in {m \in MaybeInsert(g, arrived) : k \in arrived[m].kernels}}

Satisfied(g, arrived, modes) ==
  {n \in MaybeInsert(g, arrived) :
     \A k \in arrived[n].kernels : modes[k] = arrived[n].mode}

QuickMode(g, arrived) ==
  \A k \in g.kernels : \A v, w \in Asked(g, arrived, k) : v = w

(* The mode each kernel is asked for, the default when it is asked none.   *)
QuickModes(g, arrived) ==
  [k \in g.kernels |->
     IF Asked(g, arrived, k) = {} THEN Default
     ELSE CHOOSE v \in Asked(g, arrived, k) : TRUE]

(* The solutions of the integer program: they satisfy as many blocks as    *)
(* can be.                                                                 *)
SlowModes_Any(g, arrived) == [g.kernels -> Modes]
SlowModes(g, arrived) ==
  LET Assignments ==
        {a \in [g.kernels -> Modes] :
           \A k \in g.kernels : Asked(g, arrived, k) = {} => a[k] = Default}
  IN  {a \in Assignments :
         \A b \in Assignments : Cardinality(Satisfied(g, arrived, a))
                                  >= Cardinality(Satisfied(g, arrived, b))}

KernelModes(g, arrived) ==
  IF QuickMode(g, arrived) THEN {QuickModes(g, arrived)} ELSE SlowModes(g, arrived)

Inserted_Must(g, arrived, modes) == MustInsert(g, arrived)
Inserted_Maybe(g, arrived, modes) == MustInsert(g, arrived) \cup MaybeInsert(g, arrived)
Inserted(g, arrived, modes) ==
  MustInsert(g, arrived)
    \cup IF QuickMode(g, arrived) THEN {}
         ELSE MaybeInsert(g, arrived) \ Satisfied(g, arrived, modes)

-----------------------------------------------------------------------------
(* resolve_fast and from_kernel_modes_overlap: a block that no instruction *)
(* gives a mode has that of its kernels and of the blocks before it.       *)
ResolveFast(modes, arrival) ==
  LET all == {modes[k] : k \in arrival.kernels} \cup ({arrival.mode} \ {NoMode})
  IN  IF all = {} THEN NoMode
      ELSE IF \E v, w \in all : v # w THEN Clash
      ELSE CHOOSE v \in all : TRUE

(* The mode at the start of a node once those of the kernels are chosen:   *)
(* a value, Clash when it depends on the path, NoMode when nothing is      *)
(* known (the pass then fails as on code it cannot meet).                  *)
Resolve_ValueOnly(g, arrived, modes, n) ==
  IF n \in g.kernels THEN modes[n]
  ELSE IF n \in Fixed(g) THEN g.first[n]
  ELSE arrived[n].mode
Resolve(g, arrived, modes, n) ==
  IF n \in g.kernels THEN modes[n]
  ELSE IF n \in Fixed(g) THEN g.first[n]
  ELSE IF arrived[n] = Conflict THEN Clash
  ELSE ResolveFast(modes, arrived[n])

(* The mode at its end, as the code emitted for it leaves it.              *)
Leaves(g, arrived, modes, n) ==
  IF n \in Fixed(g) THEN g.last[n] ELSE Resolve(g, arrived, modes, n)

(* Whether a jump between two such modes has to set the mode.              *)
ModeChange(from, to) == to # Clash /\ from # to
=============================================================================
