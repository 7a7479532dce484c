--------------------------- MODULE ModeInsertion ---------------------------
(***************************************************************************)
(* The whole pass ptx/src/pass/instruction_mode_to_global_mode/mod.rs with *)
(* the two that prepare for it, and the code it produces.  A program whose *)
(* instructions ask for modes is translated into one that sets the mode    *)
(* registers of the hardware, and the result is run: the question is       *)
(* whether every instruction meets the modes it asked for.                 *)
(*                                                                         *)
(* There are two registers, each with a mode for f32 and one for f16 and   *)
(* f64, and an instruction that sets a register sets both.  A slot is one  *)
(* of the four modes.  Each slot is solved on its own (ModePropagation),   *)
(* then prologues are shared: a prologue of a block sets a register, and   *)
(* the jumps to the block that need it are led through it.                 *)
(*                                                                         *)
(* A program is given by its blocks: they end in their only jumps, and a   *)
(* call ends its block.                                                    *)
(***************************************************************************)
EXTENDS ModeGraph, SequencesExt

CONSTANTS
  Programs,    \* programs to translate
  MaxDepth,    \* calls that may be open at once
  None,        \* no method, nothing yet
  Refused      \* the pass fails with an error

Registers == {"denormal", "rounding"}
Halves == {"f32", "f16f64"}
Slots == Registers \X Halves
SlotOrder == << <<"denormal", "f32">>, <<"denormal", "f16f64">>,
                <<"rounding", "f32">>, <<"rounding", "f16f64">> >>
Twin(s) == <<s[1], CHOOSE h \in Halves : h # s[2]>>

(* A program: its kernels, the first block of every method that has a      *)
(* body, the blocks a function returns from, and for every block the modes *)
(* its instructions need, the function it ends by calling, and the blocks  *)
(* it jumps to (after the call).  The source also says what each body      *)
(* opens with and which blocks take the address of a function.             *)
BlocksOf(p) == DOMAIN p.needs
Methods(p) == DOMAIN p.start
Functions(p) == DOMAIN p.returns
Called(p) == {p.calls[b] : b \in BlocksOf(p)} \ {None}
Returning(p) == UNION {p.returns[f] : f \in Functions(p)}

(* A block belongs to one method, which its jumps do not leave.            *)
Owns(p, owner) ==
  /\ \A m \in Methods(p) : owner[p.start[m]] = m
  /\ \A b \in BlocksOf(p) : \A n \in p.targets[b] : owner[n] = owner[b]
  /\ \A f \in Functions(p) : \A b \in p.returns[f] : owner[b] = f

IsProgram(p) ==
  /\ p.kernels \subseteq Methods(p) /\ Functions(p) = Methods(p) \ p.kernels
  /\ BlocksOf(p) \cap (Methods(p) \cup Called(p)) = {}
  /\ Called(p) \cap p.kernels = {} /\ None \notin Methods(p)
  /\ IsFiniteSet(Methods(p)) /\ IsFiniteSet(BlocksOf(p))
  /\ p.start \in [Methods(p) -> BlocksOf(p)]
  /\ p.returns \in [Functions(p) -> SUBSET BlocksOf(p)]
  /\ \A b \in BlocksOf(p) : p.needs[b] \in Seq([Slots -> Modes \cup {NoMode}])
  /\ DOMAIN p.calls = BlocksOf(p)
  /\ p.targets \in [BlocksOf(p) -> SUBSET BlocksOf(p)]
  /\ \E owner \in [BlocksOf(p) -> Methods(p)] : Owns(p, owner)

IsSource(p) ==
  /\ IsProgram(p)
  /\ p.opens \in [Methods(p) -> {"label", "statement", "nothing"}]
  /\ p.pointers \subseteq BlocksOf(p)

(* Where steps of "next" lead from some of a set's members.                *)
Spread(S, from, next) ==
  LET Steps[i \in 0 .. Cardinality(S)] ==
        IF i = 0 THEN from
        ELSE LET nearer == Steps[i - 1]
             IN  nearer \cup UNION {next[m] : m \in nearer}
  IN  Steps[Cardinality(S)]

-----------------------------------------------------------------------------
(* normalize_basic_blocks: a function that returns from several blocks     *)
(* jumps from them to a new one that does.  A body is given a label to     *)
(* open with if it opens with a statement; an opening label is dropped.    *)
ReturnBlock(f) == <<f, "ret">>
Normalized(p) ==
  LET merged == {f \in Functions(p) : Cardinality(p.returns[f]) > 1}
      blocks == BlocksOf(p) \cup {ReturnBlock(f) : f \in merged}
      Added(f, value) == [b \in blocks |-> IF b \in BlocksOf(p) THEN f[b] ELSE value]
      Jumps(b) == {ReturnBlock(f) : f \in {g \in merged : b \in p.returns[g]}}
  IN  [kernels |-> p.kernels,
       start |-> p.start,
       returns |-> [f \in Functions(p) |->
                      IF f \in merged THEN {ReturnBlock(f)} ELSE p.returns[f]],
       needs |-> Added(p.needs, <<>>),
       calls |-> Added(p.calls, None),
       targets |-> Added([b \in BlocksOf(p) |-> p.targets[b] \cup Jumps(b)], {}),
       opens |-> [m \in Methods(p) |->
                    CASE p.opens[m] = "statement" -> "label"
                      [] p.opens[m] = "label" -> "statement"
                      [] OTHER -> "nothing"],
       pointers |-> p.pointers]

(* remove_unreachable_basic_blocks: the blocks that jumps of their method  *)
(* lead to stay, in kernels and in functions that are called somewhere, be *)
(* it from code that is removed itself.                                    *)
ReachedIn(p, m) == Spread(BlocksOf(p), {p.start[m]}, p.targets)

Pruned_Nothing(p) == p
Pruned(p) ==
  LET methods == Methods(p) \cap (p.kernels \cup Called(p))
      blocks == UNION {ReachedIn(p, m) : m \in methods}
      Kept(f, keys) == [k \in keys |-> f[k]]
  IN  [kernels |-> p.kernels,
       start |-> Kept(p.start, methods),
       returns |-> [f \in methods \cap Functions(p) |-> p.returns[f] \cap blocks],
       needs |-> Kept(p.needs, blocks),
       calls |-> Kept(p.calls, blocks),
       targets |-> Kept(p.targets, blocks)]

Prepared(p) == Pruned(Normalized(p))

(* It fails on a body that does not open with a label, and where the       *)
(* address of a function is taken, be the code reached or not.             *)
PruningFails(p) ==
  \/ \E m \in Methods(p) : p.opens[m] # "label"
  \/ p.pointers # {}

-----------------------------------------------------------------------------
(* Statements of the translation: instructions with the modes they need,   *)
(* and settings of a register.                                             *)
Instruction(needs) == [sets |-> None, modes |-> needs]
SetMode(r, modes) == [sets |-> r, modes |-> modes]
Statements == [sets : Registers \cup {None}, modes : [Slots -> Modes \cup {NoMode}]]

Translations(p) ==
  [BlocksOf(p) -> [body : Seq(Statements),
                   sets : UNION {[B -> SUBSET Registers] : B \in SUBSET BlocksOf(p)}]]

ASSUME ProgramsAssumption ==
  /\ None \notin Registers /\ None # Refused
  /\ \A p \in Programs :
       /\ IsSource(p)
       /\ \A f \in Functions(p) : ReturnBlock(f) \notin BlocksOf(p) \cup Methods(p) \cup Called(p)
       /\ None \notin [block : BlocksOf(Prepared(p)), index : Nat]
       /\ Refused \notin Translations(Prepared(p))

-----------------------------------------------------------------------------
VARIABLES
  source,    \* the program to translate, never changed
  program,   \* what the preparing passes make of it, never changed
  solution,  \* by slot: modes of the kernels, of the nodes at their start, and blocks to set it at
  code,      \* the blocks of the translation, once it is made
  at,        \* block and index of the next statement to run
  stack,     \* blocks whose calls are open
  hardware,  \* the modes of the hardware, by slot
  misled     \* history: the run has left a block in other modes than the pass takes it to

given == <<source, program>>
vars == <<given, solution, code, at, stack, hardware, misled>>

-----------------------------------------------------------------------------
(* create_control_flow_graph, for one slot.                                *)

(* The instructions of a block that ask for a mode, and the modes the      *)
(* first and the last of them ask for.                                     *)
Asking(p, b, s) == {i \in DOMAIN p.needs[b] : p.needs[b][i][s] # NoMode}
FirstMode(p, b, s) ==
  IF Asking(p, b, s) = {} THEN NoMode ELSE p.needs[b][Min(Asking(p, b, s))][s]
LastMode(p, b, s) ==
  IF Asking(p, b, s) = {} THEN NoMode ELSE p.needs[b][Max(Asking(p, b, s))][s]

(* A function that has no body is left where it is entered.                *)
ReturnNode(p, f) ==
  IF f \in Functions(p) /\ p.returns[f] # {} THEN CHOOSE b \in p.returns[f] : TRUE ELSE f

GraphOf(p, s) ==
  LET calling == {b \in BlocksOf(p) : p.calls[b] # None}
      nodes == BlocksOf(p) \cup Methods(p) \cup Called(p)
  IN  [nodes |-> nodes,
       kernels |-> p.kernels,
       edges |-> {<<m, p.start[m]>> : m \in Methods(p)}
                   \cup {<<b, p.calls[b]>> : b \in calling}
                   \cup (UNION {{b} \X p.targets[b] : b \in BlocksOf(p) \ calling})
                   \cup (UNION {{ReturnNode(p, p.calls[b])} \X p.targets[b] : b \in calling}),
       first |-> [n \in nodes \ p.kernels |-> IF n \in BlocksOf(p) THEN FirstMode(p, n, s) ELSE NoMode],
       last |-> [n \in nodes \ p.kernels |-> IF n \in BlocksOf(p) THEN LastMode(p, n, s) ELSE NoMode]]

(* The nodes from which transparent blocks lead to n, by steps.            *)
Behind(g, n) ==
  Spread(g.nodes, Predecessors(g, n),
         [m \in g.nodes |-> IF m \in Transparent(g) THEN Predecessors(g, m) ELSE {}])

(* What the propagation ends with, in whatever order it visits the nodes   *)
(* (ModePropagation, Exact).                                               *)
Settled(g) == [n \in Blocks(g) |-> Brought(g, n, Behind(g, n))]

(* One slot is solved: the propagation, the choice of kernel modes, and    *)
(* ResolvedControlFlowGraph::new.                                          *)
Solutions(g) ==
  LET arrived == Settled(g)
  IN  {[kernels |-> modes,
        entry |-> [n \in g.nodes |-> Resolve(g, arrived, modes, n)],
        inserted |-> Inserted(g, arrived, modes)] : modes \in KernelModes(g, arrived)}

-----------------------------------------------------------------------------
(* Emission of a block (BasicBlockControlState).                           *)

Entry(n) == [s \in Slots |-> solution[s].entry[n]]

(* The registers that have a prologue at a node, and those a jump from     *)
(* modes "now" to the node has to set.                                     *)
Prologues_F32(n) == {r \in Registers : n \in solution[<<r, "f32">>].inserted}
Prologues(n) == {r \in Registers : \E h \in Halves : n \in solution[<<r, h>>].inserted}
Redirected_F32(now, n) ==
  {r \in Registers : ModeChange(now[<<r, "f32">>], Entry(n)[<<r, "f32">>])}
Redirected(now, n) ==
  {r \in Registers : \E h \in Halves : ModeChange(now[<<r, h>>], Entry(n)[<<r, h>>])}

(* The modes a function returns with.  resolve_mode takes them from the    *)
(* start of the block that returns.                                        *)
ExitModes(f) == Entry(ReturnNode(program, f))

(* What a setting of one slot sets the other to.                           *)
TwinMode_Default(bb, s) == Default
TwinMode(bb, s) == IF bb.now[Twin(s)] = Clash THEN Default ELSE bb.now[Twin(s)]

(* insert_one.  "foldable" is the place of a setting of the twin slot that *)
(* no instruction has relied on for this one: it is changed in place, and  *)
(* what is known of the mode is not ("folded" records that).               *)
Rely(bb, s) == [bb EXCEPT !.foldable[s] = 0]
Fold(bb, s, mode) ==
  [Rely(bb, s) EXCEPT !.body[bb.foldable[s]].modes[s] = mode, !.folded = TRUE]
Set(bb, s, mode) ==
  LET modes == [t \in Slots |-> CASE t = s -> mode
                                   [] t = Twin(s) -> TwinMode(bb, s)
                                   [] OTHER -> NoMode]
  IN  [bb EXCEPT !.body = Append(@, SetMode(s[1], modes)),
                 !.now[s] = mode,
                 !.foldable[s] = 0,
                 !.foldable[Twin(s)] = Len(bb.body) + 1]
InsertOne(bb, s, mode) ==
  IF mode = NoMode THEN bb
  ELSE IF bb.now[s] = Clash THEN [bb EXCEPT !.failed = TRUE]
  ELSE IF bb.now[s] = mode THEN Rely(bb, s)
  ELSE IF bb.foldable[s] # 0 THEN Fold(bb, s, mode)
  ELSE Set(bb, s, mode)

Insert(bb, needs) ==
  LET InsertFor(state, i) == InsertOne(state, SlotOrder[i], needs[SlotOrder[i]])
      set == InsertFor(InsertFor(InsertFor(InsertFor(bb, 1), 2), 3), 4)
  IN  [set EXCEPT !.body = Append(@, Instruction(needs))]

Emission(entry, needs) ==
  LET Steps[i \in 0 .. Len(needs)] ==
        IF i = 0
        THEN [now |-> entry, foldable |-> [s \in Slots |-> 0], body |-> <<>>,
              failed |-> FALSE, folded |-> FALSE]
        ELSE Insert(Steps[i - 1], needs[i])
  IN  Steps[Len(needs)]
Emitted(b) == Emission(Entry(b), program.needs[b])

(* The modes known at the jumps of a block: after a call those the         *)
(* function returns with.                                                  *)
Leaving(b) == IF program.calls[b] = None THEN Emitted(b).now ELSE ExitModes(program.calls[b])

EmittedBlock(b) ==
  [body |-> Emitted(b).body,
   sets |-> [n \in program.targets[b] |-> Redirected(Leaving(b), n)]]

(* What the pass takes the modes at the end of a block to be may be wrong  *)
(* in two cases: a setting was folded in it, or a function returns from it *)
(* and the caller goes by the modes it starts in.                          *)
Misleading(b) ==
  \/ Emitted(b).folded
  \/ b \in Returning(program) /\ Emitted(b).now # Entry(b)

(* The pass fails where it finds a call that nothing follows, a function   *)
(* that does not return, a mode unresolved or a prologue missing.          *)
Fails ==
  \/ \E b \in BlocksOf(program) : program.calls[b] # None /\ program.targets[b] = {}
  \/ \E f \in Functions(program) : program.returns[f] = {}
  \/ \E s \in Slots : \E n \in DOMAIN solution[s].entry : solution[s].entry[n] = NoMode
  \/ \E b \in BlocksOf(program) :
       \/ Emitted(b).failed
       \/ program.calls[b] # None /\ Redirected(Emitted(b).now, program.calls[b]) # {}
       \/ \E n \in program.targets[b] : ~(Redirected(Leaving(b), n) \subseteq Prologues(n))

-----------------------------------------------------------------------------
Solved == \A s \in Slots : solution[s] # None

Init ==
  /\ source \in Programs
  /\ program = Prepared(source)
  /\ solution = [s \in Slots |-> None]
  /\ code = None
  /\ at = None
  /\ stack = <<>>
  /\ hardware = [s \in Slots |-> Default]
  /\ misled = FALSE

(* A program the preparing passes fail on.                                 *)
Refuse ==
  /\ code = None
  /\ PruningFails(Normalized(source))
  /\ code' = Refused
  /\ UNCHANGED <<given, solution, at, stack, hardware, misled>>

(* compute_minimal_mode_insertions, one slot after the other.              *)
Solve(s) ==
  /\ ~PruningFails(Normalized(source))
  /\ solution[s] = None
  /\ \A t \in Slots : solution[t] = None
       => \E i, j \in DOMAIN SlotOrder : i <= j /\ SlotOrder[i] = s /\ SlotOrder[j] = t
  /\ \E found \in Solutions(GraphOf(program, s)) : solution' = [solution EXCEPT ![s] = found]
  /\ UNCHANGED <<given, code, at, stack, hardware, misled>>

(* join_modes and apply_global_mode_controls.                              *)
Emit ==
  /\ Solved
  /\ code = None
  /\ code' = IF Fails THEN Refused ELSE [b \in BlocksOf(program) |-> EmittedBlock(b)]
  /\ UNCHANGED <<given, solution, at, stack, hardware, misled>>

-----------------------------------------------------------------------------
(* The translation runs.                                                   *)
Running == code \notin {None, Refused} /\ at # None
AtEnd == at.index > Len(code[at.block].body)
Goto(b) == at' = [block |-> b, index |-> 1]

(* The modes after the prologue of n that sets the registers given.        *)
Through(modes, n, registers) ==
  [s \in Slots |-> IF s[1] \notin registers THEN modes[s]
                   ELSE IF Entry(n)[s] = Clash THEN Default
                   ELSE Entry(n)[s]]

(* The body of a method begins with the prologues of its first block.      *)
EnterMethod(m, modes) ==
  /\ Goto(program.start[m])
  /\ hardware' = Through(modes, program.start[m], Prologues(program.start[m]))

(* A block is left for another one.                                        *)
Leave(b) == misled' = (misled \/ Misleading(b))

(* The hardware starts a kernel with the modes of its attributes.          *)
Launch(k) ==
  /\ code \notin {None, Refused}
  /\ at = None
  /\ EnterMethod(k, Entry(k))
  /\ misled' = FALSE
  /\ UNCHANGED <<given, solution, code, stack>>

Execute ==
  /\ Running
  /\ ~AtEnd
  /\ LET next == code[at.block].body[at.index]
     IN  hardware' = IF next.sets = None THEN hardware
                     ELSE [s \in Slots |-> IF s[1] = next.sets THEN next.modes[s] ELSE hardware[s]]
  /\ at' = [at EXCEPT !.index = @ + 1]
  /\ UNCHANGED <<given, solution, code, stack, misled>>

JumpFrom(b) ==
  \E n \in program.targets[b] :
    /\ Goto(n)
    /\ hardware' = Through(hardware, n, code[b].sets[n])

Jump ==
  /\ Running /\ AtEnd
  /\ program.calls[at.block] = None
  /\ JumpFrom(at.block)
  /\ Leave(at.block)
  /\ UNCHANGED <<given, solution, code, stack>>

(* A function of another module leaves the modes as they are.              *)
CallDeclared ==
  /\ Running /\ AtEnd
  /\ program.calls[at.block] \notin Methods(program) \cup {None}
  /\ JumpFrom(at.block)
  /\ Leave(at.block)
  /\ UNCHANGED <<given, solution, code, stack>>

Call ==
  /\ Running /\ AtEnd
  /\ program.calls[at.block] \in Methods(program)
  /\ Len(stack) < MaxDepth
  /\ EnterMethod(program.calls[at.block], hardware)
  /\ stack' = Append(stack, at.block)
  /\ Leave(at.block)
  /\ UNCHANGED <<given, solution, code>>

Return ==
  /\ Running /\ AtEnd
  /\ at.block \in Returning(program)
  /\ stack # <<>>
  /\ JumpFrom(Last(stack))
  /\ stack' = Front(stack)
  /\ Leave(at.block)
  /\ UNCHANGED <<given, solution, code>>

(* A kernel returns, or any method exits.                                  *)
Exit ==
  /\ Running /\ AtEnd
  /\ program.targets[at.block] = {}
  /\ at.block \notin Returning(program)
  /\ at' = None
  /\ stack' = <<>>
  /\ misled' = FALSE
  /\ UNCHANGED <<given, solution, code, hardware>>

Next ==
  \/ Refuse
  \/ \E s \in Slots : Solve(s)
  \/ Emit
  \/ \E k \in program.kernels : Launch(k)
  \/ Execute \/ Jump \/ CallDeclared \/ Call \/ Return \/ Exit

Spec == Init /\ [][Next]_vars

-----------------------------------------------------------------------------
(* What a program has when the passes fail on it, though most of it is     *)
(* legal PTX.  All but the last is read off the source, be it pruned or    *)
(* not.                                                                    *)

(* The methods a run can enter: kernels, and what their blocks call.       *)
CalledIn(p, m) == {p.calls[b] : b \in ReachedIn(p, m)} \cap Functions(p)
Entered(p) ==
  Spread(Methods(p), p.kernels, [m \in Methods(p) |-> CalledIn(p, m)])

(* A function that only code calls which no run enters.                    *)
CalledInVain(p) == ~(Functions(p) \cap Called(p) \subseteq Entered(p))

(* Blocks a function gets to while the functions of G do not return.       *)
Passed(p, m, G) ==
  Spread(BlocksOf(p), {p.start[m]},
         [b \in BlocksOf(p) |-> IF p.calls[b] \in G THEN {} ELSE p.targets[b]])

(* Functions none of which returns but by way of a call of one of them.    *)
Endless(p) ==
  \E G \in SUBSET (Functions(p) \cap Entered(p)) :
    G # {} /\ \A f \in G : p.returns[f] \cap Passed(p, f, G) = {}

Flawed ==
  LET p == Normalized(source) IN
  \/ PruningFails(p)
  \/ CalledInVain(p)
  \/ Endless(p)
  \/ \E m \in Entered(p) : \E b \in ReachedIn(p, m) : p.calls[b] # None /\ p.targets[b] = {}
  \/ Solved /\ \E b \in BlocksOf(program) : Misleading(b)

-----------------------------------------------------------------------------
(* Every instruction runs in the modes it asked for, on every path through *)
(* loops, calls and returns and from every kernel: "converts               *)
(* instruction-scoped modes in PTX to globally-scoped modes as expected by *)
(* AMD GPUs".                                                              *)
ModesHonoured ==
  Running /\ ~AtEnd =>
    LET next == code[at.block].body[at.index]
    IN  next.sets = None =>
          \A s \in Slots : next.modes[s] \in {NoMode, hardware[s]}

(* The code the pass emits keeps that promise, of any program, on every    *)
(* run until it is in a block where a setting was folded or has left one,  *)
(* or one from which a function returns in other modes than it is taken    *)
(* to: these are the only ways an instruction meets a wrong mode.          *)
HonouredUntilMisled ==
  Running /\ ~misled /\ ~Emitted(at.block).folded => ModesHonoured

(* Where the pass knows the mode at the start of a block, the hardware is  *)
(* in that mode whenever the block is entered, through a prologue or not,  *)
(* on the same runs.                                                       *)
EntryAsResolved ==
  Running /\ ~misled /\ at.index = 1 =>
    \A s \in Slots : Entry(at.block)[s] \in {Clash, hardware[s]}

(* The pass fails on no other programs than those: a mode is never left    *)
(* unresolved, and a prologue never missing, because of the way the blocks *)
(* jump and call and of the modes they need alone.                         *)
OnlyFlawedRefused == code = Refused => Flawed
=============================================================================
