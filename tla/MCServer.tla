------------------------------ MODULE MCServer ------------------------------
(* Instances of ServerState for TLC.                                       *)
EXTENDS ServerState, TLC

(* A module with a small and a large global, one whose second global is    *)
(* aligned to more than a unit, and one with a global without a size.      *)
TwoGlobals ==
  [good |-> <<[size |-> 1, align |-> 1], [size |-> 3, align |-> 2]>>,
   odd |-> <<[size |-> 2, align |-> 1], [size |-> 1, align |-> 3]>>,
   void |-> <<[size |-> 0, align |-> 1]>>]

(* A module without globals, and one that has one.                         *)
OneGlobal == [bare |-> <<>>, good |-> <<[size |-> 1, align |-> 1]>>]

ServerSymmetry ==
  Permutations(Ids) \cup Permutations(ModuleAddrs) \cup Permutations(FunctionAddrs)
=============================================================================
