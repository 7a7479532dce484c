------------------------------ MODULE MCModes ------------------------------
(* Instances of ModePropagation for TLC.                                   *)
EXTENDS ModePropagation
CONSTANTS k1, k2, b1, b2, b3, on, off

MCBlocks == {b1, b2, b3}
MCAsks == {<<NoMode, NoMode>>, <<on, on>>, <<off, off>>, <<on, off>>}

(* Two kernels and three blocks, all reached, two of them with up to two   *)
(* jumps and the third with up to one; the first kernel starts at b1.      *)
(* Nodes that only pass on what arrives from one other node are left out:  *)
(* that both kernels start at b1 stands for two kernels whose first blocks *)
(* ask for nothing and call the function that begins with b1.              *)
MCEdges ==
  {E \in {{<<k1, b1>>, <<k2, second>>} \cup UNION {{b} \X jumps[b] : b \in MCBlocks} :
            second \in {b1, b2},
            jumps \in {J \in [MCBlocks -> SUBSET MCBlocks] :
                         \A b \in MCBlocks : Cardinality(J[b]) <= IF b = b3 THEN 1 ELSE 2}} :
     AllReached([nodes |-> {k1, k2} \cup MCBlocks, kernels |-> {k1, k2}, edges |-> E])}

MCGraphs ==
  {[nodes |-> {k1, k2} \cup MCBlocks, kernels |-> {k1, k2}, edges |-> E,
    first |-> [b \in MCBlocks |-> asks[b][1]], last |-> [b \in MCBlocks |-> asks[b][2]]] :
   E \in MCEdges, asks \in [MCBlocks -> MCAsks]}
=============================================================================
