----------------------------- MODULE MCModules ------------------------------
(* An instance of Modules for TLC.                                         *)
EXTENDS Modules, TLC
CONSTANTS t1, t2, t3, p1, p2, d1, x, l

(* Two threads of one process, and one of another that runs another        *)
(* version and has neither libraries nor memory for modules.               *)
MCHome == (t1 :> p1) @@ (t2 :> p1) @@ (t3 :> p2)
MCVersion == (p1 :> "v") @@ (p2 :> "w")
MCHeap == (p1 :> {1, 2}) @@ (p2 :> {})
MCSize == x :> 2
MCIsa == d1 :> "gfx"
MCClock == d1 :> 1
MCSource == (p1 :> (l :> x)) @@ (p2 :> <<>>)
=============================================================================
