---------------------------- MODULE MCInsertion ----------------------------
(* Programs for ModeInsertion: three shapes with the modes varied, which   *)
(* are translated, and programs the passes fail on or mistranslate.        *)
EXTENDS ModeInsertion
CONSTANTS k1, k2, f, d, a1, a2, c1, c2, f1, f2, f3, u, u1, on, off

Bodies(methods) == [m \in methods |-> "statement"]

Free == [s \in Slots |-> NoMode]
Denormal32(v) == [Free EXCEPT ![<<"denormal", "f32">>] = v]
Denormal16(v) == [Free EXCEPT ![<<"denormal", "f16f64">>] = v]
Rounding32(v) == [Free EXCEPT ![<<"rounding", "f32">>] = v]
Both(v, w) == [Denormal32(v) EXCEPT ![<<"rounding", "f32">>] = w]
Convert(v) == [Denormal32(v) EXCEPT ![<<"denormal", "f16f64">>] = v]

(* Two kernels call one function, the second of them in a loop; the        *)
(* function has a loop and a block that returns.                           *)
Calls(needs) ==
  [kernels |-> {k1, k2},
   start |-> (k1 :> a1) @@ (k2 :> c1) @@ (f :> f1),
   returns |-> f :> {f2},
   needs |-> needs,
   calls |-> [b \in DOMAIN needs |-> IF b \in {a1, c1} THEN f ELSE None],
   targets |-> (a1 :> {a2}) @@ (a2 :> {}) @@ (c1 :> {c2}) @@ (c2 :> {c1, c2})
                 @@ (f1 :> {f1, f2}) @@ (f2 :> {}),
   opens |-> Bodies({k1, k2, f}), pointers |-> {}]

CallsPrograms ==
  {Calls((a1 :> x1) @@ (a2 :> x2) @@ (c1 :> y1) @@ (c2 :> y2) @@ (f1 :> z1) @@ (f2 :> z2)) :
     x1 \in {<<>>, <<Denormal32(off)>>, <<Denormal32(off), Both(on, off)>>},
     x2 \in {<<Denormal32(on)>>, <<Rounding32(off)>>, <<Both(off, on)>>, <<Convert(off)>>},
     y1 \in {<<>>, <<Denormal16(on)>>, <<Both(off, off)>>},
     y2 \in {<<>>, <<Both(off, off)>>, <<Denormal16(off)>>, <<Denormal32(off), Denormal32(on)>>},
     z1 \in {<<>>, <<Denormal32(off)>>, <<Denormal16(off), Rounding32(on), Rounding32(off)>>},
     z2 \in {<<>>, <<Denormal32(on)>>, <<Rounding32(off)>>}}

(* One kernel branches around a call of a function of another module and   *)
(* then calls a function that may call itself before it returns.           *)
Branches(needs) ==
  [kernels |-> {k1},
   start |-> (k1 :> a1) @@ (f :> f1),
   returns |-> f :> {f3},
   needs |-> needs,
   calls |-> [b \in DOMAIN needs |-> IF b = a2 THEN d ELSE IF b \in {c1, f2} THEN f ELSE None],
   targets |-> (a1 :> {a2, c1}) @@ (a2 :> {c1}) @@ (c1 :> {c2}) @@ (c2 :> {})
                 @@ (f1 :> {f2, f3}) @@ (f2 :> {f3}) @@ (f3 :> {}),
   opens |-> Bodies({k1, f}), pointers |-> {}]

BranchesPrograms ==
  {Branches((a1 :> x1) @@ (a2 :> x2) @@ (c1 :> y1) @@ (c2 :> y2)
              @@ (f1 :> z1) @@ (f2 :> z2) @@ (f3 :> z3)) :
     x1 \in {<<>>, <<Denormal32(off)>>, <<Denormal16(on)>>},
     x2 \in {<<>>, <<Denormal32(on), Denormal32(off)>>, <<Rounding32(off)>>},
     y1 \in {<<>>, <<Denormal32(on)>>, <<Denormal16(off)>>},
     y2 \in {<<Both(off, on)>>, <<Convert(off)>>},
     z1 \in {<<>>, <<Rounding32(off)>>, <<Denormal32(on)>>},
     z2 \in {<<>>, <<Both(off, off)>>, <<Rounding32(on), Rounding32(off)>>},
     z3 \in {<<>>, <<Denormal32(off)>>}}

(* A kernel calls a function that returns from two blocks; a block of the  *)
(* kernel and a function are never reached.                                *)
Unreached(needs) ==
  [kernels |-> {k1},
   start |-> (k1 :> a1) @@ (f :> f1) @@ (u :> u1),
   returns |-> (f :> {f2, f3}) @@ (u :> {u1}),
   needs |-> needs,
   calls |-> [b \in DOMAIN needs |-> IF b = a1 THEN f ELSE None],
   targets |-> (a1 :> {a2}) @@ (a2 :> {}) @@ (c1 :> {a2})
                 @@ (f1 :> {f2, f3}) @@ (f2 :> {}) @@ (f3 :> {}) @@ (u1 :> {}),
   opens |-> Bodies({k1, f, u}), pointers |-> {}]

UnreachedPrograms ==
  {Unreached((a1 :> x1) @@ (a2 :> x2) @@ (c1 :> y1) @@ (f1 :> z1) @@ (f2 :> z2)
               @@ (f3 :> z3) @@ (u1 :> <<>>)) :
     x1 \in {<<>>, <<Denormal32(off)>>},
     x2 \in {<<>>, <<Denormal32(on)>>, <<Both(off, on)>>},
     y1 \in {<<>>, <<Denormal32(off)>>},
     z1 \in {<<>>, <<Rounding32(off)>>},
     z2 \in {<<>>, <<Denormal32(off), Denormal32(on)>>, <<Convert(off)>>},
     z3 \in {<<>>, <<Denormal32(off)>>}}

SoundPrograms == CallsPrograms \cup BranchesPrograms \cup UnreachedPrograms

(* A kernel of one block that changes the modes of f32 and of f16 and then *)
(* one of them back.                                                       *)
FoldedPrograms ==
  {[kernels |-> {k1}, start |-> k1 :> a1, returns |-> <<>>,
    needs |-> a1 :> <<first, Denormal32(off), Denormal16(off), last>>,
    calls |-> a1 :> None, targets |-> a1 :> {},
    opens |-> Bodies({k1}), pointers |-> {}] :
     first, last \in {Denormal32(on), Denormal16(on), Convert(on)}}

(* Blocks of kernels that are left after such a folding, and a function    *)
(* that returns in other modes than its last block starts in.              *)
Turned == <<Denormal32(off), Denormal16(off), Denormal32(on), Convert(off)>>
MisleadingPrograms ==
  {Calls((a1 :> x1) @@ (a2 :> x2) @@ (c1 :> <<>>) @@ (c2 :> y2) @@ (f1 :> z1) @@ (f2 :> z2)) :
     x1 \in {<<>>, <<Denormal32(on)>>, <<Convert(on)>> \o Turned},
     x2 \in {<<Denormal32(on)>>, <<Convert(on)>>},
     y2 \in {<<>>, <<Convert(off)>>, <<Convert(on)>> \o Turned},
     z1 \in {<<>>, <<Denormal16(off)>>},
     z2 \in {<<>>, <<Denormal32(on), Denormal32(off)>>, <<Convert(on)>> \o Turned}}

(* Bodies that open with a label or are empty, a function pointer in dead  *)
(* code, a call at the end of a body, functions that never return, by      *)
(* recursion or not, and a function that only dead code calls.             *)
Odd(p, m, b) ==
  {[p EXCEPT !.opens[m] = "label"], [p EXCEPT !.opens[m] = "nothing"],
   [p EXCEPT !.pointers = {b}]}
FlawedPrograms ==
  LET plain == [b \in {a1, a2, c1, c2, f1, f2, f3, u1} |-> IF b = a2 THEN <<Convert(off)>> ELSE <<>>]
      Needs(blocks) == [b \in blocks |-> plain[b]]
      calls == Calls(Needs({a1, a2, c1, c2, f1, f2}))
      branches == Branches(Needs({a1, a2, c1, c2, f1, f2, f3}))
      unreached == Unreached(Needs({a1, a2, c1, f1, f2, f3, u1}))
  IN  Odd(calls, f, a2) \cup Odd(branches, k1, f3) \cup Odd(unreached, u, c1)
        \cup {[calls EXCEPT !.targets[a1] = {}],
              [calls EXCEPT !.returns[f] = {}],
              [branches EXCEPT !.targets[f1] = {f2}],
              [unreached EXCEPT !.calls[c1] = u]}

AllPrograms == SoundPrograms \cup FoldedPrograms \cup MisleadingPrograms \cup FlawedPrograms

(* What the passes fail on is found in the flawed programs and in no sound *)
(* one.                                                                    *)
FlawedShape(p) ==
  LET n == Normalized(p) IN
  \/ PruningFails(n) \/ CalledInVain(n) \/ Endless(n)
  \/ \E b \in BlocksOf(n) : n.calls[b] # None /\ n.targets[b] = {}
ASSUME \A p \in AllPrograms : FlawedShape(p) <=> p \in FlawedPrograms
=============================================================================
