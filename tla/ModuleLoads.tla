---------------------------- MODULE ModuleLoads -----------------------------
(***************************************************************************)
(* What loading a module promises, with no word about a cache: the caller  *)
(* gets the code its own compiler makes of its text for the device that is *)
(* current, or an error.                                                   *)
(***************************************************************************)
CONSTANTS
  Threads, Texts, Devices,
  Compiled(_, _, _),  \* what the compiler of a thread makes of a text for a device
  None, Refused

VARIABLES
  asked,  \* asked[t]: text and device of the load in progress
  loaded  \* loaded[t]: how the load that returns ended

vars == <<asked, loaded>>

Init ==
  /\ asked = [t \in Threads |-> None]
  /\ loaded = [t \in Threads |-> None]

Begin(t) ==
  /\ asked[t] = None /\ loaded[t] = None
  /\ \E text \in Texts, d \in Devices :
       asked' = [asked EXCEPT ![t] = [text |-> text, device |-> d]]
  /\ UNCHANGED loaded

End(t) ==
  /\ asked[t] # None
  /\ asked' = [asked EXCEPT ![t] = None]
  /\ \E result \in {Refused, Compiled(t, asked[t].text, asked[t].device)} :
       loaded' = [loaded EXCEPT ![t] = result]

Return(t) ==
  /\ loaded[t] # None
  /\ loaded' = [loaded EXCEPT ![t] = None]
  /\ UNCHANGED asked

(* A process ends, and the loads in it.                                    *)
Abandon(ended) ==
  /\ asked' = [t \in Threads |-> IF t \in ended THEN None ELSE asked[t]]
  /\ loaded' = [t \in Threads |-> IF t \in ended THEN None ELSE loaded[t]]

Next ==
  \/ \E t \in Threads : Begin(t) \/ End(t) \/ Return(t)
  \/ \E ended \in SUBSET Threads : Abandon(ended)

Spec == Init /\ [][Next]_vars
=============================================================================
