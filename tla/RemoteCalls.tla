---------------------------- MODULE RemoteCalls -----------------------------
(***************************************************************************)
(* What the 32-bit driver promises its caller about a remote call: the     *)
(* server carries the call out at most once, between the call and its      *)
(* return, it carries nothing else out, and a call that reports success    *)
(* was carried out and has the server's answer to that very call.  A call  *)
(* that reports an error may or may not have been carried out.             *)
(*                                                                         *)
(* A sender that fails half way through the growth of its shared memory    *)
(* breaks the connection: from then on nothing is promised.                *)
(***************************************************************************)
EXTENDS Naturals

CONSTANT Threads

VARIABLES
  calling,  \* the threads inside a call
  runs,     \* runs[t]: times the server carried out the call of t
  result,   \* result[t]: how the last call of t ended
  strays,   \* times the server carried out something nobody called for
  broken    \* a growth was abandoned half way

vars == <<calling, runs, result, strays, broken>>

Init ==
  /\ calling = {}
  /\ runs = [t \in Threads |-> 0]
  /\ result = [t \in Threads |-> "none"]
  /\ strays = 0
  /\ broken = FALSE

Call(t) ==
  /\ t \notin calling
  /\ calling' = calling \cup {t}
  /\ runs' = [runs EXCEPT ![t] = 0]
  /\ result' = [result EXCEPT ![t] = "none"]
  /\ UNCHANGED <<strays, broken>>

Execute(t) ==
  /\ t \in calling
  /\ runs[t] = 0
  /\ runs' = [runs EXCEPT ![t] = 1]
  /\ UNCHANGED <<calling, result, strays, broken>>

Succeed(t) ==
  /\ t \in calling
  /\ runs[t] = 1
  /\ calling' = calling \ {t}
  /\ result' = [result EXCEPT ![t] = "ok"]
  /\ UNCHANGED <<runs, strays, broken>>

Fail(t) ==
  /\ t \in calling
  /\ calling' = calling \ {t}
  /\ result' = [result EXCEPT ![t] = "error"]
  /\ UNCHANGED <<runs, strays, broken>>

Break == ~broken /\ broken'

Next ==
  \/ \E t \in Threads : Call(t) \/ Execute(t) \/ Succeed(t) \/ Fail(t)
  \/ Break
  \/ broken /\ broken'

Spec == Init /\ [][Next]_vars
=============================================================================
