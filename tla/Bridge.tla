------------------------------- MODULE Bridge -------------------------------
(***************************************************************************)
(* The connection between the 32-bit driver and its 64-bit server          *)
(* (zluda32/src/ipc.rs, zluda_server_common/src/lib.rs, the main loop of   *)
(* zluda64_server/src/main.rs).                                            *)
(*                                                                         *)
(* The threads of the application make their calls one at a time, under    *)
(* the mutex of GlobalState.  A call is written into shared memory, an     *)
(* auto-reset event wakes the server, and a second event announces the     *)
(* answer in a second shared memory.  A message that does not fit makes    *)
(* its sender create a larger mapping, go on writing there, and leave the  *)
(* new mapping's name in the old one under the header u32::MAX.            *)
(*                                                                         *)
(* In each direction capacities only grow, so a mapping is named by its    *)
(* capacity.  Sizes are counted in units of the message header (16 bytes). *)
(***************************************************************************)
EXTENDS Integers

CONSTANTS
  Threads,     \* threads of the 32-bit application
  Capacities,  \* sizes a mapping may have (powers of two)
  Sizes,       \* payloads of the messages that vary in size
  Failures,    \* which of the operating system's calls may fail
  NoThread,    \* nobody holds the mutex
  NoMap,       \* no mapping was replaced
  MaxCalls     \* bound: calls made by one thread

Smallest(S) == CHOOSE n \in S : \A m \in S : n <= m
Initial == Smallest(Capacities)

(* The payload and the root that follows it are written one after the      *)
(* other, behind the header.                                               *)
Header == 1
Root == 1

ASSUME BridgeAssumption ==
  /\ Capacities \subseteq Nat
  /\ Sizes # {} /\ NoThread \notin Threads /\ NoMap \notin Capacities
  /\ Header + 1 + Root <= Initial
  /\ \A n \in Sizes : n \in Nat /\ \E c \in Capacities : Header + n + Root <= c
  /\ Failures \subseteq {"spawn", "boot", "version", "create", "arena", "open"}
  /\ MaxCalls \in Nat

(* zero_copy calls have messages of fixed size, framed_in calls requests   *)
(* and framed_out calls answers of any size.                               *)
Kinds == {"zero_copy", "framed_in", "framed_out"}

VARIABLES
  started,   \* the OnceLock that holds GlobalState
  lock,      \* holder of GlobalState's mutex
  pc,        \* pc[t]: where thread t is inside a call
  kind,      \* kind[t]: the kind of t's call
  size,      \* size[t]: payload of t's request
  calls,     \* calls[t]: calls t has made, the last of them is current
  result,    \* result[t]: how t's last call ended
  clientReq, \* the client's mapping for requests
  clientRep, \* the client's mapping for answers
  clientOld, \* the first mapping its current message replaced
  spc,       \* where the server is
  answering, \* the call the server is answering
  outSize,   \* payload of the server's answer
  serverReq, serverRep, serverOld,
  requests,  \* requests[c]: contents of the request mapping of capacity c
  answers,   \* answers[c]: contents of the answer mapping of capacity c
  event,     \* the two auto-reset events
  runs,      \* history: executions of t's current call
  strays,    \* history: executions of anything else
  broken     \* history: a growth was abandoned after a replacement

client_vars == <<lock, pc, kind, size, calls, result, clientReq, clientRep, clientOld>>
server_vars == <<spc, answering, outSize, serverReq, serverRep, serverOld>>
memory_vars == <<requests, answers, event>>
history_vars == <<runs, strays, broken>>
vars == <<started, client_vars, server_vars, memory_vars, history_vars>>

(* Bodies: a call or the answer to it, a message cut short, a name.        *)
CallIds == Threads \X (0 .. MaxCalls)
Bodies == {<<"empty">>, <<"partial">>} \cup ({"call"} \X CallIds) \cup ({"name"} \X Capacities)
Headers == Kinds \cup {"zero", "error", "moved", "startup"}
Mapping == [header : Headers, body : Bodies]
FreshMapping == [header |-> "zero", body |-> <<"empty">>]

TypeOK ==
  /\ started \in {"no", "starting", "ok", "failed"}
  /\ lock \in Threads \cup {NoThread}
  /\ pc \in [Threads -> {"idle", "get", "handshake", "lock", "write", "serialize", "grow",
                         "signal", "wait"}]
  /\ kind \in [Threads -> Kinds] /\ size \in [Threads -> Sizes]
  /\ calls \in [Threads -> 0 .. MaxCalls]
  /\ result \in [Threads -> {"none", "ok", "error", "wrong"}]
  /\ {clientReq, clientRep, serverReq, serverRep} \subseteq Capacities
  /\ {clientOld, serverOld} \subseteq Capacities \cup {NoMap}
  /\ spc \in {"absent", "boot", "wait", "dispatch", "serialize", "grow", "signal", "dead"}
  /\ answering \in Bodies /\ outSize \in Sizes
  /\ requests \in [Capacities -> Mapping] /\ answers \in [Capacities -> Mapping]
  /\ event \in [{"client", "server"} -> BOOLEAN]
  /\ runs \in [Threads -> Nat] /\ strays \in Nat /\ broken \in BOOLEAN

SomeSize == CHOOSE n \in Sizes : TRUE

Init ==
  /\ started = "no"
  /\ lock = NoThread
  /\ pc = [t \in Threads |-> "idle"]
  /\ kind = [t \in Threads |-> "zero_copy"]
  /\ size = [t \in Threads |-> SomeSize]
  /\ calls = [t \in Threads |-> 0]
  /\ result = [t \in Threads |-> "none"]
  /\ clientReq = Initial /\ clientRep = Initial /\ clientOld = NoMap
  /\ serverReq = Initial /\ serverRep = Initial /\ serverOld = NoMap
  /\ spc = "absent" /\ answering = <<"empty">> /\ outSize = SomeSize
  /\ requests = [c \in Capacities |-> FreshMapping]
  /\ answers = [c \in Capacities |-> FreshMapping]
  /\ event = [e \in {"client", "server"} |-> FALSE]
  /\ runs = [t \in Threads |-> 0] /\ strays = 0 /\ broken = FALSE

MayFail(what) == what \in Failures

-----------------------------------------------------------------------------
(* Shared memory and events.                                               *)

Fits(n, c) == Header + n + Root <= c

(* The capacity after a write that ran out of room: the one that would     *)
(* have let that write through, rounded up to a power of two.              *)
Needed(n, c) == IF Header + n > c THEN Header + n ELSE Header + n + Root
Grown_Unrounded(n, c) == Needed(n, c)
Grown(n, c) == Smallest({d \in Capacities : d >= Needed(n, c)})

CurrentCall(t) == <<"call", <<t, calls[t]>>>>

(* A message that grows several times replaces several mappings: the one   *)
(* that matters is the first, where the other side reads.                  *)
Replaced_Last(old, c) == c
Replaced(old, c) == IF old = NoMap THEN c ELSE old

(* The message is complete in the mapping at c; if it replaced another,    *)
(* that one is left pointing at it.                                        *)
Forward_Skipped(mem, old, c) == mem
Forward(mem, old, c) ==
  IF old = NoMap THEN mem
  ELSE [mem EXCEPT ![old] = [header |-> "moved", body |-> <<"name", c>>]]

Written(mem, old, c, header, body) ==
  Forward([mem EXCEPT ![c] = [header |-> header, body |-> body]], old, c)

(* Waiting on an auto-reset event takes the signal away.                   *)
Reset_Manual(e) == event
Reset(e) == [event EXCEPT ![e] = FALSE]

Signalled_Half(e) == [event EXCEPT ![e] = (e = "server")]
Signalled(e) == [event EXCEPT ![e] = TRUE]

-----------------------------------------------------------------------------
(* The client.                                                             *)

Return(t, how) ==
  /\ pc' = [pc EXCEPT ![t] = "idle"]
  /\ result' = [result EXCEPT ![t] = how]

Unlock == lock' = NoThread

Begin(t, k, n) ==
  /\ pc[t] = "idle"
  /\ calls[t] < MaxCalls
  /\ pc' = [pc EXCEPT ![t] = "get"]
  /\ kind' = [kind EXCEPT ![t] = k]
  /\ size' = [size EXCEPT ![t] = n]
  /\ calls' = [calls EXCEPT ![t] = @ + 1]
  /\ result' = [result EXCEPT ![t] = "none"]
  /\ runs' = [runs EXCEPT ![t] = 0]
  /\ UNCHANGED <<started, lock, clientReq, clientRep, clientOld, server_vars, memory_vars,
                 strays, broken>>

(* GlobalState::get: the first thread starts the server, the others wait   *)
(* for it, and a failed start fails every call.                            *)
Get(t) ==
  /\ pc[t] = "get"
  /\ \/ /\ started = "no"
        /\ \/ /\ started' = "starting" /\ spc' = "boot"
              /\ pc' = [pc EXCEPT ![t] = "handshake"] /\ UNCHANGED result
           \/ /\ MayFail("spawn")
              /\ started' = "failed" /\ Return(t, "error") /\ UNCHANGED spc
     \/ /\ started = "ok"
        /\ pc' = [pc EXCEPT ![t] = "lock"]
        /\ UNCHANGED <<started, spc, result>>
     \/ /\ started = "failed"
        /\ Return(t, "error")
        /\ UNCHANGED <<started, spc>>
  /\ UNCHANGED <<lock, kind, size, calls, clientReq, clientRep, clientOld, answering, outSize,
                 serverReq, serverRep, serverOld, memory_vars, history_vars>>

(* read_git_version waits for the server's first message.                  *)
Handshake(t) ==
  /\ pc[t] = "handshake"
  /\ event["client"]
  /\ event' = Reset("client")
  /\ \/ /\ answers[clientRep].header = "startup"
        /\ started' = "ok" /\ pc' = [pc EXCEPT ![t] = "lock"] /\ UNCHANGED result
     \/ /\ answers[clientRep].header # "startup" \/ MayFail("version")
        /\ started' = "failed" /\ Return(t, "error")
  /\ UNCHANGED <<lock, kind, size, calls, clientReq, clientRep, clientOld, server_vars,
                 requests, answers, history_vars>>

Lock(t) ==
  /\ pc[t] = "lock"
  /\ lock = NoThread
  /\ lock' = t
  /\ pc' = [pc EXCEPT ![t] = "write"]
  /\ UNCHANGED <<started, kind, size, calls, result, clientReq, clientRep, clientOld,
                 server_vars, memory_vars, history_vars>>

(* write_header, and the body of a request of fixed size.                  *)
Write(t) ==
  /\ pc[t] = "write"
  /\ LET framed == kind[t] = "framed_in" IN
       /\ requests' = [requests EXCEPT
            ![clientReq].header = kind[t],
            ![clientReq].body = IF framed THEN @ ELSE CurrentCall(t)]
       /\ pc' = [pc EXCEPT ![t] = IF framed THEN "serialize" ELSE "signal"]
  /\ UNCHANGED <<started, lock, kind, size, calls, result, clientReq, clientRep, clientOld,
                 server_vars, answers, event, history_vars>>

(* An error in serialize_body: the call fails before the server hears of   *)
(* it.  A mapping that replaced another stays the client's own.            *)
GiveUp(t) ==
  /\ Return(t, "error")
  /\ Unlock
  /\ broken' = (broken \/ clientOld # NoMap)
  /\ clientOld' = NoMap

Serialize(t) ==
  /\ pc[t] = "serialize"
  /\ \/ /\ Fits(size[t], clientReq)
        /\ requests' = Written(requests, clientOld, clientReq, kind[t], CurrentCall(t))
        /\ clientOld' = NoMap
        /\ pc' = [pc EXCEPT ![t] = "signal"]
        /\ UNCHANGED <<lock, result, broken>>
     \/ /\ ~Fits(size[t], clientReq)
        /\ requests' = [requests EXCEPT ![clientReq].body = <<"partial">>]
        /\ pc' = [pc EXCEPT ![t] = "grow"]
        /\ UNCHANGED <<lock, result, clientOld, broken>>
     \/ /\ MayFail("arena")
        /\ requests' = [requests EXCEPT ![clientReq].body = <<"partial">>]
        /\ GiveUp(t)
  /\ UNCHANGED <<started, kind, size, calls, clientReq, clientRep, server_vars, answers, event,
                 runs, strays>>

Grow(t) ==
  /\ pc[t] = "grow"
  /\ \/ /\ clientReq' = Grown(size[t], clientReq)
        /\ requests' = [requests EXCEPT ![clientReq'] = FreshMapping]
        /\ clientOld' = Replaced(clientOld, clientReq)
        /\ pc' = [pc EXCEPT ![t] = "serialize"]
        /\ UNCHANGED <<lock, result, broken>>
     \/ /\ MayFail("create")
        /\ GiveUp(t)
        /\ UNCHANGED <<clientReq, requests>>
  /\ UNCHANGED <<started, kind, size, calls, clientRep, server_vars, answers, event,
                 runs, strays>>

(* SignalObjectAndWait.                                                    *)
Signal(t) ==
  /\ pc[t] = "signal"
  /\ event' = Signalled("server")
  /\ pc' = [pc EXCEPT ![t] = "wait"]
  /\ UNCHANGED <<started, lock, kind, size, calls, result, clientReq, clientRep, clientOld,
                 server_vars, requests, answers, history_vars>>

(* What a call makes of an answer that did not move.                       *)
Read(t, answer) ==
  IF answer.header # "zero" THEN "error"
  ELSE IF answer.body = CurrentCall(t) THEN "ok" ELSE "wrong"

(* The server's current mapping is the only one it keeps open.             *)
Wake(t) ==
  /\ pc[t] = "wait"
  /\ event["client"]
  /\ event' = Reset("client")
  /\ LET answer == answers[clientRep] IN
       IF answer.header = "moved" /\ kind[t] = "framed_out"
         THEN \/ /\ answer.body[2] = serverRep
                 /\ clientRep' = serverRep
                 /\ Return(t, Read(t, answers[serverRep]))
              \/ /\ answer.body[2] # serverRep \/ MayFail("open")
                 /\ Return(t, "error")
                 /\ UNCHANGED clientRep
         ELSE Return(t, Read(t, answer)) /\ UNCHANGED clientRep
  /\ Unlock
  /\ UNCHANGED <<started, kind, size, calls, clientReq, clientOld, server_vars, requests,
                 answers, history_vars>>

-----------------------------------------------------------------------------
(* The server.                                                             *)

(* It opens the endpoints and the device, and announces its version.       *)
Boot ==
  /\ spc = "boot"
  /\ \/ /\ answers' = [answers EXCEPT ![serverRep].header = "startup"]
        /\ event' = Signalled("client")
        /\ spc' = "wait"
     \/ /\ MayFail("boot")
        /\ spc' = "dead"
        /\ UNCHANGED <<answers, event>>
  /\ UNCHANGED <<started, client_vars, answering, outSize, serverReq, serverRep, serverOld,
                 requests, history_vars>>

ServerWakes ==
  /\ spc = "wait"
  /\ event["server"]
  /\ event' = Reset("server")
  /\ spc' = "dispatch"
  /\ UNCHANGED <<started, client_vars, answering, outSize, serverReq, serverRep, serverOld,
                 requests, answers, history_vars>>

(* The request moved: it is read again from the mapping named, which the   *)
(* client has open.  An error here ends the server.                        *)
FollowMove ==
  /\ spc = "dispatch"
  /\ requests[serverReq].header = "moved"
  /\ \/ /\ requests[serverReq].body[2] = clientReq
        /\ serverReq' = clientReq
        /\ UNCHANGED spc
     \/ /\ requests[serverReq].body[2] # clientReq \/ MayFail("open")
        /\ spc' = "dead"
        /\ UNCHANGED serverReq
  /\ UNCHANGED <<started, client_vars, answering, outSize, serverRep, serverOld, memory_vars,
                 history_vars>>

(* The call is carried out on the body it finds, and answered: every call  *)
(* the client makes has its arm.  The handlers may fail.  A framed answer  *)
(* has still to be serialised.                                             *)
Execute ==
  /\ spc = "dispatch"
  /\ requests[serverReq].header \in Kinds
  /\ LET body == requests[serverReq].body
         mine == {t \in Threads : pc[t] = "wait" /\ body = CurrentCall(t)}
     IN /\ runs' = [t \in Threads |-> runs[t] + (IF t \in mine THEN 1 ELSE 0)]
        /\ strays' = strays + (IF mine = {} THEN 1 ELSE 0)
        /\ answering' = body
        /\ \/ /\ answers' = [answers EXCEPT ![serverRep].header = "error"]
              /\ spc' = "signal"
              /\ UNCHANGED outSize
           \/ /\ requests[serverReq].header # "framed_out"
              /\ answers' = Written(answers, NoMap, serverRep, "zero", body)
              /\ spc' = "signal"
              /\ UNCHANGED outSize
           \/ /\ requests[serverReq].header = "framed_out"
              /\ answers' = [answers EXCEPT ![serverRep].header = "zero"]
              /\ outSize' \in Sizes
              /\ spc' = "serialize"
  /\ UNCHANGED <<started, client_vars, serverReq, serverRep, serverOld, requests, event, broken>>

(* An error in serialize_body goes into the header of whatever mapping is  *)
(* now the server's.                                                       *)
AnswerError ==
  /\ spc' = "signal"
  /\ broken' = (broken \/ serverOld # NoMap)
  /\ serverOld' = NoMap

ServerSerializes ==
  /\ spc = "serialize"
  /\ \/ /\ Fits(outSize, serverRep)
        /\ answers' = Written(answers, serverOld, serverRep, "zero", answering)
        /\ serverOld' = NoMap
        /\ spc' = "signal"
        /\ UNCHANGED broken
     \/ /\ ~Fits(outSize, serverRep)
        /\ answers' = [answers EXCEPT ![serverRep].body = <<"partial">>]
        /\ spc' = "grow"
        /\ UNCHANGED <<serverOld, broken>>
     \/ /\ MayFail("arena")
        /\ answers' = [answers EXCEPT ![serverRep] = [header |-> "error", body |-> <<"partial">>]]
        /\ AnswerError
  /\ UNCHANGED <<started, client_vars, answering, outSize, serverReq, serverRep, requests,
                 event, runs, strays>>

ServerGrows ==
  /\ spc = "grow"
  /\ \/ /\ serverRep' = Grown(outSize, serverRep)
        /\ answers' = [answers EXCEPT ![serverRep'] = FreshMapping]
        /\ serverOld' = Replaced(serverOld, serverRep)
        /\ spc' = "serialize"
        /\ UNCHANGED broken
     \/ /\ MayFail("create")
        /\ answers' = [answers EXCEPT ![serverRep].header = "error"]
        /\ AnswerError
        /\ UNCHANGED serverRep
  /\ UNCHANGED <<started, client_vars, answering, outSize, serverReq, requests, event,
                 runs, strays>>

ServerSignals ==
  /\ spc = "signal"
  /\ event' = Signalled("client")
  /\ spc' = "wait"
  /\ UNCHANGED <<started, client_vars, answering, outSize, serverReq, serverRep, serverOld,
                 requests, answers, history_vars>>

-----------------------------------------------------------------------------

Continue(t) ==
  \/ Get(t) \/ Handshake(t) \/ Lock(t) \/ Write(t) \/ Serialize(t) \/ Grow(t) \/ Signal(t)
  \/ Wake(t)

Server ==
  \/ Boot \/ ServerWakes \/ FollowMove \/ Execute \/ ServerSerializes \/ ServerGrows \/ ServerSignals

Next ==
  \/ \E t \in Threads : (\E k \in Kinds, n \in Sizes : Begin(t, k, n)) \/ Continue(t)
  \/ Server

Spec == Init /\ [][Next]_vars

(* Both processes keep running; no order is assumed among the threads that *)
(* wait for the mutex.                                                     *)
FairSpec == Spec /\ WF_vars(Server) /\ \A t \in Threads : WF_vars(Continue(t))

-----------------------------------------------------------------------------
(* Properties.                                                             *)

(* The two processes take turns: while a thread of the client writes a     *)
(* request, and while it reads an answer, the server waits for its event,  *)
(* so that no mapping is ever read while it is being written.              *)
TakeTurns ==
  \A t \in Threads :
    /\ pc[t] \in {"write", "serialize", "grow", "signal"} =>
         lock = t /\ spc = "wait" /\ ~event["server"] /\ ~event["client"]
    /\ pc[t] = "wait" /\ event["client"] => lock = t /\ spc = "wait" /\ ~event["server"]

(* Between calls the client and the server use the same mapping for        *)
(* requests, and the client's mapping for answers is the server's or still *)
(* says that it has moved, unless a growth was abandoned half way.         *)
Connected ==
  started = "ok" /\ lock = NoThread /\ ~broken =>
    /\ clientReq = serverReq
    /\ clientRep = serverRep \/ answers[clientRep].header = "moved"

(* Every remote call keeps the promises of RemoteCalls.                    *)
Calls == INSTANCE RemoteCalls WITH calling <- {t \in Threads : pc[t] # "idle"}
CallsImplemented == Calls!Spec

(* Liveness: a call returns, unless the server has exited: its event is    *)
(* then never signalled, and the caller waits with the mutex held.         *)
CallsReturn ==
  \A t \in Threads : pc[t] # "idle" ~> (pc[t] = "idle" \/ spc = "dead")
=============================================================================
