---------------------------- MODULE BridgeProofs ----------------------------
(* Proofs about the transport between the 32-bit driver and its server,    *)
(* for any threads, capacities, sizes and failures.                        *)
EXTENDS Bridge, WellFoundedInduction, TLAPS

(* Where a thread is that has the mutex, and when the server has the call. *)
Inside == {"write", "serialize", "grow", "signal", "wait"}
Quiet == spc = "wait" /\ ~event["server"] /\ ~event["client"]
Serving ==
  \/ spc = "wait" /\ event["server"] /\ ~event["client"]
  \/ spc = "wait" /\ event["client"] /\ ~event["server"]
  \/ spc \in {"dispatch", "serialize", "grow", "signal", "dead"}
       /\ ~event["server"] /\ ~event["client"]

(* The two sides take turns: the mutex is held by the one thread inside a  *)
(* call, the server is at rest unless that thread waits for it, and before *)
(* the first answer it has only its greeting to give.                      *)
Turns ==
  /\ \A t \in Threads : pc[t] \in Inside => lock = t
  /\ lock # NoThread => pc[lock] \in Inside
  /\ \A t \in Threads : pc[t] = "handshake" =>
       started = "starting" /\ \A u \in Threads : pc[u] = "handshake" => u = t
  /\ \A t \in Threads : pc[t] \in Inside \cup {"lock"} => started = "ok"
  /\ started = "no" => spc = "absent" /\ ~event["server"] /\ ~event["client"]
  /\ started = "starting" =>
       spc \in {"boot", "wait", "dead"} /\ ~event["server"] /\ (event["client"] <=> spc = "wait")
  /\ started = "failed" => spc \in {"absent", "wait"} /\ ~event["server"] /\ ~event["client"]
  /\ started = "ok" => IF lock # NoThread /\ pc[lock] = "wait" THEN Serving ELSE Quiet

(* Mappings are replaced by larger ones, while a message is being written, *)
(* and the client's mapping for answers is never ahead of the server's.    *)
Growing ==
  /\ clientOld # NoMap =>
       clientOld < clientReq /\ lock # NoThread /\ pc[lock] \in {"serialize", "grow"}
  /\ serverOld # NoMap =>
       clientRep <= serverOld /\ serverOld < serverRep /\ spc \in {"serialize", "grow"}
  /\ clientRep <= serverRep
  /\ \A t \in Threads : pc[t] = "grow" => ~Fits(size[t], clientReq)
  /\ spc = "grow" => ~Fits(outSize, serverRep)

(* A request that is complete and not carried out, and one carried out.    *)
Pending(t) == pc[t] = "signal" \/ (pc[t] = "wait" /\ (event["server"] \/ spc = "dispatch"))
Done(t) == pc[t] = "wait" /\ (event["client"] \/ spc \in {"serialize", "grow", "signal"})

(* The server reads requests where the client writes them, or where it has *)
(* left the name of the mapping that has the whole request.                *)
RequestLink ==
  /\ lock = NoThread => clientReq = serverReq
  /\ \A t \in Threads :
       /\ pc[t] \in {"write", "serialize", "grow"} =>
            serverReq = IF clientOld = NoMap THEN clientReq ELSE clientOld
       /\ Pending(t) =>
            /\ requests[clientReq] = [header |-> kind[t], body |-> CurrentCall(t)]
            /\ \/ clientReq = serverReq
               \/ requests[serverReq] = [header |-> "moved", body |-> <<"name", clientReq>>]
       /\ Done(t) => clientReq = serverReq

(* The client reads answers where the server writes them, or where it is   *)
(* told that they have moved.                                              *)
AnswerLink ==
  /\ IF serverOld = NoMap THEN clientRep = serverRep \/ answers[clientRep].header = "moved"
     ELSE clientRep = serverOld \/ answers[clientRep].header = "moved"
  /\ \A t \in Threads : pc[t] = "wait" /\ (event["client"] \/ spc = "signal") =>
       \/ answers[serverRep].header = "error"
       \/ answers[serverRep] = [header |-> "zero", body |-> CurrentCall(t)]

(* A call is carried out once it is done.                                  *)
RunsLink ==
  \A t \in Threads :
    /\ (pc[t] \notin {"idle", "wait"} \/ Pending(t)) => runs[t] = 0
    /\ Done(t) => runs[t] = 1 /\ answering = CurrentCall(t)

Links == ~broken => RequestLink /\ AnswerLink /\ RunsLink

IInv == TypeOK /\ Turns /\ Growing /\ Links

-----------------------------------------------------------------------------
(* Capacities.                                                             *)
LEMMA SmallestExists ==
  ASSUME NEW S, S \subseteq Capacities, S # {}
  PROVE  Smallest(S) \in S
<1> DEFINE Less == {ss \in Nat \X Nat : ss[1] < ss[2]}
<1>1. IsWellFoundedOn(Less, Nat)
  BY NatLessThanWellFounded DEF OpToRel
<1>2. S \subseteq Nat
  BY BridgeAssumption
<1>3. PICK n \in S : \A m \in S : <<m, n>> \notin Less
  <2> HIDE DEF Less
  <2> QED BY <1>1, <1>2, WFMin
<1>4. ASSUME NEW m \in S PROVE n <= m
  <2>1. m \in Nat /\ n \in Nat /\ <<m, n>> \in Nat \X Nat
    BY <1>2
  <2>2. ~(m < n)
    BY <1>3, <2>1
  <2> QED BY <2>1, <2>2
<1> QED BY <1>4 DEF Smallest

LEMMA Constants ==
  /\ Capacities \subseteq Nat /\ Initial \in Capacities /\ SomeSize \in Sizes /\ Sizes \subseteq Nat
  /\ NoThread \notin Threads /\ NoMap \notin Capacities
  /\ MaxCalls \in Nat
<1>1. Sizes # {} /\ \A n \in Sizes : n \in Nat /\ \E c \in Capacities : Header + n + Root <= c
  BY BridgeAssumption
<1>2. Capacities # {}
  BY <1>1
<1>3. Initial \in Capacities
  BY <1>2, SmallestExists DEF Initial
<1>4. SomeSize \in Sizes
  BY <1>1 DEF SomeSize
<1> QED BY <1>1, <1>3, <1>4, BridgeAssumption

(* A message that does not fit moves to a mapping that is larger.          *)
LEMMA GrownType ==
  ASSUME NEW n \in Sizes, NEW c \in Capacities
  PROVE  Grown(n, c) \in Capacities /\ (~Fits(n, c) => c < Grown(n, c))
<1> DEFINE Large == {d \in Capacities : d >= Needed(n, c)}
<1>1. /\ n \in Nat /\ c \in Nat /\ Needed(n, c) \in Nat
      /\ Needed(n, c) <= Header + n + Root /\ (~Fits(n, c) => c < Needed(n, c))
  BY Constants DEF Fits, Needed, Header, Root
<1>2. Large # {}
  <2>1. PICK d \in Capacities : Header + n + Root <= d
    BY BridgeAssumption
  <2>2. d \in Nat /\ Header + n + Root \in Nat
    BY <1>1, Constants DEF Header, Root
  <2>3. d >= Needed(n, c)
    BY <1>1, <2>1, <2>2
  <2> QED BY <2>3
<1>3. Grown(n, c) \in Large
  BY <1>2, SmallestExists DEF Grown
<1>4. Grown(n, c) \in Capacities /\ Grown(n, c) >= Needed(n, c)
  BY <1>3
<1>5. Grown(n, c) \in Nat
  BY <1>4, Constants
<1> QED BY <1>1, <1>4, <1>5

LEMMA InitOK == Init => IInv
<1> SUFFICES ASSUME Init PROVE IInv
  OBVIOUS
<1> USE Constants
<1>1. TypeOK
  <2>1. FreshMapping \in Mapping /\ <<"empty">> \in Bodies
    BY DEF FreshMapping, Mapping, Headers, Bodies
  <2>2. "zero_copy" \in Kinds
    BY DEF Kinds
  <2>3. /\ started = "no" /\ lock = NoThread /\ pc \in [Threads -> {"idle"}]
        /\ kind \in [Threads -> Kinds] /\ size \in [Threads -> Sizes]
        /\ calls \in [Threads -> 0 .. MaxCalls]
        /\ result \in [Threads -> {"none"}]
    BY <2>2 DEF Init
  <2>4. /\ {clientReq, clientRep, serverReq, serverRep} \subseteq Capacities
        /\ {clientOld, serverOld} \subseteq Capacities \cup {NoMap}
        /\ spc = "absent" /\ answering \in Bodies /\ outSize \in Sizes
    BY <2>1 DEF Init
  <2>5. /\ requests \in [Capacities -> Mapping] /\ answers \in [Capacities -> Mapping]
        /\ event \in [{"client", "server"} -> BOOLEAN]
        /\ runs \in [Threads -> Nat] /\ strays \in Nat /\ broken \in BOOLEAN
    BY <2>1 DEF Init
  <2> QED BY <2>3, <2>4, <2>5 DEF TypeOK
<1>2. Turns
  BY DEF Init, Turns, Inside
<1>3. Growing
  BY DEF Init, Growing
<1>4. Links
  BY DEF Init, Links, RequestLink, AnswerLink, RunsLink, Pending, Done
<1> QED BY <1>1, <1>2, <1>3, <1>4 DEF IInv

-----------------------------------------------------------------------------
(* Types.                                                                  *)
LEMMA BodyTypes ==
  /\ <<"empty">> \in Bodies /\ <<"partial">> \in Bodies
  /\ \A c \in Capacities : <<"name", c>> \in Bodies
  /\ TypeOK => \A t \in Threads : CurrentCall(t) \in Bodies
BY DEF Bodies, CallIds, CurrentCall, TypeOK

LEMMA MappingTypes ==
  /\ FreshMapping \in Mapping
  /\ \A h \in Headers, b \in Bodies : [header |-> h, body |-> b] \in Mapping
  /\ \A m \in Mapping : /\ m.header \in Headers /\ m.body \in Bodies
                        /\ \A h \in Headers : [m EXCEPT !.header = h] \in Mapping
                        /\ \A b \in Bodies : [m EXCEPT !.body = b] \in Mapping
  /\ Kinds \subseteq Headers /\ {"zero", "error", "moved", "startup"} \subseteq Headers
BY BodyTypes DEF Mapping, FreshMapping, Headers

LEMMA WrittenType ==
  ASSUME NEW mem \in [Capacities -> Mapping], NEW c \in Capacities,
         NEW old \in Capacities \cup {NoMap}, NEW h \in Headers, NEW b \in Bodies
  PROVE  Written(mem, old, c, h, b) \in [Capacities -> Mapping]
<1>1. [mem EXCEPT ![c] = [header |-> h, body |-> b]] \in [Capacities -> Mapping]
  BY MappingTypes
<1>2. [header |-> "moved", body |-> <<"name", c>>] \in Mapping
  BY MappingTypes, BodyTypes
<1> QED BY <1>1, <1>2 DEF Written, Forward

LEMMA TypeClient ==
  ASSUME TypeOK, NEW t \in Threads,
         Continue(t) \/ \E k \in Kinds, n \in Sizes : Begin(t, k, n)
  PROVE  TypeOK'
<1> USE Constants DEF server_vars, memory_vars, history_vars
<1>1. ASSUME NEW k \in Kinds, NEW n \in Sizes, Begin(t, k, n) PROVE TypeOK'
  <2>1. calls'[t] \in 0 .. MaxCalls /\ calls' \in [Threads -> 0 .. MaxCalls]
    BY <1>1 DEF Begin, TypeOK
  <2>2. /\ pc' \in [Threads -> {"idle", "get", "handshake", "lock", "write", "serialize", "grow",
                                "signal", "wait"}]
        /\ kind' \in [Threads -> Kinds] /\ size' \in [Threads -> Sizes]
        /\ result' \in [Threads -> {"none", "ok", "error", "wrong"}]
        /\ runs' \in [Threads -> Nat]
    BY <1>1 DEF Begin, TypeOK
  <2> QED BY <1>1, <2>1, <2>2 DEF Begin, TypeOK
<1>2. CASE Get(t)
  BY <1>2 DEF Get, Return, TypeOK
<1>3. CASE Handshake(t)
  BY <1>3 DEF Handshake, Return, Reset, TypeOK
<1>4. CASE Lock(t)
  BY <1>4 DEF Lock, TypeOK
<1>5. CASE Write(t)
  <2>1. requests' \in [Capacities -> Mapping]
    <3>1. clientReq \in Capacities /\ requests[clientReq] \in Mapping
          /\ kind[t] \in Headers /\ CurrentCall(t) \in Bodies
      BY BodyTypes, MappingTypes DEF TypeOK
    <3>2. ASSUME NEW b \in Bodies
          PROVE  [requests EXCEPT ![clientReq].header = kind[t], ![clientReq].body = b]
                   \in [Capacities -> Mapping]
      BY <3>1 DEF TypeOK, Mapping
    <3> QED BY <1>5, <3>1, <3>2, MappingTypes DEF Write, TypeOK
  <2> QED BY <1>5, <2>1 DEF Write, TypeOK
<1>6. CASE Serialize(t)
  <2>1. /\ clientReq \in Capacities /\ clientOld \in Capacities \cup {NoMap}
        /\ requests \in [Capacities -> Mapping] /\ requests[clientReq] \in Mapping
        /\ kind[t] \in Headers /\ CurrentCall(t) \in Bodies
    BY BodyTypes, MappingTypes DEF TypeOK
  <2>2. [requests EXCEPT ![clientReq].body = <<"partial">>] \in [Capacities -> Mapping]
    BY <2>1, BodyTypes, MappingTypes
  <2>3. Written(requests, clientOld, clientReq, kind[t], CurrentCall(t)) \in [Capacities -> Mapping]
    BY <2>1, WrittenType
  <2>4. requests' \in [Capacities -> Mapping]
    BY <1>6, <2>2, <2>3 DEF Serialize
  <2> QED BY <1>6, <2>4 DEF Serialize, GiveUp, Return, Unlock, TypeOK
<1>7. CASE Grow(t)
  <2>1. CASE GiveUp(t) /\ UNCHANGED <<clientReq, requests>>
    <3>1. pc' \in [Threads -> {"idle", "get", "handshake", "lock", "write", "serialize", "grow",
                               "signal", "wait"}]
          /\ result' \in [Threads -> {"none", "ok", "error", "wrong"}]
          /\ lock' = NoThread /\ broken' \in BOOLEAN /\ clientOld' = NoMap
      BY <2>1 DEF GiveUp, Return, Unlock, TypeOK
    <3> QED BY <1>7, <2>1, <3>1 DEF Grow, TypeOK
  <2>2. CASE /\ clientReq' = Grown(size[t], clientReq)
             /\ requests' = [requests EXCEPT ![clientReq'] = FreshMapping]
             /\ clientOld' = Replaced(clientOld, clientReq)
             /\ pc' = [pc EXCEPT ![t] = "serialize"]
             /\ UNCHANGED <<lock, result, broken>>
    <3>1. clientReq' \in Capacities
      BY <2>2, GrownType DEF TypeOK
    <3>2. requests' \in [Capacities -> Mapping] /\ clientOld' \in Capacities \cup {NoMap}
      BY <2>2, MappingTypes DEF TypeOK, Replaced
    <3> QED BY <1>7, <2>2, <3>1, <3>2 DEF Grow, TypeOK
  <2> QED BY <1>7, <2>1, <2>2 DEF Grow
<1>8. CASE Signal(t)
  BY <1>8 DEF Signal, Signalled, TypeOK
<1>9. CASE Wake(t)
  BY <1>9 DEF Wake, Return, Unlock, Reset, Read, TypeOK
<1> QED BY <1>1, <1>2, <1>3, <1>4, <1>5, <1>6, <1>7, <1>8, <1>9 DEF Continue

LEMMA TypeServer ==
  ASSUME TypeOK, Server
  PROVE  TypeOK'
<1> USE Constants DEF client_vars, memory_vars, history_vars
<1>1. serverRep \in Capacities /\ answers[serverRep] \in Mapping
  BY DEF TypeOK
<1>2. ASSUME NEW h \in Headers
      PROVE  [answers EXCEPT ![serverRep].header = h] \in [Capacities -> Mapping]
  BY <1>1, MappingTypes DEF TypeOK
<1>3. CASE Boot
  <2>1. answers' \in [Capacities -> Mapping]
    BY <1>2, <1>3, MappingTypes DEF Boot, TypeOK
  <2> QED BY <1>3, <2>1 DEF Boot, Signalled, TypeOK
<1>4. CASE ServerWakes
  BY <1>4 DEF ServerWakes, Reset, TypeOK
<1>5. CASE FollowMove
  BY <1>5 DEF FollowMove, TypeOK
<1>6. CASE Execute
  <2>1. /\ runs' \in [Threads -> Nat] /\ strays' \in Nat
        /\ answering' \in Bodies
    <3>1. requests[serverReq] \in Mapping
      BY DEF TypeOK
    <3> QED BY <1>6, <3>1, MappingTypes DEF Execute, TypeOK
  <2>2. Written(answers, NoMap, serverRep, "zero", answering') \in [Capacities -> Mapping]
    BY <1>1, <2>1, WrittenType, MappingTypes DEF TypeOK
  <2>3. answers' \in [Capacities -> Mapping]
    <3>1. /\ [answers EXCEPT ![serverRep].header = "error"] \in [Capacities -> Mapping]
          /\ [answers EXCEPT ![serverRep].header = "zero"] \in [Capacities -> Mapping]
      BY <1>2, MappingTypes
    <3>2. answers' \in {[answers EXCEPT ![serverRep].header = "error"],
                        [answers EXCEPT ![serverRep].header = "zero"],
                        Written(answers, NoMap, serverRep, "zero", answering')}
      BY <1>6 DEF Execute
    <3> QED BY <2>2, <3>1, <3>2
  <2>4. outSize' \in Sizes /\ spc' \in {"signal", "serialize"}
    BY <1>6 DEF Execute, TypeOK
  <2> QED BY <1>6, <2>1, <2>3, <2>4 DEF Execute, TypeOK
<1>7. CASE ServerSerializes
  <2>1. /\ answering \in Bodies /\ serverOld \in Capacities \cup {NoMap}
        /\ answers \in [Capacities -> Mapping]
    BY DEF TypeOK
  <2>2. Written(answers, serverOld, serverRep, "zero", answering) \in [Capacities -> Mapping]
    BY <1>1, <2>1, WrittenType, MappingTypes
  <2>3. /\ [answers EXCEPT ![serverRep].body = <<"partial">>] \in [Capacities -> Mapping]
        /\ [answers EXCEPT ![serverRep] = [header |-> "error", body |-> <<"partial">>]]
             \in [Capacities -> Mapping]
    BY <1>1, <2>1, BodyTypes, MappingTypes
  <2>4. answers' \in [Capacities -> Mapping]
    BY <1>7, <2>2, <2>3 DEF ServerSerializes
  <2> QED BY <1>7, <2>4 DEF ServerSerializes, AnswerError, TypeOK
<1>8. CASE ServerGrows
  <2>1. Grown(outSize, serverRep) \in Capacities
    BY GrownType DEF TypeOK
  <2>2. CASE /\ serverRep' = Grown(outSize, serverRep)
             /\ answers' = [answers EXCEPT ![serverRep'] = FreshMapping]
             /\ serverOld' = Replaced(serverOld, serverRep)
             /\ spc' = "serialize"
             /\ UNCHANGED broken
    <3>1. answers' \in [Capacities -> Mapping] /\ serverOld' \in Capacities \cup {NoMap}
      BY <2>1, <2>2, MappingTypes DEF TypeOK, Replaced
    <3> QED BY <1>8, <2>1, <2>2, <3>1 DEF ServerGrows, TypeOK
  <2>3. CASE /\ answers' = [answers EXCEPT ![serverRep].header = "error"]
             /\ AnswerError
             /\ UNCHANGED serverRep
    <3>1. answers' \in [Capacities -> Mapping]
      BY <1>2, <2>3, MappingTypes
    <3> QED BY <1>8, <2>3, <3>1 DEF ServerGrows, AnswerError, TypeOK
  <2> QED BY <1>8, <2>2, <2>3 DEF ServerGrows
<1>9. CASE ServerSignals
  BY <1>9 DEF ServerSignals, Signalled, TypeOK
<1> QED BY <1>3, <1>4, <1>5, <1>6, <1>7, <1>8, <1>9 DEF Server

-----------------------------------------------------------------------------
(* Turns.                                                                  *)
LEMMA ServersTurn ==
  ASSUME TypeOK, Turns,
         spc \in {"dispatch", "serialize", "grow", "signal"} \/ event["server"]
  PROVE  /\ started = "ok" /\ lock \in Threads /\ lock # NoThread /\ pc[lock] = "wait"
         /\ ~event["client"] /\ (event["server"] <=> spc = "wait")
<1>1. started \in {"no", "starting", "ok", "failed"} /\ lock \in Threads \cup {NoThread}
  BY DEF TypeOK
<1>2. started = "ok"
  BY <1>1 DEF Turns
<1>3. lock # NoThread /\ pc[lock] = "wait" /\ Serving
  BY <1>2 DEF Turns, Quiet
<1> QED BY <1>1, <1>2, <1>3 DEF Serving

LEMMA TurnsServer ==
  ASSUME TypeOK, Turns, Server
  PROVE  Turns'
<1> USE DEF client_vars, memory_vars, history_vars
<1>1. CASE Boot
  <2>1. started = "starting" /\ UNCHANGED <<started, client_vars>>
    BY <1>1 DEF Boot, Turns, Quiet, Serving, TypeOK
  <2>2. spc' \in {"wait", "dead"} /\ ~event'["server"] /\ (event'["client"] <=> spc' = "wait")
    BY <1>1, <2>1 DEF Boot, Turns, Signalled, TypeOK
  <2> QED BY <2>1, <2>2 DEF Turns
<1>2. ASSUME started = "ok", lock # NoThread, pc[lock] = "wait", Serving',
             UNCHANGED <<started, client_vars>>
      PROVE  Turns'
  BY <1>2 DEF Turns
<1>3. CASE ServerWakes
  <2>1. Serving'
    BY <1>3, ServersTurn DEF ServerWakes, Reset, Serving, TypeOK
  <2> QED BY <1>2, <1>3, <2>1, ServersTurn DEF ServerWakes
<1>4. CASE FollowMove
  <2>1. Serving'
    BY <1>4, ServersTurn DEF FollowMove, Serving, TypeOK
  <2> QED BY <1>2, <1>4, <2>1, ServersTurn DEF FollowMove
<1>5. CASE Execute
  <2>1. spc' \in {"serialize", "signal"} /\ UNCHANGED event
    BY <1>5 DEF Execute
  <2>2. Serving'
    BY <1>5, <2>1, ServersTurn DEF Execute, Serving
  <2> QED BY <1>2, <1>5, <2>2, ServersTurn DEF Execute
<1>6. CASE ServerSerializes
  <2>1. spc' \in {"grow", "signal"} /\ UNCHANGED event
    BY <1>6 DEF ServerSerializes, AnswerError
  <2>2. Serving'
    BY <1>6, <2>1, ServersTurn DEF ServerSerializes, Serving
  <2> QED BY <1>2, <1>6, <2>2, ServersTurn DEF ServerSerializes
<1>7. CASE ServerGrows
  <2>1. spc' \in {"serialize", "signal"} /\ UNCHANGED event
    BY <1>7 DEF ServerGrows, AnswerError
  <2>2. Serving'
    BY <1>7, <2>1, ServersTurn DEF ServerGrows, Serving
  <2> QED BY <1>2, <1>7, <2>2, ServersTurn DEF ServerGrows
<1>8. CASE ServerSignals
  <2>1. Serving'
    BY <1>8, ServersTurn DEF ServerSignals, Signalled, Serving, TypeOK
  <2> QED BY <1>2, <1>8, <2>1, ServersTurn DEF ServerSignals
<1> QED BY <1>1, <1>3, <1>4, <1>5, <1>6, <1>7, <1>8 DEF Server

(* A thread leaves or goes on inside a call.                               *)
LEMMA ClientsTurn ==
  ASSUME TypeOK, Turns, NEW t \in Threads, pc[t] \in Inside
  PROVE  /\ started = "ok" /\ lock = t /\ lock # NoThread
         /\ \A u \in Threads : u # t => pc[u] \notin Inside
         /\ pc[t] # "wait" => Quiet
         /\ pc[t] = "wait" => Serving
BY Constants DEF Turns

LEMMA TurnsKept ==
  ASSUME TypeOK, Turns, NEW t \in Threads, pc[t] \in Inside, started' = started,
         \/ /\ lock' = lock
            /\ \E where \in Inside : pc' = [pc EXCEPT ![t] = where]
            /\ IF pc'[t] = "wait" THEN Serving' ELSE Quiet'
         \/ /\ lock' = NoThread
            /\ pc' = [pc EXCEPT ![t] = "idle"]
            /\ Quiet'
  PROVE  Turns'
<1>1. /\ started = "ok" /\ lock = t /\ lock # NoThread
      /\ \A u \in Threads : u # t => pc[u] \notin Inside
  BY ClientsTurn
<1>2. CASE lock' = lock /\ pc'[t] \in Inside /\ pc' = [pc EXCEPT ![t] = pc'[t]]
           /\ IF pc'[t] = "wait" THEN Serving' ELSE Quiet'
  BY <1>1, <1>2 DEF Turns, Inside, TypeOK
<1>3. CASE lock' = NoThread /\ pc' = [pc EXCEPT ![t] = "idle"] /\ Quiet'
  BY <1>1, <1>3 DEF Turns, Inside, TypeOK
<1> QED BY <1>2, <1>3 DEF TypeOK

LEMMA TurnsClient ==
  ASSUME TypeOK, Turns, NEW t \in Threads,
         Continue(t) \/ \E k \in Kinds, n \in Sizes : Begin(t, k, n)
  PROVE  Turns'
<1> USE DEF server_vars, memory_vars, history_vars
<1>1. ASSUME NEW k \in Kinds, NEW n \in Sizes, Begin(t, k, n) PROVE Turns'
  BY <1>1 DEF Begin, Turns, Inside, Quiet, Serving, TypeOK
<1>2. CASE Get(t)
  BY <1>2 DEF Get, Return, Turns, Inside, Quiet, Serving, TypeOK
<1>3. CASE Handshake(t)
  BY <1>3 DEF Handshake, Return, Reset, Turns, Inside, Quiet, Serving, TypeOK
<1>4. CASE Lock(t)
  BY <1>4, Constants DEF Lock, Turns, Inside, Quiet, Serving, TypeOK
<1>5. CASE Write(t)
  <2>1. pc[t] \in Inside /\ pc[t] # "wait"
    BY <1>5 DEF Write, Inside
  <2>2. Quiet'
    BY <1>5, <2>1, ClientsTurn DEF Write, Quiet
  <2> QED BY <1>5, <2>1, <2>2, TurnsKept DEF Write, Inside, TypeOK
<1>6. CASE Serialize(t)
  <2>1. pc[t] \in Inside /\ pc[t] # "wait"
    BY <1>6 DEF Serialize, Inside
  <2>2. Quiet'
    BY <1>6, <2>1, ClientsTurn DEF Serialize, Quiet
  <2> QED BY <1>6, <2>1, <2>2, TurnsKept DEF Serialize, GiveUp, Return, Unlock, Inside, TypeOK
<1>7. CASE Grow(t)
  <2>1. pc[t] \in Inside /\ pc[t] # "wait"
    BY <1>7 DEF Grow, Inside
  <2>2. Quiet'
    BY <1>7, <2>1, ClientsTurn DEF Grow, Quiet
  <2> QED BY <1>7, <2>1, <2>2, TurnsKept DEF Grow, GiveUp, Return, Unlock, Inside, TypeOK
<1>8. CASE Signal(t)
  <2>1. pc[t] \in Inside /\ pc[t] # "wait"
    BY <1>8 DEF Signal, Inside
  <2>2. Serving'
    BY <1>8, <2>1, ClientsTurn DEF Signal, Signalled, Quiet, Serving, TypeOK
  <2> QED BY <1>8, <2>1, <2>2, TurnsKept DEF Signal, Inside, TypeOK
<1>9. CASE Wake(t)
  <2>1. pc[t] \in Inside /\ pc[t] = "wait" /\ pc' = [pc EXCEPT ![t] = "idle"]
    BY <1>9 DEF Wake, Return, Inside
  <2>2. Quiet'
    BY <1>9, <2>1, ClientsTurn DEF Wake, Reset, Quiet, Serving, TypeOK
  <2> QED BY <1>9, <2>1, <2>2, TurnsKept DEF Wake, Unlock
<1> QED BY <1>1, <1>2, <1>3, <1>4, <1>5, <1>6, <1>7, <1>8, <1>9 DEF Continue

-----------------------------------------------------------------------------
(* Mappings grow.                                                          *)
LEMMA GrowingClient ==
  ASSUME TypeOK, Turns, Growing, NEW t \in Threads,
         Continue(t) \/ \E k \in Kinds, n \in Sizes : Begin(t, k, n)
  PROVE  Growing'
<1> USE Constants DEF server_vars, memory_vars, history_vars
<1>0. /\ clientReq \in Nat /\ clientRep \in Nat /\ serverRep \in Nat
      /\ clientOld # NoMap => clientOld \in Nat
      /\ serverOld # NoMap => serverOld \in Nat
  BY DEF TypeOK
<1>1. ASSUME NEW k \in Kinds, NEW n \in Sizes, Begin(t, k, n) PROVE Growing'
  BY <1>1 DEF Begin, Growing, Fits, TypeOK
<1>2. CASE Get(t)
  <2>1. started = "no" => serverOld = NoMap
    BY DEF Turns, Growing
  <2>2. clientOld' = clientOld /\ serverOld' = serverOld /\ UNCHANGED <<lock, clientReq, clientRep, serverRep, size, outSize>>
    BY <1>2 DEF Get
  <2>3. lock # NoThread /\ pc[lock] \in {"serialize", "grow"} => pc'[lock] = pc[lock]
    BY <1>2 DEF Get, Return, TypeOK
  <2>4. \A u \in Threads : pc'[u] = "grow" => pc[u] = "grow"
    BY <1>2 DEF Get, Return, TypeOK
  <2>5. spc' = spc \/ (started = "no" /\ spc' = "boot")
    BY <1>2 DEF Get
  <2> QED BY <2>1, <2>2, <2>3, <2>4, <2>5 DEF Growing, Fits
<1>3. CASE Handshake(t)
  BY <1>3 DEF Handshake, Return, Growing, Fits, TypeOK
<1>4. CASE Lock(t)
  BY <1>4 DEF Lock, Growing, Fits, TypeOK
<1>5. CASE Write(t)
  BY <1>5, ClientsTurn DEF Write, Growing, Inside, Fits, TypeOK
<1>6. CASE Serialize(t)
  <2>1. pc[t] \in Inside
    BY <1>6 DEF Serialize, Inside
  <2>2. UNCHANGED <<clientReq, clientRep, server_vars, size>>
    BY <1>6 DEF Serialize
  <2>3. CASE clientOld' = NoMap /\ \A u \in Threads : pc'[u] = "grow" => pc[u] = "grow"
    BY <2>2, <2>3 DEF Growing, Fits
  <2>4. CASE ~Fits(size[t], clientReq) /\ pc' = [pc EXCEPT ![t] = "grow"]
             /\ UNCHANGED <<lock, clientOld>>
    BY <2>1, <2>2, <2>4, ClientsTurn DEF Growing, Fits, Inside, TypeOK
  <2>5. CASE GiveUp(t)
    BY <2>3, <2>5 DEF GiveUp, Return, TypeOK
  <2>6. CASE clientOld' = NoMap /\ pc' = [pc EXCEPT ![t] = "signal"]
    BY <2>3, <2>6 DEF TypeOK
  <2> QED BY <1>6, <2>4, <2>5, <2>6 DEF Serialize
<1>7. CASE Grow(t)
  <2>1. pc[t] = "grow" /\ pc[t] \in Inside /\ ~Fits(size[t], clientReq)
        /\ lock = t /\ \A u \in Threads : u # t => pc[u] # "grow"
    BY <1>7, ClientsTurn DEF Grow, Growing, Inside
  <2>2. UNCHANGED <<clientRep, server_vars, size>>
    BY <1>7 DEF Grow
  <2>3. CASE GiveUp(t)
    BY <2>1, <2>2, <2>3 DEF GiveUp, Return, Growing, TypeOK
  <2>4. CASE /\ clientReq' = Grown(size[t], clientReq)
             /\ clientOld' = Replaced(clientOld, clientReq)
             /\ pc' = [pc EXCEPT ![t] = "serialize"]
             /\ UNCHANGED <<lock, result, broken>>
    <3>1. clientReq < clientReq' /\ clientReq' \in Nat
      BY <2>1, <2>4, GrownType DEF TypeOK
    <3>2. clientOld' < clientReq'
      BY <1>0, <2>4, <3>1 DEF Growing, Replaced
    <3>3. lock' = t /\ pc'[t] = "serialize" /\ \A u \in Threads : pc'[u] # "grow"
      BY <2>1, <2>4 DEF TypeOK
    <3> QED BY <2>1, <2>2, <3>2, <3>3 DEF Growing, Fits
  <2> QED BY <1>7, <2>3, <2>4 DEF Grow
<1>8. CASE Signal(t)
  BY <1>8, ClientsTurn DEF Signal, Growing, Inside, Fits, TypeOK
<1>9. CASE Wake(t)
  <2>1. lock = t /\ clientOld = NoMap /\ spc = "wait" /\ serverOld = NoMap
    BY <1>9, ClientsTurn DEF Wake, Inside, Growing, Serving
  <2>2. clientRep' \in {clientRep, serverRep} /\ UNCHANGED <<clientOld, clientReq, server_vars, size>>
        /\ \A u \in Threads : pc'[u] = "grow" => pc[u] = "grow"
    BY <1>9 DEF Wake, Return, TypeOK
  <2> QED BY <1>0, <2>1, <2>2 DEF Growing, Fits
<1> QED BY <1>1, <1>2, <1>3, <1>4, <1>5, <1>6, <1>7, <1>8, <1>9 DEF Continue

LEMMA GrowingServer ==
  ASSUME TypeOK, Growing, Server
  PROVE  Growing'
<1> USE Constants DEF client_vars, memory_vars, history_vars
<1>0. /\ clientRep \in Nat /\ serverRep \in Nat /\ (serverOld # NoMap => serverOld \in Nat)
  BY DEF TypeOK
<1>1. CASE Boot \/ ServerWakes \/ FollowMove \/ Execute \/ ServerSignals
  <2>1. spc' # "grow" /\ serverOld = NoMap /\ UNCHANGED <<client_vars, serverOld, serverRep>>
    BY <1>1 DEF Boot, ServerWakes, FollowMove, Execute, ServerSignals, Growing
  <2> QED BY <2>1 DEF Growing, Fits
<1>2. CASE ServerSerializes
  <2>1. UNCHANGED <<client_vars, serverRep, outSize>> /\ spc = "serialize"
    BY <1>2 DEF ServerSerializes
  <2>2. \/ serverOld' = NoMap /\ spc' = "signal"
        \/ ~Fits(outSize, serverRep) /\ spc' = "grow" /\ serverOld' = serverOld
    BY <1>2 DEF ServerSerializes, AnswerError
  <2> QED BY <2>1, <2>2 DEF Growing, Fits
<1>3. CASE ServerGrows
  <2>1. UNCHANGED <<client_vars, outSize>> /\ spc = "grow" /\ ~Fits(outSize, serverRep)
    BY <1>3 DEF ServerGrows, Growing
  <2>2. CASE serverRep' = Grown(outSize, serverRep) /\ serverOld' = Replaced(serverOld, serverRep)
             /\ spc' = "serialize"
    <3>1. serverRep < serverRep' /\ serverRep' \in Nat
      BY <2>1, <2>2, GrownType DEF TypeOK
    <3>2. clientRep <= serverOld' /\ serverOld' < serverRep' /\ clientRep <= serverRep'
      BY <1>0, <2>2, <3>1 DEF Growing, Replaced
    <3> QED BY <2>1, <2>2, <3>2 DEF Growing, Fits
  <2>3. CASE AnswerError /\ serverRep' = serverRep
    BY <2>1, <2>3 DEF AnswerError, Growing, Fits
  <2> QED BY <1>3, <2>2, <2>3 DEF ServerGrows
<1> QED BY <1>1, <1>2, <1>3 DEF Server

-----------------------------------------------------------------------------
(* Links.                                                                  *)

(* A step outside of the exchange of messages.                             *)
LEMMA LinksFrame ==
  ASSUME TypeOK, Links,
         UNCHANGED <<lock, clientReq, clientRep, clientOld, serverReq, serverRep, serverOld,
                     requests, answers, answering, broken>>,
         \A u \in Threads : pc'[u] \in Inside =>
           /\ pc'[u] = pc[u] /\ kind'[u] = kind[u] /\ calls'[u] = calls[u] /\ runs'[u] = runs[u]
           /\ event' = event /\ spc' = spc,
         ~broken => \A u \in Threads : pc'[u] \notin Inside \cup {"idle"} => runs'[u] = 0
  PROVE  Links'
<1> SUFFICES ASSUME ~broken PROVE (RequestLink /\ AnswerLink /\ RunsLink)'
  BY DEF Links
<1>1. RequestLink /\ AnswerLink /\ RunsLink
  BY DEF Links
<1>2. \A u \in Threads : pc'[u] \in Inside => CurrentCall(u)' = CurrentCall(u)
  BY DEF CurrentCall
<1>3. \A u \in Threads : /\ Pending(u)' => Pending(u) /\ pc'[u] \in Inside
                         /\ Done(u)' => Done(u) /\ pc'[u] \in Inside
  BY DEF Pending, Done, Inside
<1>4. RequestLink'
  BY <1>1, <1>2, <1>3 DEF RequestLink, Inside
<1>5. AnswerLink'
  BY <1>1, <1>2 DEF AnswerLink, Inside
<1>6. RunsLink'
  BY <1>1, <1>2, <1>3 DEF RunsLink, Inside
<1> QED BY <1>4, <1>5, <1>6

LEMMA LinksOutside ==
  ASSUME IInv, NEW t \in Threads,
         Get(t) \/ Handshake(t) \/ \E k \in Kinds, n \in Sizes : Begin(t, k, n)
  PROVE  Links'
<1> USE DEF server_vars, memory_vars, history_vars
<1>1. TypeOK /\ Turns /\ Links
  BY DEF IInv
<1>2. pc[t] \in {"idle", "get", "handshake"}
  BY DEF Get, Handshake, Begin
<1>3. ~broken => \A u \in Threads : pc[u] \notin Inside \cup {"idle"} => runs[u] = 0
  BY <1>1 DEF Links, RunsLink, Inside
<1>4. ASSUME NEW k \in Kinds, NEW n \in Sizes, Begin(t, k, n) PROVE Links'
  BY <1>1, <1>3, <1>4, LinksFrame DEF Begin, Inside, TypeOK
<1>5. CASE Get(t)
  <2>1. UNCHANGED <<lock, clientReq, clientRep, clientOld, serverReq, serverRep, serverOld,
                    requests, answers, answering, broken, kind, calls, runs, event>>
    BY <1>5 DEF Get
  <2>2. \A u \in Threads : pc'[u] \in Inside => pc'[u] = pc[u] /\ started = "ok" /\ spc' = spc
    BY <1>1, <1>5 DEF Get, Return, Turns, Inside, TypeOK
  <2>3. \A u \in Threads : pc'[u] \notin {"idle"} => pc[u] # "idle" /\ (pc'[u] = pc[u] \/ u = t)
    BY <1>1, <1>5 DEF Get, Return, TypeOK
  <2> QED BY <1>1, <1>2, <1>3, <2>1, <2>2, <2>3, LinksFrame DEF Inside
<1>6. CASE Handshake(t)
  <2>1. UNCHANGED <<lock, clientReq, clientRep, clientOld, serverReq, serverRep, serverOld,
                    requests, answers, answering, broken, kind, calls, runs>>
    BY <1>6 DEF Handshake
  <2>2. \A u \in Threads : pc'[u] \notin Inside
    BY <1>1, <1>6 DEF Handshake, Return, Turns, Inside, TypeOK
  <2>3. \A u \in Threads : pc'[u] \notin {"idle"} => pc[u] # "idle" /\ (pc'[u] = pc[u] \/ u = t)
    BY <1>1, <1>6 DEF Handshake, Return, TypeOK
  <2> QED BY <1>1, <1>2, <1>3, <2>1, <2>2, <2>3, LinksFrame DEF Inside
<1> QED BY <1>4, <1>5, <1>6

(* One thread at most is inside.                                           *)
LEMMA NobodyElse ==
  ASSUME TypeOK, Turns, NEW t \in Threads, pc[t] \in Inside,
         NEW where, pc' = [pc EXCEPT ![t] = where]
  PROVE  /\ pc'[t] = where
         /\ \A u \in Threads : u # t => pc'[u] = pc[u] /\ pc'[u] \notin Inside
BY ClientsTurn DEF TypeOK

LEMMA LinksLock ==
  ASSUME IInv, NEW t \in Threads, Lock(t)
  PROVE  Links'
<1> SUFFICES ASSUME ~broken PROVE (RequestLink /\ AnswerLink /\ RunsLink)'
  BY DEF Lock, Links, history_vars
<1>1. TypeOK /\ Turns /\ Growing /\ RequestLink /\ AnswerLink /\ RunsLink
  BY DEF IInv, Links
<1>2. lock = NoThread /\ lock' = t /\ pc[t] = "lock" /\ pc' = [pc EXCEPT ![t] = "write"]
      /\ clientReq = serverReq /\ clientOld = NoMap
  BY <1>1 DEF Lock, Growing, RequestLink
<1>3. /\ \A u \in Threads : pc[u] \notin Inside
      /\ \A u \in Threads : u # t => pc'[u] = pc[u]
      /\ pc'[t] = "write"
  BY <1>1, <1>2, Constants DEF Turns, TypeOK
<1>4. UNCHANGED <<kind, size, calls, clientReq, clientRep, clientOld, server_vars, memory_vars,
                  history_vars>>
  BY DEF Lock
<1>5. RequestLink'
  BY <1>2, <1>3, <1>4, Constants DEF RequestLink, Pending, Done, Inside, server_vars
<1>6. AnswerLink'
  BY <1>1, <1>3, <1>4 DEF AnswerLink, Inside, server_vars, memory_vars
<1>7. RunsLink'
  BY <1>1, <1>2, <1>3, <1>4 DEF RunsLink, Pending, Done, Inside, history_vars
<1> QED BY <1>5, <1>6, <1>7

LEMMA LinksWrite ==
  ASSUME IInv, NEW t \in Threads, Write(t)
  PROVE  Links'
<1> SUFFICES ASSUME ~broken PROVE (RequestLink /\ AnswerLink /\ RunsLink)'
  BY DEF Write, Links, history_vars
<1>1. TypeOK /\ Turns /\ Growing /\ RequestLink /\ AnswerLink /\ RunsLink
  BY DEF IInv, Links
<1>2. pc[t] = "write" /\ pc[t] \in Inside /\ lock = t /\ clientOld = NoMap
  BY <1>1, ClientsTurn DEF Write, Inside, Growing
<1>3. UNCHANGED <<lock, kind, size, calls, clientReq, clientRep, clientOld, server_vars, answers,
                  event, history_vars>>
  BY DEF Write
<1>4. /\ pc'[t] = IF kind[t] = "framed_in" THEN "serialize" ELSE "signal"
      /\ \A u \in Threads : u # t => pc'[u] = pc[u] /\ pc'[u] \notin Inside
  BY <1>1, <1>2, NobodyElse DEF Write
<1>5. kind[t] # "framed_in" =>
        requests'[clientReq] = [header |-> kind[t], body |-> CurrentCall(t)]
  BY <1>1 DEF Write, TypeOK, Mapping
<1>6. Quiet /\ clientReq = serverReq /\ CurrentCall(t)' = CurrentCall(t) /\ runs[t] = 0
  BY <1>1, <1>2, <1>3, ClientsTurn DEF RequestLink, RunsLink, CurrentCall
<1>7. RequestLink'
  BY <1>2, <1>3, <1>4, <1>5, <1>6, Constants DEF RequestLink, Pending, Done, Inside, server_vars
<1>8. AnswerLink'
  BY <1>1, <1>3, <1>4 DEF AnswerLink, Inside, server_vars
<1>9. RunsLink'
  BY <1>1, <1>2, <1>3, <1>4, <1>6 DEF RunsLink, Pending, Done, Inside, history_vars
<1> QED BY <1>7, <1>8, <1>9

(* The thread inside a call gives up before it has replaced a mapping.     *)
LEMMA LinksGiveUp ==
  ASSUME IInv, NEW t \in Threads, pc[t] \in {"serialize", "grow"}, GiveUp(t),
         UNCHANGED <<kind, calls, clientReq, clientRep, server_vars, answers, event, runs>>
  PROVE  Links'
<1> SUFFICES ASSUME ~broken, clientOld = NoMap PROVE (RequestLink /\ AnswerLink /\ RunsLink)'
  BY DEF GiveUp, Links
<1>1. TypeOK /\ Turns /\ RequestLink /\ AnswerLink /\ RunsLink
  BY DEF IInv, Links
<1>2. pc[t] \in Inside /\ clientReq = serverReq /\ lock' = NoThread /\ clientOld' = NoMap
      /\ pc' = [pc EXCEPT ![t] = "idle"]
  BY <1>1 DEF Inside, RequestLink, GiveUp, Return, Unlock
<1>3. pc'[t] = "idle" /\ \A u \in Threads : u # t => pc'[u] = pc[u] /\ pc'[u] \notin Inside
  BY <1>1, <1>2, NobodyElse
<1>4. RequestLink'
  BY <1>2, <1>3 DEF RequestLink, Pending, Done, Inside, server_vars
<1>5. AnswerLink'
  BY <1>1, <1>3 DEF AnswerLink, Inside, server_vars
<1>6. RunsLink'
  BY <1>1, <1>3 DEF RunsLink, Pending, Done, Inside
<1> QED BY <1>4, <1>5, <1>6

LEMMA LinksSerialize ==
  ASSUME IInv, NEW t \in Threads, Serialize(t)
  PROVE  Links'
<1> USE Constants
<1>1. TypeOK /\ Turns /\ Growing /\ Links
  BY DEF IInv
<1>2. /\ pc[t] = "serialize" /\ pc[t] \in Inside /\ lock = t /\ Quiet
      /\ UNCHANGED <<kind, size, calls, clientReq, clientRep, server_vars, answers, event, runs>>
  BY <1>1, ClientsTurn DEF Serialize, Inside
<1>3. CASE GiveUp(t)
  BY <1>2, <1>3, LinksGiveUp
<1>4. CASE ~GiveUp(t)
  <2> SUFFICES ASSUME ~broken PROVE (RequestLink /\ AnswerLink /\ RunsLink)'
    BY <1>4 DEF Serialize, Links
  <2>1. RequestLink /\ AnswerLink /\ RunsLink
    BY <1>1 DEF Links
  <2>2. serverReq = (IF clientOld = NoMap THEN clientReq ELSE clientOld) /\ runs[t] = 0
        /\ CurrentCall(t)' = CurrentCall(t)
    BY <1>2, <2>1 DEF RequestLink, RunsLink, CurrentCall
  <2>3. lock' = lock /\ \E where \in {"signal", "grow"} : pc' = [pc EXCEPT ![t] = where]
    BY <1>4 DEF Serialize
  <2>4. pc'[t] \in {"signal", "grow"}
        /\ \A u \in Threads : u # t => pc'[u] = pc[u] /\ pc'[u] \notin Inside
    BY <1>1, <1>2, <2>3, NobodyElse
  <2>5. CASE pc'[t] = "grow"
    <3>1. clientOld' = clientOld
      BY <1>1, <1>4, <2>5 DEF Serialize, TypeOK
    <3>2. RequestLink'
      BY <1>2, <2>2, <2>3, <2>4, <2>5, <3>1 DEF RequestLink, Pending, Done, Inside, server_vars
    <3>3. AnswerLink' /\ RunsLink'
      BY <1>2, <2>1, <2>2, <2>4, <2>5
        DEF AnswerLink, RunsLink, Pending, Done, Inside, server_vars
    <3> QED BY <3>2, <3>3
  <2>6. CASE pc'[t] = "signal"
    <3>1. requests' = Written(requests, clientOld, clientReq, kind[t], CurrentCall(t))
          /\ clientOld' = NoMap
      BY <1>1, <1>4, <2>6 DEF Serialize, TypeOK
    <3>2. clientReq \in Capacities /\ clientReq \in Nat
          /\ (clientOld # NoMap => clientOld \in Capacities /\ clientOld # clientReq)
      <4>1. clientReq \in Capacities /\ (clientOld # NoMap => clientOld \in Capacities)
        BY <1>1 DEF TypeOK
      <4>2. clientReq \in Nat /\ (clientOld # NoMap => clientOld \in Nat /\ clientOld < clientReq)
        BY <1>1, <4>1 DEF Growing
      <4>3. clientOld # NoMap => clientOld # clientReq
        BY <4>2
      <4> QED BY <4>1, <4>2, <4>3
    <3>3. requests'[clientReq] = [header |-> kind[t], body |-> CurrentCall(t)]
      BY <1>1, <3>1, <3>2 DEF Written, Forward, TypeOK
    <3>4. clientOld # NoMap =>
            requests'[clientOld] = [header |-> "moved", body |-> <<"name", clientReq>>]
      BY <1>1, <3>1, <3>2 DEF Written, Forward, TypeOK
    <3>5. RequestLink'
      BY <1>2, <2>2, <2>3, <2>4, <2>6, <3>1, <3>3, <3>4
        DEF RequestLink, Pending, Done, Inside, server_vars
    <3>6. AnswerLink' /\ RunsLink'
      BY <1>2, <2>1, <2>2, <2>4, <2>6
        DEF AnswerLink, RunsLink, Pending, Done, Inside, server_vars
    <3> QED BY <3>5, <3>6
  <2> QED BY <2>4, <2>5, <2>6
<1> QED BY <1>3, <1>4

LEMMA LinksGrow ==
  ASSUME IInv, NEW t \in Threads, Grow(t)
  PROVE  Links'
<1> USE Constants
<1>1. TypeOK /\ Turns /\ Growing /\ Links
  BY DEF IInv
<1>2. /\ pc[t] = "grow" /\ pc[t] \in Inside /\ lock = t /\ Quiet
      /\ UNCHANGED <<kind, size, calls, clientRep, server_vars, answers, event, runs>>
  BY <1>1, ClientsTurn DEF Grow, Inside
<1>3. CASE GiveUp(t) /\ UNCHANGED <<clientReq, requests>>
  BY <1>2, <1>3, LinksGiveUp
<1>4. CASE /\ clientOld' = Replaced(clientOld, clientReq)
           /\ pc' = [pc EXCEPT ![t] = "serialize"]
           /\ UNCHANGED <<lock, result, broken>>
  <2> SUFFICES ASSUME ~broken PROVE (RequestLink /\ AnswerLink /\ RunsLink)'
    BY <1>4 DEF Links
  <2>1. RequestLink /\ AnswerLink /\ RunsLink
    BY <1>1 DEF Links
  <2>2. clientOld' = serverReq /\ clientOld' # NoMap /\ runs[t] = 0
    BY <1>1, <1>2, <1>4, <2>1 DEF RequestLink, RunsLink, Replaced, TypeOK
  <2>3. pc'[t] = "serialize" /\ \A u \in Threads : u # t => pc'[u] = pc[u] /\ pc'[u] \notin Inside
    BY <1>1, <1>2, <1>4, NobodyElse
  <2>4. RequestLink'
    BY <1>2, <1>4, <2>2, <2>3 DEF RequestLink, Pending, Done, Inside, server_vars
  <2>5. AnswerLink' /\ RunsLink'
    BY <1>2, <2>1, <2>2, <2>3 DEF AnswerLink, RunsLink, Pending, Done, Inside, server_vars
  <2> QED BY <2>4, <2>5
<1> QED BY <1>3, <1>4 DEF Grow

LEMMA LinksSignal ==
  ASSUME IInv, NEW t \in Threads, Signal(t)
  PROVE  Links'
<1> SUFFICES ASSUME ~broken PROVE (RequestLink /\ AnswerLink /\ RunsLink)'
  BY DEF Signal, Links, history_vars
<1>1. TypeOK /\ Turns /\ RequestLink /\ AnswerLink /\ RunsLink
  BY DEF IInv, Links
<1>2. /\ pc[t] = "signal" /\ pc[t] \in Inside /\ lock = t /\ lock # NoThread /\ Quiet
      /\ UNCHANGED <<lock, kind, calls, clientReq, clientRep, clientOld, server_vars, requests,
                     answers, history_vars>>
  BY <1>1, ClientsTurn DEF Signal, Inside
<1>3. pc'[t] = "wait" /\ \A u \in Threads : u # t => pc'[u] = pc[u] /\ pc'[u] \notin Inside
  BY <1>1, <1>2, NobodyElse DEF Signal
<1>4. Pending(t) /\ CurrentCall(t)' = CurrentCall(t) /\ event'["server"] /\ ~event'["client"]
      /\ spc' = "wait"
  BY <1>1, <1>2 DEF Pending, CurrentCall, Signal, Signalled, Quiet, TypeOK, server_vars
<1>5. RequestLink'
  BY <1>1, <1>2, <1>3, <1>4 DEF RequestLink, Pending, Done, Inside, server_vars
<1>6. AnswerLink' /\ RunsLink'
  BY <1>1, <1>2, <1>3, <1>4
    DEF AnswerLink, RunsLink, Pending, Done, Inside, server_vars, history_vars
<1> QED BY <1>5, <1>6

LEMMA LinksWake ==
  ASSUME IInv, NEW t \in Threads, Wake(t)
  PROVE  Links'
<1> SUFFICES ASSUME ~broken PROVE (RequestLink /\ AnswerLink /\ RunsLink)'
  BY DEF Wake, Links, history_vars
<1>1. TypeOK /\ Turns /\ Growing /\ RequestLink /\ AnswerLink /\ RunsLink
  BY DEF IInv, Links
<1>2. /\ pc[t] = "wait" /\ pc[t] \in Inside /\ event["client"] /\ pc' = [pc EXCEPT ![t] = "idle"]
      /\ lock' = NoThread /\ clientRep' \in {clientRep, serverRep}
      /\ UNCHANGED <<kind, calls, clientReq, clientOld, server_vars, requests, answers,
                     history_vars>>
  BY DEF Wake, Return, Unlock, Inside
<1>3. pc'[t] = "idle" /\ \A u \in Threads : u # t => pc'[u] = pc[u] /\ pc'[u] \notin Inside
  BY <1>1, <1>2, NobodyElse
<1>4. clientReq = serverReq /\ spc = "wait" /\ serverOld = NoMap
  BY <1>1, <1>2, ClientsTurn DEF RequestLink, Done, Serving, Growing
<1>5. RequestLink'
  BY <1>2, <1>3, <1>4 DEF RequestLink, Pending, Done, Inside, server_vars
<1>6. AnswerLink' /\ RunsLink'
  BY <1>1, <1>2, <1>3, <1>4
    DEF AnswerLink, RunsLink, Pending, Done, Inside, server_vars, history_vars
<1> QED BY <1>5, <1>6

(* The server at work while the thread that has the mutex waits for it.    *)
LEMMA LinksServing ==
  ASSUME TypeOK, Turns, Links, NEW t \in Threads, lock = t, pc[t] = "wait",
         UNCHANGED <<client_vars, requests>>,
         ~broken' => ~broken,
         ~broken' /\ Pending(t)' => /\ Pending(t) /\ runs'[t] = 0
                                   /\ serverReq' \in {serverReq, clientReq},
         ~broken' /\ Done(t)' => /\ clientReq = serverReq'
                                /\ runs'[t] = 1 /\ answering' = CurrentCall(t),
         \A u \in Threads : u # t => runs'[u] = runs[u],
         ~broken' => AnswerLink'
  PROVE  Links'
<1> SUFFICES ASSUME ~broken' PROVE RequestLink' /\ RunsLink'
  BY DEF Links
<1>1. RequestLink /\ RunsLink /\ CurrentCall(t)' = CurrentCall(t)
  BY DEF Links, CurrentCall, client_vars
<1>2. lock # NoThread /\ pc' = pc /\ \A u \in Threads : u # t => pc[u] \notin Inside
  BY ClientsTurn DEF client_vars, Inside
<1>3. RequestLink'
  BY <1>1, <1>2 DEF RequestLink, Pending, Done, Inside, client_vars
<1>4. RunsLink'
  BY <1>1, <1>2 DEF RunsLink, Pending, Done, Inside, client_vars
<1> QED BY <1>3, <1>4

(* What the server has in hand from one step to the next.                  *)
LEMMA ServersCall ==
  ASSUME IInv, ~broken, spc \in {"dispatch", "serialize", "grow", "signal"} \/ event["server"]
  PROVE  /\ lock \in Threads /\ pc[lock] = "wait" /\ ~event["client"]
         /\ spc \in {"wait", "dispatch"} =>
              /\ Pending(lock) /\ ~Done(lock) /\ runs[lock] = 0
              /\ requests[clientReq] = [header |-> kind[lock], body |-> CurrentCall(lock)]
              /\ \/ clientReq = serverReq
                 \/ requests[serverReq] = [header |-> "moved", body |-> <<"name", clientReq>>]
         /\ spc \in {"serialize", "grow", "signal"} =>
              /\ ~Pending(lock) /\ Done(lock)
              /\ clientReq = serverReq /\ runs[lock] = 1 /\ answering = CurrentCall(lock)
<1>1. TypeOK /\ Turns /\ RequestLink /\ RunsLink
  BY DEF IInv, Links
<1>2. lock \in Threads /\ pc[lock] = "wait" /\ ~event["client"] /\ (event["server"] <=> spc = "wait")
  BY <1>1, ServersTurn
<1>3. spc \in {"wait", "dispatch"} => Pending(lock) /\ ~Done(lock)
  BY <1>2 DEF Pending, Done
<1>4. spc \in {"serialize", "grow", "signal"} => ~Pending(lock) /\ Done(lock)
  BY <1>2 DEF Pending, Done
<1> QED BY <1>1, <1>2, <1>3, <1>4 DEF RequestLink, RunsLink

LEMMA LinksBoot ==
  ASSUME IInv, Boot
  PROVE  Links'
<1> SUFFICES ASSUME ~broken PROVE (RequestLink /\ AnswerLink /\ RunsLink)'
  BY DEF Boot, Links, history_vars
<1>1. TypeOK /\ Turns /\ Growing /\ RequestLink /\ AnswerLink /\ RunsLink
  BY DEF IInv, Links
<1>2. spc = "boot" /\ serverOld = NoMap /\ \A u \in Threads : pc[u] \notin Inside
  BY <1>1 DEF Boot, Turns, Growing, Quiet, Serving, TypeOK
<1>3. UNCHANGED <<client_vars, answering, serverReq, serverRep, serverOld, requests, history_vars>>
  BY DEF Boot
<1>4. RequestLink'
  BY <1>1, <1>2, <1>3 DEF RequestLink, Pending, Done, Inside, client_vars
<1>5. answers'[clientRep] = answers[clientRep] \/ clientRep = serverRep
  BY <1>1 DEF Boot, TypeOK
<1>6. AnswerLink'
  BY <1>1, <1>2, <1>3, <1>5 DEF AnswerLink, Inside, client_vars
<1>7. RunsLink'
  BY <1>1, <1>2, <1>3 DEF RunsLink, Pending, Done, Inside, client_vars, history_vars
<1> QED BY <1>4, <1>6, <1>7

LEMMA LinksServerWakes ==
  ASSUME IInv, ServerWakes
  PROVE  Links'
<1>1. TypeOK /\ Turns /\ Links /\ lock \in Threads /\ pc[lock] = "wait"
  BY ServersTurn DEF IInv, ServerWakes
<1>2. UNCHANGED <<client_vars, requests, answering, serverReq, serverRep, serverOld, answers,
                  history_vars>>
      /\ ~event'["server"] /\ event'["client"] = event["client"] /\ spc' = "dispatch"
  BY <1>1 DEF ServerWakes, Reset, TypeOK
<1>3. ~broken => Pending(lock) /\ runs[lock] = 0 /\ ~event["client"]
  BY ServersCall DEF ServerWakes
<1>4. ~broken => ~Done(lock)'
  BY <1>2, <1>3 DEF Done
<1>5. ~broken => AnswerLink'
  BY <1>2, <1>3, <1>1 DEF AnswerLink, Links, client_vars
<1> QED BY <1>1, <1>2, <1>3, <1>4, <1>5, LinksServing DEF client_vars, history_vars

LEMMA LinksFollowMove ==
  ASSUME IInv, FollowMove
  PROVE  Links'
<1>1. TypeOK /\ Turns /\ Links /\ lock \in Threads /\ pc[lock] = "wait" /\ ~event["client"]
  BY ServersTurn DEF IInv, FollowMove
<1>2. UNCHANGED <<client_vars, requests, answering, serverRep, serverOld, answers, event,
                  history_vars>>
      /\ spc' \in {"dispatch", "dead"} /\ serverReq' \in {serverReq, clientReq}
  BY DEF FollowMove, memory_vars
<1>3. ~broken => Pending(lock) /\ runs[lock] = 0
  BY ServersCall DEF FollowMove
<1>4. ~Done(lock)'
  BY <1>1, <1>2 DEF Done
<1>5. ~broken => AnswerLink'
  BY <1>1, <1>2 DEF AnswerLink, Links, client_vars
<1> QED BY <1>1, <1>2, <1>3, <1>4, <1>5, LinksServing DEF client_vars, history_vars

(* The request is executed for the thread that waits and for no other.     *)
LEMMA Executed ==
  ASSUME IInv, ~broken, Execute
  PROVE  /\ requests[serverReq].body = CurrentCall(lock) /\ clientReq = serverReq
         /\ runs[lock] = 0 /\ runs' = [runs EXCEPT ![lock] = 1] /\ strays' = strays
         /\ answering' = CurrentCall(lock)
<1>1. TypeOK /\ Turns /\ lock \in Threads /\ pc[lock] = "wait" /\ runs[lock] = 0
  BY ServersCall DEF IInv, Execute
<1>2. clientReq = serverReq /\ requests[serverReq].body = CurrentCall(lock)
  <2>1. \/ clientReq = serverReq
        \/ requests[serverReq] = [header |-> "moved", body |-> <<"name", clientReq>>]
    BY ServersCall DEF Execute
  <2>2. requests[serverReq].header # "moved"
    BY DEF Execute, Kinds
  <2>3. requests[clientReq] = [header |-> kind[lock], body |-> CurrentCall(lock)]
    BY ServersCall DEF Execute
  <2> QED BY <2>1, <2>2, <2>3
<1> DEFINE mine == {u \in Threads : pc[u] = "wait" /\ requests[serverReq].body = CurrentCall(u)}
<1>3. \A u \in Threads : u # lock => pc[u] # "wait"
  BY <1>1, ClientsTurn DEF Inside
<1>4. mine = {lock}
  BY <1>1, <1>2, <1>3
<1>5. /\ runs' = [u \in Threads |-> runs[u] + (IF u \in mine THEN 1 ELSE 0)]
      /\ strays' = strays + (IF mine = {} THEN 1 ELSE 0)
  BY DEF Execute
<1> HIDE DEF mine
<1>6. strays' = strays
  BY <1>1, <1>4, <1>5 DEF TypeOK
<1>7. runs' = [runs EXCEPT ![lock] = 1]
  <2>1. \A u \in Threads : runs[u] \in Nat
    BY <1>1 DEF TypeOK
  <2>2. \A u \in Threads :
          runs[u] + (IF u \in mine THEN 1 ELSE 0) = IF u = lock THEN 1 ELSE runs[u]
    <3> TAKE u \in Threads
    <3>1. CASE u = lock
      BY <1>1, <1>4, <3>1
    <3>2. CASE u # lock
      BY <1>4, <2>1, <3>2
    <3> QED BY <3>1, <3>2
  <2> QED BY <1>1, <1>5, <2>2 DEF TypeOK
<1> QED BY <1>1, <1>2, <1>6, <1>7 DEF Execute

LEMMA LinksExecute ==
  ASSUME IInv, Execute
  PROVE  Links'
<1>1. TypeOK /\ Turns /\ Growing /\ Links /\ lock \in Threads /\ pc[lock] = "wait" /\ ~event["client"]
  BY ServersTurn DEF IInv, Execute
<1>2. UNCHANGED <<client_vars, serverReq, serverRep, serverOld, requests, event, broken>>
      /\ spc' \in {"signal", "serialize"} /\ serverOld = NoMap
  BY <1>1 DEF Execute, Growing
<1>3. ~Pending(lock)'
  BY <1>1, <1>2, ServersTurn DEF Pending, client_vars, Execute
<1>4. ~broken => clientReq = serverReq /\ runs'[lock] = 1 /\ answering' = CurrentCall(lock)
                 /\ requests[serverReq].body = CurrentCall(lock)
  BY <1>1, Executed DEF TypeOK
<1>5. \A u \in Threads : u # lock => runs'[u] = runs[u]
  <2>1. \A u \in Threads : u # lock => pc[u] # "wait"
    BY <1>1, ClientsTurn DEF Inside
  <2> QED BY <1>1, <2>1 DEF Execute, TypeOK
<1>6. ASSUME ~broken PROVE AnswerLink'
  <2>1. /\ clientRep = serverRep \/ answers'[clientRep] = answers[clientRep]
        /\ spc' = "signal" =>
             \/ answers'[serverRep].header = "error"
             \/ answers'[serverRep] = [header |-> "zero", body |-> CurrentCall(lock)]
    <3>1. serverRep \in Capacities /\ clientRep \in Capacities /\ answers \in [Capacities -> Mapping]
      BY <1>1 DEF TypeOK
    <3>2. CASE answers' = [answers EXCEPT ![serverRep].header = "error"]
      BY <3>1, <3>2 DEF Mapping
    <3>3. CASE answers' = [answers EXCEPT ![serverRep].header = "zero"] /\ spc' = "serialize"
      BY <3>1, <3>3
    <3>4. CASE answers' = Written(answers, NoMap, serverRep, "zero", requests[serverReq].body)
      BY <1>4, <1>6, <3>1, <3>4 DEF Written, Forward
    <3> QED BY <3>2, <3>3, <3>4 DEF Execute
  <2>2. \A u \in Threads : pc[u] = "wait" => u = lock
    BY <1>1, ClientsTurn DEF Inside
  <2>3. AnswerLink
    BY <1>1, <1>6 DEF Links
  <2>4. pc' = pc /\ calls' = calls /\ clientRep' = clientRep
    BY <1>2 DEF client_vars
  <2> QED BY <1>1, <1>2, <2>1, <2>2, <2>3, <2>4 DEF AnswerLink, CurrentCall
<1>7. CurrentCall(lock)' = CurrentCall(lock)
  BY <1>2 DEF client_vars, CurrentCall
<1> QED BY <1>1, <1>2, <1>3, <1>4, <1>5, <1>6, LinksServing DEF client_vars

(* While an answer is being written, only where it goes may be wrong.      *)
LEMMA LinksWriting ==
  ASSUME IInv, spc \in {"serialize", "grow"}, spc' \in {"serialize", "grow", "signal"},
         UNCHANGED <<client_vars, answering, serverReq, requests, event, runs>>,
         ~broken' => ~broken,
         ~broken' =>
           /\ IF serverOld' = NoMap THEN clientRep = serverRep' \/ answers'[clientRep].header = "moved"
              ELSE clientRep = serverOld' \/ answers'[clientRep].header = "moved"
           /\ spc' = "signal" =>
                \/ answers'[serverRep'].header = "error"
                \/ answers'[serverRep'] = [header |-> "zero", body |-> CurrentCall(lock)]
  PROVE  Links'
<1>1. TypeOK /\ Turns /\ Links /\ lock \in Threads /\ pc[lock] = "wait" /\ ~event["client"]
      /\ ~event["server"]
  BY ServersTurn DEF IInv
<1>2. ~Pending(lock)'
  BY <1>1 DEF Pending, client_vars
<1>3. ~broken => clientReq = serverReq /\ runs[lock] = 1 /\ answering = CurrentCall(lock)
  BY ServersCall
<1>4. CurrentCall(lock)' = CurrentCall(lock)
  BY DEF client_vars, CurrentCall
<1>5. ASSUME ~broken' PROVE AnswerLink'
  <2>1. \A u \in Threads : pc[u] = "wait" => u = lock
    BY <1>1, ClientsTurn DEF Inside
  <2>2. pc' = pc /\ calls' = calls /\ clientRep' = clientRep /\ event' = event
    BY DEF client_vars
  <2> QED BY <1>1, <1>5, <2>1, <2>2 DEF AnswerLink, CurrentCall
<1> QED BY <1>1, <1>2, <1>3, <1>4, <1>5, LinksServing DEF client_vars

LEMMA LinksServerSerializes ==
  ASSUME IInv, ServerSerializes
  PROVE  Links'
<1> USE Constants
<1>1. TypeOK /\ Growing /\ Links /\ spc = "serialize"
  BY DEF IInv, ServerSerializes
<1>2. UNCHANGED <<client_vars, answering, serverReq, serverRep, requests, event, runs>>
  BY DEF ServerSerializes
<1>3. /\ clientRep \in Capacities /\ serverRep \in Capacities /\ answers \in [Capacities -> Mapping]
      /\ serverOld # NoMap => serverOld \in Capacities /\ serverOld # serverRep
  <2>1. /\ clientRep \in Capacities /\ serverRep \in Capacities
        /\ answers \in [Capacities -> Mapping]
        /\ serverOld # NoMap => serverOld \in Capacities
    BY <1>1 DEF TypeOK
  <2>2. serverRep \in Nat /\ (serverOld # NoMap => serverOld \in Nat /\ serverOld < serverRep)
    BY <1>1, <2>1 DEF Growing
  <2>3. serverOld # NoMap => serverOld # serverRep
    BY <2>2
  <2> QED BY <2>1, <2>3
<1>4. ~broken => AnswerLink /\ answering = CurrentCall(lock)
  BY <1>1, ServersCall DEF Links
<1>5. CASE /\ answers' = Written(answers, serverOld, serverRep, "zero", answering)
           /\ serverOld' = NoMap /\ spc' = "signal" /\ UNCHANGED broken
  <2>1. answers'[serverRep] = [header |-> "zero", body |-> answering]
    BY <1>3, <1>5 DEF Written, Forward
  <2>2. serverOld # NoMap => answers'[serverOld].header = "moved"
    BY <1>3, <1>5 DEF Written, Forward
  <2>3. clientRep # serverRep /\ clientRep # serverOld => answers'[clientRep] = answers[clientRep]
    BY <1>3, <1>5 DEF Written, Forward
  <2>4. ~broken => clientRep = serverRep \/ answers'[clientRep].header = "moved"
    BY <1>3, <1>4, <2>2, <2>3 DEF AnswerLink
  <2>5. serverRep' = serverRep /\ ~broken' = ~broken
    BY <1>2, <1>5
  <2> QED BY <1>1, <1>2, <1>4, <1>5, <2>1, <2>4, <2>5, LinksWriting
<1>6. CASE /\ answers' = [answers EXCEPT ![serverRep].body = <<"partial">>]
           /\ spc' = "grow" /\ UNCHANGED <<serverOld, broken>>
  <2>1. answers'[clientRep].header = answers[clientRep].header
    BY <1>3, <1>6 DEF Mapping
  <2> QED BY <1>1, <1>2, <1>4, <1>6, <2>1, LinksWriting DEF AnswerLink
<1>7. CASE /\ answers' = [answers EXCEPT ![serverRep] = [header |-> "error", body |-> <<"partial">>]]
           /\ AnswerError
  <2>1. /\ clientRep # serverRep => answers'[clientRep] = answers[clientRep]
        /\ answers'[serverRep].header = "error"
    BY <1>3, <1>7
  <2>2. /\ serverOld' = NoMap /\ spc' = "signal"
        /\ ~broken' => ~broken /\ serverOld = NoMap
    BY <1>7 DEF AnswerError
  <2> QED BY <1>1, <1>2, <1>4, <2>1, <2>2, LinksWriting DEF AnswerLink
<1> QED BY <1>5, <1>6, <1>7 DEF ServerSerializes

LEMMA LinksServerGrows ==
  ASSUME IInv, ServerGrows
  PROVE  Links'
<1> USE Constants
<1>1. TypeOK /\ Growing /\ Links /\ spc = "grow"
  BY DEF IInv, ServerGrows
<1>2. UNCHANGED <<client_vars, answering, serverReq, requests, event, runs>>
  BY DEF ServerGrows
<1>3. clientRep \in Capacities /\ serverRep \in Capacities /\ answers \in [Capacities -> Mapping]
      /\ outSize \in Sizes /\ serverOld \in Capacities \cup {NoMap}
  BY <1>1 DEF TypeOK
<1>4. ~broken => AnswerLink
  BY <1>1 DEF Links
<1>5. CASE /\ serverRep' = Grown(outSize, serverRep)
           /\ answers' = [answers EXCEPT ![serverRep'] = FreshMapping]
           /\ serverOld' = Replaced(serverOld, serverRep)
           /\ spc' = "serialize" /\ UNCHANGED broken
  <2>1. clientRep # serverRep'
    <3>1. serverRep' \in Capacities /\ serverRep < serverRep' /\ clientRep <= serverRep
      BY <1>1, <1>3, <1>5, GrownType DEF Growing
    <3>2. serverRep' \in Nat /\ serverRep \in Nat /\ clientRep \in Nat
      BY <1>3, <3>1
    <3> QED BY <3>1, <3>2
  <2>2. answers'[clientRep] = answers[clientRep]
    BY <1>3, <1>5, <2>1
  <2>3. serverOld' # NoMap /\ serverOld' = IF serverOld = NoMap THEN serverRep ELSE serverOld
    BY <1>3, <1>5 DEF Replaced
  <2> QED BY <1>1, <1>2, <1>4, <1>5, <2>2, <2>3, LinksWriting DEF AnswerLink
<1>6. CASE /\ answers' = [answers EXCEPT ![serverRep].header = "error"]
           /\ AnswerError /\ UNCHANGED serverRep
  <2>1. /\ clientRep # serverRep => answers'[clientRep] = answers[clientRep]
        /\ answers'[serverRep].header = "error"
    BY <1>3, <1>6 DEF Mapping
  <2>2. /\ serverOld' = NoMap /\ spc' = "signal"
        /\ ~broken' => ~broken /\ serverOld = NoMap
    BY <1>6 DEF AnswerError
  <2> QED BY <1>1, <1>2, <1>4, <1>6, <2>1, <2>2, LinksWriting DEF AnswerLink
<1> QED BY <1>5, <1>6 DEF ServerGrows

LEMMA LinksServerSignals ==
  ASSUME IInv, ServerSignals
  PROVE  Links'
<1>1. TypeOK /\ Turns /\ Growing /\ Links /\ lock \in Threads /\ pc[lock] = "wait" /\ ~event["server"]
  BY ServersTurn DEF IInv, ServerSignals
<1>2. UNCHANGED <<client_vars, answering, serverReq, serverRep, serverOld, requests, answers,
                  history_vars>>
      /\ spc' = "wait" /\ ~event'["server"]
  BY <1>1 DEF ServerSignals, Signalled, TypeOK
<1>3. ~Pending(lock)'
  BY <1>1, <1>2 DEF Pending, client_vars
<1>4. ~broken => /\ clientReq = serverReq /\ runs[lock] = 1 /\ answering = CurrentCall(lock)
  BY ServersCall DEF ServerSignals
<1>5. ~broken => AnswerLink'
  BY <1>1, <1>2 DEF AnswerLink, Links, CurrentCall, client_vars, ServerSignals
<1>6. CurrentCall(lock)' = CurrentCall(lock)
  BY <1>2 DEF client_vars, CurrentCall
<1> QED BY <1>1, <1>2, <1>3, <1>4, <1>5, <1>6, LinksServing DEF client_vars, history_vars

-----------------------------------------------------------------------------
LEMMA NextOK == IInv /\ [Next]_vars => IInv'
<1> SUFFICES ASSUME IInv, [Next]_vars PROVE IInv'
  OBVIOUS
<1>1. TypeOK /\ Turns /\ Growing
  BY DEF IInv
<1>2. CASE UNCHANGED vars
  BY <1>2 DEF IInv, TypeOK, Turns, Growing, Links, RequestLink, AnswerLink, RunsLink, Quiet, Serving,
              Pending, Done, Fits, CurrentCall, vars, client_vars, server_vars, memory_vars,
              history_vars
<1>3. ASSUME NEW t \in Threads,
             Continue(t) \/ \E k \in Kinds, n \in Sizes : Begin(t, k, n)
      PROVE  IInv'
  <2>1. TypeOK' /\ Turns' /\ Growing'
    BY <1>1, <1>3, TypeClient, TurnsClient, GrowingClient
  <2>2. Links'
    BY <1>3, LinksOutside, LinksLock, LinksWrite, LinksSerialize, LinksGrow, LinksSignal, LinksWake
      DEF Continue
  <2> QED BY <2>1, <2>2 DEF IInv
<1>4. CASE Server
  <2>1. TypeOK' /\ Turns' /\ Growing'
    BY <1>1, <1>4, TypeServer, TurnsServer, GrowingServer
  <2>2. Links'
    BY <1>4, LinksBoot, LinksServerWakes, LinksFollowMove, LinksExecute, LinksServerSerializes,
       LinksServerGrows, LinksServerSignals
      DEF Server
  <2> QED BY <2>1, <2>2 DEF IInv
<1> QED BY <1>2, <1>3, <1>4 DEF Next

(* The inductive invariant of the transport.                               *)
THEOREM Invariant == Spec => []IInv
BY InitOK, NextOK, PTL DEF Spec

(* Every state of the transport has the types of TypeOK, for any number of *)
(* threads, calls and capacities.                                          *)
THEOREM TypeCorrect == Spec => []TypeOK
BY Invariant, PTL DEF IInv

(* No mapping is ever read while it is being written: the mutex of the     *)
(* client and the two events make the two processes take turns.            *)
THEOREM TurnsTaken == Spec => []TakeTurns
<1>1. IInv => TakeTurns
  <2> SUFFICES ASSUME IInv, NEW t \in Threads
               PROVE  /\ pc[t] \in {"write", "serialize", "grow", "signal"} => lock = t /\ Quiet
                      /\ pc[t] = "wait" /\ event["client"] =>
                           lock = t /\ spc = "wait" /\ ~event["server"]
    BY DEF TakeTurns, Quiet
  <2> QED BY ClientsTurn DEF IInv, Inside, Serving
<1> QED BY <1>1, Invariant, PTL

(* Between calls both sides agree on the mapping for requests, and the     *)
(* client knows or is told where answers are, unless a growth failed half  *)
(* way.                                                                    *)
THEOREM StaysConnected == Spec => []Connected
<1>1. IInv => Connected
  BY DEF IInv, Turns, Growing, Links, RequestLink, AnswerLink, Connected, Quiet
<1> QED BY <1>1, Invariant, PTL

-----------------------------------------------------------------------------
(* The promises of RemoteCalls.                                            *)
LEMMA Calling ==
  ASSUME TypeOK, NEW t \in Threads, NEW where, pc' = [pc EXCEPT ![t] = where]
  PROVE  {u \in Threads : pc'[u] # "idle"} =
           IF where = "idle" THEN {u \in Threads : pc[u] # "idle"} \ {t}
           ELSE {u \in Threads : pc[u] # "idle"} \cup {t}
BY DEF TypeOK

LEMMA StaysBroken == Next /\ broken => broken'
BY DEF Next, Continue, Server, Begin, Get, Handshake, Lock, Write, Serialize, Grow, Signal, Wake,
       GiveUp, Boot, ServerWakes, FollowMove, Execute, ServerSerializes, ServerGrows, ServerSignals,
       AnswerError, history_vars

(* A call that fails has failed, and one that goes on has not ended.       *)
LEMMA CallFails ==
  ASSUME TypeOK, NEW t \in Threads, pc[t] # "idle", Return(t, "error"),
         UNCHANGED <<runs, strays, broken>>
  PROVE  Calls!Fail(t)
BY Calling DEF Return, Calls!Fail

LEMMA CallGoesOn ==
  ASSUME TypeOK, NEW t \in Threads, pc[t] # "idle", NEW where, where # "idle",
         pc' = [pc EXCEPT ![t] = where], UNCHANGED <<result, runs, strays, broken>>
  PROVE  UNCHANGED Calls!vars
BY Calling DEF Calls!vars

(* An answer is the answer to the call of the thread that reads it.        *)
LEMMA CallReturns ==
  ASSUME IInv, ~broken, NEW t \in Threads, Wake(t)
  PROVE  Calls!Succeed(t) \/ Calls!Fail(t)
<1>1. TypeOK /\ AnswerLink /\ RunsLink /\ Growing /\ Turns
  BY DEF IInv, Links
<1>2. pc[t] = "wait" /\ event["client"] /\ UNCHANGED <<runs, strays, broken>>
  BY DEF Wake, history_vars
<1>3. runs[t] = 1
  BY <1>1, <1>2 DEF RunsLink, Done
<1>4. \/ answers[serverRep].header = "error"
      \/ answers[serverRep] = [header |-> "zero", body |-> CurrentCall(t)]
  BY <1>1, <1>2 DEF AnswerLink
<1>5. Read(t, answers[serverRep]) \in {"ok", "error"}
  BY <1>4 DEF Read
<1>6. \E how \in {"ok", "error"} : Return(t, how)
  <2>1. serverOld = NoMap
    BY <1>1, <1>2, ClientsTurn DEF Growing, Inside, Serving
  <2>2. clientRep # serverRep => Read(t, answers[clientRep]) = "error"
    BY <1>1, <2>1 DEF AnswerLink, Read
  <2> QED BY <1>5, <2>2 DEF Wake
<1>7. CASE Return(t, "ok")
  BY <1>1, <1>2, <1>3, <1>7, Calling DEF Return, Calls!Succeed
<1>8. CASE Return(t, "error")
  BY <1>1, <1>2, <1>8, CallFails
<1> QED BY <1>6, <1>7, <1>8

LEMMA ClientImplements ==
  ASSUME IInv, ~broken, ~broken', NEW t \in Threads,
         Continue(t) \/ \E k \in Kinds, n \in Sizes : Begin(t, k, n)
  PROVE  [Calls!Next]_(Calls!vars)
<1>1. TypeOK
  BY DEF IInv
<1>2. ASSUME NEW k \in Kinds, NEW n \in Sizes, Begin(t, k, n) PROVE Calls!Call(t)
  <2>1. /\ pc[t] = "idle" /\ pc' = [pc EXCEPT ![t] = "get"]
        /\ runs' = [runs EXCEPT ![t] = 0] /\ result' = [result EXCEPT ![t] = "none"]
        /\ UNCHANGED <<strays, broken>>
    BY <1>2 DEF Begin
  <2>2. {u \in Threads : pc'[u] # "idle"} = {u \in Threads : pc[u] # "idle"} \cup {t}
    BY <1>1, <2>1 DEF TypeOK
  <2> QED BY <2>1, <2>2 DEF Calls!Call
<1>3. CASE Get(t)
  <2>1. pc[t] # "idle" /\ UNCHANGED <<runs, strays, broken>>
    BY <1>3 DEF Get, history_vars
  <2>2. \/ Return(t, "error")
        \/ \E where \in {"handshake", "lock"} : pc' = [pc EXCEPT ![t] = where] /\ UNCHANGED result
    BY <1>3 DEF Get
  <2> QED BY <1>1, <2>1, <2>2, CallFails, CallGoesOn DEF Calls!Next
<1>4. CASE Handshake(t)
  <2>1. pc[t] # "idle" /\ UNCHANGED <<runs, strays, broken>>
    BY <1>4 DEF Handshake, history_vars
  <2>2. Return(t, "error") \/ (pc' = [pc EXCEPT ![t] = "lock"] /\ UNCHANGED result)
    BY <1>4 DEF Handshake
  <2> QED BY <1>1, <2>1, <2>2, CallFails, CallGoesOn DEF Calls!Next
<1>5. CASE Lock(t) \/ Write(t) \/ Signal(t)
  <2>1. /\ pc[t] # "idle" /\ UNCHANGED <<result, runs, strays, broken>>
        /\ \E where \in {"write", "serialize", "signal", "wait"} : pc' = [pc EXCEPT ![t] = where]
    BY <1>5 DEF Lock, Write, Signal, history_vars
  <2> QED BY <1>1, <2>1, CallGoesOn
<1>6. CASE Serialize(t) \/ Grow(t)
  <2>1. pc[t] # "idle" /\ UNCHANGED <<runs, strays>> /\ broken' = broken
    BY <1>1, <1>6 DEF Serialize, Grow, GiveUp, TypeOK
  <2>2. \/ Return(t, "error")
        \/ \E where \in {"grow", "signal", "serialize"} :
             pc' = [pc EXCEPT ![t] = where] /\ UNCHANGED result
    BY <1>6 DEF Serialize, Grow, GiveUp
  <2> QED BY <1>1, <2>1, <2>2, CallFails, CallGoesOn DEF Calls!Next
<1>7. CASE Wake(t)
  BY <1>7, CallReturns DEF Calls!Next
<1> QED BY <1>2, <1>3, <1>4, <1>5, <1>6, <1>7 DEF Continue, Calls!Next

LEMMA ServerImplements ==
  ASSUME IInv, ~broken, ~broken', Server
  PROVE  [Calls!Next]_(Calls!vars)
<1>1. CASE Execute
  <2>1. lock \in Threads /\ pc[lock] = "wait"
    BY <1>1, ServersCall DEF Execute
  <2>2. runs[lock] = 0 /\ runs' = [runs EXCEPT ![lock] = 1] /\ strays' = strays
    BY <1>1, Executed
  <2>3. UNCHANGED <<pc, result, broken>>
    BY <1>1 DEF Execute, client_vars
  <2>4. Calls!Execute(lock)
    BY <2>1, <2>2, <2>3 DEF Calls!Execute
  <2> QED BY <2>1, <2>4 DEF Calls!Next
<1>2. CASE Boot \/ ServerWakes \/ FollowMove \/ ServerSerializes \/ ServerGrows \/ ServerSignals
  <2>1. UNCHANGED <<pc, result, runs, strays>>
    BY <1>2 DEF Boot, ServerWakes, FollowMove, ServerSerializes, ServerGrows, ServerSignals,
                client_vars, history_vars
  <2>2. broken' = broken
    BY <1>2 DEF Boot, ServerWakes, FollowMove, ServerSerializes, ServerGrows, ServerSignals,
                AnswerError, history_vars, IInv, TypeOK
  <2> QED BY <2>1, <2>2 DEF Calls!vars
<1> QED BY <1>1, <1>2 DEF Server

LEMMA CallsInit == Init => Calls!Init
BY DEF Init, Calls!Init

LEMMA CallsNext == IInv /\ [Next]_vars => [Calls!Next]_(Calls!vars)
<1> SUFFICES ASSUME IInv, [Next]_vars PROVE [Calls!Next]_(Calls!vars)
  OBVIOUS
<1>1. CASE UNCHANGED vars
  BY <1>1 DEF vars, client_vars, history_vars, Calls!vars
<1>2. CASE Next /\ broken
  BY <1>2, StaysBroken DEF Calls!Next
<1>3. CASE Next /\ ~broken /\ broken'
  BY <1>3 DEF Calls!Next, Calls!Break
<1>4. CASE Next /\ ~broken /\ ~broken'
  BY <1>4, ClientImplements, ServerImplements DEF Next
<1> QED BY <1>1, <1>2, <1>3, <1>4

(* The transport implements RemoteCalls: each call is carried out at most  *)
(* once, between the call and its return, nothing else is, and a call that *)
(* reports success has the answer to itself.                               *)
THEOREM CallsKept == Spec => CallsImplemented
<1>1. Init /\ [][Next]_vars /\ []IInv => Calls!Init /\ [][Calls!Next]_(Calls!vars)
  BY CallsInit, CallsNext, PTL
<1> QED BY <1>1, Invariant DEF Spec, CallsImplemented, Calls!Spec
=============================================================================
