--------------------------- MODULE IdentityProofs ---------------------------
(***************************************************************************)
(* Theorems about Startup and Identity, for any directories the assumption *)
(* allows and every combination of faults.  The inductive invariant says   *)
(* which servers a start can have reached, what the channel of the two     *)
(* listener goroutines holds, that no call outlives the process, and that  *)
(* a message is a request of /send or the peer's answer to one.            *)
(***************************************************************************)
EXTENDS Identity, TLAPS

\* A server of the gateway needs the awaits before it to have ended well.
Order ==
    /\ node \in {"off", "trust", "context", "credentials"} => nodeGrpc = "off" /\ nodeRest = "off"
    /\ node \in {"credentials", "servers"} => registered = endpoint

\* The channel holds the error of every goroutine that failed, and no other.
Channel ==
    errs = (IF admin = "failed" THEN 1 ELSE 0) + (IF grpc \in {"nil", "failed"} THEN 1 ELSE 0)

\* No goroutine and no call outlives the command's process.
Lifetime == main # "waiting" => admin = "off" /\ grpc = "off" /\ call = Idle

Requests(code) == {SygnaExample(code), TrisaExample}

Exchange ==
    /\ call.pc = "idle" => call = Idle
    /\ call.pc # "idle" => \/ call.message \in Requests(call.code)
                           \/ \E m \in Requests(call.code) : call.message = HandleRequest(m)
    /\ call.pc \in {"sent", "posted", "error"} => call.message \in Requests(call.code)
    /\ call.pc = "posted" => call.target = "gateway"
    /\ call.pc \in {"answered", "dot"} /\ call.target = "peer" =>
          \E m \in Requests(call.code) : call.message = HandleRequest(m)

IInv == TypeOK /\ Order /\ Channel /\ Lifetime /\ Exchange

USE StartupAssumption, IdentityAssumption

---------------------------------------------------------------------------
\* The messages a call can carry are well typed.
LEMMA MessageTypes ==
  ASSUME loaded \in Directories, peerKey \in PeerKeys, NEW code \in Codes,
         NEW m \in Requests(code)
  PROVE  m \in Message /\ HandleRequest(m) \in Message
<1>1. loaded[code] \in KeyNames /\ peerKey \in KeyNames
  BY DEF Codes
<1>2. SygnaExample(code) \in Message /\ TrisaExample \in Message
  BY <1>1 DEF SygnaExample, TrisaExample, Encrypt, Nothing, Message, KeyNames, NoKey
<1>3. m \in Message
  BY <1>2 DEF Requests
<1>4. HandleRequest(m) \in Message
  BY <1>1, <1>3 DEF HandleRequest, Encrypt, Decrypt, Nothing, Message, KeyNames, NoKey
<1>. QED
  BY <1>3, <1>4

LEMMA InitInv == Init => IInv
<1>. SUFFICES ASSUME Init PROVE IInv
  OBVIOUS
<1>1. StartupTypeOK
  <2>1. /\ file \in File(FileKinds) /\ loaded \in Directories
        /\ endpoint \in Endpoints /\ registered \in Endpoints \cup {NoEndpoint}
    BY DEF Init, StartupInit, File, FileKinds
  <2>. QED
    BY <2>1 DEF Init, StartupInit, StartupTypeOK, Ended
<1>2. call \in Call /\ peerKey \in PeerKeys
  BY DEF Init, Idle, Call, Nothing, Message, KeyNames, Codes, NoKey
<1>3. Order /\ Channel /\ Lifetime
  BY DEF Init, StartupInit, Order, Channel, Lifetime
<1>4. Exchange
  BY DEF Init, Exchange, Idle
<1>. QED
  BY <1>1, <1>2, <1>3, <1>4 DEF IInv, TypeOK

---------------------------------------------------------------------------
\* Steps of the two starts keep their types, order, channel and goroutines.
StartInv == StartupTypeOK /\ Order /\ Channel /\ (main # "waiting" => admin = "off" /\ grpc = "off")

LEMMA CommandStep ==
  ASSUME StartInv, StartOk \/ StartFails \/ FilesFail \/ Goroutines \/ Killed
  PROVE  StartInv'
<1>. USE DEF StartInv, StartupTypeOK, Order, Channel, Ended, FileKinds, File
<1>. USE DEF Exit, gatewayVars
<1>1. CASE StartOk
  BY <1>1 DEF StartOk
<1>2. CASE StartFails
  BY <1>2 DEF StartFails
<1>3. CASE FilesFail
  BY <1>3 DEF FilesFail
<1>4. CASE AdminListens
  BY <1>4 DEF AdminListens
<1>5. CASE AdminFails
  BY <1>5 DEF AdminFails
<1>6. CASE GrpcListens
  BY <1>6 DEF GrpcListens
<1>7. CASE GrpcListenFails
  BY <1>7 DEF GrpcListenFails
<1>8. CASE GrpcServesNil
  BY <1>8 DEF GrpcServesNil
<1>9. CASE GrpcServeFails
  BY <1>9 DEF GrpcServeFails
<1>10. CASE Terminated
  BY <1>10 DEF Terminated
<1>11. CASE Killed
  BY <1>11 DEF Killed
<1>. QED
  BY <1>1, <1>2, <1>3, <1>4, <1>5, <1>6, <1>7, <1>8, <1>9, <1>10, <1>11 DEF Goroutines

LEMMA GatewayStep ==
  ASSUME StartInv, NodeStarts \/ NodeLoop \/ NodeKilled
  PROVE  StartInv'
<1>. USE DEF StartInv, StartupTypeOK, Order, Channel, Ended, FileKinds, File
<1>. USE DEF NodeExit, trisaVars
<1>1. CASE NodeStarts
  BY <1>1 DEF NodeStarts
<1>2. CASE NodeLoads
  BY <1>2 DEF NodeLoads
<1>3. CASE NodeLoadFails
  BY <1>3 DEF NodeLoadFails
<1>4. CASE Registers
  BY <1>4 DEF Registers
<1>5. CASE RegisterFails
  BY <1>5 DEF RegisterFails
<1>6. CASE NodeBinds
  BY <1>6 DEF NodeBinds
<1>7. CASE NodeListens
  BY <1>7 DEF NodeListens
<1>8. CASE NodeListenFails
  BY <1>8 DEF NodeListenFails
<1>9. CASE NodeKilled
  BY <1>9 DEF NodeKilled
<1>. QED
  BY <1>1, <1>2, <1>3, <1>4, <1>5, <1>6, <1>7, <1>8, <1>9 DEF NodeLoop

LEMMA FileStep ==
  ASSUME StartInv, OperatorWrites \/ SaveTruncates \/ SaveWrites
  PROVE  StartInv'
  BY DEF StartInv, StartupTypeOK, Order, Channel, Ended, FileKinds, File, OperatorWrites,
         SaveTruncates, SaveWrites, trisaVars, gatewayVars

LEMMA StartupStep == StartInv /\ [StartupNext]_startupVars => StartInv'
<1>. SUFFICES ASSUME StartInv, [StartupNext]_startupVars PROVE StartInv'
  OBVIOUS
<1>1. CASE StartupNext
  BY <1>1, CommandStep, GatewayStep, FileStep DEF StartupNext
<1>2. CASE UNCHANGED startupVars
  BY <1>2 DEF StartInv, StartupTypeOK, Order, Channel, startupVars, trisaVars, gatewayVars
<1>. QED
  BY <1>1, <1>2

\* A running command keeps the directory it loaded.
LEMMA LoadedStep ==
  ASSUME StartupTypeOK, StartupNext, main' = "waiting"
  PROVE  main # "waiting" \/ loaded' = loaded
  BY DEF StartupTypeOK, Ended, StartupNext, OperatorWrites, SaveTruncates, SaveWrites, StartOk,
         StartFails, FilesFail, Goroutines, AdminListens, AdminFails, GrpcListens,
         GrpcListenFails, GrpcServesNil, GrpcServeFails, Terminated, Killed, NodeStarts,
         NodeLoop, NodeLoads, NodeLoadFails, Registers, RegisterFails, NodeBinds, NodeListens,
         NodeListenFails, NodeKilled, NodeExit, Exit, trisaVars, gatewayVars

---------------------------------------------------------------------------
\* What a step of the starts leaves of a call.
LEMMA CallAfterStep ==
  ASSUME IInv, StartupNext, call' = CallAfter, UNCHANGED peerKey
  PROVE  IInv'
<1>1. StartInv'
  BY StartupStep DEF IInv, TypeOK, StartInv, Lifetime
<1>2. CASE main' # "waiting"
  <2>1. call' = Idle
    BY <1>2 DEF CallAfter
  <2>2. call' \in Call
    BY <2>1 DEF Call, Idle, Nothing, Message, KeyNames, Codes, NoKey
  <2>3. TypeOK'
    BY <1>1, <2>2 DEF IInv, TypeOK, StartInv
  <2>4. Exchange'
    BY <2>1 DEF Exchange, Idle
  <2>. QED
    BY <1>1, <2>1, <2>3, <2>4 DEF IInv, StartInv, Lifetime
<1>3. CASE main' = "waiting" /\ main # "waiting"
  <2>1. call = Idle
    BY <1>3 DEF IInv, Lifetime
  <2>2. call' = Idle
    BY <1>3, <2>1 DEF CallAfter, Idle
  <2>3. TypeOK'
    BY <1>1, <2>1, <2>2 DEF IInv, TypeOK, StartInv
  <2>4. Exchange'
    BY <2>2 DEF Exchange, Idle
  <2>. QED
    BY <1>1, <1>3, <2>3, <2>4 DEF IInv, StartInv, Lifetime
<1>4. CASE main' = "waiting" /\ main = "waiting"
  <2>1. loaded' = loaded
    BY <1>4, LoadedStep DEF IInv, TypeOK
  <2>2. \/ call' = call
        \/ call.pc \in {"sent", "posted"} /\ call' = [call EXCEPT !.pc = "error"]
    BY <1>4 DEF CallAfter
  <2>3. TypeOK'
    BY <1>1, <2>2 DEF IInv, TypeOK, Call, StartInv
  <2>4. Exchange'
    BY <2>1, <2>2 DEF IInv, TypeOK, Call, Exchange, Requests, SygnaExample, HandleRequest
  <2>. QED
    BY <1>1, <1>4, <2>3, <2>4 DEF IInv, StartInv, Lifetime
<1>. QED
  BY <1>2, <1>3, <1>4

\* A step of the call itself leaves both starts alone.
LEMMA CallStep ==
  ASSUME IInv, UNCHANGED <<startupVars, peerKey>>,
         call' \in Call, main = "waiting", Exchange'
  PROVE  IInv'
<1>1. StartInv'
  BY StartupStep DEF IInv, TypeOK, StartInv, Lifetime
<1>. QED
  BY <1>1 DEF IInv, TypeOK, StartInv, Lifetime, startupVars, trisaVars

LEMMA SendStep ==
  ASSUME IInv, NEW target \in {"peer", "gateway"}, NEW code \in Codes, Send(target, code)
  PROVE  IInv'
<1>1. PICK m \in Requests(code) :
        call' = [pc |-> IF target = "gateway" /\ nodeGrpc # "listening" THEN "error" ELSE "sent",
                 target |-> target, code |-> code, message |-> m]
  BY DEF Send, Requests
<1>2. main = "waiting"
  BY DEF Send, IInv, Lifetime
<1>3. UNCHANGED <<startupVars, peerKey>> /\ loaded' = loaded
  BY DEF Send, startupVars, trisaVars
<1>4. m \in Message
  BY MessageTypes DEF IInv, TypeOK, StartupTypeOK
<1>5. m \in Requests(code)'
  BY <1>3 DEF Requests, SygnaExample
<1>6. Exchange'
  BY <1>1, <1>5 DEF Exchange
<1>7. call' \in Call
  BY <1>1, <1>4 DEF Call
<1>. QED
  BY <1>2, <1>3, <1>6, <1>7, CallStep

LEMMA AnswerStep ==
  ASSUME IInv, PeerAnswers \/ GatewayPosts \/ GatewayAnswers \/ Answered
  PROVE  IInv'
<1>. USE DEF PeerAnswers, GatewayPosts, GatewayAnswers, Answered
<1>1. call \in Call /\ call.pc \in {"sent", "posted", "answered"} /\ call # Idle
  BY DEF Idle, IInv, TypeOK
<1>2. main = "waiting"
  BY <1>1 DEF IInv, Lifetime
<1>3. UNCHANGED <<startupVars, peerKey>> /\ loaded' = loaded
  BY DEF startupVars, trisaVars
<1>4. call.message \in Message
  BY DEF IInv, TypeOK, Call
<1>5. CASE PeerAnswers
  <2>1. call.message \in Requests(call.code) /\ call.code \in Codes
    BY <1>1, <1>5 DEF IInv, Exchange, Call
  <2>2. HandleRequest(call.message) \in Message
    BY <2>1, MessageTypes DEF IInv, TypeOK, StartupTypeOK
  <2>3. /\ call'.pc = "answered" /\ call'.code = call.code /\ call'.target = "peer"
        /\ call'.message = HandleRequest(call.message)
    BY <1>1, <1>5 DEF Call
  <2>4. call' \in Call
    BY <1>1, <1>5, <2>2 DEF Call
  <2>5. Exchange'
    BY <1>3, <2>1, <2>3 DEF Exchange, Requests, SygnaExample, HandleRequest
  <2>. QED
    BY <1>2, <1>3, <1>4, <2>4, <2>5, CallStep
<1>6. CASE GatewayPosts \/ GatewayAnswers \/ Answered
  <2>1. call' \in Call
    BY <1>1, <1>6 DEF Call
  <2>2. Exchange'
    BY <1>1, <1>3, <1>6 DEF IInv, Call, Exchange, Requests, SygnaExample, HandleRequest
  <2>. QED
    BY <1>2, <1>3, <1>4, <2>1, <2>2, CallStep
<1>. QED
  BY <1>5, <1>6

LEMMA StepInv == IInv /\ [Next]_vars => IInv'
<1>. SUFFICES ASSUME IInv, [Next]_vars PROVE IInv'
  OBVIOUS
<1>1. CASE StartupNext /\ call' = CallAfter /\ UNCHANGED peerKey
  BY <1>1, CallAfterStep
<1>2. CASE \E target \in {"peer", "gateway"}, code \in Codes : Send(target, code)
  BY <1>2, SendStep
<1>3. CASE PeerAnswers \/ GatewayPosts \/ GatewayAnswers \/ Answered
  BY <1>3, AnswerStep
<1>4. CASE UNCHANGED vars
  BY <1>4 DEF vars, startupVars, trisaVars, gatewayVars, IInv, TypeOK, StartupTypeOK, Order,
              Channel, Lifetime, Exchange, Requests, SygnaExample, HandleRequest
<1>. QED
  BY <1>1, <1>2, <1>3, <1>4 DEF Next

---------------------------------------------------------------------------
THEOREM Invariant == Spec => []IInv
  BY InitInv, StepInv, PTL DEF Spec

THEOREM TypeCorrect == Spec => []TypeOK
<1>1. IInv => TypeOK
  BY DEF IInv
<1>. QED
  BY <1>1, Invariant, PTL

\* The types of the two starts, and with them that the channel of the two listener
\* goroutines never holds more than its capacity, so that neither blocks on it
\* (server.go:86 in cmd/trisa).
THEOREM StartsTyped == Spec => []StartupTypeOK
<1>1. TypeOK => StartupTypeOK
  BY DEF TypeOK
<1>. QED
  BY <1>1, TypeCorrect, PTL

\* A server of the gateway listens only when the Bridge has the endpoint this start
\* loaded, over any number of failed and killed starts with other endpoints
\* (index.ts:8-10).
THEOREM RegistersBeforeServing == Spec => []RegisteredFirst
<1>1. IInv => RegisteredFirst
  BY DEF IInv, TypeOK, StartupTypeOK, Order, RegisteredFirst
<1>. QED
  BY <1>1, Invariant, PTL

\* An identity comes back just if both directories have the right key, whatever other
\* keys they may have (demo.go:83, 101, server.go:315 in cmd/trisa).
THEOREM ComesBack == Spec => []IdentityComesBack
<1>1. IInv => IdentityComesBack
  <2>. SUFFICES ASSUME IInv, call.pc = "dot", call.target = "peer",
                       call.message.example = "sygna"
                PROVE  Decrypt(call.message, "own") = "identity"
                         <=> loaded[call.code] = "peer" /\ peerKey = "own"
    BY DEF IdentityComesBack
  <2>1. PICK m \in Requests(call.code) : call.message = HandleRequest(m)
    BY DEF IInv, Exchange
  <2>2. m = SygnaExample(call.code)
    BY <2>1 DEF Requests, TrisaExample, HandleRequest, Nothing
  <2>3. /\ m.example = "sygna" /\ m.key = loaded[call.code]
        /\ m.text = IF loaded[call.code] = NoKey THEN "null" ELSE "identity"
    BY <2>2 DEF SygnaExample, Encrypt
  <2>4. Decrypt(m, "peer") = IF loaded[call.code] = "peer" THEN "identity" ELSE "null"
    BY <2>3 DEF Decrypt, NoKey
  <2>5. call.message = Encrypt(Decrypt(m, "peer"), peerKey)
    BY <2>1, <2>3 DEF HandleRequest
  <2>. QED
    BY <2>4, <2>5 DEF Encrypt, Decrypt, NoKey
<1>. QED
  BY <1>1, Invariant, PTL
=============================================================================
