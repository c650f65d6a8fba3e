--------------------------- MODULE InteropProofs ---------------------------
(***************************************************************************)
(* Proofs about Interop, for any number of calls, streams, callbacks and   *)
(* crashes.  They are made of those of the parts: what OutboundProofs and  *)
(* TrisaServerProofs prove of every step of the gateway and of the VASP,   *)
(* and an invariant of the wire between them, which says that what the     *)
(* gateway knows of a stream and what the VASP knows of it agree.          *)
(***************************************************************************)
EXTENDS Interop, QueueLemmas, FiniteSetTheorems

\* The proofs of the parts, for the instances Interop makes of them.
GP == INSTANCE OutboundProofs WITH
        Streams   <- StreamNos,
        StreamOf  <- [t \in Transfers |-> t[2]],
        Malformed <- Malformed \X StreamNos,
        streams   <- gwStreams

VP == INSTANCE TrisaServerProofs WITH
        peerUp      <- up,
        Unencodable <- {},
        Undecodable <- {},
        Faults      <- {"peerAborts", "peerCrash", "peerSilent", "peerReorders"}

\* A call that has sent its request, or given up.
Away(c) == pc[c] \notin {"none", "lookup", "dial", "send"}

\* The two sides of a stream: the gateway knows of none the VASP did not open, one
\* it ended or lost is broken at the VASP, and one that works has a gateway.
StreamsMeet == \A s \in StreamNos :
    /\ s \notin DOMAIN streams => gwStreams[s] = "new"
    /\ s \in DOMAIN streams =>
          /\ gwStreams[s] \in {"ended", "closed"} => streams[s].state # "live"
          /\ gwStreams[s] = "open" => streams[s].state = "live"
          /\ streams[s].state = "live" => up

\* Requests under way are of calls that wait for them, one of each, and the gateway
\* has not returned from any.
RequestsMeet == \A s \in DOMAIN streams :
    /\ IsInjective(streams[s].reqs)
    /\ \A c \in Range(streams[s].reqs) :
          /\ held[c] = s /\ Away(c)
          /\ handler[<<c, s>>] \in {"none", "posting", "waiting"}

\* The gateway has a call only for a request that was sent on that stream, which is
\* still under way as long as both last.
CallsMeet == \A c \in Calls, s \in StreamNos :
    /\ handler[<<c, s>>] # "none" => held[c] = s /\ Away(c)
    /\ handler[<<c, s>>] \in {"posting", "waiting"} /\ gwStreams[s] = "open"
          => c \in Range(streams[s].reqs)

\* Answers under way are confirmations the gateway wrote, one of each.
AnswersMeet == \A s \in DOMAIN streams :
    /\ IsInjective(streams[s].resps)
    /\ \A c \in Range(streams[s].resps) : confirms[<<c, s>>] = 1

\* A dot stands for a confirmation that is no longer under way and for which no
\* other dot stands.
DotsMeet == \A d \in Dots :
    /\ got[d] \in Calls
    /\ \E s \in StreamNos : confirms[<<got[d], s>>] = 1
    /\ \A s \in DOMAIN streams : got[d] \notin Range(streams[s].resps)
    /\ \A e \in Dots : got[d] = got[e] => d = e

Bounded == Len(streams) <= MaxStreams

WireInv == Bounded /\ StreamsMeet /\ RequestsMeet /\ CallsMeet /\ AnswersMeet /\ DotsMeet

IInv == GP!IInv /\ VP!IInv /\ WireInv

USE InteropAssumption

---------------------------------------------------------------------------
\* The constants Interop gives to its parts are such as they assume.
LEMMA Parts == GP!OutboundAssumption /\ VP!TrisaServerAssumption
<1>1. /\ [t \in Transfers |-> t[2]] \in [Transfers -> StreamNos]
      /\ Malformed \X StreamNos \subseteq Transfers
  BY DEF Transfers
<1>2. Faults \subseteq GP!AllFaults
  BY DEF G!AllFaults, GP!AllFaults
<1>3. GP!OutboundAssumption
  BY <1>1, <1>2 DEF GP!OutboundAssumption
<1>4. VP!TrisaServerAssumption
  BY DEF VP!TrisaServerAssumption, VP!AllFaults, VP!IsFiniteSet, IsFiniteSet
<1>. QED
  BY <1>3, <1>4

\* The gateway's operations in Interop are those the proofs are about.
LEMMA SameTransferSteps ==
  ASSUME NEW t
  PROVE  /\ G!HandleServerEvent(t) => GP!HandleServerEvent(t)
         /\ G!PermissionRequestOk(t) => GP!PermissionRequestOk(t)
         /\ G!PermissionRequestFailed(t) => GP!PermissionRequestFailed(t)
         /\ G!PostPermission(t) => GP!PostPermission(t)
         /\ G!TxidPosted(t) => GP!TxidPosted(t)
         /\ G!TxidFailed(t) => GP!TxidFailed(t)
         /\ G!BridgeRecords(t) => GP!BridgeRecords(t)
         /\ G!BeneficiaryDecides(t) => GP!BeneficiaryDecides(t)
         /\ G!CallbackUnanswered(t) => GP!CallbackUnanswered(t)
<1>1. G!HandleServerEvent(t) => GP!HandleServerEvent(t)
  BY DEF G!HandleServerEvent, GP!HandleServerEvent, G!Throw, GP!Throw, G!Die, GP!Die,
         G!Suspended, GP!Suspended
<1>2. G!PermissionRequestOk(t) => GP!PermissionRequestOk(t)
  BY DEF G!PermissionRequestOk, GP!PermissionRequestOk, G!Decided, GP!Decided
<1>3. G!PermissionRequestFailed(t) => GP!PermissionRequestFailed(t)
  BY DEF G!PermissionRequestFailed, GP!PermissionRequestFailed, G!Throw, GP!Throw,
         G!Die, GP!Die, G!Suspended, GP!Suspended
<1>4. G!PostPermission(t) => GP!PostPermission(t)
  BY DEF G!PostPermission, GP!PostPermission, G!MayCall, GP!MayCall, G!Decided, GP!Decided,
         G!ResolvePermission, GP!ResolvePermission
<1>5. /\ G!TxidPosted(t) => GP!TxidPosted(t)
      /\ G!TxidFailed(t) => GP!TxidFailed(t)
      /\ G!BridgeRecords(t) => GP!BridgeRecords(t)
  BY DEF G!TxidPosted, GP!TxidPosted, G!TxidFailed, GP!TxidFailed,
         G!BridgeRecords, GP!BridgeRecords
<1>6. /\ G!BeneficiaryDecides(t) => GP!BeneficiaryDecides(t)
      /\ G!CallbackUnanswered(t) => GP!CallbackUnanswered(t)
  BY DEF G!BeneficiaryDecides, GP!BeneficiaryDecides, G!CallbackUnanswered,
         GP!CallbackUnanswered, G!MayCall, GP!MayCall, G!Decided, GP!Decided
<1>. QED
  BY <1>1, <1>2, <1>3, <1>4, <1>5, <1>6

LEMMA SameProcessSteps ==
  /\ G!Init => GP!Init
  /\ G!Crash => GP!Crash
  /\ G!Restart => GP!Restart
  /\ GP!TypeOK => G!TypeOK
<1>1. G!Init => GP!Init
  BY DEF G!Init, GP!Init
<1>2. G!Crash => GP!Crash
  BY DEF G!Crash, GP!Crash, G!Die, GP!Die, G!Suspended, GP!Suspended, G!bridgeVars, GP!bridgeVars
<1>3. G!Restart => GP!Restart
  BY DEF G!Restart, GP!Restart, G!bridgeVars, GP!bridgeVars
<1>4. GP!TypeOK => G!TypeOK
  BY DEF G!TypeOK, GP!TypeOK, G!StreamStates, GP!StreamStates, G!HandlerStates,
         GP!HandlerStates, G!BridgeStates, GP!BridgeStates
<1>. QED
  BY <1>1, <1>2, <1>3, <1>4

\* And the VASP's.
LEMMA SameCallSteps ==
  ASSUME NEW c
  PROVE  /\ V!SendRequest(c) <=> VP!SendRequest(c)
         /\ V!Lookup(c) <=> VP!Lookup(c)
         /\ V!DialOk(c) <=> VP!DialOk(c)
         /\ V!DialFails(c) <=> VP!DialFails(c)
         /\ V!SendOk(c) <=> VP!SendOk(c)
         /\ V!SendFails(c) <=> VP!SendFails(c)
         /\ V!RecvOk(c) <=> VP!RecvOk(c)
         /\ V!RecvFails(c) <=> VP!RecvFails(c)
  BY DEF V!SendRequest, VP!SendRequest, V!Lookup, VP!Lookup, V!DialOk, VP!DialOk,
         V!DialFails, VP!DialFails, V!SendOk, VP!SendOk, V!SendFails, VP!SendFails,
         V!RecvOk, VP!RecvOk, V!RecvFails, VP!RecvFails, V!Receivers, VP!Receivers

LEMMA SamePeerSteps ==
  ASSUME NEW s
  PROVE  /\ VP!PeerAnswers(s) <=> V!PeerAnswers(s)
         /\ VP!PeerWithholds(s) <=> V!PeerWithholds(s)
         /\ VP!PeerAborts(s) <=> V!PeerAborts(s)
         /\ VP!Notice(s) <=> V!Notice(s)
<1>1. VP!PeerAnswers(s) <=> V!PeerAnswers(s)
  BY DEF V!PeerAnswers, VP!PeerAnswers, V!Served, VP!Served, V!RemoveAt, VP!RemoveAt
<1>2. VP!PeerWithholds(s) <=> V!PeerWithholds(s)
  BY DEF V!PeerWithholds, VP!PeerWithholds, V!Served, VP!Served, V!RemoveAt, VP!RemoveAt
<1>3. (VP!PeerAborts(s) <=> V!PeerAborts(s)) /\ (VP!Notice(s) <=> V!Notice(s))
  BY DEF V!PeerAborts, VP!PeerAborts, V!Notice, VP!Notice
<1>. QED
  BY <1>1, <1>2, <1>3

LEMMA SameStates ==
  /\ V!Init => VP!Init
  /\ VP!TypeOK => V!TypeOK
  /\ V!StreamIds = DOMAIN streams /\ VP!StreamIds = DOMAIN streams
  /\ V!vars = VP!vars
  BY DEF V!Init, VP!Init, V!TypeOK, VP!TypeOK, V!Stream, VP!Stream, V!PCs, VP!PCs,
         V!StreamIds, VP!StreamIds, V!vars, VP!vars

---------------------------------------------------------------------------
\* What the states of the two parts consist of.
LEMMA Typed ==
  ASSUME IInv
  PROVE  /\ streams \in Seq(VP!Stream) /\ streams \in [DOMAIN streams -> VP!Stream]
         /\ DOMAIN streams = 1..Len(streams) /\ Len(streams) \in Nat
         /\ DOMAIN streams \subseteq StreamNos
         /\ \A s \in DOMAIN streams :
               /\ streams[s].state \in {"live", "broken", "dead"}
               /\ streams[s].reqs \in Seq(Calls) /\ streams[s].resps \in Seq(Calls)
               /\ streams[s].state # "live" => streams[s].reqs = <<>>
<1>1. streams \in Seq(VP!Stream)
  BY DEF IInv, VP!IInv, VP!TypeOK
<1>2. /\ streams \in [1..Len(streams) -> VP!Stream]
      /\ DOMAIN streams = 1..Len(streams) /\ Len(streams) \in Nat
  BY <1>1, LenProperties
<1>3. DOMAIN streams \subseteq StreamNos
  BY <1>2 DEF IInv, WireInv, Bounded, StreamNos
<1>4. \A s \in DOMAIN streams : streams[s].state # "live" => streams[s].reqs = <<>>
  BY DEF IInv, VP!IInv, VP!Ended, VP!StreamIds
<1>. QED
  BY <1>1, <1>2, <1>3, <1>4 DEF VP!Stream

LEMMA GatewayTyped ==
  ASSUME IInv
  PROVE  /\ up \in BOOLEAN
         /\ handler \in [Transfers -> {"none", "posting", "waiting", "done", "thrown", "lost"}]
         /\ gwStreams \in [StreamNos -> {"new", "open", "ended", "closed"}]
         /\ \A c \in Calls, s \in StreamNos :
               /\ <<c, s>> \in Transfers
               /\ confirms[<<c, s>>] \in {0, 1}
               /\ confirms[<<c, s>>] = 1 => /\ handler[<<c, s>>] = "done"
                                            /\ bridge[<<c, s>>] = "accepted"
<1>1. GP!TypeOK /\ GP!ConfirmOnlyAccepted
  BY DEF IInv, GP!IInv
<1>2. up \in BOOLEAN
  BY <1>1, Zenon DEF GP!TypeOK
<1>. QED
  BY <1>1, <1>2 DEF GP!TypeOK, GP!HandlerStates, GP!StreamStates, GP!ConfirmOnlyAccepted, Transfers

\* A stream on which the gateway returns from no call and confirms none is left as
\* it is.
LEMMA Untouched ==
  ASSUME IInv, NEW s \in DOMAIN streams,
         gwStreams'[s] \in {"ended", "closed"} => gwStreams[s] \in {"ended", "closed"},
         \A c \in Calls : confirms'[<<c, s>>] = confirms[<<c, s>>],
         \A c \in Range(streams[s].reqs) : handler'[<<c, s>>] \notin {"done", "thrown"}
  PROVE  StreamAfter(s, FALSE, 0) = streams[s]
<1>1. streams[s] \in VP!Stream /\ s \in StreamNos
  BY Typed
<1>2. CASE gwStreams'[s] \in {"ended", "closed"}
  <2>1. streams[s].state # "live" /\ streams[s].reqs = <<>>
    BY <1>1, <1>2, Typed DEF IInv, WireInv, StreamsMeet
  <2>2. CASE streams[s].state = "dead"
    BY <2>2 DEF StreamAfter
  <2>3. CASE streams[s].state = "broken"
    <3>1. [streams[s] EXCEPT !.state = "broken", !.reqs = <<>>] = streams[s]
      BY <1>1, <2>1, <2>3 DEF VP!Stream
    <3>. QED
      BY <1>2, <2>3, <3>1 DEF StreamAfter
  <2>. QED
    BY <2>1, <2>2, <2>3, Typed
<1>3. CASE gwStreams'[s] \notin {"ended", "closed"}
  <2>1. Pending(streams[s].reqs, s) = streams[s].reqs
    <3>1. {i \in DOMAIN streams[s].reqs :
             handler'[<<streams[s].reqs[i], s>>] \in {"done", "thrown"}} = {}
      BY DEF Range
    <3>. QED
      BY <3>1 DEF Pending
  <2>2. Answered(streams[s].resps, s) = streams[s].resps
    <3>1. \A c \in Calls : confirms[<<c, s>>] \in Nat
      BY <1>1, GatewayTyped
    <3>2. \A n \in Nat : ~(n > n)
      OBVIOUS
    <3>3. {c \in Calls : confirms'[<<c, s>>] > confirms[<<c, s>>]} = {}
      BY <3>1, <3>2
    <3>. QED
      BY <3>3 DEF Answered
  <2>3. [streams[s] EXCEPT !.reqs = streams[s].reqs, !.resps = streams[s].resps] = streams[s]
    BY <1>1 DEF VP!Stream
  <2>. QED
    BY <1>3, <2>1, <2>2, <2>3 DEF StreamAfter
<1>. QED
  BY <1>2, <1>3

\* The effects of a transfer's steps, stream by stream.
LEMMA EndOf ==
  ASSUME NEW c \in Calls, NEW s \in StreamNos, GP!ComesToEnd(<<c, s>>)
  PROVE  /\ up /\ up' /\ crashes' = crashes
         /\ handler[<<c, s>>] \in {"none", "posting", "waiting"}
         /\ handler'[<<c, s>>] \in {"done", "thrown"}
         /\ \A d \in Calls, r \in StreamNos : d # c \/ r # s =>
               handler'[<<d, r>>] = handler[<<d, r>>] /\ confirms'[<<d, r>>] = confirms[<<d, r>>]
         /\ \A r \in StreamNos : r # s => gwStreams'[r] = gwStreams[r]
         /\ \/ /\ confirms'[<<c, s>>] = confirms[<<c, s>>]
               /\ gwStreams'[s] = IF gwStreams[s] = "new" THEN "open" ELSE gwStreams[s]
            \/ /\ confirms'[<<c, s>>] = confirms[<<c, s>>]
               /\ handler[<<c, s>>] = "posting"
               /\ gwStreams[s] = "open" /\ gwStreams'[s] = "ended"
            \/ /\ confirms[<<c, s>>] = 0 /\ confirms'[<<c, s>>] = 1
               /\ handler[<<c, s>>] = "waiting"
               /\ gwStreams[s] = "open" /\ gwStreams'[s] = "open"
<1>1. <<c, s>> \in Transfers /\ [t \in Transfers |-> t[2]][<<c, s>>] = s
  BY DEF Transfers
<1>2. \A d \in Calls, r \in StreamNos : d # c \/ r # s => <<d, r>> \in Transfers \ {<<c, s>>}
  BY DEF Transfers
<1>. QED
  BY <1>1, <1>2 DEF GP!ComesToEnd, GP!OthersSame, GP!Suspended

LEMMA GoingOn ==
  ASSUME NEW c \in Calls, NEW s \in StreamNos, GP!GoesOn(<<c, s>>)
  PROVE  /\ up /\ up' /\ UNCHANGED <<confirms, crashes>>
         /\ handler[<<c, s>>] \in {"none", "posting"}
         /\ handler'[<<c, s>>] \in {"posting", "waiting"}
         /\ \A d \in Calls, r \in StreamNos : d # c \/ r # s =>
               handler'[<<d, r>>] = handler[<<d, r>>]
         /\ \A r \in StreamNos : gwStreams'[r] =
               IF r = s /\ gwStreams[r] = "new" THEN "open" ELSE gwStreams[r]
<1>1. <<c, s>> \in Transfers /\ [t \in Transfers |-> t[2]][<<c, s>>] = s
  BY DEF Transfers
<1>2. \A d \in Calls, r \in StreamNos : d # c \/ r # s => <<d, r>> \in Transfers \ {<<c, s>>}
  BY DEF Transfers
<1>. QED
  BY <1>1, <1>2 DEF GP!GoesOn, GP!OthersSame, GP!Suspended

\* The call of a request under way on an open stream is on it.
LEMMA BegunIsOpened ==
  ASSUME IInv, NEW c \in Calls, NEW s \in StreamNos, handler[<<c, s>>] \in {"posting", "waiting"}
  PROVE  gwStreams[s] # "new"
<1>1. <<c, s>> \in Transfers /\ [t \in Transfers |-> t[2]][<<c, s>>] = s
  BY DEF Transfers
<1>. QED
  BY <1>1 DEF IInv, GP!IInv, GP!Causality

\* How the end of a call shows on its stream: not at all on one that does not work,
\* by its breaking, or by the request's being gone, with an answer if it was confirmed.
LEMMA Returning ==
  ASSUME IInv, NEW c \in Calls, NEW s \in DOMAIN streams, GP!ComesToEnd(<<c, s>>),
         handler[<<c, s>>] = "none" => Arrives(c, s) \/ ArrivesLate(c, s)
  PROVE  LET old   == streams[s]
             after == StreamAfter(s, FALSE, 0)
             same  == confirms'[<<c, s>>] = confirms[<<c, s>>]
         IN  \/ /\ old.state # "live" /\ same
                /\ gwStreams'[s] = gwStreams[s]
                /\ after = old
             \/ /\ old.state = "live" /\ same /\ old.reqs # <<>>
                /\ gwStreams'[s] = "ended"
                /\ after = [old EXCEPT !.state = "broken", !.reqs = <<>>]
             \/ /\ old.state = "live"
                /\ gwStreams'[s] = "open"
                /\ \E i \in DOMAIN old.reqs :
                      /\ old.reqs[i] = c
                      /\ after = [old EXCEPT !.reqs  = RemoveAt(@, i),
                                             !.resps = IF same THEN @ ELSE Append(@, c)]
<1>. DEFINE old == streams[s]
            same == confirms'[<<c, s>>] = confirms[<<c, s>>]
<1>0. /\ s \in StreamNos /\ old.reqs \in Seq(Calls) /\ DOMAIN old.reqs = 1..Len(old.reqs)
      /\ old.state \in {"live", "broken", "dead"}
      /\ gwStreams[s] \in {"new", "open", "ended", "closed"}
      /\ old.state # "live" => old.reqs = <<>>
  BY Typed, GatewayTyped, LenProperties
<1>1. /\ handler'[<<c, s>>] \in {"done", "thrown"}
      /\ \A d \in Calls : d # c => /\ handler'[<<d, s>>] = handler[<<d, s>>]
                                  /\ confirms'[<<d, s>>] = confirms[<<d, s>>]
  <2>1. \A d \in Calls, r \in StreamNos : d # c \/ r # s =>
           handler'[<<d, r>>] = handler[<<d, r>>] /\ confirms'[<<d, r>>] = confirms[<<d, r>>]
    BY <1>0, EndOf
  <2>. QED
    BY <1>0, <2>1, EndOf
<1>2. CASE gwStreams'[s] \in {"ended", "closed"}
  <2>1. CASE gwStreams[s] = "open"
    <3>1. handler[<<c, s>>] = "posting" /\ gwStreams'[s] = "ended" /\ same
      BY <1>0, <1>2, <2>1, EndOf
    <3>2. old.state = "live" /\ c \in Range(old.reqs)
      BY <1>0, <2>1, <3>1 DEF IInv, WireInv, StreamsMeet, CallsMeet
    <3>3. old.reqs # <<>>
      BY <3>2, EmptySeq DEF Range
    <3>4. StreamAfter(s, FALSE, 0) = [old EXCEPT !.state = "broken", !.reqs = <<>>]
      BY <1>2, <3>2 DEF StreamAfter
    <3>. QED
      BY <3>1, <3>2, <3>3, <3>4
  <2>2. CASE gwStreams[s] # "open"
    <3>1. gwStreams'[s] = gwStreams[s] /\ same
      BY <1>0, <1>2, <2>2, EndOf
    <3>2. old.state # "live" /\ Range(old.reqs) = {}
      BY <1>0, <1>2, <3>1, EmptySeq DEF IInv, WireInv, StreamsMeet, Range
    <3>3. \A d \in Calls : confirms'[<<d, s>>] = confirms[<<d, s>>]
      BY <1>1, <3>1
    <3>4. StreamAfter(s, FALSE, 0) = old
      BY <1>2, <3>1, <3>2, <3>3, Untouched
    <3>. QED
      BY <3>1, <3>2, <3>4
  <2>. QED
    BY <2>1, <2>2
<1>3. CASE gwStreams'[s] \notin {"ended", "closed"}
  <2>1. gwStreams'[s] = "open" /\ gwStreams[s] \in {"new", "open"}
    BY <1>0, <1>3, EndOf
  <2>2. c \in Range(old.reqs)
    <3>1. CASE handler[<<c, s>>] = "none"
      <4>1. Arrives(c, s)
        BY <2>1, <3>1 DEF ArrivesLate
      <4>. QED
        BY <4>1 DEF Arrives, Range
    <3>2. CASE handler[<<c, s>>] \in {"posting", "waiting"}
      <4>1. gwStreams[s] = "open"
        BY <1>0, <2>1, <3>2, BegunIsOpened
      <4>. QED
        BY <1>0, <3>2, <4>1 DEF IInv, WireInv, CallsMeet
    <3>. QED
      BY <1>0, <3>1, <3>2, EndOf
  <2>3. PICK i \in DOMAIN old.reqs : old.reqs[i] = c
    BY <2>2 DEF Range
  <2>4. old.state = "live"
    BY <1>0, <2>2, EmptySeq DEF Range
  <2>5. Pending(old.reqs, s) = RemoveAt(old.reqs, i)
    <3>1. ASSUME NEW j \in DOMAIN old.reqs
          PROVE  handler'[<<old.reqs[j], s>>] \in {"done", "thrown"} <=> j = i
      <4>1. old.reqs[j] \in Calls /\ old.reqs[j] \in Range(old.reqs)
        BY <1>0, ElementOfSeq DEF Range
      <4>2. handler[<<old.reqs[j], s>>] \in {"none", "posting", "waiting"}
        BY <4>1 DEF IInv, WireInv, RequestsMeet
      <4>3. old.reqs[j] = c => j = i
        BY <2>3 DEF IInv, WireInv, RequestsMeet, IsInjective
      <4>. QED
        BY <1>1, <2>3, <4>1, <4>2, <4>3
    <3>2. {j \in DOMAIN old.reqs : handler'[<<old.reqs[j], s>>] \in {"done", "thrown"}} = {i}
      BY <3>1
    <3>3. (CHOOSE j \in {i} : TRUE) = i
      OBVIOUS
    <3>. QED
      BY <3>2, <3>3 DEF Pending
  <2>6. Answered(old.resps, s) = IF same THEN old.resps ELSE Append(old.resps, c)
    <3>. DEFINE confirmed == {d \in Calls : confirms'[<<d, s>>] > confirms[<<d, s>>]}
    <3>1. /\ \A n \in {0, 1} : ~(n > n)
          /\ 1 > 0
      OBVIOUS
    <3>2. ASSUME NEW d \in Calls, d # c PROVE d \notin confirmed
      <4>1. confirms'[<<d, s>>] = confirms[<<d, s>>] /\ confirms[<<d, s>>] \in {0, 1}
        BY <1>0, <1>1, <3>2, GatewayTyped
      <4>. QED
        BY <3>1, <4>1
    <3>3. CASE same
      <4>1. c \notin confirmed
        BY <1>0, <3>1, <3>3, GatewayTyped
      <4>2. confirmed = {}
        BY <3>2, <4>1
      <4>. QED
        BY <3>3, <4>2 DEF Answered
    <3>4. CASE ~same
      <4>1. confirms[<<c, s>>] = 0 /\ confirms'[<<c, s>>] = 1
        BY <1>0, <3>4, EndOf
      <4>2. confirmed = {c}
        BY <3>1, <3>2, <4>1
      <4>3. (CHOOSE d \in {c} : TRUE) = c
        OBVIOUS
      <4>. QED
        BY <3>4, <4>2, <4>3 DEF Answered
    <3>. QED
      BY <3>3, <3>4
  <2>7. StreamAfter(s, FALSE, 0) =
          [old EXCEPT !.reqs = RemoveAt(@, i), !.resps = IF same THEN @ ELSE Append(@, c)]
    BY <1>3, <2>4, <2>5, <2>6 DEF StreamAfter
  <2>. QED
    BY <2>1, <2>3, <2>4, <2>7
<1>. QED
  BY <1>2, <1>3

---------------------------------------------------------------------------
\* What brings a step of the gateway's call for c on stream s about.
Known(c, s) == handler[<<c, s>>] = "none" => Arrives(c, s) \/ ArrivesLate(c, s)

LEMMA GatewaySteps ==
  ASSUME GatewayStep
  PROVE  \/ G!Restart /\ GP!Restart
         \/ GP!Crash
         \/ \E c \in Calls, s \in StreamNos :
               \/ (Arrives(c, s) \/ ArrivesLate(c, s)) /\ GP!HandleServerEvent(<<c, s>>)
               \/ GP!LaterStep(<<c, s>>)
<1>1. ASSUME NEW c \in Calls, NEW s \in StreamNos
      PROVE  /\ G!PermissionRequestOk(<<c, s>>) => GP!LaterStep(<<c, s>>)
             /\ G!PermissionRequestFailed(<<c, s>>) => GP!LaterStep(<<c, s>>)
             /\ G!PostPermission(<<c, s>>) => GP!LaterStep(<<c, s>>)
             /\ G!TxidPosted(<<c, s>>) => GP!LaterStep(<<c, s>>)
             /\ G!TxidFailed(<<c, s>>) => GP!LaterStep(<<c, s>>)
             /\ G!BridgeRecords(<<c, s>>) => GP!LaterStep(<<c, s>>)
             /\ G!BeneficiaryDecides(<<c, s>>) => GP!LaterStep(<<c, s>>)
             /\ G!CallbackUnanswered(<<c, s>>) => GP!LaterStep(<<c, s>>)
             /\ G!HandleServerEvent(<<c, s>>) => GP!HandleServerEvent(<<c, s>>)
  BY SameTransferSteps DEF GP!LaterStep
<1>2. ASSUME NEW c \in Calls, Progress(c) \/ Unforced(c)
      PROVE  \E s \in StreamNos :
                \/ (Arrives(c, s) \/ ArrivesLate(c, s)) /\ GP!HandleServerEvent(<<c, s>>)
                \/ GP!LaterStep(<<c, s>>)
  BY <1>1, <1>2 DEF Progress, Unforced
<1>. QED
  BY <1>2, SameProcessSteps DEF GatewayStep

\* A stream on which the gateway has, or gets, a call is one of the VASP's.
LEMMA KnownIsOpened ==
  ASSUME IInv, NEW c \in Calls, NEW s \in StreamNos,
         Arrives(c, s) \/ ArrivesLate(c, s) \/ handler[<<c, s>>] # "none"
  PROVE  s \in DOMAIN streams
<1>1. CASE Arrives(c, s)
  BY <1>1 DEF Arrives
<1>2. CASE ArrivesLate(c, s) \/ handler[<<c, s>>] # "none"
  <2>1. held[c] = s
    BY <1>2 DEF ArrivesLate, IInv, WireInv, CallsMeet
  <2>2. held[c] \in DOMAIN streams \cup {None}
    BY DEF IInv, VP!IInv, VP!TypeOK, VP!StreamIds
  <2>. QED
    BY <2>1, <2>2 DEF StreamNos
<1>. QED
  BY <1>1, <1>2

LEMMA GatewayEffect ==
  ASSUME IInv, GatewayStep
  PROVE  \/ GP!Quiet
         \/ G!Restart
         \/ GP!Crash /\ GP!Dies({}) /\ crashes < MaxCrashes /\ crashes' = crashes + 1
         \/ \E c \in Calls, s \in DOMAIN streams :
               /\ Known(c, s)
               /\ \/ GP!GoesOn(<<c, s>>)
                  \/ GP!ComesToEnd(<<c, s>>)
                  \/ GP!Dies({<<c, s>>}) /\ crashes < MaxCrashes /\ crashes' = crashes + 1
<1>0. GP!IInv
  BY DEF IInv
<1>1. CASE GP!Crash
  BY <1>0, <1>1, Parts, GP!CrashEffect
<1>2. ASSUME NEW c \in Calls, NEW s \in StreamNos,
             \/ (Arrives(c, s) \/ ArrivesLate(c, s)) /\ GP!HandleServerEvent(<<c, s>>)
             \/ GP!LaterStep(<<c, s>>)
      PROVE  \/ GP!Quiet
             \/ s \in DOMAIN streams /\ Known(c, s) /\ GP!Effect(<<c, s>>)
  <2>0. <<c, s>> \in Transfers
    BY DEF Transfers
  <2>1. CASE (Arrives(c, s) \/ ArrivesLate(c, s)) /\ GP!HandleServerEvent(<<c, s>>)
    BY <1>0, <2>0, <2>1, Parts, GP!HandleEffect, KnownIsOpened DEF Known
  <2>2. CASE GP!LaterStep(<<c, s>>)
    <3>1. GP!Effect(<<c, s>>) /\ (GP!Quiet \/ handler[<<c, s>>] # "none")
      BY <1>0, <2>0, <2>2, Parts, GP!LaterEffect
    <3>. QED
      BY <3>1, KnownIsOpened DEF Known
  <2>. QED
    BY <1>2, <2>1, <2>2
<1>. QED
  BY <1>1, <1>2, GatewaySteps DEF GP!Effect

\* The gateway's part of the invariant is that of its own proofs.
LEMMA GatewayInv == IInv /\ GatewayStep => GP!IInv'
<1>. SUFFICES ASSUME IInv, GatewayStep PROVE GP!IInv'
  OBVIOUS
<1>1. ASSUME NEW c \in Calls, NEW s \in StreamNos,
             GP!HandleServerEvent(<<c, s>>) \/ GP!LaterStep(<<c, s>>)
      PROVE  GP!Next
  <2>1. <<c, s>> \in Transfers
    BY DEF Transfers
  <2>. QED
    BY <1>1, <2>1 DEF GP!Next, GP!LaterStep
<1>2. GP!Next
  BY <1>1, GatewaySteps DEF GP!Next
<1>. QED
  BY <1>2, Parts, GP!InvStep DEF IInv

---------------------------------------------------------------------------
\* What such a step does to the VASP's side.  Unless the gateway dies, every stream
\* is what StreamAfter says, without any loss.
LEMMA Kept ==
  ASSUME IInv, Wire, up => up'
  PROVE  /\ UNCHANGED <<pc, held, got, cached, shared>>
         /\ streams' = [s \in DOMAIN streams |-> StreamAfter(s, FALSE, 0)]
<1>1. PICK n \in [DOMAIN streams -> 0..Cardinality(Calls)] :
         /\ \A s \in DOMAIN streams : n[s] = 0
         /\ streams' = [s \in DOMAIN streams |-> StreamAfter(s, FALSE, n[s])]
  BY DEF Wire
<1>2. streams' = [s \in DOMAIN streams |-> StreamAfter(s, FALSE, 0)]
  BY <1>1
<1>. QED
  BY <1>2 DEF Wire

\* No request is withheld on a stream that does not change.
LEMMA WithheldOn ==
  ASSUME Wire, NEW s \in DOMAIN streams,
         \A r \in DOMAIN streams \ {s} : streams'[r] = streams[r]
  PROVE  withheld' = withheld \cup
            {c \in Range(streams[s].reqs) : /\ streams'[s].state = "live"
                                            /\ c \notin Range(streams'[s].reqs)
                                            /\ confirms'[<<c, s>>] = confirms[<<c, s>>]}
<1>. DEFINE gone(r) == {c \in Range(streams[r].reqs) : /\ streams'[r].state = "live"
                                                      /\ c \notin Range(streams'[r].reqs)
                                                      /\ confirms'[<<c, r>>] = confirms[<<c, r>>]}
<1>1. withheld' = withheld \cup UNION {gone(r) : r \in DOMAIN streams}
  BY DEF Wire
<1>2. \A r \in DOMAIN streams \ {s} : gone(r) = {}
  OBVIOUS
<1>. HIDE DEF gone
<1>3. UNION {gone(r) : r \in DOMAIN streams} = gone(s)
  BY <1>2
<1>. QED
  BY <1>1, <1>3 DEF gone

LEMMA WithheldNone ==
  ASSUME Wire, \A r \in DOMAIN streams : streams'[r] = streams[r]
  PROVE  withheld' = withheld
<1>1. \A r \in DOMAIN streams :
         {c \in Range(streams[r].reqs) : /\ streams'[r].state = "live"
                                         /\ c \notin Range(streams'[r].reqs)
                                         /\ confirms'[<<c, r>>] = confirms[<<c, r>>]} = {}
  OBVIOUS
<1>. QED
  BY <1>1 DEF Wire

\* A step in which the gateway returns from no call leaves the VASP's side alone.
LEMMA StillWire ==
  ASSUME IInv, Wire, up => up', UNCHANGED confirms,
         \A s \in StreamNos : gwStreams'[s] \in {"ended", "closed"} => gwStreams[s] \in {"ended", "closed"},
         \A c \in Calls, s \in StreamNos :
            handler'[<<c, s>>] \in {"done", "thrown"} => handler'[<<c, s>>] = handler[<<c, s>>]
  PROVE  UNCHANGED vaspVars
<1>1. ASSUME NEW s \in DOMAIN streams PROVE StreamAfter(s, FALSE, 0) = streams[s]
  <2>1. s \in StreamNos /\ streams[s].reqs \in Seq(Calls)
    BY Typed
  <2>2. \A c \in Range(streams[s].reqs) : c \in Calls
    BY <2>1, ElementOfSeq, LenProperties DEF Range
  <2>3. \A c \in Range(streams[s].reqs) : handler'[<<c, s>>] \notin {"done", "thrown"}
    BY <2>1, <2>2 DEF IInv, WireInv, RequestsMeet
  <2>. QED
    BY <2>1, <2>3, Untouched
<1>2. streams' = [s \in DOMAIN streams |-> streams[s]]
  BY <1>1, Kept
<1>3. streams' = streams
  BY <1>2, Typed
<1>. QED
  BY <1>3, Kept, WithheldNone DEF vaspVars

\* How the end of the call for c on stream s shows at the VASP: it does not, the
\* stream breaks, or the request is gone from it, i-th of all, with or without an answer.
Unseen(c, s) ==
    /\ streams[s].state # "live"
    /\ UNCHANGED vaspVars
    /\ confirms'[<<c, s>>] = confirms[<<c, s>>]
    /\ gwStreams'[s] = gwStreams[s]

Breaks(c, s) ==
    /\ streams[s].state = "live" /\ streams[s].reqs # <<>>
    /\ streams' = [streams EXCEPT ![s].state = "broken", ![s].reqs = <<>>]
    /\ withheld' = withheld
    /\ confirms'[<<c, s>>] = confirms[<<c, s>>]
    /\ gwStreams'[s] = "ended"

Withholds(c, s, i) ==
    /\ streams[s].state = "live" /\ streams[s].reqs[i] = c
    /\ streams' = [streams EXCEPT ![s].reqs = RemoveAt(@, i)]
    /\ withheld' = withheld \cup {c}
    /\ confirms'[<<c, s>>] = confirms[<<c, s>>]
    /\ gwStreams'[s] = "open"

Answers(c, s, i) ==
    /\ streams[s].state = "live" /\ streams[s].reqs[i] = c
    /\ streams' = [streams EXCEPT ![s].reqs = RemoveAt(@, i), ![s].resps = Append(@, c)]
    /\ withheld' = withheld
    /\ confirms[<<c, s>>] = 0 /\ confirms'[<<c, s>>] = 1
    /\ gwStreams'[s] = "open"

LEMMA EndingWire ==
  ASSUME IInv, Wire, NEW c \in Calls, NEW s \in DOMAIN streams,
         GP!ComesToEnd(<<c, s>>), Known(c, s)
  PROVE  /\ UNCHANGED <<pc, held, got, cached, shared>>
         /\ \/ Unseen(c, s)
            \/ Breaks(c, s)
            \/ \E i \in DOMAIN streams[s].reqs : Withholds(c, s, i) \/ Answers(c, s, i)
<1>. DEFINE old  == streams[s]
            new  == StreamAfter(s, FALSE, 0)
            same == confirms'[<<c, s>>] = confirms[<<c, s>>]
<1>0. /\ s \in StreamNos /\ old \in VP!Stream /\ old.reqs \in Seq(Calls) /\ DOMAIN old.reqs = 1..Len(old.reqs)
  BY Typed, LenProperties
<1>1. up' /\ \A d \in Calls, r \in StreamNos : d # c \/ r # s =>
               handler'[<<d, r>>] = handler[<<d, r>>] /\ confirms'[<<d, r>>] = confirms[<<d, r>>]
  BY <1>0, EndOf
<1>2. \A r \in StreamNos : r # s => gwStreams'[r] = gwStreams[r]
  BY <1>0, EndOf
<1>3. ASSUME NEW r \in DOMAIN streams \ {s} PROVE StreamAfter(r, FALSE, 0) = streams[r]
  <2>1. r \in StreamNos /\ streams[r].reqs \in Seq(Calls)
    BY Typed
  <2>2. \A d \in Range(streams[r].reqs) : d \in Calls
    BY <2>1, ElementOfSeq, LenProperties DEF Range
  <2>3. \A d \in Range(streams[r].reqs) : handler'[<<d, r>>] \notin {"done", "thrown"}
    BY <1>1, <2>1, <2>2 DEF IInv, WireInv, RequestsMeet
  <2>. QED
    BY <1>1, <1>2, <2>1, <2>3, Untouched
<1>4. /\ UNCHANGED <<pc, held, got, cached, shared>>
      /\ streams' = [r \in DOMAIN streams |-> StreamAfter(r, FALSE, 0)]
  BY <1>1, Kept
<1>. HIDE DEF new
<1>5. streams' = [streams EXCEPT ![s] = new]
  <2>1. \A r \in DOMAIN streams : StreamAfter(r, FALSE, 0) = IF r = s THEN new ELSE streams[r]
    BY <1>3 DEF new
  <2>2. streams' = [r \in DOMAIN streams |-> IF r = s THEN new ELSE streams[r]]
    BY <1>4, <2>1
  <2>. QED
    BY <2>2, Typed
<1>6. /\ \A r \in DOMAIN streams \ {s} : streams'[r] = streams[r]
      /\ streams'[s] = new
  BY <1>5, Typed
<1>7. withheld' = withheld \cup {d \in Range(old.reqs) : /\ new.state = "live"
                                                        /\ d \notin Range(new.reqs)
                                                        /\ confirms'[<<d, s>>] = confirms[<<d, s>>]}
  BY <1>6, WithheldOn
<1>8. \/ /\ old.state # "live" /\ same
         /\ gwStreams'[s] = gwStreams[s]
         /\ new = old
      \/ /\ old.state = "live" /\ same /\ old.reqs # <<>>
         /\ gwStreams'[s] = "ended"
         /\ new = [old EXCEPT !.state = "broken", !.reqs = <<>>]
      \/ /\ old.state = "live"
         /\ gwStreams'[s] = "open"
         /\ \E i \in DOMAIN old.reqs :
               /\ old.reqs[i] = c
               /\ new = [old EXCEPT !.reqs  = RemoveAt(@, i),
                                    !.resps = IF same THEN @ ELSE Append(@, c)]
  BY Returning DEF Known, new
<1>9. CASE new = old /\ old.state # "live" /\ same /\ gwStreams'[s] = gwStreams[s]
  <2>1. streams' = streams
    BY <1>5, <1>9, Typed
  <2>. QED
    BY <1>4, <1>9, <2>1, WithheldNone DEF Unseen, vaspVars
<1>10. CASE old.state = "live" /\ same /\ old.reqs # <<>> /\ gwStreams'[s] = "ended"
            /\ new = [old EXCEPT !.state = "broken", !.reqs = <<>>]
  <2>1. new.state # "live"
    BY <1>0, <1>10 DEF VP!Stream
  <2>2. withheld' = withheld
    BY <1>7, <2>1
  <2>3. streams' = [streams EXCEPT ![s].state = "broken", ![s].reqs = <<>>]
    BY <1>0, <1>5, <1>10, Typed DEF VP!Stream
  <2>. QED
    BY <1>4, <1>10, <2>2, <2>3 DEF Breaks
<1>11. ASSUME old.state = "live", gwStreams'[s] = "open", NEW i \in DOMAIN old.reqs, old.reqs[i] = c,
              new = [old EXCEPT !.reqs  = RemoveAt(@, i),
                                !.resps = IF same THEN @ ELSE Append(@, c)]
       PROVE  Withholds(c, s, i) \/ Answers(c, s, i)
  <2>1. new.state = "live" /\ new.reqs = RemoveAt(old.reqs, i)
    BY <1>0, <1>11 DEF VP!Stream
  <2>2. Range(new.reqs) = Range(old.reqs) \ {c} /\ c \in Range(old.reqs)
    <3>1. IsInjective(old.reqs)
      BY DEF IInv, WireInv, RequestsMeet
    <3>2. i \in 1..Len(old.reqs)
      BY <1>0
    <3>3. c \in Range(old.reqs)
      BY <1>11 DEF Range
    <3>. QED
      BY <1>0, <1>11, <2>1, <3>1, <3>2, <3>3, InjectiveRemoveAt
  <2>3. CASE same
    <3>1. withheld' = withheld \cup {c}
      BY <1>7, <2>1, <2>2, <2>3
    <3>2. new = [old EXCEPT !.reqs = RemoveAt(@, i)]
      BY <1>0, <1>11, <2>3 DEF VP!Stream
    <3>3. streams' = [streams EXCEPT ![s].reqs = RemoveAt(@, i)]
      BY <1>5, <3>2
    <3>. QED
      BY <1>11, <2>3, <3>1, <3>3 DEF Withholds
  <2>4. CASE ~same
    <3>1. confirms[<<c, s>>] = 0 /\ confirms'[<<c, s>>] = 1
      BY <1>0, <2>4, EndOf
    <3>2. {d \in Range(old.reqs) : /\ new.state = "live"
                                   /\ d \notin Range(new.reqs)
                                   /\ confirms'[<<d, s>>] = confirms[<<d, s>>]} = {}
      BY <2>2, <2>4
    <3>3. withheld' = withheld
      BY <1>7, <3>2
    <3>4. new = [old EXCEPT !.reqs = RemoveAt(@, i), !.resps = Append(@, c)]
      BY <1>11, <2>4
    <3>5. streams' = [streams EXCEPT ![s].reqs = RemoveAt(@, i), ![s].resps = Append(@, c)]
      BY <1>0, <1>5, <3>4, Typed DEF VP!Stream
    <3>. QED
      BY <1>11, <3>1, <3>3, <3>5 DEF Answers
  <2>. QED
    BY <2>3, <2>4
<1>. QED
  BY <1>4, <1>8, <1>9, <1>10, <1>11

\* The end of the gateway's process breaks every stream that is not dead, and some
\* of the answers on it may still arrive.
LEMMA DeathWire ==
  ASSUME IInv, Wire, up, ~up'
  PROVE  /\ UNCHANGED <<pc, held, got, cached, withheld, shared>>
         /\ \E n \in [DOMAIN streams -> 0..Cardinality(Calls)] :
               /\ \A s \in DOMAIN streams : n[s] <= Len(streams[s].resps)
               /\ streams' = [s \in DOMAIN streams |->
                      IF streams[s].state = "dead" THEN streams[s]
                      ELSE [state |-> "broken", reqs |-> <<>>,
                            resps |-> SubSeq(streams[s].resps, 1, n[s])]]
<1>1. PICK n \in [DOMAIN streams -> 0..Cardinality(Calls)] :
         /\ \A s \in DOMAIN streams : n[s] <= Len(streams[s].resps)
         /\ streams' = [s \in DOMAIN streams |-> StreamAfter(s, TRUE, n[s])]
  BY DEF Wire
<1>2. \A s \in DOMAIN streams : StreamAfter(s, TRUE, n[s]) =
         IF streams[s].state = "dead" THEN streams[s]
         ELSE [state |-> "broken", reqs |-> <<>>, resps |-> SubSeq(streams[s].resps, 1, n[s])]
  BY DEF StreamAfter
<1>3. streams' = [s \in DOMAIN streams |->
         IF streams[s].state = "dead" THEN streams[s]
         ELSE [state |-> "broken", reqs |-> <<>>, resps |-> SubSeq(streams[s].resps, 1, n[s])]]
  BY <1>1, <1>2
<1>4. \A s \in DOMAIN streams : streams'[s].state # "live"
  BY <1>3
<1>5. withheld' = withheld
  <2>1. \A r \in DOMAIN streams :
           {c \in Range(streams[r].reqs) : /\ streams'[r].state = "live"
                                           /\ c \notin Range(streams'[r].reqs)
                                           /\ confirms'[<<c, r>>] = confirms[<<c, r>>]} = {}
    BY <1>4
  <2>. QED
    BY <2>1 DEF Wire
<1>. QED
  BY <1>1, <1>3, <1>5 DEF Wire

---------------------------------------------------------------------------
LEMMA SameCardinality == V!Cardinality(Calls) = Cardinality(Calls)
  BY DEF V!Cardinality, Cardinality

\* For the VASP the gateway is a peer as TrisaServer has one: it does not tell a
\* process that was killed from one that a rejection ended.
LEMMA GatewayAsPeer ==
  ASSUME IInv, GatewayStep, Wire
  PROVE  \/ UNCHANGED V!vars
         \/ \E s \in DOMAIN streams : V!PeerAnswers(s) \/ V!PeerWithholds(s) \/ V!PeerAborts(s)
         \/ V!PeerCrash
         \/ V!PeerStarts
<1>0. up \in BOOLEAN /\ up' \in BOOLEAN
  <2>1. GP!TypeOK /\ GP!TypeOK'
    BY GatewayInv DEF IInv, GP!IInv
  <2>. QED
    BY <2>1, Zenon DEF GP!TypeOK
<1>1. CASE GP!Quiet \/ G!Restart
  <2>1. UNCHANGED <<handler, confirms, crashes, gwStreams>>
    BY <1>1 DEF GP!Quiet, G!Restart, G!bridgeVars
  <2>2. CASE G!Restart
    <3>1. ~up /\ up' = TRUE
      BY <2>2 DEF G!Restart
    <3>2. UNCHANGED vaspVars
      BY <2>1, <3>1, StillWire
    <3>. QED
      BY <2>1, <3>1, <3>2 DEF V!PeerStarts, vaspVars
  <2>3. CASE GP!Quiet
    <3>1. up' = up
      BY <2>3 DEF GP!Quiet
    <3>2. UNCHANGED vaspVars
      BY <2>1, <3>1, StillWire
    <3>. QED
      BY <2>1, <3>1, <3>2 DEF V!vars, vaspVars
  <2>. QED
    BY <1>1, <2>2, <2>3
<1>2. ASSUME NEW c \in Calls, NEW s \in DOMAIN streams, Known(c, s), GP!GoesOn(<<c, s>>)
      PROVE  UNCHANGED V!vars
  <2>1. s \in StreamNos
    BY Typed
  <2>2. up /\ up' /\ UNCHANGED <<confirms, crashes>>
    BY <1>2, <2>1, GoingOn
  <2>3. \A r \in StreamNos : gwStreams'[r] \in {"ended", "closed"} => gwStreams[r] \in {"ended", "closed"}
    BY <1>2, <2>1, GoingOn
  <2>4. \A d \in Calls, r \in StreamNos :
           handler'[<<d, r>>] \in {"done", "thrown"} => handler'[<<d, r>>] = handler[<<d, r>>]
    <3>1. handler'[<<c, s>>] \notin {"done", "thrown"}
      BY <1>2, <2>1, GoingOn
    <3>2. \A d \in Calls, r \in StreamNos : d # c \/ r # s => handler'[<<d, r>>] = handler[<<d, r>>]
      BY <1>2, <2>1, GoingOn
    <3>. QED
      BY <3>1, <3>2
  <2>5. UNCHANGED vaspVars
    BY <2>2, <2>3, <2>4, StillWire
  <2>. QED
    BY <1>0, <2>2, <2>5 DEF V!vars, vaspVars
<1>3. ASSUME NEW c \in Calls, NEW s \in DOMAIN streams, Known(c, s), GP!ComesToEnd(<<c, s>>)
      PROVE  UNCHANGED V!vars \/ V!PeerAnswers(s) \/ V!PeerWithholds(s) \/ V!PeerAborts(s)
  <2>1. up' = up /\ crashes' = crashes
    BY <1>0, <1>3, Typed, EndOf
  <2>2. UNCHANGED <<pc, held, got, cached, shared>>
    BY <1>3, EndingWire
  <2>3. CASE Unseen(c, s)
    BY <2>1, <2>3 DEF Unseen, V!vars, vaspVars
  <2>4. CASE Breaks(c, s)
    BY <2>1, <2>2, <2>4 DEF Breaks, V!PeerAborts
  <2>5. ASSUME NEW i \in DOMAIN streams[s].reqs, Withholds(c, s, i) PROVE V!PeerWithholds(s)
    BY <2>1, <2>2, <2>5 DEF Withholds, V!PeerWithholds, V!Served, V!RemoveAt, RemoveAt
  <2>6. ASSUME NEW i \in DOMAIN streams[s].reqs, Answers(c, s, i) PROVE V!PeerAnswers(s)
    BY <2>1, <2>2, <2>6 DEF Answers, V!PeerAnswers, V!Served, V!RemoveAt, RemoveAt
  <2>. QED
    BY <1>3, <2>3, <2>4, <2>5, <2>6, EndingWire
<1>4. ASSUME NEW T \in SUBSET Transfers,
             GP!Dies(T), crashes < MaxCrashes, crashes' = crashes + 1
      PROVE  V!PeerCrash
  <2>1. up /\ up' = FALSE
    BY <1>0, <1>4 DEF GP!Dies
  <2>. QED
    BY <1>4, <2>1, DeathWire, SameCardinality DEF V!PeerCrash, V!StreamIds
<1>5. ASSUME NEW c \in Calls, NEW s \in DOMAIN streams PROVE {<<c, s>>} \in SUBSET Transfers
  BY Typed DEF Transfers
<1>. QED
  BY <1>1, <1>2, <1>3, <1>4, <1>5, GatewayEffect

LEMMA SamePeerCrash == (V!PeerCrash => VP!PeerCrash) /\ (V!PeerStarts => VP!PeerStarts)
<1>1. V!Cardinality(Calls) = VP!Cardinality(Calls)
  BY DEF V!Cardinality, VP!Cardinality
<1>2. V!PeerCrash => VP!PeerCrash
  BY <1>1 DEF V!PeerCrash, VP!PeerCrash, V!StreamIds, VP!StreamIds
<1>. QED
  BY <1>2 DEF V!PeerStarts, VP!PeerStarts

\* So the VASP's part of the invariant is that of its own proofs, too.
LEMMA VaspInv == IInv /\ GatewayStep /\ Wire => VP!IInv'
<1>. SUFFICES ASSUME IInv, GatewayStep, Wire PROVE VP!IInv'
  OBVIOUS
<1>0. VP!IInv /\ VP!TrisaServerAssumption
  BY Parts DEF IInv
<1>1. CASE UNCHANGED V!vars
  <2>1. UNCHANGED VP!vars
    BY <1>1 DEF V!vars, VP!vars
  <2>. QED
    BY <1>0, <2>1, VP!InvStep
<1>2. ASSUME NEW s \in DOMAIN streams,
             V!PeerAnswers(s) \/ V!PeerWithholds(s) \/ V!PeerAborts(s)
      PROVE  VP!IInv'
  <2>1. VP!Next
    BY <1>2, SamePeerSteps, SameStates DEF VP!Next, VP!PeerServes
  <2>. QED
    BY <1>0, <2>1, VP!InvStep
<1>3. CASE V!PeerCrash \/ V!PeerStarts
  <2>1. VP!Next
    BY <1>3, SamePeerCrash DEF VP!Next
  <2>. QED
    BY <1>0, <2>1, VP!InvStep
<1>. QED
  BY <1>1, <1>2, <1>3, GatewayAsPeer

\* The steps of the VASP are steps of TrisaServer and leave the gateway alone.
LEMMA VaspSteps ==
  ASSUME VaspStep
  PROVE  /\ V!Next /\ VP!Next
         /\ \/ \E c \in Calls :
                  \/ VP!SendRequest(c) \/ VP!Lookup(c) \/ VP!DialFails(c) \/ VP!SendOk(c)
                  \/ VP!SendFails(c) \/ VP!RecvOk(c) \/ VP!RecvFails(c)
                  \/ VP!DialOk(c) /\ Len(streams') <= MaxStreams
            \/ \E s \in DOMAIN streams : VP!Notice(s)
<1>1. V!Next
  BY SameStates DEF VaspStep, CallStep, V!Next
<1>2. \/ \E c \in Calls :
            \/ VP!SendRequest(c) \/ VP!Lookup(c) \/ VP!DialFails(c) \/ VP!SendOk(c)
            \/ VP!SendFails(c) \/ VP!RecvOk(c) \/ VP!RecvFails(c)
            \/ VP!DialOk(c) /\ Len(streams') <= MaxStreams
      \/ \E s \in DOMAIN streams : VP!Notice(s)
  BY SameCallSteps, SamePeerSteps DEF VaspStep, CallStep, V!CallStep
<1>3. VP!Next
  BY <1>2, SameStates DEF VP!Next, VP!CallStep
<1>. QED
  BY <1>1, <1>2, <1>3

LEMMA PartsOfVaspStep ==
  ASSUME IInv, UNCHANGED gatewayVars, VaspStep
  PROVE  GP!IInv' /\ VP!IInv'
<1>1. UNCHANGED GP!vars
  BY DEF gatewayVars, GP!vars, GP!bridgeVars
<1>2. GP!IInv'
  BY <1>1, Parts, GP!InvStep DEF IInv
<1>. QED
  BY <1>2, Parts, VaspSteps, VP!InvStep DEF IInv

---------------------------------------------------------------------------
\* The wire's part of the invariant, over the steps of the gateway.
LEMMA WireTyped ==
  ASSUME IInv
  PROVE  /\ held \in [Calls -> DOMAIN streams \cup {None}]
         /\ got \in [Calls -> Calls \cup {None}]
         /\ None \notin StreamNos /\ None \notin DOMAIN streams
<1>1. held \in [Calls -> DOMAIN streams \cup {None}] /\ got \in [Calls -> Calls \cup {None}]
  BY SameStates DEF IInv, VP!IInv, VP!TypeOK
<1>. QED
  BY <1>1, Typed DEF StreamNos

\* Nothing the wire's invariant speaks of changes, except that a call may begin or
\* go on, or that the gateway starts again.
LEMMA QuietWire ==
  ASSUME IInv, UNCHANGED vaspVars, UNCHANGED confirms,
         up => up',
         \A s \in StreamNos : \/ gwStreams'[s] = gwStreams[s]
                              \/ /\ gwStreams[s] = "new" /\ gwStreams'[s] = "open"
                                 /\ s \in DOMAIN streams /\ streams[s].state = "live",
         \A c \in Calls, s \in StreamNos :
            \/ handler'[<<c, s>>] = handler[<<c, s>>]
            \/ /\ handler'[<<c, s>>] \in {"posting", "waiting"}
               /\ held[c] = s /\ Away(c)
               /\ gwStreams'[s] = "open" => s \in DOMAIN streams /\ c \in Range(streams[s].reqs)
  PROVE  WireInv'
<1>0. /\ pc' = pc /\ held' = held /\ got' = got /\ streams' = streams
      /\ \A c : Away(c)' = Away(c)
  BY DEF vaspVars, Away
<1>1. Bounded' /\ AnswersMeet' /\ DotsMeet'
  <2>1. Bounded' /\ AnswersMeet'
    BY <1>0 DEF IInv, WireInv, Bounded, AnswersMeet
  <2>2. Dots' = Dots
    BY <1>0 DEF Dots
  <2>. QED
    BY <1>0, <2>1, <2>2 DEF IInv, WireInv, DotsMeet
<1>2. StreamsMeet'
  BY <1>0 DEF IInv, WireInv, StreamsMeet
<1>3. RequestsMeet'
  <2>1. \A s \in DOMAIN streams : s \in StreamNos /\ \A c \in Range(streams[s].reqs) : c \in Calls
    BY Typed, ElementOfSeq, LenProperties DEF Range
  <2>. QED
    BY <1>0, <2>1 DEF IInv, WireInv, RequestsMeet
<1>4. CallsMeet'
  <2>. SUFFICES ASSUME NEW c \in Calls, NEW s \in StreamNos
                PROVE  /\ handler'[<<c, s>>] # "none" => held'[c] = s /\ Away(c)'
                       /\ handler'[<<c, s>>] \in {"posting", "waiting"} /\ gwStreams'[s] = "open"
                             => c \in Range(streams'[s].reqs)
    BY Zenon DEF CallsMeet
  <2>1. /\ handler'[<<c, s>>] # "none" => held[c] = s /\ Away(c)
        /\ handler'[<<c, s>>] \in {"posting", "waiting"} /\ gwStreams'[s] = "open"
              => c \in Range(streams[s].reqs)
    <3>1. CASE handler'[<<c, s>>] # handler[<<c, s>>]
      BY <3>1
    <3>2. CASE handler'[<<c, s>>] = handler[<<c, s>>]
      <4>1. handler[<<c, s>>] \in {"posting", "waiting"} => gwStreams[s] # "new"
        BY BegunIsOpened
      <4>. QED
        BY <3>2, <4>1 DEF IInv, WireInv, CallsMeet
    <3>. QED
      BY <3>1, <3>2
  <2>. QED
    BY <1>0, <2>1
<1>. QED
  BY <1>1, <1>2, <1>3, <1>4 DEF WireInv

\* The call of a transaction that arrives, or has arrived, is held by its /send call.
LEMMA KnownIsAway ==
  ASSUME IInv, NEW c \in Calls, NEW s \in StreamNos,
         Arrives(c, s) \/ ArrivesLate(c, s) \/ handler[<<c, s>>] # "none"
  PROVE  held[c] = s /\ Away(c)
<1>1. CASE Arrives(c, s)
  <2>1. s \in DOMAIN streams /\ c \in Range(streams[s].reqs)
    BY <1>1 DEF Arrives, Range
  <2>. QED
    BY <2>1 DEF IInv, WireInv, RequestsMeet
<1>2. CASE ArrivesLate(c, s)
  BY <1>2 DEF ArrivesLate, Away
<1>3. CASE handler[<<c, s>>] # "none"
  BY <1>3 DEF IInv, WireInv, CallsMeet
<1>. QED
  BY <1>1, <1>2, <1>3

\* What is left on the stream of a call that ends: its request is gone, and only
\* its own confirmation is new.
LEMMA EndedStream ==
  ASSUME IInv, Wire, NEW c \in Calls, NEW s \in DOMAIN streams,
         GP!ComesToEnd(<<c, s>>), Known(c, s)
  PROVE  /\ DOMAIN streams' = DOMAIN streams
         /\ \A r \in DOMAIN streams : r # s => streams'[r] = streams[r]
         /\ gwStreams'[s] \in {"ended", "closed"} => streams'[s].state # "live"
         /\ gwStreams'[s] = "open" => streams'[s].state = "live"
         /\ IsInjective(streams'[s].reqs)
         /\ Range(streams'[s].reqs) \subseteq Range(streams[s].reqs) \ {c}
         /\ gwStreams'[s] = "open" => Range(streams'[s].reqs) = Range(streams[s].reqs) \ {c}
         /\ IsInjective(streams'[s].resps)
         /\ IF confirms'[<<c, s>>] = confirms[<<c, s>>]
            THEN Range(streams'[s].resps) = Range(streams[s].resps)
            ELSE /\ Range(streams'[s].resps) = Range(streams[s].resps) \cup {c}
                 /\ confirms[<<c, s>>] = 0 /\ confirms'[<<c, s>>] = 1
<1>. DEFINE old == streams[s]
<1>0. /\ s \in StreamNos /\ old \in VP!Stream
      /\ old.reqs \in Seq(Calls) /\ old.resps \in Seq(Calls)
      /\ DOMAIN old.reqs = 1..Len(old.reqs)
      /\ old.state # "live" => old.reqs = <<>>
  BY Typed, LenProperties
<1>1. IsInjective(old.reqs) /\ IsInjective(old.resps)
  BY DEF IInv, WireInv, RequestsMeet, AnswersMeet
<1>2. Range(<<>>) = {} /\ IsInjective(<<>>)
  BY EmptySeq DEF Range, IsInjective
<1>3. CASE Unseen(c, s)
  <2>1. /\ streams' = streams /\ old.reqs = <<>> /\ old.state # "live"
        /\ gwStreams'[s] = gwStreams[s] /\ confirms'[<<c, s>>] = confirms[<<c, s>>]
    BY <1>0, <1>3 DEF Unseen, vaspVars
  <2>2. gwStreams[s] # "open"
    BY <1>0, <2>1 DEF IInv, WireInv, StreamsMeet
  <2>. QED
    BY <1>1, <1>2, <2>1, <2>2
<1>4. CASE Breaks(c, s)
  <2>1. /\ DOMAIN streams' = DOMAIN streams
        /\ \A r \in DOMAIN streams : r # s => streams'[r] = streams[r]
        /\ streams'[s] = [old EXCEPT !.state = "broken", !.reqs = <<>>]
        /\ gwStreams'[s] = "ended" /\ confirms'[<<c, s>>] = confirms[<<c, s>>]
    BY <1>4, Typed DEF Breaks
  <2>2. streams'[s].state = "broken" /\ streams'[s].reqs = <<>> /\ streams'[s].resps = old.resps
    BY <1>0, <2>1 DEF VP!Stream
  <2>. QED
    BY <1>1, <1>2, <2>1, <2>2
<1>5. ASSUME NEW i \in DOMAIN old.reqs, Withholds(c, s, i) \/ Answers(c, s, i)
      PROVE  /\ DOMAIN streams' = DOMAIN streams
             /\ \A r \in DOMAIN streams : r # s => streams'[r] = streams[r]
             /\ gwStreams'[s] = "open" /\ streams'[s].state = "live"
             /\ IsInjective(streams'[s].reqs)
             /\ Range(streams'[s].reqs) = Range(old.reqs) \ {c}
             /\ \/ /\ streams'[s].resps = old.resps
                   /\ confirms'[<<c, s>>] = confirms[<<c, s>>]
                \/ /\ streams'[s].resps = Append(old.resps, c)
                   /\ confirms[<<c, s>>] = 0 /\ confirms'[<<c, s>>] = 1
  <2>1. IsInjective(RemoveAt(old.reqs, i)) /\ Range(RemoveAt(old.reqs, i)) = Range(old.reqs) \ {c}
    <3>1. i \in 1..Len(old.reqs) /\ old.reqs[i] = c
      BY <1>0, <1>5 DEF Withholds, Answers
    <3>. QED
      BY <1>0, <1>1, <3>1, InjectiveRemoveAt
  <2>2. CASE Withholds(c, s, i)
    <3>1. /\ DOMAIN streams' = DOMAIN streams
          /\ \A r \in DOMAIN streams : r # s => streams'[r] = streams[r]
          /\ streams'[s] = [old EXCEPT !.reqs = RemoveAt(@, i)]
          /\ gwStreams'[s] = "open" /\ confirms'[<<c, s>>] = confirms[<<c, s>>]
          /\ old.state = "live"
      BY <2>2, Typed DEF Withholds
    <3>2. /\ streams'[s].state = "live" /\ streams'[s].reqs = RemoveAt(old.reqs, i)
          /\ streams'[s].resps = old.resps
      BY <1>0, <3>1 DEF VP!Stream
    <3>. QED
      BY <2>1, <3>1, <3>2
  <2>3. CASE Answers(c, s, i)
    <3>1. /\ DOMAIN streams' = DOMAIN streams
          /\ \A r \in DOMAIN streams : r # s => streams'[r] = streams[r]
          /\ streams'[s] = [old EXCEPT !.reqs = RemoveAt(@, i), !.resps = Append(@, c)]
          /\ gwStreams'[s] = "open" /\ confirms[<<c, s>>] = 0 /\ confirms'[<<c, s>>] = 1
          /\ old.state = "live"
      BY <2>3, Typed DEF Answers
    <3>2. /\ streams'[s].state = "live" /\ streams'[s].reqs = RemoveAt(old.reqs, i)
          /\ streams'[s].resps = Append(old.resps, c)
      BY <1>0, <3>1 DEF VP!Stream
    <3>. QED
      BY <2>1, <3>1, <3>2
  <2>. QED
    BY <1>5, <2>2, <2>3
<1>6. ASSUME confirms[<<c, s>>] = 0
      PROVE  /\ IsInjective(Append(old.resps, c))
             /\ Range(Append(old.resps, c)) = Range(old.resps) \cup {c}
  <2>1. c \notin Range(old.resps)
    BY <1>6 DEF IInv, WireInv, AnswersMeet
  <2>. QED
    BY <1>0, <1>1, <2>1, InjectiveAppend, RangeOfAppend
<1>7. ASSUME NEW i \in DOMAIN old.reqs, Withholds(c, s, i) \/ Answers(c, s, i)
      PROVE  /\ IsInjective(streams'[s].resps)
             /\ IF confirms'[<<c, s>>] = confirms[<<c, s>>]
                THEN Range(streams'[s].resps) = Range(old.resps)
                ELSE /\ Range(streams'[s].resps) = Range(old.resps) \cup {c}
                     /\ confirms[<<c, s>>] = 0 /\ confirms'[<<c, s>>] = 1
  <2>1. CASE /\ streams'[s].resps = old.resps
             /\ confirms'[<<c, s>>] = confirms[<<c, s>>]
    BY <1>1, <2>1
  <2>2. CASE /\ streams'[s].resps = Append(old.resps, c)
             /\ confirms[<<c, s>>] = 0 /\ confirms'[<<c, s>>] = 1
    <3>1. confirms'[<<c, s>>] # confirms[<<c, s>>]
      BY <2>2
    <3>. QED
      BY <1>6, <2>2, <3>1
  <2>. QED
    BY <1>5, <1>7, <2>1, <2>2
<1>. QED
  BY <1>3, <1>4, <1>5, <1>7, EndingWire

LEMMA SameLen ==
  ASSUME NEW S, NEW p \in Seq(S), NEW q \in Seq(S), DOMAIN p = DOMAIN q
  PROVE  Len(p) = Len(q)
  BY LenProperties

LEMMA EndingWireInv ==
  ASSUME IInv, Wire, GatewayStep, NEW c \in Calls, NEW s \in DOMAIN streams,
         GP!ComesToEnd(<<c, s>>), Known(c, s)
  PROVE  WireInv'
<1>0. /\ s \in StreamNos /\ DOMAIN streams = 1..Len(streams)
      /\ DOMAIN streams \subseteq StreamNos /\ Len(streams) \in Nat
      /\ \A r \in DOMAIN streams : Range(streams[r].reqs) \subseteq Calls /\ Range(streams[r].resps) \subseteq Calls
  BY Typed, LenProperties, ElementOfSeq DEF Range
<1>1. /\ pc' = pc /\ held' = held /\ got' = got
      /\ \A d : Away(d)' = Away(d)
      /\ Dots' = Dots
  BY EndingWire DEF Away, Dots
<1>2. /\ DOMAIN streams' = DOMAIN streams
      /\ \A r \in DOMAIN streams : r # s => streams'[r] = streams[r]
      /\ gwStreams'[s] \in {"ended", "closed"} => streams'[s].state # "live"
      /\ gwStreams'[s] = "open" => streams'[s].state = "live"
      /\ IsInjective(streams'[s].reqs) /\ IsInjective(streams'[s].resps)
      /\ Range(streams'[s].reqs) \subseteq Range(streams[s].reqs) \ {c}
      /\ gwStreams'[s] = "open" => Range(streams'[s].reqs) = Range(streams[s].reqs) \ {c}
  BY EndedStream
<1>3. IF confirms'[<<c, s>>] = confirms[<<c, s>>]
      THEN Range(streams'[s].resps) = Range(streams[s].resps)
      ELSE /\ Range(streams'[s].resps) = Range(streams[s].resps) \cup {c}
           /\ confirms[<<c, s>>] = 0 /\ confirms'[<<c, s>>] = 1
  BY EndedStream
<1>4. /\ up' /\ handler'[<<c, s>>] \in {"done", "thrown"}
      /\ \A r \in StreamNos : r # s => gwStreams'[r] = gwStreams[r]
      /\ gwStreams'[s] = "open" => gwStreams[s] \in {"new", "open"}
  BY <1>0, EndOf, GatewayTyped
<1>5. \A d \in Calls, r \in StreamNos : d # c \/ r # s =>
         handler'[<<d, r>>] = handler[<<d, r>>] /\ confirms'[<<d, r>>] = confirms[<<d, r>>]
  BY <1>0, EndOf
<1>6. held[c] = s /\ Away(c)
  BY <1>0, KnownIsAway DEF Known
<1>7. Bounded'
  <2>1. streams' \in Seq(VP!Stream)
    BY VaspInv DEF VP!IInv, VP!TypeOK
  <2>. QED
    BY <1>0, <1>2, <2>1, SameLen DEF IInv, WireInv, Bounded
<1>8. StreamsMeet'
  <2>. SUFFICES ASSUME NEW r \in StreamNos
                PROVE  /\ r \notin DOMAIN streams => gwStreams'[r] = "new"
                       /\ r \in DOMAIN streams =>
                             /\ gwStreams'[r] \in {"ended", "closed"} => streams'[r].state # "live"
                             /\ gwStreams'[r] = "open" => streams'[r].state = "live"
                             /\ streams'[r].state = "live" => up'
    BY <1>2 DEF StreamsMeet
  <2>. QED
    BY <1>2, <1>4 DEF IInv, WireInv, StreamsMeet
<1>9. RequestsMeet'
  <2>. SUFFICES ASSUME NEW r \in DOMAIN streams
                PROVE  /\ IsInjective(streams'[r].reqs)
                       /\ \A d \in Range(streams'[r].reqs) :
                             /\ held'[d] = r /\ Away(d)'
                             /\ handler'[<<d, r>>] \in {"none", "posting", "waiting"}
    BY <1>2 DEF RequestsMeet
  <2>1. Range(streams'[r].reqs) \subseteq Range(streams[r].reqs)
    BY <1>2
  <2>2. \A d \in Range(streams'[r].reqs) : d \in Calls /\ (d # c \/ r # s)
    BY <1>0, <1>2, <2>1
  <2>. QED
    BY <1>0, <1>1, <1>2, <1>5, <2>1, <2>2 DEF IInv, WireInv, RequestsMeet
<1>10. CallsMeet'
  <2>. SUFFICES ASSUME NEW d \in Calls, NEW r \in StreamNos
                PROVE  /\ handler'[<<d, r>>] # "none" => held'[d] = r /\ Away(d)'
                       /\ handler'[<<d, r>>] \in {"posting", "waiting"} /\ gwStreams'[r] = "open"
                             => d \in Range(streams'[r].reqs)
    BY Zenon DEF CallsMeet
  <2>1. CASE d = c /\ r = s
    BY <1>1, <1>4, <1>6, <2>1
  <2>2. CASE d # c \/ r # s
    <3>1. /\ handler[<<d, r>>] # "none" => held[d] = r /\ Away(d)
          /\ handler[<<d, r>>] \in {"posting", "waiting"} /\ gwStreams[r] = "open"
                => d \in Range(streams[r].reqs) /\ r \in DOMAIN streams
      BY KnownIsOpened DEF IInv, WireInv, CallsMeet
    <3>2. handler[<<d, r>>] \in {"posting", "waiting"} => gwStreams[r] # "new"
      BY BegunIsOpened
    <3>. QED
      BY <1>1, <1>2, <1>4, <1>5, <2>2, <3>1, <3>2
  <2>. QED
    BY <2>1, <2>2
<1>11. AnswersMeet'
  <2>. SUFFICES ASSUME NEW r \in DOMAIN streams
                PROVE  /\ IsInjective(streams'[r].resps)
                       /\ \A d \in Range(streams'[r].resps) : confirms'[<<d, r>>] = 1
    BY <1>2 DEF AnswersMeet
  <2>0. /\ IsInjective(streams[r].resps)
        /\ \A d \in Range(streams[r].resps) : d \in Calls /\ confirms[<<d, r>>] = 1
    BY <1>0 DEF IInv, WireInv, AnswersMeet
  <2>1. CASE r # s
    BY <1>0, <1>2, <1>5, <2>0, <2>1
  <2>2. CASE r = s
    BY <1>0, <1>2, <1>3, <1>5, <2>0, <2>2
  <2>. QED
    BY <2>1, <2>2
<1>12. DotsMeet'
  <2>. SUFFICES ASSUME NEW d \in Dots
                PROVE  /\ got[d] \in Calls
                       /\ \E r \in StreamNos : confirms'[<<got[d], r>>] = 1
                       /\ \A r \in DOMAIN streams : got[d] \notin Range(streams'[r].resps)
                       /\ \A e \in Dots : got[d] = got[e] => d = e
    BY <1>1, <1>2 DEF DotsMeet
  <2>0. /\ \A r \in DOMAIN streams : got[d] \notin Range(streams[r].resps)
        /\ \A e \in Dots : got[d] = got[e] => d = e
    BY DEF IInv, WireInv, DotsMeet
  <2>1. PICK r \in StreamNos : confirms[<<got[d], r>>] = 1
    BY DEF IInv, WireInv, DotsMeet
  <2>2. got[d] \in Calls
    BY DEF IInv, WireInv, DotsMeet
  <2>3. confirms'[<<got[d], r>>] = 1
    <3>1. CASE got[d] = c /\ r = s
      <4>1. confirms[<<c, s>>] # 0
        BY <2>1, <3>1
      <4>. QED
        BY <1>3, <2>1, <3>1, <4>1
    <3>2. CASE got[d] # c \/ r # s
      BY <1>5, <2>1, <2>2, <3>2
    <3>. QED
      BY <3>1, <3>2
  <2>4. got[d] = c => Range(streams'[s].resps) = Range(streams[s].resps)
    <3>. SUFFICES ASSUME got[d] = c PROVE confirms[<<c, s>>] # 0
      BY <1>3
    <3>1. handler[<<c, r>>] # "none"
      BY <2>1, GatewayTyped
    <3>2. r = s
      BY <1>6, <3>1 DEF IInv, WireInv, CallsMeet
    <3>. QED
      BY <2>1, <3>2
  <2>5. \A q \in DOMAIN streams : got[d] \notin Range(streams'[q].resps)
    BY <1>2, <1>3, <2>0, <2>4
  <2>. QED
    BY <2>0, <2>2, <2>3, <2>5
<1>. QED
  BY <1>7, <1>8, <1>9, <1>10, <1>11, <1>12 DEF WireInv

\* The end of the process: T is what ended it, a call whose rejection nothing
\* handles, or nothing.
LEMMA DeathWireInv ==
  ASSUME IInv, Wire, GatewayStep, NEW T \in SUBSET Transfers, GP!Dies(T),
         \A t \in T : /\ t[2] \in DOMAIN streams
                      /\ held[t[1]] = t[2] /\ Away(t[1])
  PROVE  WireInv'
<1>0. /\ DOMAIN streams \subseteq StreamNos
      /\ \A r \in DOMAIN streams :
            /\ streams[r].resps \in Seq(Calls) /\ Len(streams[r].resps) \in Nat
            /\ streams[r].state # "live" => streams[r].reqs = <<>>
      /\ streams \in Seq(VP!Stream)
  BY Typed, LenProperties
<1>1. /\ up /\ ~up' /\ confirms' = confirms
      /\ \A d \in Calls, r \in StreamNos :
            /\ handler'[<<d, r>>] \notin {"posting", "waiting"}
            /\ <<d, r>> \notin T => (handler'[<<d, r>>] = "none" <=> handler[<<d, r>>] = "none")
      /\ \A r \in StreamNos :
            /\ gwStreams'[r] # "open"
            /\ (\A t \in T : r # t[2]) => (gwStreams'[r] = "new" <=> gwStreams[r] = "new")
  <2>1. \A d \in Calls, r \in StreamNos : <<d, r>> \in Transfers
    BY DEF Transfers
  <2>2. \A t \in T : [u \in Transfers |-> u[2]][t] = t[2]
    OBVIOUS
  <2>. QED
    BY <2>1, <2>2 DEF GP!Dies, GP!Suspended
<1>2. /\ pc' = pc /\ held' = held /\ got' = got
      /\ \A d : Away(d)' = Away(d)
      /\ Dots' = Dots
  BY <1>1, DeathWire DEF Away, Dots
<1>3. PICK n \in [DOMAIN streams -> 0..Cardinality(Calls)] :
         /\ \A s \in DOMAIN streams : n[s] <= Len(streams[s].resps)
         /\ streams' = [s \in DOMAIN streams |->
                IF streams[s].state = "dead" THEN streams[s]
                ELSE [state |-> "broken", reqs |-> <<>>,
                      resps |-> SubSeq(streams[s].resps, 1, n[s])]]
  BY <1>1, DeathWire
<1>4. DOMAIN streams' = DOMAIN streams
  BY <1>3
<1>5. ASSUME NEW r \in DOMAIN streams
      PROVE  /\ streams'[r].state # "live" /\ streams'[r].reqs = <<>>
             /\ IsInjective(streams'[r].resps)
             /\ Range(streams'[r].resps) \subseteq Range(streams[r].resps)
  <2>0. IsInjective(streams[r].resps)
    BY DEF IInv, WireInv, AnswersMeet
  <2>1. CASE streams[r].state = "dead"
    BY <1>0, <1>3, <2>0, <2>1
  <2>2. CASE streams[r].state # "dead"
    <3>1. streams'[r] = [state |-> "broken", reqs |-> <<>>, resps |-> SubSeq(streams[r].resps, 1, n[r])]
      BY <1>3, <2>2
    <3>2. n[r] \in 0..Len(streams[r].resps)
      BY <1>0, <1>3, FS_CardinalityType
    <3>. QED
      BY <1>0, <2>0, <3>1, <3>2, InjectivePrefix, RangeOfPrefix
  <2>. QED
    BY <2>1, <2>2
<1>6. Bounded'
  <2>1. streams' \in Seq(VP!Stream)
    BY VaspInv DEF VP!IInv, VP!TypeOK
  <2>. QED
    BY <1>0, <1>4, <2>1, SameLen DEF IInv, WireInv, Bounded
<1>7. StreamsMeet'
  <2>. SUFFICES ASSUME NEW r \in StreamNos
                PROVE  r \notin DOMAIN streams => gwStreams'[r] = "new"
    BY <1>1, <1>4, <1>5 DEF StreamsMeet
  <2>. QED
    BY <1>1 DEF IInv, WireInv, StreamsMeet
<1>8. RequestsMeet'
  <2>1. Range(<<>>) = {} /\ IsInjective(<<>>)
    BY EmptySeq DEF Range, IsInjective
  <2>. QED
    BY <1>4, <1>5, <2>1 DEF RequestsMeet
<1>9. CallsMeet'
  <2>. SUFFICES ASSUME NEW d \in Calls, NEW r \in StreamNos, handler'[<<d, r>>] # "none"
                PROVE  held[d] = r /\ Away(d)
    BY <1>1, <1>2 DEF CallsMeet
  <2>1. CASE <<d, r>> \in T
    BY <2>1
  <2>2. CASE <<d, r>> \notin T
    BY <1>1, <2>2 DEF IInv, WireInv, CallsMeet
  <2>. QED
    BY <2>1, <2>2
<1>10. AnswersMeet'
  BY <1>1, <1>4, <1>5 DEF IInv, WireInv, AnswersMeet
<1>11. DotsMeet'
  <2>. SUFFICES ASSUME NEW d \in Dots
                PROVE  /\ got[d] \in Calls
                       /\ \E r \in StreamNos : confirms'[<<got[d], r>>] = 1
                       /\ \A r \in DOMAIN streams : got[d] \notin Range(streams'[r].resps)
                       /\ \A e \in Dots : got[d] = got[e] => d = e
    BY <1>2, <1>4 DEF DotsMeet
  <2>1. /\ got[d] \in Calls
        /\ \E r \in StreamNos : confirms[<<got[d], r>>] = 1
        /\ \A r \in DOMAIN streams : got[d] \notin Range(streams[r].resps)
        /\ \A e \in Dots : got[d] = got[e] => d = e
    BY DEF IInv, WireInv, DotsMeet
  <2>. QED
    BY <1>1, <1>5, <2>1
<1>. QED
  BY <1>6, <1>7, <1>8, <1>9, <1>10, <1>11 DEF WireInv

LEMMA GatewayWireInv ==
  ASSUME IInv, GatewayStep, Wire
  PROVE  WireInv'
<1>1. CASE GP!Quiet \/ G!Restart
  <2>1. UNCHANGED <<handler, confirms, gwStreams>> /\ (up => up')
    BY <1>1 DEF GP!Quiet, G!Restart
  <2>2. UNCHANGED vaspVars
    BY <2>1, StillWire
  <2>. QED
    BY <2>1, <2>2, QuietWire
<1>2. ASSUME NEW c \in Calls, NEW s \in DOMAIN streams, Known(c, s), GP!GoesOn(<<c, s>>)
      PROVE  WireInv'
  <2>0. s \in StreamNos
    BY Typed
  <2>1. /\ up /\ up' /\ UNCHANGED confirms
        /\ handler[<<c, s>>] \in {"none", "posting"}
        /\ handler'[<<c, s>>] \in {"posting", "waiting"}
        /\ \A d \in Calls, r \in StreamNos : d # c \/ r # s => handler'[<<d, r>>] = handler[<<d, r>>]
        /\ \A r \in StreamNos : gwStreams'[r] = IF r = s /\ gwStreams[r] = "new" THEN "open" ELSE gwStreams[r]
    BY <1>2, <2>0, GoingOn
  <2>2. UNCHANGED vaspVars
    BY <2>1, StillWire
  <2>3. held[c] = s /\ Away(c)
    BY <1>2, <2>0, KnownIsAway DEF Known
  <2>4. gwStreams'[s] = "open" => c \in Range(streams[s].reqs)
    <3>. SUFFICES ASSUME gwStreams'[s] = "open" PROVE c \in Range(streams[s].reqs)
      OBVIOUS
    <3>1. CASE handler[<<c, s>>] = "none"
      <4>1. Arrives(c, s)
        BY <1>2, <2>0, <2>1, <3>1 DEF Known, ArrivesLate
      <4>. QED
        BY <4>1 DEF Arrives, Range
    <3>2. CASE handler[<<c, s>>] = "posting"
      <4>1. gwStreams[s] = "open"
        BY <2>0, <2>1, <3>2, BegunIsOpened
      <4>. QED
        BY <2>0, <3>2, <4>1 DEF IInv, WireInv, CallsMeet
    <3>. QED
      BY <2>1, <3>1, <3>2
  <2>5. gwStreams[s] = "new" => streams[s].state = "live"
    <3>. SUFFICES ASSUME gwStreams[s] = "new" PROVE streams[s].state = "live"
      OBVIOUS
    <3>1. c \in Range(streams[s].reqs)
      BY <2>0, <2>1, <2>4
    <3>2. streams[s].reqs # <<>>
      BY <3>1, EmptySeq DEF Range
    <3>. QED
      BY <3>2, Typed
  <2>6. \A r \in StreamNos : \/ gwStreams'[r] = gwStreams[r]
                             \/ /\ gwStreams[r] = "new" /\ gwStreams'[r] = "open"
                                /\ r \in DOMAIN streams /\ streams[r].state = "live"
    BY <2>1, <2>5
  <2>7. \A d \in Calls, r \in StreamNos :
           \/ handler'[<<d, r>>] = handler[<<d, r>>]
           \/ /\ handler'[<<d, r>>] \in {"posting", "waiting"}
              /\ held[d] = r /\ Away(d)
              /\ gwStreams'[r] = "open" => r \in DOMAIN streams /\ d \in Range(streams[r].reqs)
    BY <2>1, <2>3, <2>4
  <2>. QED
    BY <2>1, <2>2, <2>6, <2>7, QuietWire
<1>3. ASSUME NEW c \in Calls, NEW s \in DOMAIN streams, Known(c, s), GP!ComesToEnd(<<c, s>>)
      PROVE  WireInv'
  BY <1>3, EndingWireInv
<1>4. CASE GP!Dies({})
  BY <1>4, DeathWireInv
<1>5. ASSUME NEW c \in Calls, NEW s \in DOMAIN streams, Known(c, s), GP!Dies({<<c, s>>})
      PROVE  WireInv'
  <2>1. s \in StreamNos /\ <<c, s>> \in Transfers
    BY Typed DEF Transfers
  <2>2. held[c] = s /\ Away(c)
    BY <1>5, <2>1, KnownIsAway DEF Known
  <2>. QED
    BY <1>5, <2>1, <2>2, DeathWireInv
<1>. QED
  BY <1>1, <1>2, <1>3, <1>4, <1>5, GatewayEffect

---------------------------------------------------------------------------
\* The same over the steps of the VASP.  A step that opens no stream: what was sent
\* stays so, and a stream loses no request and gets no answer.
LEMMA DotsKept ==
  ASSUME IInv, UNCHANGED <<got, confirms>>, Dots' = Dots, DOMAIN streams' = DOMAIN streams,
         \A s \in DOMAIN streams : Range(streams'[s].resps) \subseteq Range(streams[s].resps)
  PROVE  DotsMeet'
<1>. SUFFICES ASSUME NEW d \in Dots
              PROVE  /\ got[d] \in Calls
                     /\ \E r \in StreamNos : confirms[<<got[d], r>>] = 1
                     /\ \A r \in DOMAIN streams : got[d] \notin Range(streams'[r].resps)
                     /\ \A e \in Dots : got[d] = got[e] => d = e
  BY DEF DotsMeet
<1>1. /\ got[d] \in Calls
      /\ \E r \in StreamNos : confirms[<<got[d], r>>] = 1
      /\ \A r \in DOMAIN streams : got[d] \notin Range(streams[r].resps)
      /\ \A e \in Dots : got[d] = got[e] => d = e
  BY DEF IInv, WireInv, DotsMeet
<1>. QED
  BY <1>1

LEMMA KeptByVasp ==
  ASSUME IInv, UNCHANGED gatewayVars, VP!IInv', DotsMeet',
         DOMAIN streams' = DOMAIN streams,
         \A d \in Calls : Away(d) => Away(d)' /\ held'[d] = held[d],
         \A s \in DOMAIN streams :
            /\ streams'[s].state = "live" <=> streams[s].state = "live"
            /\ IsInjective(streams'[s].reqs)
            /\ Range(streams[s].reqs) \subseteq Range(streams'[s].reqs)
            /\ \A d \in Range(streams'[s].reqs) :
                  \/ d \in Range(streams[s].reqs)
                  \/ held'[d] = s /\ Away(d)' /\ handler[<<d, s>>] = "none"
            /\ IsInjective(streams'[s].resps)
            /\ Range(streams'[s].resps) \subseteq Range(streams[s].resps)
  PROVE  WireInv'
<1>0. /\ up' = up /\ gwStreams' = gwStreams /\ handler' = handler /\ confirms' = confirms
      /\ DOMAIN streams \subseteq StreamNos
      /\ \A s \in DOMAIN streams : Range(streams[s].reqs) \subseteq Calls
  BY Typed, LenProperties, ElementOfSeq DEF gatewayVars, Range
<1>1. Bounded'
  <2>1. streams \in Seq(VP!Stream) /\ streams' \in Seq(VP!Stream)
    BY DEF IInv, VP!IInv, VP!TypeOK
  <2>. QED
    BY <2>1, SameLen DEF IInv, WireInv, Bounded
<1>2. StreamsMeet'
  BY <1>0 DEF IInv, WireInv, StreamsMeet
<1>3. RequestsMeet'
  <2>. SUFFICES ASSUME NEW s \in DOMAIN streams, NEW d \in Range(streams'[s].reqs)
                PROVE  /\ held'[d] = s /\ Away(d)'
                       /\ handler[<<d, s>>] \in {"none", "posting", "waiting"}
    BY <1>0 DEF RequestsMeet
  <2>1. CASE d \in Range(streams[s].reqs)
    BY <1>0, <2>1 DEF IInv, WireInv, RequestsMeet
  <2>2. CASE held'[d] = s /\ Away(d)' /\ handler[<<d, s>>] = "none"
    BY <2>2
  <2>. QED
    BY <2>1, <2>2
<1>4. CallsMeet'
  <2>. SUFFICES ASSUME NEW d \in Calls, NEW s \in StreamNos
                PROVE  /\ handler[<<d, s>>] # "none" => held'[d] = s /\ Away(d)'
                       /\ handler[<<d, s>>] \in {"posting", "waiting"} /\ gwStreams[s] = "open"
                             => d \in Range(streams'[s].reqs)
    BY <1>0, Zenon DEF CallsMeet
  <2>1. /\ handler[<<d, s>>] # "none" => held[d] = s /\ Away(d) /\ s \in DOMAIN streams
        /\ handler[<<d, s>>] \in {"posting", "waiting"} /\ gwStreams[s] = "open"
              => d \in Range(streams[s].reqs)
    BY KnownIsOpened DEF IInv, WireInv, CallsMeet
  <2>. QED
    BY <2>1
<1>5. AnswersMeet'
  <2>. SUFFICES ASSUME NEW s \in DOMAIN streams, NEW d \in Range(streams'[s].resps)
                PROVE  confirms[<<d, s>>] = 1
    BY <1>0 DEF AnswersMeet
  <2>. QED
    BY DEF IInv, WireInv, AnswersMeet
<1>. QED
  BY <1>1, <1>2, <1>3, <1>4, <1>5 DEF WireInv

\* Calls that begin, look a stream up, or give up.
LEMMA MoveWire ==
  ASSUME IInv, UNCHANGED gatewayVars, VP!IInv', NEW c \in Calls,
         \/ VP!SendRequest(c) \/ VP!Lookup(c) \/ VP!DialFails(c)
         \/ VP!SendFails(c) \/ VP!RecvFails(c)
  PROVE  WireInv'
<1>0. pc \in [Calls -> VP!PCs] /\ held \in [Calls -> DOMAIN streams \cup {None}]
  BY SameStates DEF IInv, VP!IInv, VP!TypeOK
<1>1. /\ streams' = streams /\ got' = got
      /\ pc[c] \in {"none", "lookup", "dial", "send", "recv"}
      /\ \A d \in Calls : d # c => pc'[d] = pc[d] /\ held'[d] = held[d]
      /\ pc[c] = "recv" => held'[c] = held[c] /\ pc'[c] = "failed"
      /\ pc'[c] # "ok"
  BY <1>0 DEF VP!SendRequest, VP!Lookup, VP!DialFails, VP!SendFails, VP!RecvFails
<1>2. Dots' = Dots
  BY <1>1 DEF Dots
<1>3. \A d \in Calls : Away(d) => Away(d)' /\ held'[d] = held[d]
  BY <1>1 DEF Away
<1>4. DotsMeet'
  BY <1>1, <1>2, DotsKept DEF gatewayVars
<1>. QED
  BY <1>1, <1>3, <1>4, KeptByVasp DEF IInv, WireInv, RequestsMeet, AnswersMeet

\* A transport that notices that its stream is broken.
LEMMA NoticeWire ==
  ASSUME IInv, UNCHANGED gatewayVars, VP!IInv', NEW s \in DOMAIN streams, VP!Notice(s)
  PROVE  WireInv'
<1>0. /\ streams[s].state = "broken"
      /\ streams' = [streams EXCEPT ![s].state = "dead"]
      /\ pc' = pc /\ held' = held /\ got' = got /\ confirms' = confirms
  BY DEF VP!Notice, gatewayVars
<1>1. /\ DOMAIN streams' = DOMAIN streams
      /\ \A r \in DOMAIN streams :
            /\ streams'[r].state = "live" <=> streams[r].state = "live"
            /\ streams'[r].reqs = streams[r].reqs /\ streams'[r].resps = streams[r].resps
  BY <1>0, Typed DEF VP!Stream
<1>2. Dots' = Dots /\ \A d : Away(d)' = Away(d)
  BY <1>0 DEF Dots, Away
<1>3. DotsMeet'
  BY <1>0, <1>1, <1>2, DotsKept
<1>. QED
  BY <1>0, <1>1, <1>2, <1>3, KeptByVasp DEF IInv, WireInv, RequestsMeet, AnswersMeet

\* A request that is sent.
LEMMA SendWire ==
  ASSUME IInv, UNCHANGED gatewayVars, VP!IInv', NEW c \in Calls, VP!SendOk(c)
  PROVE  WireInv'
<1>. DEFINE s == held[c]
<1>0. pc \in [Calls -> VP!PCs]
  BY DEF IInv, VP!IInv, VP!TypeOK
<1>1. s \in DOMAIN streams
  <2>1. held[c] # None
    BY DEF IInv, VP!IInv, VP!Holding, VP!SendOk
  <2>. QED
    BY <2>1, WireTyped
<1>2. /\ pc[c] = "send"
      /\ pc' = [pc EXCEPT ![c] = "recv"] /\ held' = held /\ got' = got /\ confirms' = confirms
      /\ streams' = IF streams[s].state = "live"
                    THEN [streams EXCEPT ![s].reqs = Append(@, c)] ELSE streams
  BY DEF VP!SendOk, gatewayVars
<1>3. ~Away(c) /\ Away(c)' /\ \A d \in Calls : Away(d) => Away(d)'
  BY <1>0, <1>2 DEF Away
<1>4. Dots' = Dots
  BY <1>0, <1>2 DEF Dots
<1>5. handler[<<c, s>>] = "none" /\ c \notin Range(streams[s].reqs)
  BY <1>1, <1>3, Typed DEF IInv, WireInv, CallsMeet, RequestsMeet
<1>6. /\ IsInjective(Append(streams[s].reqs, c))
      /\ Range(Append(streams[s].reqs, c)) = Range(streams[s].reqs) \cup {c}
  <2>1. streams[s].reqs \in Seq(Calls) /\ IsInjective(streams[s].reqs)
    BY <1>1, Typed DEF IInv, WireInv, RequestsMeet
  <2>. QED
    BY <1>5, <2>1, InjectiveAppend, RangeOfAppend
<1>7. /\ DOMAIN streams' = DOMAIN streams
      /\ \A r \in DOMAIN streams :
            /\ streams'[r].state = streams[r].state
            /\ streams'[r].resps = streams[r].resps
            /\ \/ streams'[r].reqs = streams[r].reqs
               \/ r = s /\ streams'[r].reqs = Append(streams[s].reqs, c)
  BY <1>1, <1>2, Typed DEF VP!Stream
<1>8. DotsMeet'
  BY <1>2, <1>4, <1>7, DotsKept
<1>9. ASSUME NEW r \in DOMAIN streams
      PROVE  /\ IsInjective(streams'[r].reqs)
             /\ Range(streams[r].reqs) \subseteq Range(streams'[r].reqs)
             /\ \A d \in Range(streams'[r].reqs) :
                   \/ d \in Range(streams[r].reqs)
                   \/ held'[d] = r /\ Away(d)' /\ handler[<<d, r>>] = "none"
  <2>1. CASE streams'[r].reqs = streams[r].reqs
    BY <2>1 DEF IInv, WireInv, RequestsMeet
  <2>2. CASE r = s /\ streams'[r].reqs = Append(streams[s].reqs, c)
    BY <1>2, <1>3, <1>5, <1>6, <2>2
  <2>. QED
    BY <1>7, <2>1, <2>2
<1>10. \A r \in DOMAIN streams : IsInjective(streams[r].resps)
  BY DEF IInv, WireInv, AnswersMeet
<1>. QED
  BY <1>2, <1>3, <1>7, <1>8, <1>9, <1>10, KeptByVasp

\* An answer that is received: nobody has received it before, and it is on no other
\* stream, because the call it answers sent its request once.
LEMMA ReceiveWire ==
  ASSUME IInv, UNCHANGED gatewayVars, VP!IInv', NEW c \in Calls, VP!RecvOk(c)
  PROVE  WireInv'
<1>. DEFINE s == held[c]
            a == Head(streams[s].resps)
<1>0. pc \in [Calls -> VP!PCs] /\ got \in [Calls -> Calls \cup {None}]
  BY DEF IInv, VP!IInv, VP!TypeOK
<1>1. s \in DOMAIN streams
  <2>1. held[c] # None
    BY DEF IInv, VP!IInv, VP!Holding, VP!RecvOk
  <2>. QED
    BY <2>1, WireTyped
<1>2. /\ pc[c] = "recv" /\ streams[s].resps # <<>>
      /\ got' = [got EXCEPT ![c] = a]
      /\ pc' = [pc EXCEPT ![c] = "ok"]
      /\ streams' = [streams EXCEPT ![s].resps = Tail(@)]
      /\ held' = held /\ confirms' = confirms
  BY DEF VP!RecvOk, gatewayVars
<1>3. \A d \in Calls : Away(d) => Away(d)'
  BY <1>0, <1>2 DEF Away
<1>4. c \notin Dots /\ Dots' = Dots \cup {c}
  BY <1>0, <1>2 DEF Dots
<1>5. /\ got'[c] = a
      /\ \A d \in Dots : got'[d] = got[d]
  BY <1>0, <1>2, <1>4 DEF Dots
<1>6. /\ a \in Calls /\ a \in Range(streams[s].resps)
      /\ IsInjective(Tail(streams[s].resps))
      /\ Range(Tail(streams[s].resps)) = Range(streams[s].resps) \ {a}
  <2>1. streams[s].resps \in Seq(Calls) /\ IsInjective(streams[s].resps)
    BY <1>1, Typed DEF IInv, WireInv, AnswersMeet
  <2>. QED
    BY <1>2, <2>1, InjectiveTail, RangeOfTail
<1>7. /\ DOMAIN streams' = DOMAIN streams /\ DOMAIN streams \subseteq StreamNos
      /\ \A r \in DOMAIN streams :
            /\ streams'[r].state = streams[r].state
            /\ streams'[r].reqs = streams[r].reqs
            /\ streams'[r].resps = IF r = s THEN Tail(streams[s].resps) ELSE streams[r].resps
  BY <1>1, <1>2, Typed DEF VP!Stream
<1>. HIDE DEF a
<1>8. confirms[<<a, s>>] = 1
  BY <1>1, <1>6 DEF IInv, WireInv, AnswersMeet
<1>9. \A r \in DOMAIN streams : a \notin Range(streams'[r].resps)
  <2>. SUFFICES ASSUME NEW r \in DOMAIN streams, r # s, a \in Range(streams[r].resps)
                PROVE  FALSE
    BY <1>6, <1>7
  <2>1. confirms[<<a, r>>] = 1
    BY DEF IInv, WireInv, AnswersMeet
  <2>2. handler[<<a, r>>] = "done" /\ handler[<<a, s>>] = "done"
    BY <1>1, <1>6, <1>7, <1>8, <2>1, GatewayTyped
  <2>. QED
    BY <1>1, <1>6, <1>7, <2>2 DEF IInv, WireInv, CallsMeet
<1>10. \A r \in DOMAIN streams : /\ IsInjective(streams'[r].resps)
                                 /\ Range(streams'[r].resps) \subseteq Range(streams[r].resps)
  BY <1>6, <1>7 DEF IInv, WireInv, AnswersMeet
<1>11. DotsMeet'
  <2>1. ASSUME NEW d \in Dots
        PROVE  /\ got[d] \in Calls /\ got[d] # a
               /\ \E r \in StreamNos : confirms[<<got[d], r>>] = 1
               /\ \A r \in DOMAIN streams : got[d] \notin Range(streams'[r].resps)
               /\ \A e \in Dots : got[d] = got[e] => d = e
    BY <1>1, <1>6, <1>10 DEF IInv, WireInv, DotsMeet
  <2>. SUFFICES ASSUME NEW d \in Dots \cup {c}
                PROVE  /\ got'[d] \in Calls
                       /\ \E r \in StreamNos : confirms[<<got'[d], r>>] = 1
                       /\ \A r \in DOMAIN streams : got'[d] \notin Range(streams'[r].resps)
                       /\ \A e \in Dots \cup {c} : got'[d] = got'[e] => d = e
    BY <1>2, <1>4, <1>7 DEF DotsMeet
  <2>2. CASE d = c
    <3>1. \A e \in Dots : got'[e] # got'[c]
      BY <1>5, <2>1
    <3>. QED
      BY <1>1, <1>5, <1>6, <1>7, <1>8, <1>9, <2>2, <3>1
  <2>3. CASE d \in Dots
    BY <1>4, <1>5, <2>1, <2>3
  <2>. QED
    BY <2>2, <2>3
<1>. QED
  BY <1>2, <1>3, <1>7, <1>10, <1>11, KeptByVasp DEF IInv, WireInv, RequestsMeet

\* A stream that is opened is new to the gateway, and carries nothing.
LEMMA DialWire ==
  ASSUME IInv, UNCHANGED gatewayVars, VP!IInv', NEW c \in Calls,
         VP!DialOk(c), Len(streams') <= MaxStreams
  PROVE  WireInv'
<1>. DEFINE new   == Len(streams) + 1
            fresh == [state |-> "live", reqs |-> <<>>, resps |-> <<>>]
<1>0. /\ pc \in [Calls -> VP!PCs] /\ held \in [Calls -> DOMAIN streams \cup {None}]
  BY SameStates DEF IInv, VP!IInv, VP!TypeOK
<1>1. /\ pc[c] = "dial" /\ up
      /\ streams' = Append(streams, fresh)
      /\ held' = [held EXCEPT ![c] = new]
      /\ pc' = [pc EXCEPT ![c] = "send"] /\ got' = got
      /\ up' = up /\ gwStreams' = gwStreams /\ handler' = handler /\ confirms' = confirms
  BY DEF VP!DialOk, gatewayVars
<1>2. /\ fresh \in VP!Stream /\ fresh.state = "live"
      /\ Range(fresh.reqs) = {} /\ Range(fresh.resps) = {}
      /\ IsInjective(fresh.reqs) /\ IsInjective(fresh.resps)
  <2>1. Range(<<>>) = {} /\ IsInjective(<<>>) /\ <<>> \in Seq(Calls)
    BY EmptySeq DEF Range, IsInjective
  <2>. QED
    BY <2>1 DEF VP!Stream
<1>. HIDE DEF fresh
<1>3. /\ DOMAIN streams' = DOMAIN streams \cup {new}
      /\ new \notin DOMAIN streams
      /\ streams'[new] = fresh
      /\ \A r \in DOMAIN streams : streams'[r] = streams[r]
  <2>1. /\ Len(streams') = Len(streams) + 1
        /\ \A i \in 1..Len(streams) : streams'[i] = streams[i]
        /\ streams'[Len(streams) + 1] = fresh
        /\ streams' \in Seq(VP!Stream)
    BY <1>1, <1>2, Typed, AppendProperties
  <2>2. DOMAIN streams' = 1..Len(streams) + 1
    BY <2>1, LenProperties
  <2>. QED
    BY <2>1, <2>2, Typed
<1>. HIDE DEF new
<1>4. /\ Dots' = Dots
      /\ \A d \in Calls : Away(d) => Away(d)' /\ held'[d] = held[d]
  BY <1>0, <1>1 DEF Dots, Away
<1>5. Bounded'
  BY DEF Bounded
<1>6. StreamsMeet'
  <2>. SUFFICES ASSUME NEW s \in StreamNos
                PROVE  /\ s \notin DOMAIN streams' => gwStreams[s] = "new"
                       /\ s \in DOMAIN streams' =>
                             /\ gwStreams[s] \in {"ended", "closed"} => streams'[s].state # "live"
                             /\ gwStreams[s] = "open" => streams'[s].state = "live"
                             /\ streams'[s].state = "live" => up
    BY <1>1 DEF StreamsMeet
  <2>1. CASE s \in DOMAIN streams
    BY <1>3, <2>1 DEF IInv, WireInv, StreamsMeet
  <2>2. CASE s \notin DOMAIN streams
    <3>1. gwStreams[s] = "new"
      BY <2>2 DEF IInv, WireInv, StreamsMeet
    <3>. QED
      BY <1>1, <3>1
  <2>. QED
    BY <2>1, <2>2
<1>7. RequestsMeet'
  <2>. SUFFICES ASSUME NEW s \in DOMAIN streams'
                PROVE  /\ IsInjective(streams'[s].reqs)
                       /\ \A d \in Range(streams'[s].reqs) :
                             /\ held'[d] = s /\ Away(d)'
                             /\ handler[<<d, s>>] \in {"none", "posting", "waiting"}
    BY <1>1 DEF RequestsMeet
  <2>1. CASE s = new
    BY <1>2, <1>3, <2>1
  <2>2. CASE s \in DOMAIN streams
    <3>1. \A d \in Range(streams[s].reqs) : d \in Calls
      BY <2>2, Typed, LenProperties, ElementOfSeq DEF Range
    <3>. QED
      BY <1>3, <1>4, <2>2, <3>1 DEF IInv, WireInv, RequestsMeet
  <2>. QED
    BY <1>3, <2>1, <2>2
<1>8. CallsMeet'
  <2>. SUFFICES ASSUME NEW d \in Calls, NEW s \in StreamNos
                PROVE  /\ handler[<<d, s>>] # "none" => held'[d] = s /\ Away(d)'
                       /\ handler[<<d, s>>] \in {"posting", "waiting"} /\ gwStreams[s] = "open"
                             => d \in Range(streams'[s].reqs)
    BY <1>1, Zenon DEF CallsMeet
  <2>1. /\ handler[<<d, s>>] # "none" => held[d] = s /\ Away(d) /\ s \in DOMAIN streams
        /\ handler[<<d, s>>] \in {"posting", "waiting"} /\ gwStreams[s] = "open"
              => d \in Range(streams[s].reqs)
    BY KnownIsOpened DEF IInv, WireInv, CallsMeet
  <2>. QED
    BY <1>3, <1>4, <2>1
<1>9. AnswersMeet'
  <2>. SUFFICES ASSUME NEW s \in DOMAIN streams'
                PROVE  /\ IsInjective(streams'[s].resps)
                       /\ \A d \in Range(streams'[s].resps) : confirms[<<d, s>>] = 1
    BY <1>1 DEF AnswersMeet
  <2>1. CASE s = new
    BY <1>2, <1>3, <2>1
  <2>2. CASE s \in DOMAIN streams
    BY <1>3, <2>2 DEF IInv, WireInv, AnswersMeet
  <2>. QED
    BY <1>3, <2>1, <2>2
<1>10. DotsMeet'
  <2>. SUFFICES ASSUME NEW d \in Dots
                PROVE  /\ got[d] \in Calls
                       /\ \E r \in StreamNos : confirms[<<got[d], r>>] = 1
                       /\ \A r \in DOMAIN streams' : got[d] \notin Range(streams'[r].resps)
                       /\ \A e \in Dots : got[d] = got[e] => d = e
    BY <1>1, <1>4 DEF DotsMeet
  <2>1. /\ got[d] \in Calls
        /\ \E r \in StreamNos : confirms[<<got[d], r>>] = 1
        /\ \A r \in DOMAIN streams : got[d] \notin Range(streams[r].resps)
        /\ \A e \in Dots : got[d] = got[e] => d = e
    BY DEF IInv, WireInv, DotsMeet
  <2>. QED
    BY <1>2, <1>3, <2>1
<1>. QED
  BY <1>5, <1>6, <1>7, <1>8, <1>9, <1>10 DEF WireInv

LEMMA VaspWireInv ==
  ASSUME IInv, UNCHANGED gatewayVars, VaspStep
  PROVE  WireInv'
<1>0. VP!IInv'
  BY PartsOfVaspStep
<1>. QED
  BY <1>0, VaspSteps, MoveWire, SendWire, ReceiveWire, DialWire, NoticeWire

---------------------------------------------------------------------------
LEMMA InitInv == Init => IInv
<1>. SUFFICES ASSUME Init PROVE IInv
  OBVIOUS
<1>1. GP!IInv
  BY Parts, SameProcessSteps, GP!InitInv DEF Init
<1>2. VP!IInv
  BY Parts, SameStates, VP!InitInv DEF Init
<1>3. /\ streams = <<>> /\ pc = [c \in Calls |-> "none"]
      /\ gwStreams = [s \in StreamNos |-> "new"]
      /\ handler = [t \in Transfers |-> "none"]
  BY DEF Init, V!Init, G!Init
<1>4. DOMAIN streams = {} /\ Len(streams) = 0
  BY <1>3, EmptySeq
<1>5. Dots = {}
  BY <1>3 DEF Dots
<1>6. \A c \in Calls, s \in StreamNos : handler[<<c, s>>] = "none"
  BY <1>3 DEF Transfers
<1>7. WireInv
  BY <1>3, <1>4, <1>5, <1>6 DEF WireInv, Bounded, StreamsMeet, RequestsMeet, CallsMeet,
        AnswersMeet, DotsMeet
<1>. QED
  BY <1>1, <1>2, <1>7 DEF IInv

LEMMA InvStep == IInv /\ [Next]_vars => IInv'
<1>. SUFFICES ASSUME IInv, [Next]_vars PROVE IInv'
  OBVIOUS
<1>1. CASE GatewayStep /\ Wire
  BY <1>1, GatewayInv, VaspInv, GatewayWireInv DEF IInv
<1>2. CASE UNCHANGED gatewayVars /\ VaspStep
  BY <1>2, PartsOfVaspStep, VaspWireInv DEF IInv
<1>3. CASE UNCHANGED vars
  <2>1. UNCHANGED vaspVars /\ UNCHANGED gatewayVars
    BY <1>3 DEF vars
  <2>2. UNCHANGED GP!vars /\ UNCHANGED VP!vars
    BY <2>1 DEF gatewayVars, vaspVars, GP!vars, GP!bridgeVars, VP!vars
  <2>3. GP!IInv' /\ VP!IInv'
    BY <2>2, Parts, GP!InvStep, VP!InvStep DEF IInv
  <2>4. UNCHANGED <<up, gwStreams, handler, confirms>>
    BY <2>1 DEF gatewayVars
  <2>5. WireInv'
    BY <2>1, <2>4, QuietWire
  <2>. QED
    BY <2>3, <2>5 DEF IInv
<1>. QED
  BY <1>1, <1>2, <1>3 DEF Next

\* Both programs and the wire between them stay in the invariant.
THEOREM Invariant == Spec => []IInv
  BY InitInv, InvStep, PTL DEF Spec

\* Every reachable state of the two programs together is well typed.
THEOREM TypeCorrect == Spec => []TypeOK
<1>1. IInv => TypeOK
  BY SameStates, SameProcessSteps DEF IInv, GP!IInv, VP!IInv, TypeOK
<1>. QED
  BY <1>1, Invariant, PTL

\* /send prints a dot at most once for each transfer the Bridge accepted, whatever
\* streams the calls share and however often either side fails (server.go:144-149 in
\* cmd/trisa, connection-manager.ts:96-99).
THEOREM DotsSound == Spec => []DotsAreAcceptances
<1>1. ASSUME IInv PROVE DotsAreAcceptances
  <2>1. ASSUME NEW c \in Dots
        PROVE  \E s \in StreamNos : bridge[<<got[c], s>>] = "accepted"
    <3>1. got[c] \in Calls /\ \E s \in StreamNos : confirms[<<got[c], s>>] = 1
      BY <1>1 DEF IInv, WireInv, DotsMeet
    <3>. QED
      BY <1>1, <3>1, GatewayTyped
  <2>2. \A c, d \in Dots : got[c] = got[d] => c = d
    BY <1>1 DEF IInv, WireInv, DotsMeet
  <2>. QED
    BY <2>1, <2>2 DEF DotsAreAcceptances
<1>. QED
  BY <1>1, Invariant, PTL

\* A /send call that never waited on a stream together with another prints its dot
\* only for the acceptance of its own transfer (server.go:90-126 in pkg/trisa,
\* connection-manager.ts:96-99): what interop_dots refutes needs a shared stream.
THEOREM OwnDots == Spec => []OwnDotUnlessShared
<1>1. ASSUME IInv PROVE OwnDotUnlessShared
  <2>. SUFFICES ASSUME NEW c \in Dots, c \notin shared
                PROVE  \E s \in StreamNos : bridge[<<c, s>>] = "accepted"
    BY DEF OwnDotUnlessShared
  <2>1. got[c] = c
    BY <1>1 DEF IInv, VP!IInv, VP!OwnAnswerUnlessShared, Dots
  <2>2. PICK s \in StreamNos : confirms[<<got[c], s>>] = 1
    BY <1>1 DEF IInv, WireInv, DotsMeet
  <2>. QED
    BY <1>1, <2>1, <2>2, GatewayTyped DEF Dots
<1>. QED
  BY <1>1, Invariant, PTL

\* The gateway is a peer such as TrisaServer assumes: what it does to the VASP's
\* streams is an answer, a request left unanswered, an end of the stream, the end of
\* its process, by a signal or by a rejection, or its start (server.go:90-126 in
\* pkg/trisa against connection-manager.ts:69-101).
THEOREM GatewayIsPeer == Spec => PeerAssumption
<1>1. IInv /\ [Next]_vars => [V!Next]_(V!vars)
  <2>. SUFFICES ASSUME IInv, [Next]_vars PROVE [V!Next]_(V!vars)
    OBVIOUS
  <2>1. CASE GatewayStep /\ Wire
    <3>1. CASE UNCHANGED V!vars
      BY <3>1
    <3>2. CASE V!PeerCrash \/ V!PeerStarts
      BY <3>2 DEF V!Next
    <3>3. ASSUME NEW s \in DOMAIN streams,
                 V!PeerAnswers(s) \/ V!PeerWithholds(s) \/ V!PeerAborts(s)
          PROVE  V!Next
      BY <3>3, SameStates DEF V!Next, V!PeerServes
    <3>. QED
      BY <2>1, <3>1, <3>2, <3>3, GatewayAsPeer
  <2>2. CASE UNCHANGED gatewayVars /\ VaspStep
    BY <2>2, VaspSteps
  <2>3. CASE UNCHANGED vars
    BY <2>3 DEF vars, vaspVars, gatewayVars, V!vars
  <2>. QED
    BY <2>1, <2>2, <2>3 DEF Next
<1>2. Spec => [][V!Next]_(V!vars)
  BY <1>1, InitInv, InvStep, PTL DEF Spec
<1>. QED
  BY <1>2 DEF PeerAssumption
===========================================================================
