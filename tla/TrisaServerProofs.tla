------------------------- MODULE TrisaServerProofs -------------------------
(***************************************************************************)
(* Proofs about TrisaServer, for any number of concurrent calls and of     *)
(* crashes and every combination of faults, data races included.           *)
(*                                                                         *)
(* The inductive invariant counts, per stream, what is under way against   *)
(* the calls that wait for it, and follows a call that waits alone: only   *)
(* its own request or answer is on its stream, until another one joins it. *)
(***************************************************************************)
EXTENDS TrisaServer, QueueLemmas, FiniteSetTheorems

\* How much is on a stream, and what.
Load(x) == Len(x.reqs) + Len(x.resps)

Under(x) == Range(x.reqs) \cup Range(x.resps)

\* A call that uses a stream has one.
Holding == \A c \in Calls : pc[c] \in {"send", "recv"} => held[c] # None

\* Requests are only on live streams.
Ended == \A s \in StreamIds : streams[s].state # "live" => streams[s].reqs = <<>>

\* A call that waits and never shared its stream is alone on it.
Unshared == \A c \in Calls :
    pc[c] = "recv" /\ c \notin shared =>
        Receivers(held[c]) = {c} /\ Under(streams[held[c]]) \subseteq {c}

IInv ==
    /\ TypeOK
    /\ Holding
    /\ Ended
    /\ NoOrphanAnswer
    /\ Unshared
    /\ OwnAnswerUnlessShared

USE TrisaServerAssumption

---------------------------------------------------------------------------
LEMMA StreamTyped ==
  ASSUME NEW x \in Stream
  PROVE  /\ x.reqs \in Seq(Calls) /\ x.resps \in Seq(Calls)
         /\ Len(x.reqs) \in Nat /\ Len(x.resps) \in Nat
         /\ Load(x) \in Nat
<1>1. x.reqs \in Seq(Calls) /\ x.resps \in Seq(Calls)
  BY DEF Stream
<1>2. Len(x.reqs) \in Nat /\ Len(x.resps) \in Nat
  BY <1>1, LenProperties
<1>3. \A m, n \in Nat : m + n \in Nat
  OBVIOUS
<1>. QED
  BY <1>1, <1>2, <1>3 DEF Load

LEMMA EmptyStream ==
  ASSUME NEW x, x.reqs = <<>>, x.resps = <<>>
  PROVE  Load(x) = 0 /\ Under(x) = {}
<1>1. Len(<<>>) = 0 /\ Range(<<>>) = {}
  BY EmptySeq DEF Range
<1>. QED
  BY <1>1 DEF Load, Under

LEMMA UnloadedStream ==
  ASSUME NEW x \in Stream, Load(x) = 0
  PROVE  x.reqs = <<>> /\ x.resps = <<>>
<1>0. \A m, n \in Nat : m + n = 0 => m = 0 /\ n = 0
  OBVIOUS
<1>1. Len(x.reqs) = 0 /\ Len(x.resps) = 0
  BY <1>0, StreamTyped DEF Load
<1>. QED
  BY <1>1, StreamTyped, EmptySeq

LEMMA ReceiversFinite ==
  \A s : IsFiniteSet(Receivers(s)) /\ Cardinality(Receivers(s)) \in Nat
<1>. SUFFICES ASSUME NEW s PROVE IsFiniteSet(Receivers(s)) /\ Cardinality(Receivers(s)) \in Nat
  OBVIOUS
<1>1. IsFiniteSet(Receivers(s))
  BY FS_Subset DEF Receivers
<1>. QED
  BY <1>1, FS_CardinalityType

\* A call that sends or receives does so on a stream of the list.
LEMMA HeldIsStream ==
  ASSUME TypeOK, Holding, NEW c \in Calls, pc[c] \in {"send", "recv"}
  PROVE  held[c] \in StreamIds /\ streams[held[c]] \in Stream
<1>1. held[c] \in StreamIds
  BY DEF TypeOK, Holding
<1>2. streams \in [1..Len(streams) -> Stream] /\ StreamIds = 1..Len(streams)
  BY LenProperties DEF TypeOK, StreamIds
<1>. QED
  BY <1>1, <1>2

\* A list of streams changed at the streams it has is one of as many streams.
LEMMA StreamsTyped ==
  ASSUME TypeOK
  PROVE  /\ streams \in [StreamIds -> Stream]
         /\ StreamIds = 1..Len(streams) /\ Len(streams) \in Nat
         /\ \A q \in [StreamIds -> Stream] : q \in Seq(Stream) /\ DOMAIN q = StreamIds
<1>1. /\ streams \in [1..Len(streams) -> Stream]
      /\ StreamIds = 1..Len(streams) /\ Len(streams) \in Nat
  BY LenProperties DEF TypeOK, StreamIds
<1>. QED
  BY <1>1, FunctionIsSeq

---------------------------------------------------------------------------
\* A step of the peer or the network: no stream carries more than before, and
\* none carries anything else.
LEMMA PeerStep ==
  ASSUME IInv,
         UNCHANGED <<pc, held, got, cached, shared>>,
         streams' \in [StreamIds -> Stream],
         peerUp' \in BOOLEAN,
         crashes' \in 0..MaxCrashes,
         withheld' \subseteq Calls,
         \A s \in StreamIds :
            /\ Load(streams'[s]) <= Load(streams[s])
            /\ Under(streams'[s]) \subseteq Under(streams[s])
            /\ streams'[s].state # "live" => streams'[s].reqs = <<>>
  PROVE  IInv'
<1>0. TypeOK
  BY DEF IInv
<1>1. StreamIds' = StreamIds /\ streams' \in Seq(Stream)
  BY <1>0, StreamsTyped DEF StreamIds
<1>2. \A s : Receivers(s)' = Receivers(s)
  BY DEF Receivers
<1>3. TypeOK'
  BY <1>0, <1>1, Zenon DEF TypeOK
<1>4. Holding' /\ OwnAnswerUnlessShared'
  BY DEF IInv, Holding, OwnAnswerUnlessShared
<1>5. Ended'
  BY <1>1 DEF Ended
<1>6. NoOrphanAnswer'
  <2>. SUFFICES ASSUME NEW s \in StreamIds
                PROVE  Load(streams'[s]) <= Cardinality(Receivers(s))
    BY <1>1, <1>2 DEF NoOrphanAnswer, Load
  <2>1. Load(streams[s]) <= Cardinality(Receivers(s))
    BY DEF IInv, NoOrphanAnswer, Load
  <2>2. Load(streams'[s]) \in Nat /\ Load(streams[s]) \in Nat /\ Cardinality(Receivers(s)) \in Nat
    BY <1>0, StreamsTyped, StreamTyped, ReceiversFinite
  <2>. QED
    BY <2>1, <2>2
<1>7. Unshared'
  <2>. SUFFICES ASSUME NEW c \in Calls, pc[c] = "recv", c \notin shared
                PROVE  Receivers(held[c]) = {c} /\ Under(streams'[held[c]]) \subseteq {c}
    BY <1>2 DEF Unshared
  <2>1. held[c] \in StreamIds
    BY <1>0, HeldIsStream DEF IInv
  <2>. QED
    BY <2>1 DEF IInv, Unshared
<1>. QED
  BY <1>3, <1>4, <1>5, <1>6, <1>7 DEF IInv

\* A step of a call that neither waits before it nor after it.
LEMMA QuietStep ==
  ASSUME IInv,
         UNCHANGED <<got, streams, peerUp, crashes, withheld, shared>>,
         pc' \in [Calls -> PCs],
         held' \in [Calls -> StreamIds \cup {None}],
         cached' \in StreamIds \cup {None},
         \A d \in Calls :
            /\ pc'[d] = "recv" <=> pc[d] = "recv"
            /\ pc[d] = "recv" => held'[d] = held[d]
            /\ pc'[d] = "ok" => pc[d] = "ok"
            /\ pc'[d] = "send" => held'[d] # None
  PROVE  IInv'
<1>0. TypeOK
  BY DEF IInv
<1>1. StreamIds' = StreamIds
  BY DEF StreamIds
<1>2. \A s : Receivers(s)' = Receivers(s)
  BY DEF Receivers
<1>3. TypeOK'
  BY <1>0, <1>1, Zenon DEF TypeOK
<1>4. Holding' /\ OwnAnswerUnlessShared'
  BY DEF IInv, Holding, OwnAnswerUnlessShared
<1>5. Ended' /\ NoOrphanAnswer'
  BY <1>1, <1>2 DEF IInv, Ended, NoOrphanAnswer
<1>6. Unshared'
  BY <1>2 DEF IInv, Unshared
<1>. QED
  BY <1>3, <1>4, <1>5, <1>6 DEF IInv

\* A call stops waiting: it took an answer off its stream, or found it empty.
LEMMA LeaveStep ==
  ASSUME IInv, NEW c \in Calls, NEW r \in {"ok", "failed"},
         pc[c] = "recv",
         pc' = [pc EXCEPT ![c] = r],
         UNCHANGED <<held, cached, peerUp, crashes, withheld, shared>>,
         got' \in [Calls -> Calls \cup {None}],
         \A d \in Calls \ {c} : got'[d] = got[d],
         r = "ok" /\ c \notin shared => got'[c] = c,
         streams' \in [StreamIds -> Stream],
         \A s \in StreamIds :
            /\ Load(streams'[s]) <= Load(streams[s])
            /\ Under(streams'[s]) \subseteq Under(streams[s])
            /\ streams'[s].state # "live" => streams'[s].reqs = <<>>,
         Load(streams'[held[c]]) = 0 \/ Load(streams'[held[c]]) < Load(streams[held[c]])
  PROVE  IInv'
<1>0. TypeOK /\ Holding
  BY DEF IInv
<1>1. StreamIds' = StreamIds /\ streams' \in Seq(Stream)
  BY <1>0, StreamsTyped DEF StreamIds
<1>2. \A d \in Calls : pc'[d] = IF d = c THEN r ELSE pc[d]
  BY <1>0 DEF TypeOK
<1>3. /\ c \in Receivers(held[c])
      /\ \A s : Receivers(s)' = Receivers(s) \ {c}
  BY <1>2 DEF Receivers
<1>4. TypeOK'
  <2>1. pc' \in [Calls -> PCs]
    BY <1>0 DEF TypeOK, PCs
  <2>. QED
    BY <1>0, <1>1, <2>1, Zenon DEF TypeOK
<1>5. Holding' /\ OwnAnswerUnlessShared'
  BY <1>2 DEF IInv, Holding, OwnAnswerUnlessShared
<1>6. Ended'
  BY <1>1 DEF Ended
<1>7. NoOrphanAnswer'
  <2>. SUFFICES ASSUME NEW s \in StreamIds
                PROVE  Load(streams'[s]) <= Cardinality(Receivers(s) \ {c})
    BY <1>1, <1>3 DEF NoOrphanAnswer, Load
  <2>1. Load(streams[s]) <= Cardinality(Receivers(s))
    BY DEF IInv, NoOrphanAnswer, Load
  <2>2. Load(streams'[s]) \in Nat /\ Load(streams[s]) \in Nat /\ Cardinality(Receivers(s)) \in Nat
    BY <1>0, StreamsTyped, StreamTyped, ReceiversFinite
  <2>3. CASE s = held[c]
    <3>1. Cardinality(Receivers(s) \ {c}) = Cardinality(Receivers(s)) - 1
      BY <1>3, <2>3, ReceiversFinite, FS_RemoveElement
    <3>2. Cardinality(Receivers(s) \ {c}) \in Nat
      BY <1>3, ReceiversFinite, FS_RemoveElement, FS_CardinalityType
    <3>3. Load(streams'[s]) = 0 \/ Load(streams'[s]) < Load(streams[s])
      BY <2>3
    <3>. QED
      BY <2>1, <2>2, <3>1, <3>2, <3>3
  <2>4. CASE s # held[c]
    <3>1. Receivers(s) \ {c} = Receivers(s)
      BY <2>4 DEF Receivers
    <3>2. Load(streams'[s]) <= Cardinality(Receivers(s))
      BY <2>1, <2>2
    <3>. QED
      BY <3>1, <3>2
  <2>. QED
    BY <2>3, <2>4
<1>8. Unshared'
  <2>. SUFFICES ASSUME NEW d \in Calls, d # c, pc[d] = "recv", d \notin shared
                PROVE  Receivers(held[d]) \ {c} = {d} /\ Under(streams'[held[d]]) \subseteq {d}
    BY <1>2, <1>3 DEF Unshared
  <2>1. held[d] \in StreamIds
    BY <1>0, HeldIsStream
  <2>2. Receivers(held[d]) = {d} /\ Under(streams[held[d]]) \subseteq {d}
    BY DEF IInv, Unshared
  <2>3. Receivers(held[d]) \ {c} = {d}
    BY <2>2
  <2>. QED
    BY <2>1, <2>2, <2>3
<1>. QED
  BY <1>4, <1>5, <1>6, <1>7, <1>8 DEF IInv

---------------------------------------------------------------------------
LEMMA InitInv == Init => IInv
<1>. SUFFICES ASSUME Init PROVE IInv
  OBVIOUS
<1>1. peerUp \in BOOLEAN
  BY Zenon DEF Init
<1>2. StreamIds = {} /\ streams \in Seq(Stream)
  BY EmptySeq DEF Init, StreamIds
<1>3. TypeOK
  <2>1. /\ pc \in [Calls -> PCs]
        /\ held \in [Calls -> StreamIds \cup {None}]
        /\ got \in [Calls -> Calls \cup {None}]
        /\ crashes \in 0..MaxCrashes
    BY DEF Init, PCs
  <2>. QED
    BY <1>1, <1>2, <2>1, Zenon DEF Init, TypeOK
<1>4. Holding /\ Unshared /\ OwnAnswerUnlessShared
  BY DEF Init, Holding, Unshared, OwnAnswerUnlessShared
<1>5. Ended /\ NoOrphanAnswer
  BY <1>2 DEF Ended, NoOrphanAnswer
<1>. QED
  BY <1>3, <1>4, <1>5 DEF IInv

\* A call that gets its stream, or fails to.
LEMMA CallQuiet ==
  ASSUME IInv, NEW c \in Calls,
         SendRequest(c) \/ Lookup(c) \/ DialFails(c) \/ SendFails(c)
  PROVE  IInv'
<1>0. TypeOK
  BY DEF IInv
<1>1. UNCHANGED <<got, streams, peerUp, crashes, withheld, shared>>
  BY DEF SendRequest, Lookup, DialFails, SendFails
<1>2. /\ pc' \in [Calls -> PCs]
      /\ held' \in [Calls -> StreamIds \cup {None}]
      /\ cached' \in StreamIds \cup {None}
  BY <1>0 DEF SendRequest, Lookup, DialFails, SendFails, TypeOK, PCs
<1>3. ASSUME NEW d \in Calls
      PROVE  /\ pc'[d] = "recv" <=> pc[d] = "recv"
             /\ pc[d] = "recv" => held'[d] = held[d]
             /\ pc'[d] = "ok" => pc[d] = "ok"
             /\ pc'[d] = "send" => held'[d] # None
  BY <1>0 DEF SendRequest, Lookup, DialFails, SendFails, TypeOK, IInv, Holding
<1>. QED
  BY <1>1, <1>2, <1>3, QuietStep

\* A call that opens a stream: nothing is on it yet.
LEMMA DialStep ==
  ASSUME IInv, NEW c \in Calls, DialOk(c)
  PROVE  IInv'
<1>. DEFINE fresh == [state |-> "live", reqs |-> <<>>, resps |-> <<>>]
            s == Len(streams) + 1
<1>0. TypeOK /\ Holding
  BY DEF IInv
<1>1. /\ pc[c] = "dial" /\ pc' = [pc EXCEPT ![c] = "send"]
      /\ held' = [held EXCEPT ![c] = s] /\ cached' = s
      /\ streams' = Append(streams, fresh)
      /\ UNCHANGED <<got, peerUp, crashes, withheld, shared>>
  BY DEF DialOk
<1>2. fresh \in Stream
  BY EmptySeq DEF Stream
<1>3. fresh.state = "live" /\ Load(fresh) = 0
  BY EmptyStream
<1>. HIDE DEF fresh
<1>4. /\ streams' \in Seq(Stream) /\ Len(streams) \in Nat
      /\ StreamIds = 1..Len(streams) /\ StreamIds' = 1..s
      /\ \A u \in StreamIds : streams'[u] = streams[u]
      /\ streams'[s] = fresh
  BY <1>0, <1>1, <1>2, AppendProperties, LenProperties DEF TypeOK, StreamIds
<1>5. /\ s \in StreamIds' /\ s \notin StreamIds /\ s # None
      /\ StreamIds' = StreamIds \cup {s}
  BY <1>4
<1>. HIDE DEF s
<1>6. TypeOK'
  <2>1. pc' \in [Calls -> PCs] /\ held' \in [Calls -> StreamIds' \cup {None}]
    BY <1>0, <1>1, <1>5 DEF TypeOK, PCs
  <2>2. cached' \in StreamIds' \cup {None}
    BY <1>1, <1>5
  <2>. QED
    BY <1>0, <1>1, <1>4, <2>1, <2>2, Zenon DEF TypeOK
<1>7. Holding' /\ OwnAnswerUnlessShared'
  BY <1>0, <1>1, <1>5 DEF TypeOK, IInv, Holding, OwnAnswerUnlessShared
<1>8. Ended'
  BY <1>3, <1>4, <1>5 DEF IInv, Ended
<1>9. \A u \in StreamIds : Receivers(u)' = Receivers(u)
  BY <1>0, <1>1 DEF Receivers, TypeOK
<1>10. NoOrphanAnswer'
  <2>1. ASSUME NEW u \in StreamIds PROVE Load(streams'[u]) <= Cardinality(Receivers(u)')
    BY <1>4, <1>9 DEF IInv, NoOrphanAnswer, Load
  <2>2. ASSUME NEW u \in StreamIds', u = s PROVE Load(streams'[u]) <= Cardinality(Receivers(u)')
    <3>1. Receivers(u)' \subseteq Calls
      BY DEF Receivers
    <3>2. Cardinality(Receivers(u)') \in Nat
      BY <3>1, FS_Subset, FS_CardinalityType
    <3>3. Load(streams'[u]) = 0
      BY <1>3, <1>4, <2>2
    <3>. QED
      BY <3>2, <3>3
  <2>3. ASSUME NEW u \in StreamIds' PROVE Load(streams'[u]) <= Cardinality(Receivers(u)')
    BY <1>5, <2>1, <2>2
  <2>. QED
    BY <2>3 DEF NoOrphanAnswer, Load
<1>11. Unshared'
  <2>. SUFFICES ASSUME NEW d \in Calls, pc'[d] = "recv", d \notin shared
                PROVE  (Receivers(held[d]) = {d} /\ Under(streams[held[d]]) \subseteq {d})'
    BY <1>1 DEF Unshared
  <2>1. pc[d] = "recv" /\ held'[d] = held[d]
    BY <1>0, <1>1 DEF TypeOK
  <2>2. held[d] \in StreamIds
    BY <1>0, <2>1, HeldIsStream
  <2>3. Receivers(held[d])' = Receivers(held[d])
    BY <1>0, <1>1, <2>1 DEF Receivers, TypeOK
  <2>. QED
    BY <1>4, <2>1, <2>2, <2>3 DEF IInv, Unshared
<1>. QED
  BY <1>6, <1>7, <1>8, <1>10, <1>11 DEF IInv

\* A call that sends adds its request and itself to the stream, and shares the
\* stream with whoever waits there.
LEMMA SendStep ==
  ASSUME IInv, NEW c \in Calls, SendOk(c)
  PROVE  IInv'
<1>. DEFINE added == [streams[held[c]] EXCEPT !.reqs = Append(@, c)]
<1>0. TypeOK /\ Holding
  BY DEF IInv
<1>1. PICK s \in StreamIds : s = held[c]
  BY <1>0, HeldIsStream DEF SendOk
<1>2. streams[s] \in Stream
  BY <1>0, <1>1, StreamsTyped
<1>3. /\ pc[c] = "send" /\ pc' = [pc EXCEPT ![c] = "recv"]
      /\ shared' = (IF Receivers(s) = {} THEN shared ELSE shared \cup Receivers(s) \cup {c})
      /\ UNCHANGED <<held, got, cached, peerUp, crashes, withheld>>
  BY <1>1 DEF SendOk
<1>4. /\ streams' \in [StreamIds -> Stream]
      /\ \A u \in StreamIds \ {s} : streams'[u] = streams[u]
      /\ \/ streams'[s] = streams[s]
         \/ /\ streams[s].state = "live"
            /\ streams'[s] = [streams[s] EXCEPT !.reqs = Append(@, c)]
  <2>1. Append(streams[s].reqs, c) \in Seq(Calls)
    BY <1>2, StreamTyped, AppendProperties
  <2>2. [streams[s] EXCEPT !.reqs = Append(@, c)] \in Stream
    BY <1>2, <2>1 DEF Stream
  <2>3. streams \in [StreamIds -> Stream]
    BY <1>0, StreamsTyped
  <2>. QED
    BY <1>1, <2>2, <2>3 DEF SendOk
<1>5. StreamIds' = StreamIds /\ streams' \in Seq(Stream)
  BY <1>0, <1>4, StreamsTyped DEF StreamIds
<1>6. /\ c \notin Receivers(s) /\ Receivers(s)' = Receivers(s) \cup {c}
      /\ \A u \in StreamIds \ {s} : Receivers(u)' = Receivers(u)
  BY <1>0, <1>1, <1>3 DEF Receivers, TypeOK
<1>7. /\ Load(streams[s]) \in Nat
      /\ Load(streams'[s]) \in {Load(streams[s]), Load(streams[s]) + 1}
      /\ Under(streams'[s]) \subseteq Under(streams[s]) \cup {c}
      /\ streams'[s].state # "live" => streams'[s].reqs = <<>>
  <2>1. CASE streams'[s] = streams[s]
    BY <1>2, <2>1, StreamTyped DEF IInv, Ended
  <2>2. CASE /\ streams[s].state = "live"
             /\ streams'[s] = [streams[s] EXCEPT !.reqs = Append(@, c)]
    <3>1. /\ streams'[s].reqs = Append(streams[s].reqs, c)
          /\ streams'[s].resps = streams[s].resps
          /\ streams'[s].state = "live"
      BY <1>2, <2>2 DEF Stream
    <3>2. /\ Len(streams'[s].reqs) = Len(streams[s].reqs) + 1
          /\ Range(streams'[s].reqs) = Range(streams[s].reqs) \cup {c}
      BY <1>2, <3>1, StreamTyped, AppendProperties, RangeOfAppend
    <3>3. \A m, n \in Nat : (m + 1) + n = (m + n) + 1
      OBVIOUS
    <3>4. Load(streams'[s]) = Load(streams[s]) + 1
      BY <1>2, <3>1, <3>2, <3>3, StreamTyped DEF Load
    <3>. QED
      BY <1>2, <3>1, <3>2, <3>4, StreamTyped DEF Under
  <2>. QED
    BY <1>4, <2>1, <2>2
<1>8. TypeOK'
  <2>1. pc' \in [Calls -> PCs] /\ shared' \subseteq Calls
    BY <1>0, <1>3 DEF TypeOK, PCs, Receivers
  <2>. QED
    BY <1>0, <1>3, <1>5, <2>1, Zenon DEF TypeOK
<1>9. Holding' /\ OwnAnswerUnlessShared'
  BY <1>0, <1>3 DEF TypeOK, IInv, Holding, OwnAnswerUnlessShared
<1>10. Ended'
  BY <1>4, <1>5, <1>7 DEF IInv, Ended
<1>11. NoOrphanAnswer'
  <2>1. ASSUME NEW u \in StreamIds \ {s} PROVE Load(streams'[u]) <= Cardinality(Receivers(u)')
    BY <1>4, <1>6 DEF IInv, NoOrphanAnswer, Load
  <2>2. Load(streams'[s]) <= Cardinality(Receivers(s)')
    <3>1. Cardinality(Receivers(s)') = Cardinality(Receivers(s)) + 1
      BY <1>6, ReceiversFinite, FS_AddElement
    <3>2. Load(streams[s]) <= Cardinality(Receivers(s))
      BY DEF IInv, NoOrphanAnswer, Load
    <3>. QED
      BY <1>7, <3>1, <3>2, ReceiversFinite
  <2>. QED
    BY <1>5, <2>1, <2>2 DEF NoOrphanAnswer, Load
<1>12. Unshared'
  <2>. SUFFICES ASSUME NEW d \in Calls, pc'[d] = "recv", d \notin shared'
                PROVE  (Receivers(held[d]) = {d} /\ Under(streams[held[d]]) \subseteq {d})'
    BY DEF Unshared
  <2>1. CASE d = c
    <3>1. Receivers(s) = {}
      BY <1>3, <2>1
    <3>2. Load(streams[s]) = 0
      <4>1. Load(streams[s]) <= Cardinality(Receivers(s))
        BY DEF IInv, NoOrphanAnswer, Load
      <4>. QED
        BY <1>7, <3>1, <4>1, FS_EmptySet
    <3>3. Under(streams[s]) = {}
      BY <1>2, <3>2, UnloadedStream, EmptyStream
    <3>4. held'[d] = s
      BY <1>1, <1>3, <2>1
    <3>5. Receivers(s)' = {d} /\ Under(streams'[s]) \subseteq {d}
      BY <1>6, <1>7, <2>1, <3>1, <3>3
    <3>6. Receivers(held[d])' = Receivers(s)'
      BY <3>4 DEF Receivers
    <3>. QED
      BY <3>4, <3>5, <3>6
  <2>2. CASE d # c
    <3>1. pc[d] = "recv" /\ d \notin shared /\ d \notin Receivers(s) /\ held'[d] = held[d]
      BY <1>0, <1>3, <2>2 DEF TypeOK
    <3>2. held[d] \in StreamIds \ {s}
      BY <1>0, <3>1, HeldIsStream DEF Receivers
    <3>3. Receivers(held[d])' = Receivers(held[d])
      BY <1>0, <1>1, <1>3, <3>1, <3>2 DEF Receivers, TypeOK
    <3>. QED
      BY <1>4, <3>1, <3>2, <3>3 DEF IInv, Unshared
  <2>. QED
    BY <2>1, <2>2
<1>. QED
  BY <1>8, <1>9, <1>10, <1>11, <1>12 DEF IInv

\* A call that receives: the head of its stream is its own answer when it waited
\* alone, and the end of the stream comes after the last answer.
LEMMA ReceiveStep ==
  ASSUME IInv, NEW c \in Calls, RecvOk(c) \/ RecvFails(c) \/ RecvGarbled(c)
  PROVE  IInv'
<1>0. TypeOK /\ Holding
  BY DEF IInv
<1>1. /\ pc[c] = "recv"
      /\ UNCHANGED <<held, cached, peerUp, crashes, withheld, shared>>
  BY DEF RecvOk, RecvFails, RecvGarbled
<1>2. PICK s \in StreamIds : s = held[c]
  BY <1>0, <1>1, HeldIsStream
<1>3. streams[s] \in Stream /\ streams \in [StreamIds -> Stream]
  BY <1>0, StreamsTyped
<1>4. \A u \in StreamIds :
         /\ Load(streams[u]) \in Nat
         /\ streams[u].state # "live" => streams[u].reqs = <<>>
  BY <1>3, StreamTyped DEF IInv, Ended
<1>5. CASE RecvFails(c)
  <2>1. streams' = streams /\ got' = got /\ pc' = [pc EXCEPT ![c] = "failed"]
    BY <1>5 DEF RecvFails
  <2>2. streams[s].reqs = <<>> /\ streams[s].resps = <<>>
    BY <1>2, <1>4, <1>5 DEF RecvFails
  <2>3. Load(streams'[held[c]]) = 0
    BY <1>2, <2>1, <2>2, EmptyStream
  <2>4. \A u \in StreamIds :
           /\ Load(streams'[u]) <= Load(streams[u])
           /\ Under(streams'[u]) \subseteq Under(streams[u])
           /\ streams'[u].state # "live" => streams'[u].reqs = <<>>
    BY <1>4, <2>1
  <2>5. got' \in [Calls -> Calls \cup {None}] /\ \A d \in Calls \ {c} : got'[d] = got[d]
    BY <1>0, <2>1 DEF TypeOK
  <2>. QED
    BY <1>1, <1>3, <2>1, <2>3, <2>4, <2>5, LeaveStep
<1>6. CASE RecvOk(c) \/ RecvGarbled(c)
  <2>. DEFINE tail == [streams[s] EXCEPT !.resps = Tail(@)]
  <2>1. streams[s].resps # <<>> /\ streams' = [streams EXCEPT ![s].resps = Tail(@)]
    BY <1>2, <1>6 DEF RecvOk, RecvGarbled
  <2>2. /\ Tail(streams[s].resps) \in Seq(Calls)
        /\ Head(streams[s].resps) \in Calls
        /\ Head(streams[s].resps) \in Range(streams[s].resps)
        /\ Range(Tail(streams[s].resps)) \subseteq Range(streams[s].resps)
        /\ Len(Tail(streams[s].resps)) = Len(streams[s].resps) - 1
        /\ Len(streams[s].resps) # 0
    BY <1>3, <2>1, StreamTyped, RangeOfTail, HeadTailProperties, EmptySeq
  <2>3. /\ tail \in Stream
        /\ tail.state = streams[s].state
        /\ tail.reqs = streams[s].reqs
        /\ tail.resps = Tail(streams[s].resps)
    BY <1>3, <2>2 DEF Stream
  <2>4. /\ streams' \in [StreamIds -> Stream]
        /\ streams'[s] = tail
        /\ \A u \in StreamIds \ {s} : streams'[u] = streams[u]
    BY <1>3, <2>1, <2>3
  <2>. HIDE DEF tail
  <2>5. Load(tail) < Load(streams[s]) /\ Under(tail) \subseteq Under(streams[s])
    <3>1. \A m, n \in Nat : n # 0 => m + (n - 1) < m + n
      OBVIOUS
    <3>. QED
      BY <1>3, <2>2, <2>3, <3>1, StreamTyped DEF Load, Under
  <2>6. \A u \in StreamIds :
           /\ Load(streams'[u]) <= Load(streams[u])
           /\ Under(streams'[u]) \subseteq Under(streams[u])
           /\ streams'[u].state # "live" => streams'[u].reqs = <<>>
    <3>1. Load(tail) \in Nat
      BY <2>3, StreamTyped
    <3>2. Load(tail) <= Load(streams[s])
      BY <1>4, <2>5, <3>1
    <3>. QED
      BY <1>4, <2>3, <2>4, <2>5, <3>2
  <2>7. Load(streams'[held[c]]) < Load(streams[held[c]])
    BY <1>2, <2>4, <2>5
  <2>8. CASE RecvGarbled(c)
    <3>1. got' = got /\ pc' = [pc EXCEPT ![c] = "failed"]
      BY <2>8 DEF RecvGarbled
    <3>2. got' \in [Calls -> Calls \cup {None}] /\ \A d \in Calls \ {c} : got'[d] = got[d]
      BY <1>0, <3>1 DEF TypeOK
    <3>. QED
      BY <1>1, <2>4, <2>6, <2>7, <3>1, <3>2, LeaveStep
  <2>9. CASE RecvOk(c)
    <3>1. got' = [got EXCEPT ![c] = Head(streams[s].resps)]
      BY <1>2, <2>9 DEF RecvOk
    <3>2. PICK r \in {"ok", "failed"} : pc' = [pc EXCEPT ![c] = r]
      BY <2>9 DEF RecvOk
    <3>3. /\ got' \in [Calls -> Calls \cup {None}]
          /\ \A d \in Calls \ {c} : got'[d] = got[d]
          /\ got'[c] = Head(streams[s].resps)
      BY <1>0, <2>2, <3>1 DEF TypeOK
    <3>4. ASSUME c \notin shared PROVE got'[c] = c
      <4>1. Under(streams[s]) \subseteq {c}
        BY <1>1, <1>2, <3>4 DEF IInv, Unshared
      <4>. QED
        BY <2>2, <3>3, <4>1 DEF Under
    <3>. QED
      BY <1>1, <2>4, <2>6, <2>7, <3>2, <3>3, <3>4, LeaveStep
  <2>. QED
    BY <1>6, <2>8, <2>9
<1>. QED
  BY <1>5, <1>6

\* A map race ends every call that is not over, and empties the streams.
LEMMA MapRaceStep == IInv /\ MapRace => IInv'
<1>. SUFFICES ASSUME IInv, MapRace PROVE IInv'
  OBVIOUS
<1>0. TypeOK
  BY DEF IInv
<1>1. /\ pc' = [c \in Calls |-> IF pc[c] \in Active \cup {"none"} THEN "lost" ELSE pc[c]]
      /\ cached' = None
      /\ streams' = [s \in StreamIds |-> [streams[s] EXCEPT
                         !.state = "dead", !.reqs = <<>>, !.resps = <<>>]]
      /\ UNCHANGED <<held, got, peerUp, crashes, withheld, shared>>
  BY DEF MapRace
<1>2. /\ streams' \in [StreamIds -> Stream]
      /\ \A s \in StreamIds : streams'[s].reqs = <<>> /\ streams'[s].resps = <<>>
  <2>1. ASSUME NEW s \in StreamIds
        PROVE  /\ streams'[s] \in Stream
               /\ streams'[s].reqs = <<>> /\ streams'[s].resps = <<>>
    <3>1. streams[s] \in Stream /\ <<>> \in Seq(Calls)
      BY <1>0, StreamsTyped, EmptySeq
    <3>. QED
      BY <1>1, <3>1 DEF Stream
  <2>. QED
    BY <1>1, <2>1
<1>3. StreamIds' = StreamIds /\ streams' \in Seq(Stream)
  BY <1>0, <1>2, StreamsTyped DEF StreamIds
<1>4. \A c \in Calls : pc'[c] \notin {"send", "recv"} /\ (pc'[c] = "ok" => pc[c] = "ok")
  BY <1>1 DEF Active
<1>5. TypeOK'
  <2>1. pc' \in [Calls -> PCs]
    BY <1>0, <1>1 DEF TypeOK, PCs
  <2>. QED
    BY <1>0, <1>1, <1>3, <2>1, Zenon DEF TypeOK
<1>6. Holding' /\ Unshared' /\ OwnAnswerUnlessShared'
  BY <1>1, <1>4 DEF IInv, Holding, Unshared, OwnAnswerUnlessShared
<1>7. Ended'
  BY <1>2, <1>3 DEF Ended
<1>8. NoOrphanAnswer'
  <2>. SUFFICES ASSUME NEW s \in StreamIds' PROVE (Load(streams[s]) <= Cardinality(Receivers(s)))'
    BY DEF NoOrphanAnswer, Load
  <2>1. Load(streams'[s]) = 0
    BY <1>2, <1>3, EmptyStream
  <2>2. Receivers(s)' = {}
    BY <1>4 DEF Receivers
  <2>. QED
    BY <2>1, <2>2, FS_EmptySet
<1>. QED
  BY <1>5, <1>6, <1>7, <1>8 DEF IInv

\* One stream changes, and what it carries shrinks or moves towards the caller.
LEMMA OneStreamStep ==
  ASSUME IInv, NEW s \in StreamIds, NEW x \in Stream,
         UNCHANGED <<pc, held, got, cached, peerUp, crashes, shared>>,
         withheld' \subseteq Calls,
         streams' \in [StreamIds -> Stream],
         streams'[s] = x,
         \A u \in StreamIds \ {s} : streams'[u] = streams[u],
         Load(x) <= Load(streams[s]),
         Under(x) \subseteq Under(streams[s]),
         x.state # "live" => x.reqs = <<>>
  PROVE  IInv'
<1>0. TypeOK
  BY DEF IInv
<1>1. peerUp' \in BOOLEAN
  BY <1>0, Zenon DEF TypeOK
<1>2. crashes' \in 0..MaxCrashes
  BY <1>0 DEF TypeOK
<1>3. \A u \in StreamIds : Load(streams[u]) \in Nat
  BY <1>0, StreamsTyped, StreamTyped
<1>4. \A u \in StreamIds :
         /\ Load(streams'[u]) <= Load(streams[u])
         /\ Under(streams'[u]) \subseteq Under(streams[u])
         /\ streams'[u].state # "live" => streams'[u].reqs = <<>>
  BY <1>3 DEF IInv, Ended
<1>. QED
  BY <1>1, <1>2, <1>4, PeerStep

\* The peer takes one of the requests, to answer it or not.
LEMMA ServeStep ==
  ASSUME IInv, NEW s \in StreamIds, PeerServes(s)
  PROVE  IInv'
<1>0. TypeOK
  BY DEF IInv
<1>1. streams[s] \in Stream /\ streams \in [StreamIds -> Stream]
  BY <1>0, StreamsTyped
<1>2. /\ streams[s].reqs \in Seq(Calls) /\ streams[s].resps \in Seq(Calls)
      /\ Len(streams[s].reqs) \in Nat /\ Len(streams[s].resps) \in Nat
      /\ DOMAIN streams[s].reqs = 1..Len(streams[s].reqs)
  BY <1>1, StreamTyped, LenProperties
<1>. DEFINE reqs == streams[s].reqs
            resps == streams[s].resps
<1>. DEFINE Answers(i) == streams' = [streams EXCEPT ![s].reqs = RemoveAt(@, i),
                                                     ![s].resps = Append(@, reqs[i])]
            Withholds(i) == streams' = [streams EXCEPT ![s].reqs = RemoveAt(@, i)]
<1>3. PICK i \in DOMAIN reqs :
         /\ UNCHANGED <<pc, held, got, cached, peerUp, crashes, shared>>
         /\ \/ Answers(i) /\ UNCHANGED withheld
            \/ Withholds(i) /\ withheld' = withheld \cup {reqs[i]}
  BY DEF PeerServes, PeerAnswers, PeerWithholds, Served
<1>4. /\ RemoveAt(reqs, i) \in Seq(Calls)
      /\ Len(RemoveAt(reqs, i)) = Len(reqs) - 1
      /\ Range(RemoveAt(reqs, i)) \subseteq Range(reqs)
      /\ reqs[i] \in Calls /\ reqs[i] \in Range(reqs)
  BY <1>2, RangeOfRemoveAt
<1>5. withheld' \subseteq Calls
  BY <1>0, <1>3, <1>4 DEF TypeOK
<1>6. \A u \in StreamIds : streams[u].state # "live" => streams[u].reqs = <<>>
  BY DEF IInv, Ended
<1>7. streams[s].state = "live"
  <2>1. reqs # <<>>
    BY <1>2, EmptySeq
  <2>. QED
    BY <1>6, <2>1
<1>8. CASE Answers(i)
  <2>. DEFINE x == [state |-> streams[s].state, reqs |-> RemoveAt(reqs, i),
                    resps |-> Append(resps, reqs[i])]
  <2>1. /\ Append(resps, reqs[i]) \in Seq(Calls)
        /\ Len(Append(resps, reqs[i])) = Len(resps) + 1
        /\ Range(Append(resps, reqs[i])) = Range(resps) \cup {reqs[i]}
    BY <1>2, <1>4, AppendProperties, RangeOfAppend
  <2>2. x \in Stream
    BY <1>1, <1>4, <2>1 DEF Stream
  <2>3. /\ streams' \in [StreamIds -> Stream] /\ streams'[s] = x
        /\ \A u \in StreamIds \ {s} : streams'[u] = streams[u]
    BY <1>1, <1>8, <2>2 DEF Stream
  <2>4. Load(x) <= Load(streams[s])
    <3>1. \A m, n \in Nat : (m - 1) + (n + 1) <= m + n
      OBVIOUS
    <3>. QED
      BY <1>2, <1>4, <2>1, <3>1 DEF Load
  <2>5. Under(x) \subseteq Under(streams[s])
    BY <1>4, <2>1 DEF Under
  <2>6. x.state = "live"
    BY <1>7
  <2>. HIDE DEF x
  <2>. QED
    BY <1>3, <1>5, <2>2, <2>3, <2>4, <2>5, <2>6, OneStreamStep
<1>9. CASE Withholds(i)
  <2>. DEFINE x == [state |-> streams[s].state, reqs |-> RemoveAt(reqs, i), resps |-> resps]
  <2>2. x \in Stream
    BY <1>1, <1>2, <1>4 DEF Stream
  <2>3. /\ streams' \in [StreamIds -> Stream] /\ streams'[s] = x
        /\ \A u \in StreamIds \ {s} : streams'[u] = streams[u]
    BY <1>1, <1>9, <2>2 DEF Stream
  <2>4. Load(x) <= Load(streams[s])
    <3>1. \A m, n \in Nat : (m - 1) + n <= m + n
      OBVIOUS
    <3>. QED
      BY <1>2, <1>4, <3>1 DEF Load
  <2>5. Under(x) \subseteq Under(streams[s])
    BY <1>4 DEF Under
  <2>6. x.state = "live"
    BY <1>7
  <2>. HIDE DEF x
  <2>. QED
    BY <1>3, <1>5, <2>2, <2>3, <2>4, <2>5, <2>6, OneStreamStep
<1>. QED
  BY <1>3, <1>8, <1>9

\* A stream ends over a request, or is found to have ended.
LEMMA EndStep ==
  ASSUME IInv, NEW s \in StreamIds, PeerAborts(s) \/ Notice(s)
  PROVE  IInv'
<1>0. TypeOK
  BY DEF IInv
<1>1. streams[s] \in Stream /\ streams \in [StreamIds -> Stream]
  BY <1>0, StreamsTyped
<1>2. streams[s].state # "live" => streams[s].reqs = <<>>
  BY DEF IInv, Ended
<1>3. PICK x \in Stream :
         /\ x.reqs = <<>> /\ x.resps = streams[s].resps
         /\ streams' \in [StreamIds -> Stream] /\ streams'[s] = x
         /\ \A u \in StreamIds \ {s} : streams'[u] = streams[u]
  <2>. DEFINE y(state) == [state |-> state, reqs |-> <<>>, resps |-> streams[s].resps]
  <2>1. y("broken") \in Stream /\ y("dead") \in Stream
    BY <1>1, EmptySeq DEF Stream
  <2>2. CASE PeerAborts(s)
    <3>1. /\ streams' \in [StreamIds -> Stream] /\ streams'[s] = y("broken")
          /\ \A u \in StreamIds \ {s} : streams'[u] = streams[u]
      BY <1>1, <2>1, <2>2 DEF PeerAborts, Stream
    <3>. QED
      BY <2>1, <3>1
  <2>3. CASE Notice(s)
    <3>1. /\ streams' \in [StreamIds -> Stream] /\ streams'[s] = y("dead")
          /\ \A u \in StreamIds \ {s} : streams'[u] = streams[u]
      BY <1>1, <1>2, <2>1, <2>3 DEF Notice, Stream
    <3>. QED
      BY <2>1, <3>1
  <2>. QED
    BY <2>2, <2>3
<1>4. Load(x) <= Load(streams[s]) /\ Under(x) \subseteq Under(streams[s])
  <2>1. Len(<<>>) = 0 /\ Range(<<>>) = {}
    BY EmptySeq DEF Range
  <2>2. \A m, n \in Nat : 0 + n <= m + n
    OBVIOUS
  <2>. QED
    BY <1>1, <1>3, <2>1, <2>2, StreamTyped DEF Load, Under
<1>5. UNCHANGED <<pc, held, got, cached, peerUp, crashes, shared>> /\ withheld' \subseteq Calls
  BY <1>0 DEF PeerAborts, Notice, TypeOK
<1>. QED
  BY <1>3, <1>4, <1>5, OneStreamStep

\* The peer's process dies: requests are lost, and the last of the answers may be.
LEMMA DeathStep ==
  ASSUME IInv,
         UNCHANGED <<pc, held, got, cached, withheld, shared>>,
         peerUp' \in BOOLEAN,
         crashes' \in 0..MaxCrashes,
         NEW n \in [StreamIds -> Nat],
         \A s \in StreamIds : n[s] <= Len(streams[s].resps),
         streams' = [s \in StreamIds |->
                IF streams[s].state = "dead" THEN streams[s]
                ELSE [state |-> "broken", reqs |-> <<>>,
                      resps |-> SubSeq(streams[s].resps, 1, n[s])]]
  PROVE  IInv'
<1>0. TypeOK
  BY DEF IInv
<1>2. ASSUME NEW s \in StreamIds
      PROVE  /\ streams'[s] \in Stream
             /\ Load(streams'[s]) <= Load(streams[s])
             /\ Under(streams'[s]) \subseteq Under(streams[s])
             /\ streams'[s].state # "live" => streams'[s].reqs = <<>>
  <2>1. /\ streams[s] \in Stream
        /\ streams[s].state # "live" => streams[s].reqs = <<>>
    BY <1>0, StreamsTyped DEF IInv, Ended
  <2>2. CASE streams[s].state = "dead"
    <3>1. streams'[s] = streams[s]
      BY <2>2
    <3>. QED
      BY <2>1, <3>1, StreamTyped
  <2>3. CASE streams[s].state # "dead"
    <3>. DEFINE kept == SubSeq(streams[s].resps, 1, n[s])
    <3>1. streams'[s] = [state |-> "broken", reqs |-> <<>>, resps |-> kept]
      BY <2>3
    <3>2. n[s] \in 0..Len(streams[s].resps)
      BY <2>1, StreamTyped
    <3>3. /\ kept \in Seq(Calls) /\ Len(kept) = n[s]
          /\ Range(kept) \subseteq Range(streams[s].resps)
      BY <2>1, <3>2, StreamTyped, RangeOfPrefix
    <3>. HIDE DEF kept
    <3>4. /\ streams'[s] \in Stream
          /\ streams'[s].reqs = <<>> /\ streams'[s].resps = kept
      BY <3>1, <3>3, EmptySeq DEF Stream
    <3>5. Len(<<>>) = 0 /\ Range(<<>>) = {}
      BY EmptySeq DEF Range
    <3>6. \A m, k \in Nat : \A j \in 0..k : 0 + j <= m + k
      OBVIOUS
    <3>7. Load(streams'[s]) <= Load(streams[s])
      BY <2>1, <3>2, <3>3, <3>4, <3>5, <3>6, StreamTyped DEF Load
    <3>. QED
      BY <3>3, <3>4, <3>5, <3>7 DEF Under
  <2>. QED
    BY <2>2, <2>3
<1>3. streams' \in [StreamIds -> Stream]
  BY <1>2
<1>4. withheld' \subseteq Calls
  BY <1>0 DEF TypeOK
<1>. QED
  BY <1>2, <1>3, <1>4, PeerStep

LEMMA PeerCrashStep == IInv /\ PeerCrash => IInv'
<1>. SUFFICES ASSUME IInv, PeerCrash PROVE IInv'
  OBVIOUS
<1>1. PICK n \in [StreamIds -> 0..Cardinality(Calls)] :
         /\ \A s \in StreamIds : n[s] <= Len(streams[s].resps)
         /\ streams' = [s \in StreamIds |->
                IF streams[s].state = "dead" THEN streams[s]
                ELSE [state |-> "broken", reqs |-> <<>>,
                      resps |-> SubSeq(streams[s].resps, 1, n[s])]]
  BY DEF PeerCrash
<1>2. n \in [StreamIds -> Nat]
  <2>1. Cardinality(Calls) \in Nat
    BY FS_CardinalityType
  <2>. QED
    BY <2>1
<1>3. peerUp' \in BOOLEAN
  BY Zenon DEF PeerCrash
<1>4. crashes' \in 0..MaxCrashes /\ UNCHANGED <<pc, held, got, cached, withheld, shared>>
  BY DEF PeerCrash, IInv, TypeOK
<1>. QED
  BY <1>1, <1>2, <1>3, <1>4, DeathStep

---------------------------------------------------------------------------
LEMMA InvStep == IInv /\ [Next]_vars => IInv'
<1>. SUFFICES ASSUME IInv, [Next]_vars PROVE IInv'
  OBVIOUS
<1>1. ASSUME NEW c \in Calls, SendRequest(c) \/ Lookup(c) \/ DialFails(c) \/ SendFails(c)
      PROVE  IInv'
  BY <1>1, CallQuiet
<1>2. ASSUME NEW c \in Calls, DialOk(c) PROVE IInv'
  BY <1>2, DialStep
<1>3. ASSUME NEW c \in Calls, SendOk(c) PROVE IInv'
  BY <1>3, SendStep
<1>4. ASSUME NEW c \in Calls, RecvOk(c) \/ RecvFails(c) \/ RecvGarbled(c) PROVE IInv'
  BY <1>4, ReceiveStep
<1>5. CASE MapRace
  BY <1>5, MapRaceStep
<1>6. ASSUME NEW s \in StreamIds, PeerServes(s) PROVE IInv'
  BY <1>6, ServeStep
<1>7. ASSUME NEW s \in StreamIds, PeerAborts(s) \/ Notice(s) PROVE IInv'
  BY <1>7, EndStep
<1>8. CASE PeerCrash
  BY <1>8, PeerCrashStep
<1>9. CASE PeerStarts \/ UNCHANGED vars
  <2>1. /\ UNCHANGED <<pc, held, got, cached, streams, crashes, withheld, shared>>
        /\ TypeOK
    BY <1>9 DEF PeerStarts, vars, IInv
  <2>2. peerUp' \in BOOLEAN
    BY <1>9, <2>1, Zenon DEF PeerStarts, vars, TypeOK
  <2>3. streams' \in [StreamIds -> Stream]
    BY <2>1, StreamsTyped
  <2>4. \A s \in StreamIds :
           /\ Load(streams'[s]) <= Load(streams[s])
           /\ Under(streams'[s]) \subseteq Under(streams[s])
           /\ streams'[s].state # "live" => streams'[s].reqs = <<>>
    BY <2>1, StreamsTyped, StreamTyped DEF IInv, Ended
  <2>5. crashes' \in 0..MaxCrashes /\ withheld' \subseteq Calls
    BY <2>1 DEF TypeOK
  <2>. QED
    BY <2>1, <2>2, <2>3, <2>4, <2>5, PeerStep
<1>. QED
  BY <1>1, <1>2, <1>3, <1>4, <1>5, <1>6, <1>7, <1>8, <1>9 DEF Next, CallStep

\* Every reachable state satisfies the inductive invariant.
THEOREM Invariant == Spec => []IInv
  BY InitInv, InvStep, PTL DEF Spec

\* Every reachable state is well typed.
THEOREM TypeCorrect == Spec => []TypeOK
<1>1. IInv => TypeOK
  BY DEF IInv
<1>. QED
  BY <1>1, Invariant, PTL

\* On no stream do requests and answers under way outnumber the calls that wait on
\* it, through dead streams, retries and races, so none is left over for a later
\* call (server.go:90-126).
THEOREM NoOrphans == Spec => []NoOrphanAnswer
<1>1. IInv => NoOrphanAnswer
  BY DEF IInv
<1>. QED
  BY <1>1, Invariant, PTL

\* A call that succeeds and never waited on its stream together with another got
\* the answer to its own transaction, although nothing compares identifiers
\* (server.go:113-126).
THEOREM OwnAnswers == Spec => []OwnAnswerUnlessShared
<1>1. IInv => OwnAnswerUnlessShared
  BY DEF IInv
<1>. QED
  BY <1>1, Invariant, PTL
===========================================================================
