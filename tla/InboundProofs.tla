--------------------------- MODULE InboundProofs ---------------------------
(***************************************************************************)
(* Proofs about Inbound, for any number of calls, any assignment of calls  *)
(* to transfers, any number of calls waiting together and every            *)
(* combination of faults.                                                  *)
(*                                                                         *)
(* The inductive invariant relates the two queues of the stream to the     *)
(* calls that listen on it: the answer that comes next belongs to a        *)
(* request sent no later than any waiting call's, because each answer      *)
(* wakes everyone and whoever comes later queues behind what is left.      *)
(* With one call waiting at a time that answer is the call's own.          *)
(***************************************************************************)
EXTENDS Inbound, QueueLemmas, FiniteSetTheorems

\* d is in a sequence no later than c.
Before(seq, d, c) == \E i, j \in DOMAIN seq : i <= j /\ seq[i] = d /\ seq[j] = c

\* What is under way was sent, only a live stream carries requests, and what the
\* gateway reads next was sent before the request of any call that waits.
Streaming ==
    /\ conn = "none" => fromVasp = <<>> /\ listeners = {}
    /\ conn # "live" => toVasp = <<>>
    /\ Range(toVasp) \cup Range(fromVasp) \cup answered \subseteq Range(sent)
    /\ fromVasp # <<>> => \A c \in listeners : Before(sent, Head(fromVasp), c)
    /\ fromVasp = <<>> /\ toVasp # <<>> => \A c \in listeners : Before(sent, Head(toVasp), c)

\* A call that waits, or will, has not been woken.
Asleep == \A c \in Calls : call[c] \in {"none", "awaiting"} => resolvedBy[c] = {}

IInv ==
    /\ TypeOK
    /\ ListenersAwait
    /\ Streaming
    /\ AnswerOwed
    /\ Asleep
    /\ NeverAhead

\* With one call waiting at a time, all that is under way is its own: one request
\* or one answer.
OneInFlight ==
    \/ toVasp = <<>> /\ fromVasp = <<>>
    \/ \E c \in listeners :
          \/ toVasp = <<c>> /\ fromVasp = <<>>
          \/ toVasp = <<>> /\ fromVasp = <<c>> /\ c \in answered

Alone ==
    /\ \A c, d \in listeners : c = d
    /\ OneInFlight
    /\ \A c \in Calls : call[c] = "permitting" => c \in answered
    /\ PermitOnlyAnswered

USE InboundAssumption

---------------------------------------------------------------------------
\* The order of what a sequence holds does not change when it grows, and what is
\* appended comes last.
LEMMA BeforeAppend ==
  ASSUME NEW S, NEW seq \in Seq(S), NEW c \in S
  PROVE  /\ \A d, e : Before(seq, d, e) => Before(Append(seq, c), d, e)
         /\ \A d \in Range(seq) \cup {c} : Before(Append(seq, c), d, c)
<1>. DEFINE app == Append(seq, c)
<1>1. /\ DOMAIN app = 1..Len(seq) + 1 /\ DOMAIN seq = 1..Len(seq) /\ Len(seq) \in Nat
      /\ \A k \in 1..Len(seq) : app[k] = seq[k]
      /\ app[Len(seq) + 1] = c
  BY AppendProperties, LenProperties
<1>. HIDE DEF app
<1>2. ASSUME NEW d, NEW e, Before(seq, d, e) PROVE Before(app, d, e)
  <2>1. PICK i \in 1..Len(seq), j \in 1..Len(seq) : i <= j /\ seq[i] = d /\ seq[j] = e
    BY <1>1, <1>2 DEF Before
  <2>2. i \in DOMAIN app /\ j \in DOMAIN app /\ app[i] = d /\ app[j] = e
    BY <1>1, <2>1
  <2>. QED
    BY <2>1, <2>2 DEF Before
<1>3. ASSUME NEW d \in Range(seq) \cup {c} PROVE Before(app, d, c)
  <2>1. PICK i \in 1..Len(seq) + 1 : app[i] = d
    <3>1. CASE d = c
      BY <1>1, <3>1
    <3>2. CASE d \in Range(seq)
      <4>1. PICK k \in 1..Len(seq) : seq[k] = d
        BY <3>2, RangeEquality
      <4>. QED
        BY <1>1, <4>1
    <3>. QED
      BY <3>1, <3>2
  <2>2. i <= Len(seq) + 1 /\ Len(seq) + 1 \in DOMAIN app /\ i \in DOMAIN app
    BY <1>1
  <2>. QED
    BY <1>1, <2>1, <2>2 DEF Before
<1>. QED
  BY <1>2, <1>3 DEF app

---------------------------------------------------------------------------
\* What the composite actions do: a gateway that dies loses its connection and
\* every call in progress, and a call that throws may take it along.
Emptied ==
    /\ conn' = "none"
    /\ toVasp' = <<>>
    /\ fromVasp' = <<>>
    /\ listeners' = {}
    /\ \A c \in Calls : call'[c] \notin {"awaiting", "permitting"}

LEMMA EmptiedTyped ==
  ASSUME TypeOK, Emptied \/ UNCHANGED <<conn, toVasp, fromVasp, listeners>>
  PROVE  /\ conn' \in ConnStates
         /\ toVasp' \in Seq(Calls)
         /\ fromVasp' \in Seq(Calls)
         /\ listeners' \subseteq Calls
<1>1. CASE Emptied
  BY <1>1, EmptySeq DEF Emptied, ConnStates
<1>2. CASE UNCHANGED <<conn, toVasp, fromVasp, listeners>>
  BY <1>2, Zenon DEF TypeOK
<1>. QED
  BY <1>1, <1>2

LEMMA DieEffect ==
  ASSUME NEW cs \in [Calls -> CallStates], Die(cs)
  PROVE  /\ up' = FALSE
         /\ crashes' = [crashes EXCEPT !["gateway"] = @ + 1]
         /\ crashes["gateway"] < MaxCrashes
         /\ call' \in [Calls -> CallStates]
         /\ Emptied
         /\ \A c \in Calls : call'[c] = "none" => cs[c] = "none"
  BY DEF Die, Emptied, CallStates

LEMMA ThrowEffect ==
  ASSUME TypeOK, NEW c \in Calls, call[c] \in {"none", "permitting"}, Throw(c)
  PROVE  /\ up' \in {FALSE, up}
         /\ crashes' \in [{"gateway", "vasp"} -> 0..MaxCrashes]
         /\ call' \in [Calls -> CallStates]
         /\ \A d \in Calls : call'[d] \in {"none", "awaiting", "permitting"} => call'[d] = call[d]
         /\ \/ Emptied
            \/ /\ UNCHANGED <<conn, toVasp, fromVasp, listeners>>
               /\ \A d \in Calls : call'[d] = "awaiting" <=> call[d] = "awaiting"
<1>. DEFINE cs == [call EXCEPT ![c] = "thrown"]
<1>1. cs \in [Calls -> CallStates]
  BY DEF TypeOK, CallStates
<1>2. CASE Die(cs)
  <2>1. crashes' \in [{"gateway", "vasp"} -> 0..MaxCrashes]
    BY <1>2 DEF Die, TypeOK
  <2>. QED
    BY <1>1, <1>2, <2>1, DieEffect DEF Emptied, TypeOK
<1>3. CASE call' = cs /\ UNCHANGED <<up, conn, toVasp, fromVasp, listeners, crashes>>
  BY <1>1, <1>3 DEF TypeOK
<1>. QED
  BY <1>2, <1>3 DEF Throw

\* What an arriving callback comes to.
LEMMA ArrivalEffect ==
  ASSUME TypeOK, NEW c \in Calls, PostPermissionRequest(c)
  PROVE  /\ call[c] = "none"
         /\ UNCHANGED <<vaspUp, permitted, answered, resolvedBy>>
         /\ \/ /\ call' = [call EXCEPT ![c] = "refused"]
               /\ UNCHANGED <<up, listeners, conn, toVasp, fromVasp, sent, crashes>>
            \/ Throw(c) /\ UNCHANGED sent
            \/ /\ conn' = Client
               /\ toVasp' = IF Client = "live" THEN Append(toVasp, c) ELSE toVasp
               /\ listeners' = listeners \cup {c}
               /\ call' = [call EXCEPT ![c] = "awaiting"]
               /\ sent' = Append(sent, c)
               /\ Cardinality(listeners) < MaxAwaiting
               /\ UNCHANGED <<up, fromVasp, crashes>>
  BY DEF PostPermissionRequest, SendClientEvent

---------------------------------------------------------------------------
LEMMA InitInv == Init => IInv /\ Alone
<1>. SUFFICES ASSUME Init PROVE IInv /\ Alone
  OBVIOUS
<1>1. up \in BOOLEAN /\ vaspUp \in BOOLEAN
  BY Zenon DEF Init
<1>2. Range(<<>>) = {}
  BY DEF Range
<1>3. TypeOK
  <2>1. crashes \in [{"gateway", "vasp"} -> 0..MaxCrashes]
    BY DEF Init
  <2>. QED
    BY <1>1, <2>1 DEF Init, TypeOK, ConnStates, CallStates
<1>4. ListenersAwait /\ Asleep /\ NeverAhead
  <2>1. Cardinality({}) = 0
    BY FS_EmptySet
  <2>. QED
    BY <2>1 DEF Init, ListenersAwait, Asleep, NeverAhead
<1>5. Streaming /\ AnswerOwed
  BY <1>2 DEF Init, Streaming, AnswerOwed
<1>6. Alone
  BY DEF Init, Alone, OneInFlight, PermitOnlyAnswered
<1>. QED
  BY <1>3, <1>4, <1>5, <1>6 DEF IInv

---------------------------------------------------------------------------
LEMMA TypeStep == TypeOK /\ [Next]_vars => TypeOK'
<1>. SUFFICES ASSUME TypeOK, [Next]_vars PROVE TypeOK'
  OBVIOUS
<1>. USE DEF TypeOK, ConnStates
<1>1. ASSUME NEW c \in Calls, PostPermissionRequest(c) PROVE TypeOK'
  <2>1. /\ call[c] = "none"
        /\ UNCHANGED <<vaspUp, permitted, answered, resolvedBy>>
    BY <1>1, ArrivalEffect
  <2>2. CASE call' = [call EXCEPT ![c] = "refused"]
             /\ UNCHANGED <<up, listeners, conn, toVasp, fromVasp, sent, crashes>>
    BY <2>1, <2>2 DEF CallStates
  <2>3. CASE Throw(c) /\ UNCHANGED sent
    <3>1. /\ call' \in [Calls -> CallStates]
          /\ crashes' \in [{"gateway", "vasp"} -> 0..MaxCrashes]
          /\ Emptied \/ UNCHANGED <<conn, toVasp, fromVasp, listeners>>
      BY <2>1, <2>3, ThrowEffect
    <3>2. up' \in BOOLEAN
      BY <2>1, <2>3, ThrowEffect, Zenon
    <3>3. vaspUp' \in BOOLEAN
      BY <2>1, Zenon
    <3>. QED
      BY <2>1, <2>3, <3>1, <3>2, <3>3, EmptiedTyped, Zenon
  <2>4. CASE /\ conn' = Client
             /\ toVasp' = IF Client = "live" THEN Append(toVasp, c) ELSE toVasp
             /\ listeners' = listeners \cup {c}
             /\ call' = [call EXCEPT ![c] = "awaiting"]
             /\ sent' = Append(sent, c)
             /\ UNCHANGED <<up, fromVasp, crashes>>
    <3>1. Append(toVasp, c) \in Seq(Calls) /\ Append(sent, c) \in Seq(Calls)
      BY AppendProperties
    <3>2. Client \in ConnStates
      BY DEF Client
    <3>. QED
      BY <2>1, <2>4, <3>1, <3>2 DEF CallStates
  <2>. QED
    BY <1>1, <2>2, <2>3, <2>4, ArrivalEffect
<1>2. ASSUME NEW c \in Calls, PermissionPosted(c) PROVE TypeOK'
  BY <1>2 DEF PermissionPosted, history, CallStates, Ids
<1>3. ASSUME NEW c \in Calls, PermissionFailed(c) PROVE TypeOK'
  <2>1. Throw(c) /\ call[c] = "permitting" /\ UNCHANGED <<vaspUp, history>>
    BY <1>3 DEF PermissionFailed
  <2>2. /\ call' \in [Calls -> CallStates]
        /\ crashes' \in [{"gateway", "vasp"} -> 0..MaxCrashes]
        /\ Emptied \/ UNCHANGED <<conn, toVasp, fromVasp, listeners>>
    BY <2>1, ThrowEffect
  <2>3. up' \in BOOLEAN
    BY <2>1, ThrowEffect, Zenon
  <2>4. vaspUp' \in BOOLEAN
    BY <2>1, Zenon
  <2>5. permitted' \subseteq Ids
    BY <1>3 DEF PermissionFailed, Ids
  <2>. QED
    BY <2>1, <2>2, <2>3, <2>4, <2>5, EmptiedTyped, Zenon DEF history
<1>4. CASE Data
  <2>1. Tail(fromVasp) \in Seq(Calls) /\ Head(fromVasp) \in Calls
    BY <1>4, HeadTailProperties DEF Data
  <2>2. resolvedBy' \in [Calls -> SUBSET Calls]
    BY <1>4, <2>1 DEF Data
  <2>. QED
    BY <1>4, <2>1, <2>2 DEF Data, CallStates
<1>5. CASE Crash
  <2>1. crashes' \in [{"gateway", "vasp"} -> 0..MaxCrashes]
    BY <1>5 DEF Crash, Die
  <2>2. Die(call) /\ UNCHANGED <<vaspUp, permitted, history>>
    BY <1>5 DEF Crash
  <2>3. call' \in [Calls -> CallStates] /\ Emptied
    BY <2>2, DieEffect
  <2>4. up' \in BOOLEAN
    BY <2>2, DieEffect, Zenon
  <2>5. vaspUp' \in BOOLEAN
    BY <2>2, Zenon
  <2>. QED
    BY <2>1, <2>2, <2>3, <2>4, <2>5, EmptiedTyped, Zenon DEF history
<1>6. CASE Restart
  BY <1>6 DEF Restart, history
<1>7. CASE VaspAnswers
  <2>1. Tail(toVasp) \in Seq(Calls) /\ Head(toVasp) \in Calls
    BY <1>7, HeadTailProperties DEF VaspAnswers
  <2>2. Append(fromVasp, Head(toVasp)) \in Seq(Calls)
    BY <2>1, AppendProperties
  <2>. QED
    BY <1>7, <2>1, <2>2 DEF VaspAnswers
<1>8. CASE VaspAborts
  BY <1>8 DEF VaspAborts, history
<1>9. CASE VaspCrash
  <2>1. fromVasp' \in Seq(Calls)
    BY <1>9, RangeOfPrefix DEF VaspCrash
  <2>2. crashes' \in [{"gateway", "vasp"} -> 0..MaxCrashes]
    BY <1>9 DEF VaspCrash
  <2>3. conn' \in ConnStates
    BY <1>9 DEF VaspCrash
  <2>4. toVasp' \in Seq(Calls)
    BY <1>9, EmptySeq DEF VaspCrash
  <2>5. up' \in BOOLEAN /\ vaspUp' \in BOOLEAN
    BY <1>9, Zenon DEF VaspCrash
  <2>. QED
    BY <1>9, <2>1, <2>2, <2>3, <2>4, <2>5, Zenon DEF VaspCrash, history
<1>10. CASE VaspStarts
  BY <1>10 DEF VaspStarts, history
<1>11. CASE UNCHANGED vars
  BY <1>11 DEF vars
<1>. QED
  BY <1>1, <1>2, <1>3, <1>4, <1>5, <1>6, <1>7, <1>8, <1>9, <1>10, <1>11 DEF Next

---------------------------------------------------------------------------
LEMMA ListenersStep == TypeOK /\ ListenersAwait /\ [Next]_vars => ListenersAwait'
<1>. SUFFICES ASSUME TypeOK, ListenersAwait, [Next]_vars PROVE ListenersAwait'
  OBVIOUS
<1>. USE DEF TypeOK, ListenersAwait
<1>1. ASSUME NEW c \in Calls, PostPermissionRequest(c) PROVE ListenersAwait'
  <2>1. call[c] = "none"
    BY <1>1, ArrivalEffect
  <2>2. CASE call' = [call EXCEPT ![c] = "refused"] /\ UNCHANGED listeners
    BY <2>1, <2>2
  <2>3. CASE Throw(c)
    BY <2>1, <2>3, ThrowEffect DEF Emptied
  <2>4. CASE listeners' = listeners \cup {c} /\ call' = [call EXCEPT ![c] = "awaiting"]
    BY <2>1, <2>4
  <2>. QED
    BY <1>1, <2>2, <2>3, <2>4, ArrivalEffect
<1>2. ASSUME NEW c \in Calls, PermissionPosted(c) PROVE ListenersAwait'
  BY <1>2 DEF PermissionPosted
<1>3. ASSUME NEW c \in Calls, PermissionFailed(c) PROVE ListenersAwait'
  BY <1>3, ThrowEffect DEF PermissionFailed, Emptied
<1>4. CASE Data
  BY <1>4 DEF Data
<1>5. CASE Crash
  BY <1>5, DieEffect DEF Crash, Emptied
<1>6. CASE Restart \/ VaspAnswers \/ VaspAborts \/ VaspCrash \/ VaspStarts
  BY <1>6 DEF Restart, VaspAnswers, VaspAborts, VaspCrash, VaspStarts
<1>7. CASE UNCHANGED vars
  BY <1>7 DEF vars
<1>. QED
  BY <1>1, <1>2, <1>3, <1>4, <1>5, <1>6, <1>7 DEF Next

---------------------------------------------------------------------------
\* A call's arrival: it queues behind everything that is under way.
LEMMA SendStreaming ==
  ASSUME TypeOK, Streaming, AnswerOwed, NEW c \in Calls,
         conn' = Client,
         toVasp' = IF Client = "live" THEN Append(toVasp, c) ELSE toVasp,
         listeners' = listeners \cup {c},
         sent' = Append(sent, c),
         UNCHANGED <<fromVasp, answered>>
  PROVE  Streaming' /\ AnswerOwed'
<1>. USE DEF TypeOK
<1>1. conn' \in {"live", "broken"} /\ (conn' # conn => conn = "none")
  BY DEF Client, ConnStates
<1>2. Range(sent') = Range(sent) \cup {c}
  BY RangeOfAppend
<1>3. Range(toVasp') \subseteq Range(toVasp) \cup {c}
      /\ (conn' = "live" => Range(toVasp') = Range(toVasp) \cup {c})
  BY RangeOfAppend
<1>4. \A d \in Range(sent) \cup {c} : Before(sent', d, c)
  BY BeforeAppend
<1>5. \A d, e : Before(sent, d, e) => Before(sent', d, e)
  BY BeforeAppend
<1>6. ASSUME fromVasp # <<>> PROVE \A e \in listeners' : Before(sent', Head(fromVasp), e)
  <2>1. Head(fromVasp) \in Range(sent)
    BY <1>6, RangeOfTail DEF Streaming
  <2>. QED
    BY <1>4, <1>5, <1>6, <2>1 DEF Streaming
<1>7. ASSUME fromVasp = <<>>, toVasp' # <<>> PROVE \A e \in listeners' : Before(sent', Head(toVasp'), e)
  <2>1. CASE toVasp = <<>>
    <3>1. toVasp' = <<c>>
      BY <1>7, <2>1
    <3>2. listeners = {}
      <4>1. CASE conn = "live"
        <5>1. Range(<<>>) = {}
          BY DEF Range
        <5>. QED
          BY <1>7, <2>1, <4>1, <5>1 DEF AnswerOwed
      <4>2. CASE conn = "none"
        BY <4>2 DEF Streaming
      <4>3. CASE conn = "broken"
        BY <1>7, <2>1, <4>3 DEF Client
      <4>. QED
        BY <4>1, <4>2, <4>3 DEF ConnStates
    <3>. QED
      BY <1>4, <3>1, <3>2
  <2>2. CASE toVasp # <<>>
    <3>1. Head(toVasp') = Head(toVasp)
      BY <2>2, HeadTailAppend
    <3>2. Head(toVasp) \in Range(sent)
      BY <2>2, RangeOfTail DEF Streaming
    <3>. QED
      BY <1>4, <1>5, <1>7, <2>2, <3>1, <3>2 DEF Streaming
  <2>. QED
    BY <2>1, <2>2
<1>8. Streaming'
  <2>1. conn' # "live" => toVasp' = <<>>
    BY <1>1 DEF Streaming
  <2>2. (Range(toVasp) \cup Range(fromVasp) \cup answered \subseteq Range(sent))'
    BY <1>2, <1>3 DEF Streaming
  <2>. QED
    BY <1>1, <1>6, <1>7, <2>1, <2>2 DEF Streaming
<1>9. AnswerOwed'
  <2>. SUFFICES ASSUME conn' = "live" PROVE listeners' \subseteq Range(toVasp') \cup Range(fromVasp)
    BY DEF AnswerOwed
  <2>1. listeners \subseteq Range(toVasp) \cup Range(fromVasp)
    BY <1>1 DEF AnswerOwed, Streaming
  <2>. QED
    BY <1>3, <2>1
<1>. QED
  BY <1>8, <1>9

LEMMA EmptiedStreaming ==
  ASSUME TypeOK, Streaming, Emptied, UNCHANGED <<sent, answered>>
  PROVE  Streaming' /\ AnswerOwed'
<1>1. Range(<<>>) = {}
  BY DEF Range
<1>. QED
  BY <1>1 DEF Emptied, Streaming, AnswerOwed

\* What leaves the stream, the calls that wait and the record of both alone.
LEMMA QuietStreaming ==
  ASSUME Streaming, AnswerOwed, UNCHANGED <<conn, toVasp, fromVasp, listeners, sent, answered>>
  PROVE  Streaming' /\ AnswerOwed'
  BY DEF Streaming, AnswerOwed

LEMMA StreamingStep ==
  TypeOK /\ Streaming /\ AnswerOwed /\ [Next]_vars => Streaming' /\ AnswerOwed'
<1>. SUFFICES ASSUME TypeOK, Streaming, AnswerOwed, [Next]_vars PROVE Streaming' /\ AnswerOwed'
  OBVIOUS
<1>. DEFINE Goal == Streaming' /\ AnswerOwed'
<1>. USE DEF TypeOK
<1>0. Range(<<>>) = {}
  BY DEF Range
<1>1. ASSUME NEW c \in Calls, PostPermissionRequest(c) PROVE Goal
  <2>1. call[c] = "none" /\ UNCHANGED answered
    BY <1>1, ArrivalEffect
  <2>2. CASE UNCHANGED <<up, listeners, conn, toVasp, fromVasp, sent, crashes>>
    BY <2>1, <2>2, QuietStreaming
  <2>3. CASE Throw(c) /\ UNCHANGED sent
    BY <2>1, <2>3, ThrowEffect, EmptiedStreaming, QuietStreaming
  <2>4. CASE /\ conn' = Client
             /\ toVasp' = IF Client = "live" THEN Append(toVasp, c) ELSE toVasp
             /\ listeners' = listeners \cup {c}
             /\ sent' = Append(sent, c)
             /\ UNCHANGED <<up, fromVasp, crashes>>
    BY <2>1, <2>4, SendStreaming
  <2>. QED
    BY <1>1, <2>2, <2>3, <2>4, ArrivalEffect
<1>2. ASSUME NEW c \in Calls, PermissionPosted(c) PROVE Goal
  BY <1>2, QuietStreaming DEF PermissionPosted, history
<1>3. ASSUME NEW c \in Calls, PermissionFailed(c) PROVE Goal
  BY <1>3, ThrowEffect, EmptiedStreaming, QuietStreaming DEF PermissionFailed, history
<1>4. CASE Data
  <2>1. Range(fromVasp') \subseteq Range(fromVasp) /\ fromVasp' \in Seq(Calls)
    BY <1>4, RangeOfTail DEF Data
  <2>2. conn' # "none" /\ listeners' = {} /\ UNCHANGED <<conn, toVasp, sent, answered>>
    BY <1>4 DEF Data, Streaming
  <2>. QED
    BY <2>1, <2>2 DEF Streaming, AnswerOwed
<1>5. CASE Crash
  BY <1>5, DieEffect, EmptiedStreaming DEF Crash, history
<1>6. CASE Restart
  BY <1>6, QuietStreaming DEF Restart, history
<1>7. CASE VaspAnswers
  <2>. DEFINE h == Head(toVasp)
  <2>1. /\ toVasp # <<>> /\ toVasp' = Tail(toVasp) /\ fromVasp' = Append(fromVasp, h)
        /\ answered' = answered \cup {h}
        /\ UNCHANGED <<conn, listeners, sent>>
    BY <1>7 DEF VaspAnswers
  <2>2. /\ h \in Calls /\ Tail(toVasp) \in Seq(Calls)
        /\ Range(toVasp) = {h} \cup Range(toVasp')
    BY <2>1, RangeOfTail
  <2>3. Range(fromVasp') = Range(fromVasp) \cup {h} /\ fromVasp' # <<>>
    BY <2>1, <2>2, RangeOfAppend, AppendProperties
  <2>4. Head(fromVasp') = IF fromVasp = <<>> THEN h ELSE Head(fromVasp)
    BY <2>1, <2>2, HeadTailAppend
  <2>5. \A c \in listeners : Before(sent, Head(fromVasp'), c)
    BY <2>1, <2>4 DEF Streaming
  <2>6. Streaming'
    <3>1. conn' = "live"
      BY <2>1 DEF Streaming
    <3>2. (Range(toVasp) \cup Range(fromVasp) \cup answered \subseteq Range(sent))'
      BY <2>1, <2>2, <2>3 DEF Streaming
    <3>3. \A c \in listeners' : Before(sent', Head(fromVasp'), c)
      BY <2>1, <2>5
    <3>. QED
      BY <2>3, <3>1, <3>2, <3>3 DEF Streaming
  <2>7. AnswerOwed'
    BY <2>1, <2>2, <2>3 DEF AnswerOwed
  <2>. QED
    BY <2>6, <2>7
<1>8. CASE VaspAborts
  BY <1>0, <1>8 DEF VaspAborts, history, Streaming, AnswerOwed
<1>9. CASE VaspCrash
  <2>1. PICK n \in 0..Len(fromVasp) : fromVasp' = SubSeq(fromVasp, 1, n)
    BY <1>9 DEF VaspCrash
  <2>2. /\ Range(fromVasp') \subseteq Range(fromVasp)
        /\ fromVasp' # <<>> => fromVasp # <<>> /\ Head(fromVasp') = Head(fromVasp)
    BY <2>1, RangeOfPrefix
  <2>3. /\ conn' = (IF conn = "live" THEN "broken" ELSE conn) /\ toVasp' = <<>>
        /\ UNCHANGED <<listeners, sent, answered>>
    BY <1>9 DEF VaspCrash, history
  <2>4. Streaming'
    BY <1>0, <2>2, <2>3 DEF Streaming
  <2>. QED
    BY <2>3, <2>4 DEF AnswerOwed
<1>10. CASE VaspStarts
  BY <1>10, QuietStreaming DEF VaspStarts, history
<1>11. CASE UNCHANGED vars
  BY <1>11, QuietStreaming DEF vars
<1>. QED
  BY <1>1, <1>2, <1>3, <1>4, <1>5, <1>6, <1>7, <1>8, <1>9, <1>10, <1>11 DEF Next

---------------------------------------------------------------------------
\* A call takes the answer at the head of the stream, and that was sent no later
\* than its own request.
LEMMA WakeStep ==
  TypeOK /\ ListenersAwait /\ Streaming /\ Asleep /\ NeverAhead /\ [Next]_vars
    => Asleep' /\ NeverAhead'
<1>. SUFFICES ASSUME TypeOK, ListenersAwait, Streaming, Asleep, NeverAhead, [Next]_vars
              PROVE  Asleep' /\ NeverAhead'
  OBVIOUS
<1>. DEFINE Goal == Asleep' /\ NeverAhead'
            Quiet == /\ UNCHANGED <<sent, resolvedBy>>
                     /\ \A d \in Calls : call'[d] \in {"none", "awaiting"} =>
                                          call[d] \in {"none", "awaiting"}
<1>. USE DEF TypeOK
<1>0. Quiet => Goal
  BY DEF Asleep, NeverAhead
<1>1. ASSUME NEW c \in Calls, PostPermissionRequest(c) PROVE Goal
  <2>1. call[c] = "none" /\ UNCHANGED resolvedBy
    BY <1>1, ArrivalEffect
  <2>2. CASE call' = [call EXCEPT ![c] = "refused"] /\ UNCHANGED sent
    BY <1>0, <2>1, <2>2
  <2>3. CASE Throw(c) /\ UNCHANGED sent
    BY <1>0, <2>1, <2>3, ThrowEffect
  <2>4. CASE call' = [call EXCEPT ![c] = "awaiting"] /\ sent' = Append(sent, c)
    <3>1. Asleep'
      BY <2>1, <2>4 DEF Asleep
    <3>2. \A d, e : Before(sent, d, e) => Before(sent', d, e)
      BY <2>4, BeforeAppend
    <3>3. ASSUME NEW b \in Calls
          PROVE  Cardinality(resolvedBy[b]) <= 1 /\ \A d \in resolvedBy[b] : Before(sent', d, b)
      <4>1. Cardinality(resolvedBy[b]) <= 1 /\ \A d \in resolvedBy[b] : Before(sent, d, b)
        BY DEF NeverAhead, Before
      <4>. QED
        BY <3>2, <4>1
    <3>4. NeverAhead'
      BY <2>1, <3>3 DEF NeverAhead, Before
    <3>. QED
      BY <3>1, <3>4
  <2>. QED
    BY <1>1, <2>2, <2>3, <2>4, ArrivalEffect
<1>2. ASSUME NEW c \in Calls, PermissionPosted(c) PROVE Goal
  BY <1>0, <1>2 DEF PermissionPosted, history
<1>3. ASSUME NEW c \in Calls, PermissionFailed(c) PROVE Goal
  BY <1>0, <1>3, ThrowEffect DEF PermissionFailed, history
<1>4. CASE Data
  <2>. DEFINE a == Head(fromVasp)
  <2>1. \A c \in listeners : Before(sent, a, c)
    BY <1>4 DEF Data, Streaming
  <2>2. \A c \in listeners : resolvedBy'[c] = {a}
    BY <1>4 DEF Data, ListenersAwait, Asleep
  <2>3. \A c \in Calls \ listeners : resolvedBy'[c] = resolvedBy[c] /\ call'[c] = call[c]
    BY <1>4 DEF Data
  <2>4. sent' = sent /\ \A c \in listeners : call'[c] = "permitting"
    BY <1>4 DEF Data
  <2>. HIDE DEF a
  <2>5. Asleep'
    BY <2>3, <2>4 DEF Asleep
  <2>6. Cardinality({a}) = 1
    BY FS_Singleton
  <2>7. ASSUME NEW c \in Calls
        PROVE  /\ Cardinality(resolvedBy'[c]) <= 1
               /\ \A d \in resolvedBy'[c] : Before(sent, d, c)
    <3>1. CASE c \in listeners
      <4>1. resolvedBy'[c] = {a} /\ Before(sent, a, c)
        BY <2>1, <2>2, <3>1
      <4>2. Cardinality(resolvedBy'[c]) <= 1
        BY <2>6, <4>1
      <4>. QED
        BY <4>1, <4>2
    <3>2. CASE c \notin listeners
      BY <2>3, <3>2 DEF NeverAhead, Before
    <3>. QED
      BY <3>1, <3>2
  <2>8. NeverAhead'
    BY <2>4, <2>7 DEF NeverAhead, Before
  <2>. QED
    BY <2>5, <2>8
<1>5. CASE Crash
  BY <1>0, <1>5, DieEffect DEF Crash, history, Emptied
<1>6. CASE Restart \/ VaspAnswers \/ VaspAborts \/ VaspCrash \/ VaspStarts
  BY <1>0, <1>6 DEF Restart, VaspAnswers, VaspAborts, VaspCrash, VaspStarts, history
<1>7. CASE UNCHANGED vars
  BY <1>0, <1>7 DEF vars
<1>. QED
  BY <1>1, <1>2, <1>3, <1>4, <1>5, <1>6, <1>7 DEF Next

LEMMA InvStep == IInv /\ [Next]_vars => IInv'
  BY TypeStep, ListenersStep, StreamingStep, WakeStep DEF IInv

---------------------------------------------------------------------------
\* One call at a time: nothing is under way when a call arrives.
LEMMA AloneStep ==
  ASSUME MaxAwaiting <= 1, IInv, Alone, [Next]_vars
  PROVE  Alone'
<1>. DEFINE Quiet == /\ UNCHANGED <<toVasp, fromVasp, listeners>> \/ Emptied
                     /\ UNCHANGED answered
                     /\ \A d \in Calls : call'[d] = "permitting" => call[d] = "permitting"
<1>0. TypeOK /\ ListenersAwait
  BY DEF IInv
<1>1. ASSUME Quiet, permitted' \subseteq permitted \cup {IdOf[c] : c \in answered} PROVE Alone'
  BY <1>1 DEF Alone, PermitOnlyAnswered, OneInFlight, Emptied
<1>2. ASSUME NEW c \in Calls, PostPermissionRequest(c) PROVE Alone'
  <2>1. call[c] = "none" /\ UNCHANGED <<permitted, answered>>
    BY <1>0, <1>2, ArrivalEffect
  <2>2. CASE call' = [call EXCEPT ![c] = "refused"] /\ UNCHANGED <<toVasp, fromVasp, listeners>>
    BY <1>0, <1>1, <2>1, <2>2 DEF TypeOK
  <2>3. CASE Throw(c)
    BY <1>0, <1>1, <2>1, <2>3, ThrowEffect
  <2>4. CASE /\ toVasp' = IF Client = "live" THEN Append(toVasp, c) ELSE toVasp
             /\ listeners' = listeners \cup {c}
             /\ call' = [call EXCEPT ![c] = "awaiting"]
             /\ Cardinality(listeners) < MaxAwaiting
             /\ UNCHANGED fromVasp
    <3>1. IsFiniteSet(listeners)
      BY <1>0, FS_Subset DEF TypeOK
    <3>2. Cardinality(listeners) = 0
      BY <2>4, <3>1, FS_CardinalityType
    <3>3. listeners = {}
      BY <3>1, <3>2, FS_EmptySet
    <3>4. toVasp = <<>> /\ fromVasp = <<>>
      BY <3>3 DEF Alone, OneInFlight
    <3>5. toVasp' \in {<<>>, <<c>>} /\ fromVasp' = <<>> /\ listeners' = {c}
      BY <2>4, <3>3, <3>4
    <3>6. \A d \in Calls : call'[d] = "permitting" => call[d] = "permitting"
      BY <1>0, <2>4 DEF TypeOK
    <3>. QED
      BY <2>1, <3>5, <3>6 DEF Alone, OneInFlight, PermitOnlyAnswered
  <2>. QED
    BY <1>0, <1>2, <2>2, <2>3, <2>4, ArrivalEffect
<1>3. ASSUME NEW c \in Calls, PermissionPosted(c) PROVE Alone'
  <2>1. c \in answered
    BY <1>3 DEF PermissionPosted, Alone
  <2>2. /\ permitted' = permitted \cup {IdOf[c]}
        /\ UNCHANGED <<toVasp, fromVasp, listeners, answered>>
        /\ \A d \in Calls : call'[d] = "permitting" => call[d] = "permitting"
    BY <1>0, <1>3 DEF PermissionPosted, history, TypeOK
  <2>. QED
    BY <1>1, <2>1, <2>2
<1>4. ASSUME NEW c \in Calls, PermissionFailed(c) PROVE Alone'
  <2>1. c \in answered /\ UNCHANGED answered
    BY <1>4 DEF PermissionFailed, history, Alone
  <2>2. permitted' \subseteq permitted \cup {IdOf[d] : d \in answered}
    BY <1>4, <2>1 DEF PermissionFailed
  <2>3. Quiet
    BY <1>0, <1>4, <2>1, ThrowEffect DEF PermissionFailed
  <2>. QED
    BY <1>1, <2>2, <2>3
<1>5. CASE Data
  <2>1. PICK a \in listeners : toVasp = <<>> /\ fromVasp = <<a>> /\ a \in answered
    BY <1>5 DEF Data, Alone, OneInFlight
  <2>2. listeners' = {} /\ fromVasp' = <<>> /\ UNCHANGED <<toVasp, answered, permitted>>
    BY <1>5, <2>1 DEF Data
  <2>3. \A c \in Calls : call'[c] = "permitting" => c \in answered
    BY <1>5, <2>1 DEF Data, Alone
  <2>. QED
    BY <2>1, <2>2, <2>3 DEF Alone, OneInFlight, PermitOnlyAnswered
<1>6. CASE Crash
  BY <1>0, <1>1, <1>6, DieEffect DEF Crash, history, Emptied, TypeOK
<1>7. CASE Restart \/ VaspStarts
  BY <1>1, <1>7 DEF Restart, VaspStarts, history
<1>8. CASE VaspAnswers
  <2>1. PICK c \in listeners : toVasp = <<c>> /\ fromVasp = <<>>
    BY <1>8 DEF VaspAnswers, Alone, OneInFlight
  <2>2. /\ toVasp' = <<>> /\ fromVasp' = <<c>> /\ answered' = answered \cup {c}
        /\ UNCHANGED <<listeners, call, permitted>>
    BY <1>8, <2>1 DEF VaspAnswers
  <2>. QED
    BY <2>1, <2>2 DEF Alone, OneInFlight, PermitOnlyAnswered
<1>9. CASE VaspAborts
  BY <1>9 DEF VaspAborts, history, Alone, OneInFlight, PermitOnlyAnswered
<1>10. CASE VaspCrash
  <2>1. PICK n \in 0..Len(fromVasp) : fromVasp' = SubSeq(fromVasp, 1, n)
    BY <1>10 DEF VaspCrash
  <2>2. \/ fromVasp' = <<>>
        \/ fromVasp' = fromVasp
    <3>1. Len(fromVasp) \in {0, 1}
      BY DEF Alone, OneInFlight
    <3>2. CASE n = 0
      BY <2>1, <3>2, SubSeqEmpty
    <3>3. CASE n = Len(fromVasp)
      BY <1>0, <2>1, <3>3, SubSeqFull DEF TypeOK
    <3>4. n = 0 \/ n = Len(fromVasp)
      <4>1. CASE Len(fromVasp) = 0
        BY <4>1
      <4>2. CASE Len(fromVasp) = 1
        BY <4>2
      <4>. QED
        BY <3>1, <4>1, <4>2
    <3>. QED
      BY <3>2, <3>3, <3>4
  <2>3. toVasp' = <<>> /\ UNCHANGED <<listeners, call, permitted, answered>>
    BY <1>10 DEF VaspCrash, history
  <2>. QED
    BY <2>2, <2>3 DEF Alone, OneInFlight, PermitOnlyAnswered
<1>11. CASE UNCHANGED vars
  BY <1>1, <1>11 DEF vars
<1>. QED
  BY <1>2, <1>3, <1>4, <1>5, <1>6, <1>7, <1>8, <1>9, <1>10, <1>11 DEF Next

---------------------------------------------------------------------------
\* Every reachable state satisfies the inductive invariant.
THEOREM Invariant == Spec => []IInv
<1>1. Init => IInv
  BY InitInv
<1>. QED
  BY <1>1, InvStep, PTL DEF Spec

---------------------------------------------------------------------------
\* Every reachable state is well typed.
THEOREM TypeCorrect == Spec => []TypeOK
<1>1. IInv => TypeOK
  BY DEF IInv
<1>. QED
  BY <1>1, Invariant, PTL

\* The stream has a "data" listener for exactly the calls that wait, across
\* answers, failed posts, rejections and restarts (connection-manager.ts:112-114).
THEOREM ListenersExact == Spec => []ListenersAwait
<1>1. IInv => ListenersAwait
  BY DEF IInv
<1>. QED
  BY <1>1, Invariant, PTL

\* However many calls one answer wakes, every call that waits on a live stream is
\* still owed its own (connection-manager.ts:111-114).
THEOREM AnswerNeverMissed == Spec => []AnswerOwed
<1>1. IInv => AnswerOwed
  BY DEF IInv
<1>. QED
  BY <1>1, Invariant, PTL

\* A call is woken once at most, and by an answer that is its own or late, never
\* by one to a later request (connection-manager.ts:112-114).
THEOREM WokenInOrder == Spec => []NeverAhead
<1>1. IInv => NeverAhead
  BY DEF IInv
<1>. QED
  BY <1>1, Invariant, PTL

\* With one call waiting at a time ACCEPTED is posted for nothing the TRISA VASP did
\* not answer, whatever crashes or fails (connection-manager.ts:111-134).
THEOREM PermitSound ==
  ASSUME MaxAwaiting <= 1
  PROVE  Spec => []PermitOnlyAnswered
<1>1. Init => IInv /\ Alone
  BY InitInv
<1>2. IInv /\ Alone /\ [Next]_vars => IInv' /\ Alone'
  BY InvStep, AloneStep
<1>3. Alone => PermitOnlyAnswered
  BY DEF Alone
<1>. QED
  BY <1>1, <1>2, <1>3, PTL DEF Spec

---------------------------------------------------------------------------
\* The calls about a transfer, and how its status follows from them.
Of(i) == {c \in Calls : IdOf[c] = i}

StatusOf(i, posted, heard, wrote) ==
    IF i \in posted THEN "confirmed"
    ELSE IF Of(i) \cap heard # {} THEN "accepted"
    ELSE IF Of(i) \cap wrote # {} THEN "requested" ELSE "none"

LEMMA StatusIs ==
  /\ status = [i \in Ids |-> StatusOf(i, permitted, answered, Range(sent))]
  /\ status' = [i \in Ids |-> StatusOf(i, permitted', answered', Range(sent'))]
  BY DEF status, StatusOf, Of

\* Writing a request, its answer and the permission for it advance the exchange by
\* one stage each, unless a repeated callback did so before; nothing else does.
LEMMA ExchangeStep ==
  ASSUME IInv, Alone, [Next]_vars
  PROVE  [Exchange!Next]_status
<1>0. TypeOK /\ Streaming
  BY DEF IInv
<1>1. ASSUME UNCHANGED <<permitted, answered, sent>> PROVE [Exchange!Next]_status
  BY <1>1, StatusIs
<1>2. ASSUME NEW i \in Ids, i \in permitted \/ Of(i) \cap answered # {},
             permitted' \in {permitted, permitted \cup {i}}, UNCHANGED <<answered, sent>>
      PROVE  [Exchange!Next]_status
  <2>1. CASE permitted' = permitted
    BY <1>1, <1>2, <2>1
  <2>2. CASE permitted' = permitted \cup {i} /\ i \notin permitted
    <3>1. status[i] = "accepted"
      BY <1>2, <2>2, StatusIs DEF StatusOf
    <3>2. status' = [status EXCEPT ![i] = "confirmed"]
      BY <1>2, <2>2, StatusIs DEF StatusOf
    <3>. QED
      BY <3>1, <3>2 DEF Exchange!Next, Exchange!Confirm, Exchange!Move
  <2>. QED
    BY <1>2, <2>1, <2>2
<1>3. ASSUME NEW c \in Calls, PostPermissionRequest(c) PROVE [Exchange!Next]_status
  <2>1. UNCHANGED <<permitted, answered>>
    BY <1>0, <1>3, ArrivalEffect
  <2>2. CASE sent' = sent
    BY <1>1, <2>1, <2>2
  <2>3. CASE sent' = Append(sent, c)
    <3>. DEFINE i == IdOf[c]
    <3>1. Range(sent') = Range(sent) \cup {c}
      BY <1>0, <2>3, RangeOfAppend DEF TypeOK
    <3>2. i \in Ids /\ c \in Of(i) /\ \A j \in Ids : j # i => c \notin Of(j)
      BY DEF Ids, Of
    <3>3. CASE status[i] # "none"
      <4>1. status' = status
        BY <2>1, <3>1, <3>2, <3>3, StatusIs DEF StatusOf
      <4>. QED
        BY <4>1
    <3>4. CASE status[i] = "none"
      <4>1. status' = [status EXCEPT ![i] = "requested"]
        BY <2>1, <3>1, <3>2, <3>4, StatusIs DEF StatusOf
      <4>. QED
        BY <3>2, <3>4, <4>1 DEF Exchange!Next, Exchange!Request, Exchange!Move
    <3>. QED
      BY <3>3, <3>4
  <2>. QED
    BY <1>0, <1>3, <2>2, <2>3, ArrivalEffect
<1>4. ASSUME NEW c \in Calls, PermissionPosted(c) \/ PermissionFailed(c)
      PROVE  [Exchange!Next]_status
  <2>1. c \in Of(IdOf[c]) \cap answered /\ IdOf[c] \in Ids
    BY <1>4 DEF PermissionPosted, PermissionFailed, Alone, Of, Ids
  <2>. QED
    BY <1>2, <1>4, <2>1 DEF PermissionPosted, PermissionFailed, history
<1>5. CASE VaspAnswers
  <2>. DEFINE c == Head(toVasp)
              i == IdOf[c]
  <2>1. c \in Calls /\ c \in Range(sent)
    BY <1>0, <1>5, RangeOfTail DEF VaspAnswers, TypeOK, Streaming
  <2>2. answered' = answered \cup {c} /\ UNCHANGED <<permitted, sent>>
    BY <1>5 DEF VaspAnswers
  <2>. HIDE DEF c
  <2>3. i \in Ids /\ c \in Of(i) /\ \A j \in Ids : j # i => c \notin Of(j)
    BY <2>1 DEF Ids, Of
  <2>4. CASE status[i] \in {"confirmed", "accepted"}
    <3>1. status' = status
      BY <2>2, <2>3, <2>4, StatusIs DEF StatusOf
    <3>. QED
      BY <3>1
  <2>5. CASE status[i] \notin {"confirmed", "accepted"}
    <3>1. status[i] = "requested"
      BY <2>1, <2>3, <2>5, StatusIs DEF StatusOf
    <3>2. status' = [status EXCEPT ![i] = "accepted"]
      BY <2>2, <2>3, <2>5, StatusIs DEF StatusOf
    <3>. QED
      BY <2>3, <3>1, <3>2
         DEF Exchange!Next, Exchange!Decide, Exchange!Move, Exchange!Decisions
  <2>. QED
    BY <2>4, <2>5
<1>6. CASE Data \/ Crash \/ Restart \/ VaspAborts \/ VaspCrash \/ VaspStarts
  BY <1>1, <1>6 DEF Data, Crash, Restart, VaspAborts, VaspCrash, VaspStarts, history
<1>7. CASE UNCHANGED vars
  BY <1>1, <1>7 DEF vars
<1>. QED
  BY <1>3, <1>4, <1>5, <1>6, <1>7 DEF Next

\* With one call waiting at a time the gateway implements the permission exchange in
\* this direction too, although the Bridge may repeat its callbacks and either
\* process may die at any point (connection-manager.ts:103-134).
THEOREM Refinement ==
  ASSUME MaxAwaiting <= 1
  PROVE  Spec => ImplementsSafety
<1>1. Init => IInv /\ Alone
  BY InitInv
<1>2. IInv /\ Alone /\ [Next]_vars => IInv' /\ Alone'
  BY InvStep, AloneStep
<1>3. IInv /\ Alone /\ [Next]_vars => [Exchange!Next]_status
  BY ExchangeStep
<1>4. Init => Exchange!Init
  <2>1. Range(<<>>) = {}
    BY DEF Range
  <2>. QED
    BY <2>1, StatusIs DEF Init, StatusOf, Exchange!Init
<1>. QED
  BY <1>1, <1>2, <1>3, <1>4, PTL DEF Spec, ImplementsSafety, Exchange!Safety
===========================================================================
