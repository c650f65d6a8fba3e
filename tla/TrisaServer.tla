---------------------------- MODULE TrisaServer ----------------------------
(***************************************************************************)
(* TRISA VASP, the client side: concurrent calls of SendRequest to one     *)
(* target, each a goroutine of the /send endpoint.  They share the stream  *)
(* getClient caches in Server.streams, a map without a lock; a call sends  *)
(* its transaction and takes the next answer on the stream as its own.     *)
(* The peer runs TransactionStream, or is the Sygna Gateway, which answers *)
(* an accepted transfer only.                                              *)
(***************************************************************************)
EXTENDS Naturals, SequencesExt

CONSTANTS
    Calls,         \* the calls of SendRequest, each with a transfer of its own
    Unencodable,   \* those whose data EncodeTransactionData refuses
    Undecodable,   \* those whose answer the caller's handle refuses
    None,          \* no stream is cached
    MaxCrashes,    \* how often the peer's process is killed
    Faults         \* what may go wrong, see AllFaults

AllFaults == {
    "peerAborts",   \* the peer ends the stream over a request it cannot handle
    "peerCrash",    \* the peer's process may be killed
    "peerSilent",   \* the peer may leave a request unanswered
    "peerReorders", \* the peer may answer in another order
    "races"}        \* undefined behaviour: unsynchronised map accesses and
                    \* overlapping Recv calls on one stream

ASSUME TrisaServerAssumption ==
    /\ IsFiniteSet(Calls)
    /\ Unencodable \subseteq Calls
    /\ Undecodable \subseteq Calls
    /\ None \notin Nat
    /\ MaxCrashes \in Nat
    /\ Faults \subseteq AllFaults

VARIABLES
    pc,         \* where each call is
    held,       \* the stream each call got from getClient
    got,        \* the call whose answer each call received
    cached,     \* Server.streams[target]
    streams,    \* every stream ever opened, by number
    peerUp,     \* the peer's process runs
    crashes,    \* how often it was killed
    withheld,   \* requests the peer took and never answers
    shared      \* calls that waited on a stream together with another (history)

vars == <<pc, held, got, cached, streams, peerUp, crashes, withheld, shared>>

PCs == {"none", "lookup", "dial", "send", "recv", "ok", "failed", "lost"}

Active == {"lookup", "dial", "send", "recv"}

\* A live stream reaches the peer; a broken one no longer does but the caller
\* has not noticed; on a dead one Send and, after the last answer, Recv fail.
Stream == [state : {"live", "broken", "dead"}, reqs : Seq(Calls), resps : Seq(Calls)]

StreamIds == DOMAIN streams

TypeOK ==
    /\ pc \in [Calls -> PCs]
    /\ held \in [Calls -> StreamIds \cup {None}]
    /\ got \in [Calls -> Calls \cup {None}]
    /\ cached \in StreamIds \cup {None}
    /\ streams \in Seq(Stream)
    /\ peerUp \in BOOLEAN
    /\ crashes \in 0..MaxCrashes
    /\ withheld \subseteq Calls
    /\ shared \subseteq Calls

Init ==
    /\ pc = [c \in Calls |-> "none"]
    /\ held = [c \in Calls |-> None]
    /\ got = [c \in Calls |-> None]
    /\ cached = None
    /\ streams = <<>>
    /\ peerUp \in BOOLEAN
    /\ crashes = 0
    /\ withheld = {}
    /\ shared = {}

Receivers(s) == {c \in Calls : pc[c] = "recv" /\ held[c] = s}

---------------------------------------------------------------------------
\* /send fills in an example and calls SendRequest, which encodes it or fails.
SendRequest(c) ==
    /\ pc[c] = "none"
    /\ pc' = [pc EXCEPT ![c] = IF c \in Unencodable THEN "failed" ELSE "lookup"]
    /\ UNCHANGED <<held, got, cached, streams, peerUp, crashes, withheld, shared>>

\* getClient returns the cached stream, whatever its state, or goes on to dial.
Lookup(c) ==
    /\ pc[c] = "lookup"
    /\ held' = [held EXCEPT ![c] = cached]
    /\ pc' = [pc EXCEPT ![c] = IF cached = None THEN "dial" ELSE "send"]
    /\ UNCHANGED <<got, cached, streams, peerUp, crashes, withheld, shared>>

\* Mutant: the stream is cached under the number of the one before it.
DialMiscounts(c) ==
    /\ pc[c] = "dial"
    /\ peerUp
    /\ streams' = Append(streams, [state |-> "live", reqs |-> <<>>, resps |-> <<>>])
    /\ cached' = Len(streams)
    /\ held' = [held EXCEPT ![c] = Len(streams)]
    /\ pc' = [pc EXCEPT ![c] = "send"]
    /\ UNCHANGED <<got, peerUp, crashes, withheld, shared>>

\* It opens a stream and caches it, over one another call cached meanwhile.
DialOk(c) ==
    LET s == Len(streams) + 1
    IN  /\ pc[c] = "dial"
        /\ peerUp
        /\ streams' = Append(streams, [state |-> "live", reqs |-> <<>>, resps |-> <<>>])
        /\ cached' = s
        /\ held' = [held EXCEPT ![c] = s]
        /\ pc' = [pc EXCEPT ![c] = "send"]
        /\ UNCHANGED <<got, peerUp, crashes, withheld, shared>>

DialFails(c) ==
    /\ pc[c] = "dial"
    /\ ~peerUp
    /\ pc' = [pc EXCEPT ![c] = "failed"]
    /\ UNCHANGED <<held, got, cached, streams, peerUp, crashes, withheld, shared>>

\* Send succeeds on a stream not known to be dead; on a broken one what it
\* sends is dropped.
SendOk(c) ==
    LET s      == held[c]
        others == Receivers(s)
    IN  /\ pc[c] = "send"
        /\ streams[s].state # "dead"
        /\ streams' = IF streams[s].state = "live"
                      THEN [streams EXCEPT ![s].reqs = Append(@, c)] ELSE streams
        /\ pc' = [pc EXCEPT ![c] = "recv"]
        /\ shared' = IF others = {} THEN shared ELSE shared \cup others \cup {c}
        /\ UNCHANGED <<held, got, cached, peerUp, crashes, withheld>>

\* Mutant: the map keeps the dead stream.
SendFailsKeeping(c) ==
    /\ pc[c] = "send"
    /\ streams[held[c]].state = "dead"
    /\ pc' = [pc EXCEPT ![c] = "lookup"]
    /\ UNCHANGED <<held, got, cached, streams, peerUp, crashes, withheld, shared>>

\* Send fails: delete whatever stream the map holds by now, and start over.
SendFails(c) ==
    /\ pc[c] = "send"
    /\ streams[held[c]].state = "dead"
    /\ cached' = None
    /\ pc' = [pc EXCEPT ![c] = "lookup"]
    /\ UNCHANGED <<held, got, streams, peerUp, crashes, withheld, shared>>

\* Recv returns the next answer on the stream; the client-side handler ends
\* the exchange without comparing its identifier with the call's.
RecvOk(c) ==
    LET s == held[c]
    IN  /\ pc[c] = "recv"
        /\ streams[s].resps # <<>>
        /\ got' = [got EXCEPT ![c] = Head(streams[s].resps)]
        /\ pc' = [pc EXCEPT ![c] = IF got'[c] \in Undecodable THEN "failed" ELSE "ok"]
        /\ streams' = [streams EXCEPT ![s].resps = Tail(@)]
        /\ UNCHANGED <<held, cached, peerUp, crashes, withheld, shared>>

\* Mutant: Recv gives up waiting on a stream that still lives.
RecvTimesOut(c) ==
    /\ pc[c] = "recv"
    /\ pc' = [pc EXCEPT ![c] = "failed"]
    /\ UNCHANGED <<held, got, cached, streams, peerUp, crashes, withheld, shared>>

\* Recv reports the end of the stream.  The map keeps it until a Send fails.
RecvFails(c) ==
    /\ pc[c] = "recv"
    /\ streams[held[c]].state = "dead"
    /\ streams[held[c]].resps = <<>>
    /\ pc' = [pc EXCEPT ![c] = "failed"]
    /\ UNCHANGED <<held, got, cached, streams, peerUp, crashes, withheld, shared>>

\* Two Recv calls overlap and one of them reads a garbled answer.
RecvGarbled(c) ==
    LET s == held[c]
    IN  /\ "races" \in Faults
        /\ pc[c] = "recv"
        /\ Receivers(s) # {c}
        /\ streams[s].resps # <<>>
        /\ pc' = [pc EXCEPT ![c] = "failed"]
        /\ streams' = [streams EXCEPT ![s].resps = Tail(@)]
        /\ UNCHANGED <<held, got, cached, peerUp, crashes, withheld, shared>>

\* One goroutine writes the map while another accesses it, and the Go runtime
\* notices: the process exits.
MapRace ==
    LET writers == {c \in Calls : \/ pc[c] = "dial" /\ peerUp
                                  \/ pc[c] = "send" /\ streams[held[c]].state = "dead"}
        readers == {c \in Calls : pc[c] = "lookup"}
    IN  /\ "races" \in Faults
        /\ writers # {}
        /\ Cardinality(writers \cup readers) > 1
        /\ pc' = [c \in Calls |-> IF pc[c] \in Active \cup {"none"} THEN "lost" ELSE pc[c]]
        /\ cached' = None
        /\ streams' = [s \in StreamIds |-> [streams[s] EXCEPT
                           !.state = "dead", !.reqs = <<>>, !.resps = <<>>]]
        /\ UNCHANGED <<held, got, peerUp, crashes, withheld, shared>>

---------------------------------------------------------------------------
\* The request the peer serves next: TransactionStream takes them in order, the
\* gateway in the order in which the Bridge decides.
Served(s) == {i \in DOMAIN streams[s].reqs : i = 1 \/ "peerReorders" \in Faults}

\* The peer's HandleRequest makes an answer, whatever identity it puts into it.
PeerAnswers(s) == \E i \in Served(s) :
    /\ streams' = [streams EXCEPT ![s].reqs = RemoveAt(@, i),
                                  ![s].resps = Append(@, streams[s].reqs[i])]
    /\ UNCHANGED <<pc, held, got, cached, peerUp, crashes, withheld, shared>>

\* A gateway whose transfer is rejected, or never decided, answers nothing.
PeerWithholds(s) == \E i \in Served(s) :
    /\ "peerSilent" \in Faults
    /\ streams' = [streams EXCEPT ![s].reqs = RemoveAt(@, i)]
    /\ withheld' = withheld \cup {streams[s].reqs[i]}
    /\ UNCHANGED <<pc, held, got, cached, peerUp, crashes, shared>>

\* It fails on a request: the nil answer it then sends ends the stream.
PeerAborts(s) ==
    /\ "peerAborts" \in Faults
    /\ streams[s].reqs # <<>>
    /\ streams' = [streams EXCEPT ![s].state = "broken", ![s].reqs = <<>>]
    /\ UNCHANGED <<pc, held, got, cached, peerUp, crashes, withheld, shared>>

\* The peer is killed: requests are lost, answers on the way may be.
PeerCrash ==
    /\ "peerCrash" \in Faults
    /\ peerUp
    /\ crashes < MaxCrashes
    /\ crashes' = crashes + 1
    /\ peerUp' = FALSE
    /\ \E n \in [StreamIds -> 0..Cardinality(Calls)] :
          /\ \A s \in StreamIds : n[s] <= Len(streams[s].resps)
          /\ streams' = [s \in StreamIds |->
                 IF streams[s].state = "dead" THEN streams[s]
                 ELSE [state |-> "broken", reqs |-> <<>>,
                       resps |-> SubSeq(streams[s].resps, 1, n[s])]]
    /\ UNCHANGED <<pc, held, got, cached, withheld, shared>>

PeerStarts ==
    /\ ~peerUp
    /\ peerUp' = TRUE
    /\ UNCHANGED <<pc, held, got, cached, streams, crashes, withheld, shared>>

\* The caller's transport notices that a stream is broken.
Notice(s) ==
    /\ streams[s].state = "broken"
    /\ streams' = [streams EXCEPT ![s].state = "dead"]
    /\ UNCHANGED <<pc, held, got, cached, peerUp, crashes, withheld, shared>>

---------------------------------------------------------------------------
CallStep(c) ==
    \/ Lookup(c) \/ DialOk(c) \/ DialFails(c) \/ SendOk(c) \/ SendFails(c)
    \/ RecvOk(c) \/ RecvFails(c)

PeerServes(s) == PeerAnswers(s) \/ PeerWithholds(s)

Next ==
    \/ \E c \in Calls : SendRequest(c) \/ CallStep(c) \/ RecvGarbled(c)
    \/ MapRace
    \/ \E s \in StreamIds : PeerServes(s) \/ PeerAborts(s) \/ Notice(s)
    \/ PeerCrash
    \/ PeerStarts

Spec == Init /\ [][Next]_vars

\* Runnable goroutines run, broken connections are noticed, and the peer gets
\* round to every request it received, to answer it or not.
Fairness ==
    /\ \A c \in Calls : WF_vars(CallStep(c))
    /\ \A s \in 1..(2 * Cardinality(Calls)) :
          WF_vars(s \in StreamIds /\ (PeerServes(s) \/ Notice(s)))

FairSpec == Spec /\ Fairness

---------------------------------------------------------------------------
\* Answers on a stream never outnumber the calls that wait on it, so no answer
\* is left over for a call that sends later: calls may swap answers while they
\* overlap, but a mismatch never outlives them (server.go:90-126).
NoOrphanAnswer == \A s \in StreamIds :
    Len(streams[s].reqs) + Len(streams[s].resps) <= Cardinality(Receivers(s))

\* A call takes the answer to another call only if the two waited on one stream
\* at the same time (server.go:113-126 never compares identifiers).
OwnAnswerUnlessShared == \A c \in Calls :
    pc[c] = "ok" /\ c \notin shared => got[c] = c

\* A call ends, through dead streams, retries and crashes of the peer, unless the
\* peer withheld an answer (server.go:89-94 retries without a bound, and 113 waits
\* without one).
CallsEnd == \A c \in Calls :
    pc[c] \in Active ~> pc[c] \notin Active \/ withheld # {}
===========================================================================
