------------------------------ MODULE Interop ------------------------------
(***************************************************************************)
(* A TRISA VASP and the Sygna Gateway put together: concurrent /send calls *)
(* of the VASP (TrisaServer) use the gateway (Outbound) as their peer,     *)
(* which asks the Sygna Bridge.  The two share the gateway's process and   *)
(* the streams: a request on one is a "data" event of the gateway, and a   *)
(* confirmation it writes is an answer.  TrisaServer's actions of its peer *)
(* are not used: PeerAssumption says the gateway is such a peer.           *)
(***************************************************************************)
EXTENDS Naturals, SequencesExt

CONSTANTS
    Calls,          \* the /send calls
    Malformed,      \* those whose transaction trisaTxToSygna throws on
    None,
    MaxStreams,     \* how many streams may be opened
    MaxCallbacks,   \* how often the Bridge calls back for one transfer
    MaxCrashes,     \* how often the gateway's process ends
    Faults          \* Outbound's faults

VARIABLES
    pc, held, got, cached, streams, withheld, shared,   \* TrisaServer
    up, gwStreams, handler, resolvers, bridge, calls,
    txidPosts, txids, confirms, crashes                 \* Outbound

vaspVars    == <<pc, held, got, cached, streams, withheld, shared>>
gatewayVars == <<up, gwStreams, handler, resolvers, bridge, calls,
                 txidPosts, txids, confirms, crashes>>
vars        == <<vaspVars, gatewayVars>>

StreamNos == 1..MaxStreams

\* A transfer is the "data" event of a call on a stream.
Transfers == Calls \X StreamNos

G == INSTANCE Outbound WITH
       Streams   <- StreamNos,
       StreamOf  <- [t \in Transfers |-> t[2]],
       Malformed <- Malformed \X StreamNos,
       streams   <- gwStreams

V == INSTANCE TrisaServer WITH
       peerUp      <- up,
       Unencodable <- {},
       Undecodable <- {},
       Faults      <- {"peerAborts", "peerCrash", "peerSilent", "peerReorders"}

ASSUME InteropAssumption ==
    /\ IsFiniteSet(Calls)
    /\ Malformed \subseteq Calls
    /\ None \notin Nat
    /\ MaxStreams \in Nat
    /\ MaxCallbacks \in Nat
    /\ MaxCrashes \in Nat
    /\ Faults \subseteq G!AllFaults

TypeOK == V!TypeOK /\ G!TypeOK

Init == G!Init /\ V!Init

---------------------------------------------------------------------------
\* The next "data" event of stream s is c's: the requests before it have been
\* taken, in the order the stream carries them.
Arrives(c, s) ==
    /\ s \in DOMAIN streams
    /\ \E i \in DOMAIN streams[s].reqs :
          /\ streams[s].reqs[i] = c
          /\ \A j \in 1..i - 1 : handler[<<streams[s].reqs[j], s>>] # "none"

\* A request that was under way when the gateway ended its side of the stream
\* may still be received.
ArrivesLate(c, s) ==
    /\ gwStreams[s] = "ended"
    /\ held[c] = s
    /\ pc[c] \notin {"none", "lookup", "dial", "send"}

\* What a step of the gateway that returns from the call of one request, or from
\* none, leaves of the requests q on stream s, and the answers r with what it wrote.
Pending(q, s) ==
    LET returned == {i \in DOMAIN q : handler'[<<q[i], s>>] \in {"done", "thrown"}}
    IN  IF returned = {} THEN q ELSE RemoveAt(q, CHOOSE i \in returned : TRUE)

Answered(r, s) ==
    LET confirmed == {c \in Calls : confirms'[<<c, s>>] > confirms[<<c, s>>]}
    IN  IF confirmed = {} THEN r ELSE Append(r, CHOOSE c \in confirmed : TRUE)

\* The VASP's side of stream s after a step of the gateway.  The gateway died
\* (dies), and only n of the answers under way still arrive; or it ended the
\* stream after the answers it wrote; or it confirmed, or returned without it.
StreamAfter(s, dies, n) ==
    LET old == streams[s]
    IN  IF old.state = "dead" THEN old
        ELSE IF dies THEN [state |-> "broken", reqs |-> <<>>, resps |-> SubSeq(old.resps, 1, n)]
        ELSE IF gwStreams'[s] \in {"ended", "closed"}
             THEN [old EXCEPT !.state = "broken", !.reqs = <<>>]
             ELSE [old EXCEPT !.reqs = Pending(@, s), !.resps = Answered(@, s)]

\* What a step of the gateway does to the streams the VASP holds.  The requests
\* it returned from on a stream it keeps open stay unanswered.
Wire ==
    LET dies == up /\ ~up'
    IN  /\ \E n \in [DOMAIN streams -> 0..Cardinality(Calls)] :
              /\ \A s \in DOMAIN streams : IF dies THEN n[s] <= Len(streams[s].resps) ELSE n[s] = 0
              /\ streams' = [s \in DOMAIN streams |-> StreamAfter(s, dies, n[s])]
        /\ withheld' = withheld \cup UNION {
               {c \in Range(streams[s].reqs) : /\ streams'[s].state = "live"
                                               /\ c \notin Range(streams'[s].reqs)
                                               /\ confirms'[<<c, s>>] = confirms[<<c, s>>]} :
               s \in DOMAIN streams}
        /\ UNCHANGED <<pc, held, got, cached, shared>>

---------------------------------------------------------------------------
\* What Outbound's fairness brings about for the transfers of c.
Progress(c) == \E s \in StreamNos :
    \/ Arrives(c, s) /\ G!HandleServerEvent(<<c, s>>)
    \/ G!BridgeRecords(<<c, s>>)
    \/ G!BeneficiaryDecides(<<c, s>>)
    \/ G!PermissionRequestOk(<<c, s>>)
    \/ calls[<<c, s>>] = 0 /\ G!PostPermission(<<c, s>>)
    \/ G!TxidPosted(<<c, s>>)

\* What may happen besides: repeated callbacks, failures.
Unforced(c) == \E s \in StreamNos :
    \/ ArrivesLate(c, s) /\ G!HandleServerEvent(<<c, s>>)
    \/ G!PermissionRequestFailed(<<c, s>>)
    \/ G!PostPermission(<<c, s>>)
    \/ G!TxidFailed(<<c, s>>)
    \/ G!CallbackUnanswered(<<c, s>>)

GatewayStep == (\E c \in Calls : Progress(c) \/ Unforced(c)) \/ G!Crash \/ G!Restart

\* A step of a call, on one of the streams of the model.
CallStep(c) == V!CallStep(c) /\ Len(streams') <= MaxStreams

VaspStep ==
    \/ \E c \in Calls : V!SendRequest(c) \/ CallStep(c)
    \/ \E s \in DOMAIN streams : V!Notice(s)

Next == (GatewayStep /\ Wire) \/ (UNCHANGED gatewayVars /\ VaspStep)

Spec == Init /\ [][Next]_vars

\* The fairness of the two parts.  The steps of Progress are finitely many for a
\* call and stay enabled, so fairness of their disjunction is that of each.
Fairness ==
    /\ \A c \in Calls :
          /\ WF_vars(Progress(c) /\ Wire)
          /\ WF_vars(UNCHANGED gatewayVars /\ CallStep(c))
    /\ \A s \in StreamNos :
          WF_vars(s \in DOMAIN streams /\ UNCHANGED gatewayVars /\ V!Notice(s))

FairSpec == Spec /\ Fairness

---------------------------------------------------------------------------
Dots == {c \in Calls : pc[c] = "ok"}

\* /send prints a dot at most once for each transfer the Bridge accepted, through
\* shared streams, retries and restarts of either side (server.go:144-149 in
\* cmd/trisa, connection-manager.ts:96-99).
DotsAreAcceptances ==
    /\ \A c \in Dots : \E s \in StreamNos : bridge[<<got[c], s>>] = "accepted"
    /\ \A c, d \in Dots : got[c] = got[d] => c = d

\* A call that never waited on a stream together with another prints its dot for
\* the acceptance of its own transfer (server.go:90-126 in pkg/trisa, which compares
\* no identifiers, connection-manager.ts:96-99).
OwnDotUnlessShared == \A c \in Dots \ shared :
    \E s \in StreamNos : bridge[<<c, s>>] = "accepted"

\* When a transfer can neither be refused nor dropped, every /send call ends,
\* whatever fails: a call that hangs, hangs because the gateway returned for some
\* call without confirming it (server.go:113 in pkg/trisa, connection-manager.ts:100).
CallsEndUnlessRefused == \A c \in Calls :
    pc[c] \in V!Active ~> \/ pc[c] \notin V!Active
                          \/ \E t \in Transfers : bridge[t] = "rejected" \/ handler[t] = "thrown"

\* The gateway is a peer as TrisaServer assumes one: each of its steps answers,
\* drops, aborts, goes down or starts again as a step of TrisaServer's peer may,
\* whether it was killed or died of a rejection (server.go:90-126 in pkg/trisa
\* against connection-manager.ts:69-101).
PeerAssumption == [][V!Next]_(V!vars)

\* A dot means that the Bridge accepted this call's own transfer: "The curl command
\* output will be a '.%' if everything went fine" (testnet.md:157), and "any response
\* to a transaction request needs to carry the same identifier" (trisa.proto:14-15).
DotMeansAccepted == \A c \in Dots :
    \E s \in StreamNos : bridge[<<c, s>>] = "accepted"
===========================================================================
