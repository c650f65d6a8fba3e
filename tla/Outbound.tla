----------------------------- MODULE Outbound -----------------------------
(***************************************************************************)
(* Sygna Gateway, transfers from the TRISA network into the Sygna network. *)
(* A TRISA VASP sends a transaction on a gRPC stream; handleServerEvent    *)
(* posts a permission request to the Sygna Bridge and suspends until the   *)
(* Bridge calls POST /transaction/permission, whose route resolves it and  *)
(* posts a transaction id.  The gateway is one Node process: the code      *)
(* between two awaits is one action.  Its maps live in memory only.        *)
(*                                                                         *)
(* A transfer stands for one "data" event, for the suspended call of       *)
(* handleServerEvent it starts and for the transfer_id the Bridge gives    *)
(* it: the Bridge issues a fresh one for every permission request.         *)
(***************************************************************************)
EXTENDS Naturals

CONSTANTS
    Transfers,      \* the transactions TRISA VASPs send
    Streams,        \* their gRPC streams
    StreamOf,       \* the stream each transaction arrives on
    Malformed,      \* the transactions trisaTxToSygna throws on
    MaxCallbacks,   \* how often the Bridge calls back for one transfer
    MaxCrashes,     \* how often the gateway process ends, killed or by a rejection
    Faults          \* what may go wrong, see AllFaults

AllFaults == {
    "earlyCallback",   \* the Bridge may call back before its answer to the
                       \* permission request reached the gateway
    "postFails",       \* a permission request may fail, or its answer be lost
    "streamEnds",      \* a TRISA VASP may end or drop its stream
    "crash",           \* the gateway process may be killed
    "fatalRejection"}  \* an unhandled rejection may end the process: the image's
                       \* Node version is not pinned, and Node does so from 15 on

ASSUME OutboundAssumption ==
    /\ StreamOf \in [Transfers -> Streams]
    /\ Malformed \subseteq Transfers
    /\ MaxCallbacks \in Nat
    /\ MaxCrashes \in Nat
    /\ Faults \subseteq AllFaults

VARIABLES
    up,         \* the gateway process runs
    streams,    \* state of the gRPC streams on the gateway's side
    handler,    \* where each call of handleServerEvent is
    resolvers,  \* permissionResolveMap: the ids that have a resolve function
    bridge,     \* each permission request at the Bridge, and its decision
    calls,      \* callbacks the Bridge has made for each transfer
    txidPosts,  \* POST /transaction/txid requests the gateway is awaiting
    txids,      \* transaction ids the Bridge has received
    confirms,   \* confirmations written to an open stream
    crashes     \* how often the process has ended

vars == <<up, streams, handler, resolvers, bridge, calls, txidPosts, txids,
          confirms, crashes>>

bridgeVars == <<bridge, calls, txids>>

StreamStates  == {"new", "open", "ended", "closed"}
HandlerStates == {"none", "posting", "waiting", "done", "thrown", "lost"}
BridgeStates  == {"none", "inFlight", "requested", "accepted", "rejected"}

Suspended == {"posting", "waiting"}
Decided   == {"accepted", "rejected"}

TypeOK ==
    /\ up \in BOOLEAN
    /\ streams \in [Streams -> StreamStates]
    /\ handler \in [Transfers -> HandlerStates]
    /\ resolvers \subseteq Transfers
    /\ bridge \in [Transfers -> BridgeStates]
    /\ calls \in [Transfers -> 0..MaxCallbacks]
    /\ txidPosts \in [Transfers -> Nat]
    /\ txids \in [Transfers -> Nat]
    /\ confirms \in [Transfers -> Nat]
    /\ crashes \in 0..MaxCrashes

Init ==
    /\ up = TRUE
    /\ streams = [s \in Streams |-> "new"]
    /\ handler = [t \in Transfers |-> "none"]
    /\ resolvers = {}
    /\ bridge = [t \in Transfers |-> "none"]
    /\ calls = [t \in Transfers |-> 0]
    /\ txidPosts = [t \in Transfers |-> 0]
    /\ txids = [t \in Transfers |-> 0]
    /\ confirms = [t \in Transfers |-> 0]
    /\ crashes = 0

---------------------------------------------------------------------------
\* The process ends: its suspended calls and maps are gone, its connections
\* are closed.  h and strs are the calls and the streams just before.
Die(h, strs) ==
    /\ up' = FALSE
    /\ crashes < MaxCrashes
    /\ crashes' = crashes + 1
    /\ handler' = [t \in Transfers |-> IF h[t] \in Suspended THEN "lost" ELSE h[t]]
    /\ resolvers' = {}
    /\ txidPosts' = [t \in Transfers |-> 0]
    /\ streams' = [s \in Streams |-> IF strs[s] = "new" THEN "new" ELSE "closed"]

\* handleServerEvent of t throws.  Nobody awaits it, so its rejection is
\* unhandled: depending on the Node version the image was built with, the
\* process ends or goes on.  strs is the state it leaves the streams in.
Throw(t, strs) ==
    \/ /\ "fatalRejection" \in Faults
       /\ Die([handler EXCEPT ![t] = "thrown"], strs)
    \/ /\ handler' = [handler EXCEPT ![t] = "thrown"]
       /\ streams' = strs
       /\ UNCHANGED <<up, resolvers, txidPosts, crashes>>

\* A transaction arrives: transform it, then post the permission request or
\* throw.  Data already received is still emitted after the gateway ended
\* its side of the stream, not after the VASP ended or dropped it.
HandleServerEvent(t) ==
    LET s       == StreamOf[t]
        arrived == [streams EXCEPT ![s] = IF @ = "new" THEN "open" ELSE @]
    IN  /\ up
        /\ handler[t] = "none"
        /\ streams[s] # "closed"
        /\ \/ /\ t \in Malformed
              /\ Throw(t, arrived)
              /\ UNCHANGED bridge
           \/ /\ t \notin Malformed
              /\ handler' = [handler EXCEPT ![t] = "posting"]
              /\ bridge' = [bridge EXCEPT ![t] = "inFlight"]
              /\ streams' = arrived
              /\ UNCHANGED <<up, resolvers, txidPosts, crashes>>
        /\ UNCHANGED <<calls, txids, confirms>>

\* Mutants: the VASP is sent an answer as soon as the Bridge took the request;
\* the resolver is never registered; it is registered under the id the TRISA VASP
\* gave the transaction, not the Bridge's (connection-manager.ts:16, 80-94).
PermissionRequestAcks(t) ==
    /\ up
    /\ handler[t] = "posting"
    /\ bridge[t] \in {"requested"} \cup Decided
    /\ handler' = [handler EXCEPT ![t] = "waiting"]
    /\ resolvers' = resolvers \cup {t}
    /\ confirms' = [confirms EXCEPT ![t] = @ + 1]
    /\ UNCHANGED <<up, streams, bridge, calls, txidPosts, txids, crashes>>

PermissionRequestForgotten(t) ==
    /\ up
    /\ handler[t] = "posting"
    /\ bridge[t] \in {"requested"} \cup Decided
    /\ handler' = [handler EXCEPT ![t] = "waiting"]
    /\ UNCHANGED <<up, streams, resolvers, bridge, calls, txidPosts, txids, confirms, crashes>>

PermissionRequestOwnId(t) ==
    /\ up
    /\ handler[t] = "posting"
    /\ bridge[t] \in {"requested"} \cup Decided
    /\ handler' = [handler EXCEPT ![t] = "waiting"]
    /\ resolvers' = resolvers \cup {[trisaId |-> t]}
    /\ UNCHANGED <<up, streams, bridge, calls, txidPosts, txids, confirms, crashes>>

\* The Bridge's answer arrives: register the resolver and wait for it.
PermissionRequestOk(t) ==
    /\ up
    /\ handler[t] = "posting"
    /\ bridge[t] \in {"requested"} \cup Decided
    /\ handler' = [handler EXCEPT ![t] = "waiting"]
    /\ resolvers' = resolvers \cup {t}
    /\ UNCHANGED <<up, streams, bridge, calls, txidPosts, txids, confirms, crashes>>

\* The post fails, whether the Bridge recorded the request or not: end the
\* stream, with every other transfer of that VASP on it, and throw.
PermissionRequestFailed(t) ==
    LET s == StreamOf[t]
    IN  /\ "postFails" \in Faults
        /\ up
        /\ handler[t] = "posting"
        /\ Throw(t, [streams EXCEPT ![s] = IF @ = "open" THEN "ended" ELSE @])
        /\ UNCHANGED <<bridge, calls, txids, confirms>>

\* Mutants: the resolver stays in the map; it is deleted before it is called;
\* every waiting call is resolved; any decision, or none, is confirmed.
ResolveWithoutDelete(t, decision) ==
    IF t \in resolvers
    THEN /\ handler' = [handler EXCEPT ![t] = "done"]
         /\ UNCHANGED <<resolvers, confirms>>
    ELSE UNCHANGED <<handler, resolvers, confirms>>

DeleteWithoutResolve(t, decision) ==
    /\ resolvers' = resolvers \ {t}
    /\ UNCHANGED <<handler, confirms>>

ResolveAll(t, decision) ==
    /\ handler' = [u \in Transfers |-> IF u \in resolvers THEN "done" ELSE handler[u]]
    /\ resolvers' = {}
    /\ UNCHANGED confirms

ResolveAnyDecision(t, decision) ==
    IF t \in resolvers
    THEN /\ handler' = [handler EXCEPT ![t] = "done"]
         /\ resolvers' = resolvers \ {t}
         /\ confirms' = [confirms EXCEPT ![t] = @ + 1]
    ELSE UNCHANGED <<handler, resolvers, confirms>>

ResolveSilently(t, decision) ==
    /\ handler' = [handler EXCEPT ![t] = IF t \in resolvers THEN "done" ELSE @]
    /\ resolvers' = resolvers \ {t}
    /\ UNCHANGED confirms

\* resolvePermission, and what it makes the waiting call do before any other
\* event: on an acceptance write the confirmation, which a stream that is no
\* longer open drops, else nothing.
ResolvePermission(t, decision) ==
    IF t \in resolvers
    THEN /\ handler' = [handler EXCEPT ![t] = "done"]
         /\ resolvers' = resolvers \ {t}
         /\ confirms' = [confirms EXCEPT ![t] =
                IF decision = "accepted" /\ streams[StreamOf[t]] = "open"
                THEN @ + 1 ELSE @]
    ELSE UNCHANGED <<handler, resolvers, confirms>>

\* Whether the Bridge makes a callback for t: it has a decision to deliver.
MayCall(t) ==
    /\ bridge[t] \in Decided
    /\ calls[t] < MaxCallbacks
    /\ "earlyCallback" \in Faults \/ handler[t] # "posting"

\* POST /transaction/permission: resolve, then post a transaction id,
\* whatever the decision was and whether or not anybody waited for it.
PostPermission(t) ==
    /\ up
    /\ MayCall(t)
    /\ calls' = [calls EXCEPT ![t] = @ + 1]
    /\ ResolvePermission(t, bridge[t])
    /\ txidPosts' = [txidPosts EXCEPT ![t] = @ + 1]
    /\ UNCHANGED <<up, streams, bridge, txids, crashes>>

\* The transaction id reaches the Bridge.
TxidPosted(t) ==
    /\ txidPosts[t] > 0
    /\ txidPosts' = [txidPosts EXCEPT ![t] = @ - 1]
    /\ txids' = [txids EXCEPT ![t] = @ + 1]
    /\ UNCHANGED <<up, streams, handler, resolvers, bridge, calls, confirms, crashes>>

\* Posting it fails: the route logs the answer, or throws when there is
\* none, and Koa answers 500 instead of 200; the gateway's state is the same.
TxidFailed(t) ==
    /\ "postFails" \in Faults
    /\ txidPosts[t] > 0
    /\ txidPosts' = [txidPosts EXCEPT ![t] = @ - 1]
    /\ UNCHANGED <<up, streams, handler, resolvers, bridge, calls, txids, confirms, crashes>>

---------------------------------------------------------------------------
\* The Bridge (external) records a permission request it was sent.
BridgeRecords(t) ==
    /\ bridge[t] = "inFlight"
    /\ bridge' = [bridge EXCEPT ![t] = "requested"]
    /\ UNCHANGED <<up, streams, handler, resolvers, calls, txidPosts, txids, confirms, crashes>>

\* The beneficiary VASP decides (external), once.
BeneficiaryDecides(t) ==
    /\ bridge[t] = "requested"
    /\ \E d \in Decided : bridge' = [bridge EXCEPT ![t] = d]
    /\ UNCHANGED <<up, streams, handler, resolvers, calls, txidPosts, txids, confirms, crashes>>

\* A callback made while the gateway is down.
CallbackUnanswered(t) ==
    /\ ~up
    /\ MayCall(t)
    /\ calls' = [calls EXCEPT ![t] = @ + 1]
    /\ UNCHANGED <<up, streams, handler, resolvers, bridge, txidPosts, txids, confirms, crashes>>

\* The TRISA VASP ends its stream, and the gateway ends its side, or the
\* connection drops.
StreamEnds(s) ==
    /\ "streamEnds" \in Faults
    /\ streams[s] \in {"open", "ended"}
    /\ streams' = [streams EXCEPT ![s] = "closed"]
    /\ UNCHANGED <<up, handler, resolvers, bridge, calls, txidPosts, txids, confirms, crashes>>

\* The process is killed.
Crash ==
    /\ "crash" \in Faults
    /\ up
    /\ Die(handler, streams)
    /\ UNCHANGED <<bridgeVars, confirms>>

\* An operator starts the process again, with empty maps.  app.listen runs
\* before the event loop takes the first gRPC connection (index.ts:9-11).
Restart ==
    /\ ~up
    /\ up' = TRUE
    /\ UNCHANGED <<streams, handler, resolvers, bridgeVars, txidPosts, confirms, crashes>>

---------------------------------------------------------------------------
Next ==
    \/ \E t \in Transfers :
          \/ HandleServerEvent(t)
          \/ PermissionRequestOk(t)
          \/ PermissionRequestFailed(t)
          \/ PostPermission(t)
          \/ TxidPosted(t)
          \/ TxidFailed(t)
          \/ BridgeRecords(t)
          \/ BeneficiaryDecides(t)
          \/ CallbackUnanswered(t)
    \/ \E s \in Streams : StreamEnds(s)
    \/ Crash
    \/ Restart

\* Requests that were sent are recorded, decided and answered, and the
\* Bridge calls back at least once; the gateway's own steps are run by Node's
\* event loop as soon as their I/O completes.  Nothing is assumed of arrivals,
\* failures, repeated callbacks, crashes or restarts.
Fairness == \A t \in Transfers :
    /\ WF_vars(BridgeRecords(t))
    /\ WF_vars(BeneficiaryDecides(t))
    /\ WF_vars(PermissionRequestOk(t))
    /\ WF_vars(calls[t] = 0 /\ PostPermission(t))
    /\ WF_vars(TxidPosted(t))

Spec == Init /\ [][Next]_vars

FairSpec == Spec /\ Fairness

---------------------------------------------------------------------------
\* The map holds a resolver for exactly the calls that wait for one
\* (connection-manager.ts:92-94 and 64-65): no waiting call is forgotten while
\* the process lives, and no resolver outlives its call, across repeated
\* callbacks, failed posts and restarts.
ResolversAreWaiting == resolvers = {t \in Transfers : handler[t] = "waiting"}

\* A TRISA VASP is sent a confirmation only for a transfer its beneficiary
\* accepted, and never twice, however often the Bridge calls back
\* (connection-manager.ts:96-100).
ConfirmOnlyAccepted == \A t \in Transfers :
    /\ confirms[t] \in {0, 1}
    /\ confirms[t] = 1 => bridge[t] = "accepted" /\ handler[t] = "done"

\* An accepted transfer whose call has returned was confirmed, unless its
\* stream is no longer open: the stream is the only place where the confirmation
\* of a call that ran to its end gets lost.
ReturnedIsConfirmed == \A t \in Transfers :
    handler[t] = "done" /\ bridge[t] = "accepted" /\ confirms[t] = 0
        => streams[StreamOf[t]] \in {"ended", "closed"}

\* When no callback overtakes the answer to its permission request
\* (connection-manager.ts:76-94), a transfer the Bridge has called back for has no
\* call left waiting, after failed posts, ended streams and restarts too: nobody
\* waits for a callback that is gone.
AnsweredNeverWaits == \A t \in Transfers :
    calls[t] > 0 => handler[t] \notin Suspended

\* A call that waits goes on waiting until the Bridge calls back for its own
\* transfer or the process ends: callbacks, failures and ended streams of other
\* transfers never release it.
ReleasedByOwnCallback == [][\A t \in Transfers :
    handler[t] = "waiting" /\ handler'[t] # "waiting" => calls'[t] > calls[t] \/ ~up']_vars

\* A transaction id is posted to the Bridge for an accepted transfer only if its
\* TRISA VASP was sent the confirmation: the comment at post-permission.ts:15
\* ("send transaction confirm to trisa vasp") says so of every callback.
TxidMeansConfirm == \A t \in Transfers :
    txids[t] > 0 /\ bridge[t] = "accepted" => confirms[t] = 1

\* Every call that posts a permission request comes to an end: it returns,
\* throws, or goes down with the process (connection-manager.ts:69-101 has no
\* timeout, so this rests on the Bridge calling back).
CallsEnd == \A t \in Transfers :
    handler[t] \in Suspended ~> handler[t] \notin Suspended

\* Every acceptance gets back to the TRISA VASP, unless the transfer's stream or its
\* call was lost first: no interleaving of callbacks, posts and restarts loses it
\* on an open stream (connection-manager.ts:90-99).
AcceptedConfirmed == \A t \in Transfers :
    bridge[t] = "accepted" ~> \/ confirms[t] = 1
                              \/ streams[StreamOf[t]] \in {"ended", "closed"}
                              \/ handler[t] \in {"lost", "thrown"}

\* The exchange as its abstract specification sees it.
status == [t \in Transfers |->
    IF confirms[t] > 0 THEN "confirmed"
    ELSE IF bridge[t] = "inFlight" THEN "none" ELSE bridge[t]]

Exchange == INSTANCE Permission

\* The gateway implements the permission exchange, whatever fails: repeated, early
\* and late callbacks, failed posts and crashes make no other steps of it
\* (connection-manager.ts:58-101).
ImplementsSafety == Exchange!Safety
===========================================================================
