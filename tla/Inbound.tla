------------------------------ MODULE Inbound ------------------------------
(***************************************************************************)
(* Sygna Gateway, transfers from the Sygna network into the TRISA network. *)
(* The Bridge calls POST /transaction/permission-request; sendClientEvent  *)
(* writes the translated transaction on the one cached stream to the TRISA *)
(* VASP, waits for the next "data" event with stream.once, and posts an    *)
(* ACCEPTED permission for its own transfer.  Every waiting call listens   *)
(* on the same stream, so one event wakes them all.                        *)
(***************************************************************************)
EXTENDS Naturals, SequencesExt

CONSTANTS
    Calls,            \* the callbacks the Bridge makes, repeated ones included
    IdOf,             \* the transfer each is about
    Foreign,          \* those whose beneficiary is not this gateway
    Untranslatable,   \* those sygnaTxToTrisa throws on
    MaxAwaiting,      \* how many calls wait for an answer at a time
    MaxCrashes,       \* how often each of the two processes ends
    Faults            \* what may go wrong, see AllFaults

AllFaults == {
    "vaspAborts",      \* the TRISA VASP ends the stream over a bad request
    "vaspCrash",       \* the TRISA VASP's process may be killed
    "postFails",       \* posting the permission may fail, or its answer be lost
    "crash",           \* the gateway process may be killed
    "fatalRejection"}  \* an unhandled rejection may end the gateway process

ASSUME InboundAssumption ==
    /\ DOMAIN IdOf = Calls
    /\ Foreign \subseteq Calls
    /\ Untranslatable \subseteq Calls
    /\ IsFiniteSet(Calls)
    /\ MaxAwaiting \in Nat
    /\ MaxCrashes \in Nat
    /\ Faults \subseteq AllFaults

Ids == {IdOf[c] : c \in Calls}

VARIABLES
    up,          \* the gateway process runs
    vaspUp,      \* the TRISA VASP's process runs
    conn,        \* connectionMap's entry for the TRISA VASP, and its stream
    toVasp,      \* requests on the stream
    fromVasp,    \* answers on the stream, by the call they answer
    listeners,   \* calls whose once("data") listener is registered
    call,        \* where each call of the route and sendClientEvent is
    permitted,   \* transfers for which the Bridge received ACCEPTED
    sent,        \* calls in the order they wrote their request (history)
    answered,    \* calls the TRISA VASP answered (history)
    resolvedBy,  \* the answers each call was woken by (history)
    crashes      \* how often each process has ended

vars == <<up, vaspUp, conn, toVasp, fromVasp, listeners, call, permitted,
          sent, answered, resolvedBy, crashes>>

ConnStates == {"none", "live", "broken"}
CallStates == {"none", "refused", "thrown", "awaiting", "permitting", "permitted", "lost"}

TypeOK ==
    /\ up \in BOOLEAN
    /\ vaspUp \in BOOLEAN
    /\ conn \in ConnStates
    /\ toVasp \in Seq(Calls)
    /\ fromVasp \in Seq(Calls)
    /\ listeners \subseteq Calls
    /\ call \in [Calls -> CallStates]
    /\ permitted \subseteq Ids
    /\ sent \in Seq(Calls)
    /\ answered \subseteq Calls
    /\ resolvedBy \in [Calls -> SUBSET Calls]
    /\ crashes \in [{"gateway", "vasp"} -> 0..MaxCrashes]

Init ==
    /\ up = TRUE
    /\ vaspUp \in BOOLEAN
    /\ conn = "none"
    /\ toVasp = <<>>
    /\ fromVasp = <<>>
    /\ listeners = {}
    /\ call = [c \in Calls |-> "none"]
    /\ permitted = {}
    /\ sent = <<>>
    /\ answered = {}
    /\ resolvedBy = [c \in Calls |-> {}]
    /\ crashes = [p \in {"gateway", "vasp"} |-> 0]

history == <<sent, answered, resolvedBy>>

---------------------------------------------------------------------------
\* The gateway process ends, and its connection with it; cs is the state of
\* the calls just before.
Die(cs) ==
    /\ crashes["gateway"] < MaxCrashes
    /\ crashes' = [crashes EXCEPT !["gateway"] = @ + 1]
    /\ up' = FALSE
    /\ call' = [c \in Calls |-> IF cs[c] \in {"awaiting", "permitting"} THEN "lost" ELSE cs[c]]
    /\ listeners' = {}
    /\ conn' = "none"
    /\ toVasp' = <<>>
    /\ fromVasp' = <<>>

\* Call c throws; nobody awaits sendClientEvent, so depending on the Node version
\* the process ends or goes on.
Throw(c) ==
    \/ /\ "fatalRejection" \in Faults
       /\ Die([call EXCEPT ![c] = "thrown"])
    \/ /\ call' = [call EXCEPT ![c] = "thrown"]
       /\ UNCHANGED <<up, listeners, conn, toVasp, fromVasp, crashes>>

\* getClient: the cached stream whatever its state, else a new one, which is
\* broken from the start when the VASP cannot be reached.
Client == IF conn # "none" THEN conn ELSE IF vaspUp THEN "live" ELSE "broken"

\* Mutant: the permission is posted without waiting for the answer.
SendWithoutWaiting(c) ==
    /\ conn' = Client
    /\ toVasp' = IF Client = "live" THEN Append(toVasp, c) ELSE toVasp
    /\ call' = [call EXCEPT ![c] = "permitting"]
    /\ sent' = Append(sent, c)
    /\ UNCHANGED <<up, listeners, fromVasp, crashes>>

\* sendClientEvent up to its await: translate, take the stream, write, listen.
\* What is written to a broken stream is dropped.
SendClientEvent(c) ==
    \/ /\ c \in Untranslatable
       /\ Throw(c)
       /\ UNCHANGED sent
    \/ /\ c \notin Untranslatable
       /\ conn' = Client
       /\ toVasp' = IF Client = "live" THEN Append(toVasp, c) ELSE toVasp
       /\ listeners' = listeners \cup {c}
       /\ call' = [call EXCEPT ![c] = "awaiting"]
       /\ sent' = Append(sent, c)
       /\ UNCHANGED <<up, fromVasp, crashes>>

\* POST /transaction/permission-request: refuse what is not for this gateway,
\* start sendClientEvent for the rest and answer 200 without waiting for it.
PostPermissionRequest(c) ==
    /\ up
    /\ call[c] = "none"
    /\ \/ /\ c \in Foreign
          /\ call' = [call EXCEPT ![c] = "refused"]
          /\ UNCHANGED <<up, listeners, conn, toVasp, fromVasp, sent, crashes>>
       \/ /\ c \notin Foreign
          /\ Cardinality(listeners) < MaxAwaiting
          /\ SendClientEvent(c)
    /\ UNCHANGED <<vaspUp, permitted, answered, resolvedBy>>

\* Mutants: the listeners stay registered; only the newest one fires.
DataOn ==
    /\ fromVasp # <<>>
    /\ fromVasp' = Tail(fromVasp)
    /\ call' = [c \in Calls |-> IF c \in listeners THEN "permitting" ELSE call[c]]
    /\ UNCHANGED <<up, vaspUp, conn, toVasp, listeners, permitted, history, crashes>>

DataNewest ==
    /\ fromVasp # <<>>
    /\ fromVasp' = Tail(fromVasp)
    /\ \E i \in DOMAIN sent :
          /\ sent[i] \in listeners
          /\ \A j \in i + 1..Len(sent) : sent[j] \notin listeners
          /\ listeners' = listeners \ {sent[i]}
          /\ call' = [call EXCEPT ![sent[i]] = "permitting"]
          /\ resolvedBy' = [resolvedBy EXCEPT ![sent[i]] = @ \cup {Head(fromVasp)}]
    /\ UNCHANGED <<up, vaspUp, conn, toVasp, permitted, sent, answered, crashes>>

\* A "data" event: every registered listener fires and is removed; without
\* one the answer is gone.  No answer is compared with the call's transfer.
Data ==
    /\ fromVasp # <<>>
    /\ fromVasp' = Tail(fromVasp)
    /\ listeners' = {}
    /\ call' = [c \in Calls |-> IF c \in listeners THEN "permitting" ELSE call[c]]
    /\ resolvedBy' = [c \in Calls |->
           IF c \in listeners THEN resolvedBy[c] \cup {Head(fromVasp)} ELSE resolvedBy[c]]
    /\ UNCHANGED <<up, vaspUp, conn, toVasp, permitted, sent, answered, crashes>>

\* Mutant: the permission names the call instead of the transfer.
PermissionOfCall(c) ==
    /\ call[c] = "permitting"
    /\ call' = [call EXCEPT ![c] = "permitted"]
    /\ permitted' = permitted \cup {c}
    /\ UNCHANGED <<up, vaspUp, conn, toVasp, fromVasp, listeners, history, crashes>>

\* The ACCEPTED permission for c's own transfer reaches the Bridge.
PermissionPosted(c) ==
    /\ call[c] = "permitting"
    /\ call' = [call EXCEPT ![c] = "permitted"]
    /\ permitted' = permitted \cup {IdOf[c]}
    /\ UNCHANGED <<up, vaspUp, conn, toVasp, fromVasp, listeners, history, crashes>>

\* Posting it fails, before or after the Bridge received it, and c throws.
PermissionFailed(c) ==
    /\ "postFails" \in Faults
    /\ call[c] = "permitting"
    /\ permitted' \in {permitted, permitted \cup {IdOf[c]}}
    /\ Throw(c)
    /\ UNCHANGED <<vaspUp, history>>

\* The gateway process is killed.
Crash ==
    /\ "crash" \in Faults
    /\ up
    /\ Die(call)
    /\ UNCHANGED <<vaspUp, permitted, history>>

\* An operator starts it again.
Restart ==
    /\ ~up
    /\ up' = TRUE
    /\ UNCHANGED <<vaspUp, conn, toVasp, fromVasp, listeners, call, permitted, history, crashes>>

---------------------------------------------------------------------------
\* Mutant: the VASP skips a request without answering.
VaspSkips ==
    /\ toVasp # <<>>
    /\ toVasp' = Tail(toVasp)
    /\ UNCHANGED <<up, vaspUp, conn, fromVasp, listeners, call, permitted, history, crashes>>

\* TransactionStream of the TRISA VASP takes the next request and answers it.
VaspAnswers ==
    /\ toVasp # <<>>
    /\ toVasp' = Tail(toVasp)
    /\ fromVasp' = Append(fromVasp, Head(toVasp))
    /\ answered' = answered \cup {Head(toVasp)}
    /\ UNCHANGED <<up, vaspUp, conn, listeners, call, permitted, sent, resolvedBy, crashes>>

\* It cannot decode or handle the request: it sends a nil answer, which gRPC
\* refuses to marshal, and the whole stream ends.
VaspAborts ==
    /\ "vaspAborts" \in Faults
    /\ toVasp # <<>>
    /\ toVasp' = <<>>
    /\ conn' = "broken"
    /\ UNCHANGED <<up, vaspUp, fromVasp, listeners, call, permitted, history, crashes>>

\* Its process is killed: requests it had not answered are lost, and so are
\* the last of the answers on the way.
VaspCrash ==
    /\ "vaspCrash" \in Faults
    /\ vaspUp
    /\ crashes["vasp"] < MaxCrashes
    /\ crashes' = [crashes EXCEPT !["vasp"] = @ + 1]
    /\ vaspUp' = FALSE
    /\ conn' = IF conn = "live" THEN "broken" ELSE conn
    /\ toVasp' = <<>>
    /\ \E n \in 0..Len(fromVasp) : fromVasp' = SubSeq(fromVasp, 1, n)
    /\ UNCHANGED <<up, listeners, call, permitted, history>>

VaspStarts ==
    /\ ~vaspUp
    /\ vaspUp' = TRUE
    /\ UNCHANGED <<up, conn, toVasp, fromVasp, listeners, call, permitted, history, crashes>>

---------------------------------------------------------------------------
Next ==
    \/ \E c \in Calls :
          \/ PostPermissionRequest(c)
          \/ PermissionPosted(c)
          \/ PermissionFailed(c)
    \/ Data
    \/ Crash
    \/ Restart
    \/ VaspAnswers
    \/ VaspAborts
    \/ VaspCrash
    \/ VaspStarts

\* What is on the stream is delivered, the TRISA VASP answers what it
\* received unless it fails, and posts to the Bridge complete.
Fairness ==
    /\ WF_vars(Data)
    /\ WF_vars(VaspAnswers)
    /\ \A c \in Calls : WF_vars(PermissionPosted(c))

Spec == Init /\ [][Next]_vars

FairSpec == Spec /\ Fairness

---------------------------------------------------------------------------
\* A listener is registered for exactly the calls that wait, across answers,
\* failures and restarts (connection-manager.ts:112-114).
ListenersAwait == listeners = {c \in Calls : call[c] = "awaiting"}

\* Every waiting call on a live stream is still owed its own answer: although
\* one answer wakes every listener and its own may be thrown away later, no call
\* is left waiting for an answer that already went by.
AnswerOwed ==
    conn = "live" => listeners \subseteq Range(toVasp) \cup Range(fromVasp)

\* A call is woken at most once, by the answer to its own request or to one sent
\* before it, never by a later one: the wrong answer a call can take is a late
\* one (connection-manager.ts:112-114 on the VASP's sequential stream).
NeverAhead == \A c \in Calls :
    /\ Cardinality(resolvedBy[c]) <= 1
    /\ \A d \in resolvedBy[c] :
          \E i, j \in DOMAIN sent : i <= j /\ sent[i] = d /\ sent[j] = c

\* The Bridge receives ACCEPTED for a transfer only if the TRISA VASP answered a
\* request for that transfer: sendClientEvent waits for the "transaction confirm
\* from trisa vasp" (connection-manager.ts:111), and "any response to a
\* transaction request needs to carry the same identifier" (trisa.proto:14-15).
PermitOnlyAnswered ==
    permitted \subseteq {IdOf[c] : c \in answered}

\* A call that waits is woken or dies with the process, unless the stream breaks:
\* on a live stream nothing blocks it, however answers and calls interleave.
AwaitEnds == \A c \in Calls :
    call[c] = "awaiting" ~> call[c] # "awaiting" \/ conn = "broken"

\* A request forwarded while the TRISA VASP runs is written to a stream the VASP
\* reads: the route's comment says "forward to trisa node"
\* (post-permission-request.ts:23).
ForwardedWhenUp == [][\A c \in Calls :
    vaspUp /\ call[c] = "none" /\ call'[c] = "awaiting" => c \in Range(toVasp')]_vars

\* The exchange as its abstract specification sees it.
status == [i \in Ids |->
    LET of == {c \in Calls : IdOf[c] = i}
    IN  IF i \in permitted THEN "confirmed"
        ELSE IF of \cap answered # {} THEN "accepted"
        ELSE IF of \cap Range(sent) # {} THEN "requested" ELSE "none"]

Exchange == INSTANCE Permission WITH Transfers <- Ids

\* With one call waiting at a time the gateway implements the permission exchange:
\* it confirms what the TRISA VASP accepted, once, although the Bridge may repeat
\* its callback (connection-manager.ts:103-134).
ImplementsSafety == Exchange!Safety
===========================================================================
