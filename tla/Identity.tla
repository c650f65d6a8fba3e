----------------------------- MODULE Identity -----------------------------
(***************************************************************************)
(* The demo as a whole: /send of a started TRISA VASP ("own") fills in an  *)
(* identity, encrypted for the VASP code it is asked to name, and sends it *)
(* to another TRISA VASP ("peer"), whose handler decrypts it and encrypts  *)
(* it again for the originator, or to the Sygna Gateway, which posts it to *)
(* the Bridge and returns the request itself once the Sygna VASP ("sygna") *)
(* has accepted.  Keys are named by their owners; which key a code stands  *)
(* for is up to the directories.  Of the protobuf and JSON forms of an     *)
(* identity only what another type's parser takes them for is kept.        *)
(***************************************************************************)
EXTENDS Startup

CONSTANT PeerKeys    \* what the peer's directory may have for own's code

VARIABLES
    call,      \* the /send call under way
    peerKey    \* the key the peer's directory has for own's code, or NoKey

NoKey == "none"

Codes == {"peer", "sygna"}

KeyNames == {NoKey, "own", "peer", "sygna", "old"}

ASSUME IdentityAssumption ==
    /\ Directories \subseteq [Codes -> KeyNames]
    /\ PeerKeys \subseteq KeyNames

Message == [example : {"sygna", "trisa", "be"}, key : KeyNames, text : {"identity", "null", "plain"}]

Call == [pc : {"idle", "sent", "posted", "answered", "dot", "error"},
         target : {"peer", "gateway"}, code : Codes, message : Message]

Nothing == [example |-> "trisa", key |-> NoKey, text |-> "null"]

Idle == [pc |-> "idle", target |-> "peer", code |-> "peer", message |-> Nothing]

TypeOK ==
    /\ StartupTypeOK
    /\ call \in Call
    /\ peerKey \in PeerKeys

vars == <<startupVars, call, peerKey>>

Init ==
    /\ StartupInit
    /\ call = Idle
    /\ peerKey \in PeerKeys

---------------------------------------------------------------------------
\* EncryptString and Decrypt with their errors dropped: without a key there is
\* no cipher text, and what a key does not open comes out as null.
Encrypt(text, key) ==
    [example |-> "sygna", key |-> key, text |-> IF key = NoKey THEN "null" ELSE text]

Decrypt(m, key) == IF m.key = key THEN m.text ELSE "null"

\* The examples of /send; those other than sygna are not encrypted.
SygnaExample(code) == Encrypt("identity", loaded[code])
TrisaExample       == [Nothing EXCEPT !.text = "plain"]

\* Mutant: the answer is encrypted for the beneficiary.
AnswerForBeneficiary(m) == Encrypt(Decrypt(m, "peer"), "peer")

\* HandleRequest of the peer.
HandleRequest(m) ==
    IF m.example = "sygna" THEN Encrypt(Decrypt(m, "peer"), peerKey)
    ELSE [Nothing EXCEPT !.example = "be", !.text = "plain"]

\* /send: the target, the example and the code to encrypt for are independent
\* parameters.
Send(target, code) ==
    /\ admin = "listening"
    /\ call.pc \in {"idle", "dot", "error"}
    /\ \E m \in {SygnaExample(code), TrisaExample} :
          call' = [pc |-> IF target = "gateway" /\ nodeGrpc # "listening" THEN "error" ELSE "sent",
                   target |-> target, code |-> code, message |-> m]
    /\ UNCHANGED <<startupVars, peerKey>>

PeerAnswers ==
    /\ call.pc = "sent"
    /\ call.target = "peer"
    /\ call' = [call EXCEPT !.pc = "answered", !.message = HandleRequest(@)]
    /\ UNCHANGED <<startupVars, peerKey>>

\* handleServerEvent posts what trisaTxToSygna makes of the message.  It parses the
\* identity without a look at its type, so of any example the third field becomes
\* private_info: of a TRISA one, the social security number in plain text.
GatewayPosts ==
    /\ call.pc = "sent"
    /\ call.target = "gateway"
    /\ nodeGrpc = "listening"
    /\ call' = [call EXCEPT !.pc = "posted"]
    /\ UNCHANGED <<startupVars, peerKey>>

\* The Sygna VASP accepts.  If it does not, or the post fails, the call waits on (see
\* Outbound).
GatewayAnswers ==
    /\ call.pc = "posted"
    /\ nodeGrpc = "listening"
    /\ call' = [call EXCEPT !.pc = "answered"]
    /\ UNCHANGED <<startupVars, peerKey>>

\* The client side of HandleRequest logs any answer and ends the exchange.
Answered ==
    /\ call.pc = "answered"
    /\ call' = [call EXCEPT !.pc = "dot"]
    /\ UNCHANGED <<startupVars, peerKey>>

\* What the end of a process does to the call.
CallAfter ==
    IF main' # "waiting" THEN Idle
    ELSE IF call.pc \in {"sent", "posted"} /\ call.target = "gateway" /\ node' = "off"
         THEN [call EXCEPT !.pc = "error"] ELSE call

Next ==
    \/ StartupNext /\ call' = CallAfter /\ UNCHANGED peerKey
    \/ \E target \in {"peer", "gateway"}, code \in Codes : Send(target, code)
    \/ PeerAnswers \/ GatewayPosts \/ GatewayAnswers \/ Answered

Spec == Init /\ [][Next]_vars

Fairness ==
    /\ WF_vars(TrisaSettles /\ call' = CallAfter /\ UNCHANGED peerKey)
    /\ WF_vars(NodeLoop /\ call' = CallAfter /\ UNCHANGED peerKey)

FairSpec == Spec /\ Fairness

---------------------------------------------------------------------------
\* A dot for an identity sent to another TRISA VASP comes with that identity, readable
\* by its originator, just if the directory the command loaded when it started has the
\* target's key and the target's has the originator's, whatever keys they hold instead;
\* in every other case the errors are dropped and the dot comes with nothing
\* (demo.go:83, 101, server.go:315 in cmd/trisa).
IdentityComesBack ==
    call.pc = "dot" /\ call.target = "peer" /\ call.message.example = "sygna" =>
        (Decrypt(call.message, "own") = "identity"
            <=> loaded[call.code] = "peer" /\ peerKey = "own")
===========================================================================
