--------------------------- MODULE OutboundProofs ---------------------------
(***************************************************************************)
(* Proofs about Outbound, for any number of transfers, streams, callbacks  *)
(* and crashes and for every combination of faults.                        *)
(*                                                                         *)
(* The safety properties rest on one inductive invariant: the types, the   *)
(* correspondence of the resolver map with the waiting calls, what a       *)
(* confirmation implies, and the causal order in which a transfer's call,  *)
(* its stream, the Bridge's record of it and the callbacks come about.     *)
(***************************************************************************)
EXTENDS Outbound, TLAPS

\* A call is posted before the Bridge knows of it, decided before it returns
\* or is called back for, and arrives on a stream that has been opened.
Causality == \A t \in Transfers :
    /\ handler[t] \in Suspended => up
    /\ handler[t] = "none" => bridge[t] = "none"
    /\ handler[t] \in {"posting", "waiting", "done"} => streams[StreamOf[t]] # "new"
    /\ handler[t] = "done" => bridge[t] \in Decided
    /\ calls[t] > 0 => bridge[t] \in Decided

IInv ==
    /\ TypeOK
    /\ ResolversAreWaiting
    /\ Causality
    /\ ConfirmOnlyAccepted
    /\ ReturnedIsConfirmed

Ordered == "earlyCallback" \notin Faults => AnsweredNeverWaits

USE OutboundAssumption

---------------------------------------------------------------------------
LEMMA InitInv == Init => IInv /\ Ordered
<1>. SUFFICES ASSUME Init PROVE IInv /\ Ordered
  OBVIOUS
<1>2. TypeOK
  BY DEF Init, TypeOK, StreamStates, HandlerStates, BridgeStates
<1>3. ResolversAreWaiting
  BY DEF Init, ResolversAreWaiting
<1>4. Causality
  <2>1. up /\ \A t \in Transfers : handler[t] = "none" /\ bridge[t] = "none"
    BY DEF Init
  <2>2. \A t \in Transfers : ~(calls[t] > 0)
    <3>1. \A t \in Transfers : calls[t] = 0
      BY DEF Init
    <3>2. ~(0 > 0)
      OBVIOUS
    <3>. QED
      BY <3>1, <3>2, Zenon
  <2>. QED
    BY <2>1, <2>2, Zenon DEF Causality
<1>5. ConfirmOnlyAccepted /\ ReturnedIsConfirmed
  BY DEF Init, ConfirmOnlyAccepted, ReturnedIsConfirmed
<1>6. Ordered
  BY DEF Init, Ordered, AnsweredNeverWaits
<1>. QED
  BY <1>2, <1>3, <1>4, <1>5, <1>6 DEF IInv

\* The state the process leaves when it ends: every suspended call is lost, and
\* no resolver is left.
LEMMA DieEffect ==
  ASSUME NEW h \in [Transfers -> HandlerStates], NEW strs \in [Streams -> StreamStates],
         Die(h, strs)
  PROVE  /\ up' = FALSE
         /\ crashes < MaxCrashes /\ crashes' = crashes + 1
         /\ handler' \in [Transfers -> HandlerStates]
         /\ \A u \in Transfers : handler'[u] = IF h[u] \in Suspended THEN "lost" ELSE h[u]
         /\ resolvers' = {}
         /\ txidPosts' \in [Transfers -> Nat]
         /\ streams' \in [Streams -> StreamStates]
         /\ \A s \in Streams : streams'[s] = IF strs[s] = "new" THEN "new" ELSE "closed"
  BY DEF Die, StreamStates, HandlerStates

\* The state a throwing call leaves: no other call changes unless the process
\* ends, and the resolvers are still those of the waiting calls.
LEMMA ThrowEffect ==
  ASSUME TypeOK, ResolversAreWaiting, up, NEW t \in Transfers, handler[t] # "waiting",
         NEW strs \in [Streams -> StreamStates], Throw(t, strs)
  PROVE  /\ up' \in BOOLEAN
         /\ crashes' \in 0..MaxCrashes
         /\ handler' \in [Transfers -> HandlerStates]
         /\ handler'[t] = "thrown"
         /\ \A u \in Transfers \ {t} :
               handler'[u] = IF up' \/ handler[u] \notin Suspended THEN handler[u] ELSE "lost"
         /\ resolvers' = {u \in Transfers : handler'[u] = "waiting"}
         /\ txidPosts' \in [Transfers -> Nat]
         /\ streams' \in [Streams -> StreamStates]
         /\ \A s \in Streams : \/ streams'[s] = strs[s]
                              \/ (strs[s] # "new" /\ streams'[s] = "closed")
<1>. DEFINE h == [handler EXCEPT ![t] = "thrown"]
<1>1. /\ h \in [Transfers -> HandlerStates]
      /\ h[t] = "thrown"
      /\ \A u \in Transfers \ {t} : h[u] = handler[u]
  BY DEF TypeOK, HandlerStates
<1>2. CASE Die(h, strs)
  <2>1. crashes' \in 0..MaxCrashes
    BY <1>2 DEF Die, TypeOK
  <2>. HIDE DEF h
  <2>. QED
    BY <1>1, <1>2, <2>1, DieEffect DEF Suspended
<1>3. CASE handler' = h /\ streams' = strs /\ UNCHANGED <<up, resolvers, txidPosts, crashes>>
  <2>. HIDE DEF h
  <2>. QED
    BY <1>1, <1>3 DEF TypeOK, ResolversAreWaiting
<1>. QED
  BY <1>2, <1>3 DEF Throw

\* The arrival of a transaction: its call throws or begins to post.
LEMMA ArrivalEffect ==
  ASSUME TypeOK, ResolversAreWaiting, NEW t \in Transfers, HandleServerEvent(t)
  PROVE  /\ up
         /\ handler[t] = "none"
         /\ up' \in BOOLEAN
         /\ crashes' \in 0..MaxCrashes
         /\ handler' \in [Transfers -> HandlerStates]
         /\ handler'[t] = "thrown" \/ (handler'[t] = "posting" /\ up')
         /\ \A u \in Transfers \ {t} :
               handler'[u] = IF up' \/ handler[u] \notin Suspended THEN handler[u] ELSE "lost"
         /\ resolvers' = {u \in Transfers : handler'[u] = "waiting"}
         /\ txidPosts' \in [Transfers -> Nat]
         /\ streams' \in [Streams -> StreamStates]
         /\ streams'[StreamOf[t]] # "new"
         /\ \A s \in Streams : \/ streams'[s] = streams[s]
                              \/ (streams[s] = "new" /\ streams'[s] = "open")
                              \/ streams'[s] = "closed"
         /\ bridge' \in {bridge, [bridge EXCEPT ![t] = "inFlight"]}
         /\ UNCHANGED <<calls, txids, confirms>>
<1>. DEFINE a == [streams EXCEPT ![StreamOf[t]] = IF @ = "new" THEN "open" ELSE @]
<1>1. /\ a \in [Streams -> StreamStates]
      /\ a[StreamOf[t]] # "new"
      /\ \A s \in Streams : a[s] = streams[s] \/ (streams[s] = "new" /\ a[s] = "open")
  BY DEF TypeOK, StreamStates
<1>2. up /\ handler[t] = "none" /\ UNCHANGED <<calls, txids, confirms>>
  BY DEF HandleServerEvent
<1>3. CASE Throw(t, a) /\ UNCHANGED bridge
  <2>. HIDE DEF a
  <2>. QED
    BY <1>1, <1>2, <1>3, ThrowEffect
<1>4. CASE /\ handler' = [handler EXCEPT ![t] = "posting"]
           /\ bridge' = [bridge EXCEPT ![t] = "inFlight"]
           /\ streams' = a
           /\ UNCHANGED <<up, resolvers, txidPosts, crashes>>
  BY <1>1, <1>2, <1>4 DEF TypeOK, ResolversAreWaiting, HandlerStates
<1>. QED
  BY <1>3, <1>4 DEF HandleServerEvent

\* The failure of a permission request: its call throws and its stream ends.
LEMMA FailureEffect ==
  ASSUME TypeOK, ResolversAreWaiting, NEW t \in Transfers, PermissionRequestFailed(t)
  PROVE  /\ handler[t] = "posting"
         /\ up' \in BOOLEAN
         /\ crashes' \in 0..MaxCrashes
         /\ handler' \in [Transfers -> HandlerStates]
         /\ handler'[t] = "thrown"
         /\ \A u \in Transfers \ {t} :
               handler'[u] = IF up' \/ handler[u] \notin Suspended THEN handler[u] ELSE "lost"
         /\ resolvers' = {u \in Transfers : handler'[u] = "waiting"}
         /\ txidPosts' \in [Transfers -> Nat]
         /\ streams' \in [Streams -> StreamStates]
         /\ \A s \in Streams : \/ streams'[s] = streams[s]
                              \/ (streams[s] # "new" /\ streams'[s] \in {"ended", "closed"})
         /\ UNCHANGED <<bridge, calls, txids, confirms>>
<1>. DEFINE e == [streams EXCEPT ![StreamOf[t]] = IF @ = "open" THEN "ended" ELSE @]
<1>1. /\ e \in [Streams -> StreamStates]
      /\ \A s \in Streams : e[s] = streams[s] \/ (streams[s] = "open" /\ e[s] = "ended")
  BY DEF TypeOK, StreamStates
<1>2. /\ up
      /\ handler[t] = "posting"
      /\ Throw(t, e)
      /\ UNCHANGED <<bridge, calls, txids, confirms>>
  BY DEF PermissionRequestFailed
<1>. HIDE DEF e
<1>. QED
  BY <1>1, <1>2, ThrowEffect

\* Every step keeps the variables within their types.
LEMMA TypeStep ==
  ASSUME TypeOK, ResolversAreWaiting, [Next]_vars
  PROVE  TypeOK'
<1>1. ASSUME NEW t \in Transfers, HandleServerEvent(t) PROVE  TypeOK'
  <2>1. bridge' \in [Transfers -> BridgeStates]
    BY <1>1, ArrivalEffect DEF TypeOK, BridgeStates
  <2>2. resolvers' \subseteq Transfers
    BY <1>1, ArrivalEffect
  <2>. QED
    BY <1>1, <2>1, <2>2, ArrivalEffect DEF TypeOK
<1>2. ASSUME NEW t \in Transfers, PermissionRequestOk(t) PROVE  TypeOK'
  BY <1>2 DEF PermissionRequestOk, TypeOK, HandlerStates
<1>3. ASSUME NEW t \in Transfers, PermissionRequestFailed(t) PROVE  TypeOK'
  <2>1. resolvers' \subseteq Transfers
    BY <1>3, FailureEffect
  <2>. QED
    BY <1>3, <2>1, FailureEffect DEF TypeOK
<1>4. ASSUME NEW t \in Transfers, PostPermission(t) PROVE  TypeOK'
  BY <1>4 DEF PostPermission, MayCall, ResolvePermission, TypeOK, HandlerStates
<1>5. ASSUME NEW t \in Transfers, TxidPosted(t) PROVE  TypeOK'
  BY <1>5 DEF TxidPosted, TypeOK
<1>6. ASSUME NEW t \in Transfers, TxidFailed(t) PROVE  TypeOK'
  BY <1>6 DEF TxidFailed, TypeOK
<1>7. ASSUME NEW t \in Transfers, BridgeRecords(t) PROVE  TypeOK'
  BY <1>7 DEF BridgeRecords, TypeOK, BridgeStates
<1>8. ASSUME NEW t \in Transfers, BeneficiaryDecides(t) PROVE  TypeOK'
  BY <1>8 DEF BeneficiaryDecides, TypeOK, BridgeStates, Decided
<1>9. ASSUME NEW t \in Transfers, CallbackUnanswered(t) PROVE  TypeOK'
  BY <1>9 DEF CallbackUnanswered, MayCall, TypeOK
<1>10. ASSUME NEW s \in Streams, StreamEnds(s) PROVE  TypeOK'
  BY <1>10 DEF StreamEnds, TypeOK, StreamStates
<1>11. CASE Crash
  <2>1. /\ up' \in BOOLEAN
        /\ handler' \in [Transfers -> HandlerStates]
        /\ resolvers' \subseteq Transfers
        /\ txidPosts' \in [Transfers -> Nat]
        /\ streams' \in [Streams -> StreamStates]
    BY <1>11, DieEffect DEF Crash, TypeOK
  <2>2. crashes' \in 0..MaxCrashes
    BY <1>11 DEF Crash, Die, TypeOK
  <2>. QED
    BY <1>11, <2>1, <2>2 DEF Crash, bridgeVars, TypeOK
<1>12. CASE Restart
  BY <1>12 DEF Restart, bridgeVars, TypeOK
<1>13. CASE UNCHANGED vars
  BY <1>13 DEF vars, TypeOK
<1>. QED
  BY <1>1, <1>2, <1>3, <1>4, <1>5, <1>6, <1>7, <1>8, <1>9, <1>10, <1>11, <1>12, <1>13
     DEF Next

\* A step registers a resolver when, and only when, it makes a call wait.
LEMMA ResolversStep ==
  ASSUME TypeOK, ResolversAreWaiting, [Next]_vars
  PROVE  ResolversAreWaiting'
<1>1. ASSUME NEW t \in Transfers, HandleServerEvent(t) PROVE  ResolversAreWaiting'
  BY <1>1, ArrivalEffect DEF ResolversAreWaiting
<1>2. ASSUME NEW t \in Transfers, PermissionRequestOk(t) PROVE  ResolversAreWaiting'
  BY <1>2 DEF PermissionRequestOk, TypeOK, ResolversAreWaiting
<1>3. ASSUME NEW t \in Transfers, PermissionRequestFailed(t) PROVE  ResolversAreWaiting'
  BY <1>3, FailureEffect DEF ResolversAreWaiting
<1>4. ASSUME NEW t \in Transfers, PostPermission(t) PROVE  ResolversAreWaiting'
  BY <1>4 DEF PostPermission, ResolvePermission, TypeOK, ResolversAreWaiting
<1>5. ASSUME NEW t \in Transfers, TxidPosted(t) PROVE  ResolversAreWaiting'
  BY <1>5 DEF TxidPosted, ResolversAreWaiting
<1>6. ASSUME NEW t \in Transfers, TxidFailed(t) PROVE  ResolversAreWaiting'
  BY <1>6 DEF TxidFailed, ResolversAreWaiting
<1>7. ASSUME NEW t \in Transfers, BridgeRecords(t) PROVE  ResolversAreWaiting'
  BY <1>7 DEF BridgeRecords, ResolversAreWaiting
<1>8. ASSUME NEW t \in Transfers, BeneficiaryDecides(t) PROVE  ResolversAreWaiting'
  BY <1>8 DEF BeneficiaryDecides, ResolversAreWaiting
<1>9. ASSUME NEW t \in Transfers, CallbackUnanswered(t) PROVE  ResolversAreWaiting'
  BY <1>9 DEF CallbackUnanswered, ResolversAreWaiting
<1>10. ASSUME NEW s \in Streams, StreamEnds(s) PROVE  ResolversAreWaiting'
  BY <1>10 DEF StreamEnds, ResolversAreWaiting
<1>11. CASE Crash
  BY <1>11, DieEffect DEF Crash, TypeOK, ResolversAreWaiting, Suspended
<1>12. CASE Restart
  BY <1>12 DEF Restart, ResolversAreWaiting
<1>13. CASE UNCHANGED vars
  BY <1>13 DEF vars, ResolversAreWaiting
<1>. QED
  BY <1>1, <1>2, <1>3, <1>4, <1>5, <1>6, <1>7, <1>8, <1>9, <1>10, <1>11, <1>12, <1>13
     DEF Next

\* A step never runs ahead of its causes.
LEMMA CausalityStep ==
  ASSUME TypeOK, ResolversAreWaiting, Causality, [Next]_vars
  PROVE  Causality'
<1>1. ASSUME NEW t \in Transfers, HandleServerEvent(t) PROVE  Causality'
  BY <1>1, ArrivalEffect DEF TypeOK, Causality, Suspended, Decided
<1>2. ASSUME NEW t \in Transfers, PermissionRequestOk(t) PROVE  Causality'
  BY <1>2 DEF PermissionRequestOk, Causality
<1>3. ASSUME NEW t \in Transfers, PermissionRequestFailed(t) PROVE  Causality'
  BY <1>3, FailureEffect DEF Causality, Suspended
<1>4. ASSUME NEW t \in Transfers, PostPermission(t) PROVE  Causality'
  BY <1>4
     DEF PostPermission, MayCall, ResolvePermission, TypeOK, ResolversAreWaiting, Causality, Suspended
<1>5. ASSUME NEW t \in Transfers, TxidPosted(t) PROVE  Causality'
  BY <1>5 DEF TxidPosted, Causality
<1>6. ASSUME NEW t \in Transfers, TxidFailed(t) PROVE  Causality'
  BY <1>6 DEF TxidFailed, Causality
<1>7. ASSUME NEW t \in Transfers, BridgeRecords(t) PROVE  Causality'
  BY <1>7 DEF BridgeRecords, Causality, Decided
<1>8. ASSUME NEW t \in Transfers, BeneficiaryDecides(t) PROVE  Causality'
  BY <1>8 DEF BeneficiaryDecides, Causality
<1>9. ASSUME NEW t \in Transfers, CallbackUnanswered(t) PROVE  Causality'
  BY <1>9 DEF CallbackUnanswered, MayCall, Causality
<1>10. ASSUME NEW s \in Streams, StreamEnds(s) PROVE  Causality'
  BY <1>10 DEF StreamEnds, Causality
<1>11. CASE Crash
  <2>1. /\ up' = FALSE
        /\ \A u \in Transfers : handler'[u] = IF handler[u] \in Suspended THEN "lost" ELSE handler[u]
        /\ \A s \in Streams : streams'[s] = IF streams[s] = "new" THEN "new" ELSE "closed"
    BY <1>11, DieEffect DEF Crash, TypeOK
  <2>. QED
    BY <1>11, <2>1 DEF Crash, bridgeVars, Causality, Suspended
<1>12. CASE Restart
  BY <1>12 DEF Restart, bridgeVars, Causality
<1>13. CASE UNCHANGED vars
  BY <1>13 DEF vars, Causality
<1>. QED
  BY <1>1, <1>2, <1>3, <1>4, <1>5, <1>6, <1>7, <1>8, <1>9, <1>10, <1>11, <1>12, <1>13
     DEF Next

\* A confirmation is written by the waiting call of an accepted transfer, which
\* then returns and cannot write another.
LEMMA ConfirmStep ==
  ASSUME TypeOK, ResolversAreWaiting, ConfirmOnlyAccepted, [Next]_vars
  PROVE  ConfirmOnlyAccepted'
<1>1. ASSUME NEW t \in Transfers, HandleServerEvent(t) PROVE  ConfirmOnlyAccepted'
  BY <1>1, ArrivalEffect DEF TypeOK, ConfirmOnlyAccepted, Suspended
<1>2. ASSUME NEW t \in Transfers, PermissionRequestOk(t) PROVE  ConfirmOnlyAccepted'
  BY <1>2 DEF PermissionRequestOk, ConfirmOnlyAccepted
<1>3. ASSUME NEW t \in Transfers, PermissionRequestFailed(t) PROVE  ConfirmOnlyAccepted'
  BY <1>3, FailureEffect DEF ConfirmOnlyAccepted, Suspended
<1>4. ASSUME NEW t \in Transfers, PostPermission(t) PROVE  ConfirmOnlyAccepted'
  BY <1>4 DEF PostPermission, ResolvePermission, TypeOK, ResolversAreWaiting, ConfirmOnlyAccepted
<1>5. ASSUME NEW t \in Transfers, TxidPosted(t) PROVE  ConfirmOnlyAccepted'
  BY <1>5 DEF TxidPosted, ConfirmOnlyAccepted
<1>6. ASSUME NEW t \in Transfers, TxidFailed(t) PROVE  ConfirmOnlyAccepted'
  BY <1>6 DEF TxidFailed, ConfirmOnlyAccepted
<1>7. ASSUME NEW t \in Transfers, BridgeRecords(t) PROVE  ConfirmOnlyAccepted'
  BY <1>7 DEF BridgeRecords, ConfirmOnlyAccepted
<1>8. ASSUME NEW t \in Transfers, BeneficiaryDecides(t) PROVE  ConfirmOnlyAccepted'
  BY <1>8 DEF BeneficiaryDecides, ConfirmOnlyAccepted
<1>9. ASSUME NEW t \in Transfers, CallbackUnanswered(t) PROVE  ConfirmOnlyAccepted'
  BY <1>9 DEF CallbackUnanswered, ConfirmOnlyAccepted
<1>10. ASSUME NEW s \in Streams, StreamEnds(s) PROVE  ConfirmOnlyAccepted'
  BY <1>10 DEF StreamEnds, ConfirmOnlyAccepted
<1>11. CASE Crash
  BY <1>11, DieEffect DEF Crash, bridgeVars, TypeOK, ConfirmOnlyAccepted, Suspended
<1>12. CASE Restart
  BY <1>12 DEF Restart, bridgeVars, ConfirmOnlyAccepted
<1>13. CASE UNCHANGED vars
  BY <1>13 DEF vars, ConfirmOnlyAccepted
<1>. QED
  BY <1>1, <1>2, <1>3, <1>4, <1>5, <1>6, <1>7, <1>8, <1>9, <1>10, <1>11, <1>12, <1>13
     DEF Next

\* A call that returns for an accepted transfer confirms it on an open stream,
\* and a stream is never opened again.
LEMMA ReturnedStep ==
  ASSUME IInv, [Next]_vars
  PROVE  ReturnedIsConfirmed'
<1>1. ASSUME NEW t \in Transfers, HandleServerEvent(t) PROVE  ReturnedIsConfirmed'
  BY <1>1, ArrivalEffect DEF IInv, TypeOK, ReturnedIsConfirmed
<1>2. ASSUME NEW t \in Transfers, PermissionRequestOk(t) PROVE  ReturnedIsConfirmed'
  BY <1>2 DEF PermissionRequestOk, IInv, ReturnedIsConfirmed
<1>3. ASSUME NEW t \in Transfers, PermissionRequestFailed(t) PROVE  ReturnedIsConfirmed'
  BY <1>3, FailureEffect DEF IInv, ReturnedIsConfirmed
<1>4. ASSUME NEW t \in Transfers, PostPermission(t) PROVE  ReturnedIsConfirmed'
  BY <1>4
     DEF PostPermission, ResolvePermission, IInv, TypeOK, ResolversAreWaiting, Causality, ReturnedIsConfirmed, StreamStates
<1>5. ASSUME NEW t \in Transfers, TxidPosted(t) PROVE  ReturnedIsConfirmed'
  BY <1>5 DEF TxidPosted, IInv, ReturnedIsConfirmed
<1>6. ASSUME NEW t \in Transfers, TxidFailed(t) PROVE  ReturnedIsConfirmed'
  BY <1>6 DEF TxidFailed, IInv, ReturnedIsConfirmed
<1>7. ASSUME NEW t \in Transfers, BridgeRecords(t) PROVE  ReturnedIsConfirmed'
  BY <1>7 DEF BridgeRecords, IInv, ReturnedIsConfirmed
<1>8. ASSUME NEW t \in Transfers, BeneficiaryDecides(t) PROVE  ReturnedIsConfirmed'
  BY <1>8 DEF BeneficiaryDecides, IInv, Causality, ReturnedIsConfirmed, Decided
<1>9. ASSUME NEW t \in Transfers, CallbackUnanswered(t) PROVE  ReturnedIsConfirmed'
  BY <1>9 DEF CallbackUnanswered, IInv, ReturnedIsConfirmed
<1>10. ASSUME NEW s \in Streams, StreamEnds(s) PROVE  ReturnedIsConfirmed'
  BY <1>10 DEF StreamEnds, IInv, ReturnedIsConfirmed
<1>11. CASE Crash
  BY <1>11, DieEffect DEF Crash, bridgeVars, IInv, TypeOK, ReturnedIsConfirmed
<1>12. CASE Restart
  BY <1>12 DEF Restart, bridgeVars, IInv, ReturnedIsConfirmed
<1>13. CASE UNCHANGED vars
  BY <1>13 DEF vars, IInv, ReturnedIsConfirmed
<1>. QED
  BY <1>1, <1>2, <1>3, <1>4, <1>5, <1>6, <1>7, <1>8, <1>9, <1>10, <1>11, <1>12, <1>13
     DEF Next

\* Without callbacks that come early, a callback finds no call that has yet to wait.
LEMMA OrderedStep ==
  ASSUME IInv, Ordered, [Next]_vars
  PROVE  Ordered'
<1>1. ASSUME NEW t \in Transfers, HandleServerEvent(t) PROVE  Ordered'
  BY <1>1, ArrivalEffect DEF IInv, Ordered, Causality, AnsweredNeverWaits, Decided
<1>2. ASSUME NEW t \in Transfers, PermissionRequestOk(t) PROVE  Ordered'
  BY <1>2 DEF PermissionRequestOk, Ordered, AnsweredNeverWaits, Suspended
<1>3. ASSUME NEW t \in Transfers, PermissionRequestFailed(t) PROVE  Ordered'
  BY <1>3, FailureEffect DEF IInv, Ordered, AnsweredNeverWaits, Suspended
<1>4. ASSUME NEW t \in Transfers, PostPermission(t) PROVE  Ordered'
  BY <1>4
     DEF PostPermission, MayCall, ResolvePermission, IInv, Ordered, TypeOK, ResolversAreWaiting, AnsweredNeverWaits, Suspended
<1>5. ASSUME NEW t \in Transfers, TxidPosted(t) PROVE  Ordered'
  BY <1>5 DEF TxidPosted, Ordered, AnsweredNeverWaits
<1>6. ASSUME NEW t \in Transfers, TxidFailed(t) PROVE  Ordered'
  BY <1>6 DEF TxidFailed, Ordered, AnsweredNeverWaits
<1>7. ASSUME NEW t \in Transfers, BridgeRecords(t) PROVE  Ordered'
  BY <1>7 DEF BridgeRecords, Ordered, AnsweredNeverWaits
<1>8. ASSUME NEW t \in Transfers, BeneficiaryDecides(t) PROVE  Ordered'
  BY <1>8 DEF BeneficiaryDecides, Ordered, AnsweredNeverWaits
<1>9. ASSUME NEW t \in Transfers, CallbackUnanswered(t) PROVE  Ordered'
  BY <1>9 DEF CallbackUnanswered, IInv, Ordered, Causality, AnsweredNeverWaits
<1>10. ASSUME NEW s \in Streams, StreamEnds(s) PROVE  Ordered'
  BY <1>10 DEF StreamEnds, Ordered, AnsweredNeverWaits
<1>11. CASE Crash
  BY <1>11, DieEffect DEF Crash, bridgeVars, IInv, Ordered, TypeOK, AnsweredNeverWaits
<1>12. CASE Restart
  BY <1>12 DEF Restart, bridgeVars, Ordered, AnsweredNeverWaits
<1>13. CASE UNCHANGED vars
  BY <1>13 DEF vars, Ordered, AnsweredNeverWaits
<1>. QED
  BY <1>1, <1>2, <1>3, <1>4, <1>5, <1>6, <1>7, <1>8, <1>9, <1>10, <1>11, <1>12, <1>13
     DEF Next

\* The inductive invariant is preserved by every step.
LEMMA InvStep == IInv /\ [Next]_vars => IInv'
  BY TypeStep, ResolversStep, CausalityStep, ConfirmStep, ReturnedStep DEF IInv

\* The inductive invariant holds throughout.
THEOREM Invariant == Spec => []IInv
<1>1. Init => IInv
  BY InitInv
<1>. QED
  BY <1>1, InvStep, PTL DEF Spec

---------------------------------------------------------------------------
\* Every reachable state is well typed.
THEOREM TypeCorrect == Spec => []TypeOK
<1>1. IInv => TypeOK
  BY DEF IInv
<1>. QED
  BY <1>1, Invariant, PTL

\* permissionResolveMap holds a resolver for exactly the calls that wait for the
\* Bridge's decision (connection-manager.ts:92-94 and 64-65).
THEOREM ResolverMapExact == Spec => []ResolversAreWaiting
<1>1. IInv => ResolversAreWaiting
  BY DEF IInv
<1>. QED
  BY <1>1, Invariant, PTL

\* Only accepted transfers are confirmed to a TRISA VASP, each at most once,
\* however often the Bridge calls back (connection-manager.ts:96-100).
THEOREM ConfirmSound == Spec => []ConfirmOnlyAccepted
<1>1. IInv => ConfirmOnlyAccepted
  BY DEF IInv
<1>. QED
  BY <1>1, Invariant, PTL

\* The call of an accepted transfer returns without a confirmation only if its
\* stream had been ended or closed (connection-manager.ts:84-87 and 96-100).
THEOREM ConfirmComplete == Spec => []ReturnedIsConfirmed
<1>1. IInv => ReturnedIsConfirmed
  BY DEF IInv
<1>. QED
  BY <1>1, Invariant, PTL

\* When no callback overtakes the answer to its permission request
\* (connection-manager.ts:76-94), no call is left waiting for a callback the Bridge
\* has already made, whatever else fails.
THEOREM NoLostCallback ==
  ASSUME "earlyCallback" \notin Faults
  PROVE  Spec => []AnsweredNeverWaits
<1>1. Init => IInv /\ Ordered
  BY InitInv
<1>2. IInv /\ Ordered /\ [Next]_vars => IInv' /\ Ordered'
  BY InvStep, OrderedStep
<1>3. Ordered => AnsweredNeverWaits
  BY DEF Ordered
<1>. QED
  BY <1>1, <1>2, <1>3, PTL DEF Spec

\* A step that releases a waiting call is its own callback or the process's end.
LEMMA ReleaseStep ==
  ASSUME TypeOK, ResolversAreWaiting, NEW r \in Transfers,
         handler[r] = "waiting", handler'[r] # "waiting", [Next]_vars
  PROVE  calls'[r] > calls[r] \/ ~up'
<1>1. ASSUME NEW t \in Transfers, HandleServerEvent(t) PROVE  calls'[r] > calls[r] \/ ~up'
  BY <1>1, ArrivalEffect
<1>2. ASSUME NEW t \in Transfers, PermissionRequestOk(t) PROVE  calls'[r] > calls[r] \/ ~up'
  BY <1>2 DEF PermissionRequestOk
<1>3. ASSUME NEW t \in Transfers, PermissionRequestFailed(t) PROVE  calls'[r] > calls[r] \/ ~up'
  BY <1>3, FailureEffect
<1>4. ASSUME NEW t \in Transfers, PostPermission(t) PROVE  calls'[r] > calls[r] \/ ~up'
  BY <1>4 DEF PostPermission, ResolvePermission, TypeOK
<1>5. ASSUME NEW t \in Transfers, TxidPosted(t) PROVE  calls'[r] > calls[r] \/ ~up'
  BY <1>5 DEF TxidPosted
<1>6. ASSUME NEW t \in Transfers, TxidFailed(t) PROVE  calls'[r] > calls[r] \/ ~up'
  BY <1>6 DEF TxidFailed
<1>7. ASSUME NEW t \in Transfers, BridgeRecords(t) PROVE  calls'[r] > calls[r] \/ ~up'
  BY <1>7 DEF BridgeRecords
<1>8. ASSUME NEW t \in Transfers, BeneficiaryDecides(t) PROVE  calls'[r] > calls[r] \/ ~up'
  BY <1>8 DEF BeneficiaryDecides
<1>9. ASSUME NEW t \in Transfers, CallbackUnanswered(t) PROVE  calls'[r] > calls[r] \/ ~up'
  BY <1>9 DEF CallbackUnanswered
<1>10. ASSUME NEW s \in Streams, StreamEnds(s) PROVE  calls'[r] > calls[r] \/ ~up'
  BY <1>10 DEF StreamEnds
<1>11. CASE Crash
  BY <1>11, DieEffect DEF Crash, TypeOK
<1>12. CASE Restart
  BY <1>12 DEF Restart
<1>13. CASE UNCHANGED vars
  BY <1>13 DEF vars
<1>. QED
  BY <1>1, <1>2, <1>3, <1>4, <1>5, <1>6, <1>7, <1>8, <1>9, <1>10, <1>11, <1>12, <1>13
     DEF Next

\* A waiting call is released only by a callback for its own transfer, or dies
\* with the process: transfers do not disturb one another.
THEOREM CallsIsolated == Spec => ReleasedByOwnCallback
<1>1. IInv /\ [Next]_vars => [\A t \in Transfers :
        handler[t] = "waiting" /\ handler'[t] # "waiting" => calls'[t] > calls[t] \/ ~up']_vars
  BY ReleaseStep DEF IInv
<1>. QED
  BY <1>1, Invariant, PTL DEF Spec, ReleasedByOwnCallback

---------------------------------------------------------------------------
\* Every step of the gateway is a step of the abstract exchange or changes
\* nothing it sees: the Bridge recording a request, the beneficiary deciding it
\* and the gateway confirming it are the three that do.
LEMMA ExchangeStep ==
  ASSUME IInv, [Next]_vars
  PROVE  [Exchange!Next]_status
<1>1. ASSUME NEW t \in Transfers, HandleServerEvent(t) PROVE  [Exchange!Next]_status
  <2>1. confirms' = confirms
    BY <1>1, ArrivalEffect DEF IInv
  <2>2. \/ bridge' = bridge
        \/ bridge[t] = "none" /\ bridge' = [bridge EXCEPT ![t] = "inFlight"]
    BY <1>1, ArrivalEffect DEF IInv, Causality
  <2>3. \A u \in Transfers : status'[u] = status[u]
    BY <2>1, <2>2 DEF status, IInv, TypeOK
  <2>4. status' = status
    BY <2>3 DEF status
  <2>. QED
    BY <2>4
<1>2. ASSUME NEW t \in Transfers, PermissionRequestOk(t) PROVE  [Exchange!Next]_status
  BY <1>2 DEF PermissionRequestOk, status
<1>3. ASSUME NEW t \in Transfers, PermissionRequestFailed(t) PROVE  [Exchange!Next]_status
  BY <1>3, FailureEffect DEF IInv, status
<1>4. ASSUME NEW t \in Transfers, PostPermission(t) PROVE  [Exchange!Next]_status
  <2>1. /\ t \in resolvers => handler[t] = "waiting" /\ confirms[t] = 0
        /\ \A u \in Transfers : bridge'[u] = bridge[u]
    BY <1>4 DEF PostPermission, IInv, ResolversAreWaiting, ConfirmOnlyAccepted
  <2>2. CASE confirms' = confirms
    BY <1>4, <2>2 DEF PostPermission, status
  <2>3. CASE confirms' # confirms
    <3>1. /\ t \in resolvers
          /\ bridge[t] = "accepted"
          /\ confirms' = [confirms EXCEPT ![t] = @ + 1]
      BY <1>4, <2>3 DEF PostPermission, ResolvePermission, IInv, TypeOK
    <3>2. status[t] = "accepted"
      BY <2>1, <3>1 DEF status
    <3>3. \A u \in Transfers : confirms'[u] = IF u = t THEN 1 ELSE confirms[u]
      BY <2>1, <3>1 DEF IInv, TypeOK
    <3>4. \A u \in Transfers : status'[u] = IF u = t THEN "confirmed" ELSE status[u]
      BY <2>1, <3>3 DEF status
    <3>5. status' = [status EXCEPT ![t] = "confirmed"]
      BY <3>4 DEF status
    <3>. QED
      BY <3>2, <3>5 DEF Exchange!Next, Exchange!Confirm, Exchange!Move
  <2>. QED
    BY <2>2, <2>3
<1>5. ASSUME NEW t \in Transfers, TxidPosted(t) PROVE  [Exchange!Next]_status
  BY <1>5 DEF TxidPosted, status
<1>6. ASSUME NEW t \in Transfers, TxidFailed(t) PROVE  [Exchange!Next]_status
  BY <1>6 DEF TxidFailed, status
<1>7. ASSUME NEW t \in Transfers, BridgeRecords(t) PROVE  [Exchange!Next]_status
  <2>1. confirms[t] = 0 /\ confirms' = confirms
    BY <1>7 DEF BridgeRecords, IInv, ConfirmOnlyAccepted
  <2>2. status[t] = "none"
    BY <1>7, <2>1 DEF BridgeRecords, status
  <2>3. \A u \in Transfers : bridge'[u] = IF u = t THEN "requested" ELSE bridge[u]
    BY <1>7 DEF BridgeRecords, IInv, TypeOK
  <2>4. \A u \in Transfers : status'[u] = IF u = t THEN "requested" ELSE status[u]
    BY <2>1, <2>3 DEF status
  <2>5. status' = [status EXCEPT ![t] = "requested"]
    BY <2>4 DEF status
  <2>. QED
    BY <2>2, <2>5 DEF Exchange!Next, Exchange!Request, Exchange!Move
<1>8. ASSUME NEW t \in Transfers, BeneficiaryDecides(t) PROVE  [Exchange!Next]_status
  <2>1. confirms[t] = 0 /\ confirms' = confirms
    BY <1>8 DEF BeneficiaryDecides, IInv, ConfirmOnlyAccepted
  <2>2. PICK d \in Decided : bridge' = [bridge EXCEPT ![t] = d]
    BY <1>8 DEF BeneficiaryDecides
  <2>3. status[t] = "requested"
    BY <1>8, <2>1 DEF BeneficiaryDecides, status
  <2>4. \A u \in Transfers : bridge'[u] = IF u = t THEN d ELSE bridge[u]
    BY <2>2 DEF IInv, TypeOK
  <2>5. \A u \in Transfers : status'[u] = IF u = t THEN d ELSE status[u]
    BY <2>1, <2>4 DEF status, Decided
  <2>6. status' = [status EXCEPT ![t] = d]
    BY <2>5 DEF status
  <2>. QED
    BY <2>2, <2>3, <2>6
       DEF Decided, Exchange!Next, Exchange!Decide, Exchange!Move, Exchange!Decisions
<1>9. ASSUME NEW t \in Transfers, CallbackUnanswered(t) PROVE  [Exchange!Next]_status
  BY <1>9 DEF CallbackUnanswered, status
<1>10. ASSUME NEW s \in Streams, StreamEnds(s) PROVE  [Exchange!Next]_status
  BY <1>10 DEF StreamEnds, status
<1>11. CASE Crash
  BY <1>11, DieEffect DEF Crash, bridgeVars, status
<1>12. CASE Restart
  BY <1>12 DEF Restart, bridgeVars, status
<1>13. CASE UNCHANGED vars
  BY <1>13 DEF vars, status
<1>. QED
  BY <1>1, <1>2, <1>3, <1>4, <1>5, <1>6, <1>7, <1>8, <1>9, <1>10, <1>11, <1>12, <1>13
     DEF Next

\* The gateway implements the permission exchange, whatever fails: no
\* confirmation without an acceptance, no second one, no decision taken back.
THEOREM Refinement == Spec => ImplementsSafety
<1>1. Init => Exchange!Init
  BY DEF Init, Exchange!Init, status
<1>2. IInv /\ [Next]_vars => [Exchange!Next]_status
  BY ExchangeStep
<1>. QED
  BY <1>1, <1>2, Invariant, PTL DEF Spec, ImplementsSafety, Exchange!Safety

---------------------------------------------------------------------------
\* What the steps of one transfer's call do to the calls, the streams and the
\* confirmations, for a composition with the VASP that sent the transfers.

\* Nothing that this VASP could notice.
Quiet == UNCHANGED <<up, streams, handler, confirms, crashes>>

OthersSame(t) == \A u \in Transfers \ {t} :
    handler'[u] = handler[u] /\ confirms'[u] = confirms[u]

\* The call goes on: it posts its request, or waits.
GoesOn(t) ==
    /\ up /\ up' /\ UNCHANGED <<confirms, crashes>>
    /\ handler[t] \in {"none", "posting"} /\ handler'[t] \in Suspended
    /\ OthersSame(t)
    /\ \A s \in Streams :
          streams'[s] = IF s = StreamOf[t] /\ streams[s] = "new" THEN "open" ELSE streams[s]

\* The call comes to its end: silently, with its stream, or with a confirmation.
ComesToEnd(t) ==
    /\ up /\ up' /\ UNCHANGED crashes
    /\ handler[t] \in {"none"} \cup Suspended /\ handler'[t] \in {"done", "thrown"}
    /\ OthersSame(t)
    /\ \A s \in Streams \ {StreamOf[t]} : streams'[s] = streams[s]
    /\ \/ /\ confirms'[t] = confirms[t]
          /\ streams'[StreamOf[t]] =
                IF streams[StreamOf[t]] = "new" THEN "open" ELSE streams[StreamOf[t]]
       \/ /\ confirms'[t] = confirms[t]
          /\ handler[t] = "posting"
          /\ streams[StreamOf[t]] = "open" /\ streams'[StreamOf[t]] = "ended"
       \/ /\ confirms[t] = 0 /\ confirms'[t] = 1
          /\ handler[t] = "waiting"
          /\ streams[StreamOf[t]] = "open" /\ streams'[StreamOf[t]] = "open"

\* The process ends, over a call of T if there is one in it.
Dies(T) ==
    /\ up /\ ~up' /\ UNCHANGED confirms
    /\ \A u \in Transfers :
          /\ handler'[u] \notin Suspended
          /\ u \notin T => (handler'[u] = "none" <=> handler[u] = "none")
    /\ \A s \in Streams :
          /\ streams'[s] # "open"
          /\ (\A t \in T : s # StreamOf[t]) => (streams'[s] = "new" <=> streams[s] = "new")

\* What follows the arrival of a transaction.
LaterStep(t) ==
    \/ PermissionRequestOk(t) \/ PermissionRequestFailed(t)
    \/ PostPermission(t) \/ TxidPosted(t) \/ TxidFailed(t)
    \/ BridgeRecords(t) \/ BeneficiaryDecides(t) \/ CallbackUnanswered(t)

Effect(t) ==
    \/ Quiet
    \/ GoesOn(t)
    \/ ComesToEnd(t)
    \/ Dies({t}) /\ crashes < MaxCrashes /\ crashes' = crashes + 1

LEMMA DeathEffect ==
  ASSUME TypeOK, NEW T \in SUBSET Transfers,
         NEW h \in [Transfers -> HandlerStates], NEW strs \in [Streams -> StreamStates],
         up, Die(h, strs), UNCHANGED confirms,
         \A u \in Transfers \ T : h[u] = handler[u],
         \A s \in Streams : (\A t \in T : s # StreamOf[t]) => strs[s] = streams[s]
  PROVE  Dies(T)
<1>1. /\ up' = FALSE
      /\ \A u \in Transfers : handler'[u] = IF h[u] \in Suspended THEN "lost" ELSE h[u]
      /\ \A s \in Streams : streams'[s] = IF strs[s] = "new" THEN "new" ELSE "closed"
  BY DieEffect
<1>. QED
  BY <1>1 DEF Dies, Suspended

LEMMA ThrowEnds ==
  ASSUME IInv, up, NEW t \in Transfers, handler[t] \in {"none", "posting"},
         NEW strs \in [Streams -> StreamStates], Throw(t, strs), UNCHANGED confirms,
         \A s \in Streams \ {StreamOf[t]} : strs[s] = streams[s],
         \/ strs[StreamOf[t]] = IF streams[StreamOf[t]] = "new" THEN "open" ELSE streams[StreamOf[t]]
         \/ /\ handler[t] = "posting"
            /\ streams[StreamOf[t]] = "open" /\ strs[StreamOf[t]] = "ended"
  PROVE  \/ ComesToEnd(t)
         \/ Dies({t}) /\ crashes < MaxCrashes /\ crashes' = crashes + 1
<1>. DEFINE h == [handler EXCEPT ![t] = "thrown"]
<1>0. TypeOK /\ \A s \in Streams : s # StreamOf[t] => strs[s] = streams[s]
  BY DEF IInv
<1>1. /\ h \in [Transfers -> HandlerStates]
      /\ h[t] = "thrown"
      /\ \A u \in Transfers \ {t} : h[u] = handler[u]
  BY <1>0 DEF TypeOK, HandlerStates
<1>2. CASE Die(h, strs)
  <2>1. crashes < MaxCrashes /\ crashes' = crashes + 1
    BY <1>2 DEF Die
  <2>. HIDE DEF h
  <2>. QED
    BY <1>0, <1>1, <1>2, <2>1, DeathEffect
<1>3. CASE handler' = h /\ streams' = strs /\ UNCHANGED <<up, crashes>>
  <2>. HIDE DEF h
  <2>. QED
    BY <1>1, <1>3 DEF ComesToEnd, OthersSame, Suspended
<1>. QED
  BY <1>2, <1>3 DEF Throw

\* The arrival of a transaction has one of these effects.
LEMMA HandleEffect ==
  ASSUME IInv, NEW t \in Transfers, HandleServerEvent(t)
  PROVE  Effect(t)
<1>0. TypeOK /\ StreamOf[t] \in Streams
  BY DEF IInv
<1>. DEFINE a == [streams EXCEPT ![StreamOf[t]] = IF @ = "new" THEN "open" ELSE @]
<1>1. /\ up /\ handler[t] = "none" /\ UNCHANGED confirms
      /\ \/ Throw(t, a)
         \/ /\ handler' = [handler EXCEPT ![t] = "posting"]
            /\ streams' = a /\ UNCHANGED <<up, crashes>>
  BY DEF HandleServerEvent
<1>2. /\ a \in [Streams -> StreamStates]
      /\ a[StreamOf[t]] = IF streams[StreamOf[t]] = "new" THEN "open" ELSE streams[StreamOf[t]]
      /\ \A s \in Streams \ {StreamOf[t]} : a[s] = streams[s]
  BY <1>0 DEF TypeOK, StreamStates
<1>. HIDE DEF a
<1>3. CASE Throw(t, a)
  BY <1>1, <1>2, <1>3, ThrowEnds DEF Effect
<1>4. CASE /\ handler' = [handler EXCEPT ![t] = "posting"]
           /\ streams' = a /\ UNCHANGED <<up, crashes>>
  BY <1>0, <1>1, <1>2, <1>4 DEF Effect, GoesOn, OthersSame, TypeOK, Suspended
<1>. QED
  BY <1>1, <1>3, <1>4

\* So has every later step of its call, and of the Bridge for it, and those that have
\* more than none are of a call that has begun.
LEMMA LaterEffect ==
  ASSUME IInv, NEW t \in Transfers, LaterStep(t)
  PROVE  Effect(t) /\ (Quiet \/ handler[t] # "none")
<1>0. TypeOK /\ Causality /\ StreamOf[t] \in Streams
  BY DEF IInv
<1>1. CASE PermissionRequestOk(t)
  <2>1. /\ up /\ up' = up /\ UNCHANGED <<streams, confirms, crashes>>
        /\ handler[t] = "posting" /\ handler' = [handler EXCEPT ![t] = "waiting"]
    BY <1>1 DEF PermissionRequestOk
  <2>2. streams[StreamOf[t]] # "new"
    BY <1>0, <2>1 DEF Causality
  <2>. QED
    BY <1>0, <2>1, <2>2 DEF Effect, GoesOn, OthersSame, TypeOK, Suspended
<1>2. CASE PermissionRequestFailed(t)
  <2>. DEFINE e == [streams EXCEPT ![StreamOf[t]] = IF @ = "open" THEN "ended" ELSE @]
  <2>1. /\ up /\ handler[t] = "posting" /\ UNCHANGED confirms
        /\ Throw(t, e)
    BY <1>2 DEF PermissionRequestFailed
  <2>2. /\ e \in [Streams -> StreamStates]
        /\ \/ streams[StreamOf[t]] = "open" /\ e[StreamOf[t]] = "ended"
           \/ streams[StreamOf[t]] # "open" /\ e[StreamOf[t]] = streams[StreamOf[t]]
        /\ \A s \in Streams \ {StreamOf[t]} : e[s] = streams[s]
    BY <1>0 DEF TypeOK, StreamStates
  <2>3. streams[StreamOf[t]] # "new"
    BY <1>0, <2>1 DEF Causality
  <2>. HIDE DEF e
  <2>. QED
    BY <2>1, <2>2, <2>3, ThrowEnds DEF Effect
<1>3. CASE PostPermission(t)
  <2>1. UNCHANGED <<up, streams, crashes>> /\ ResolvePermission(t, bridge[t])
    BY <1>3 DEF PostPermission
  <2>2. CASE t \notin resolvers
    BY <2>1, <2>2 DEF ResolvePermission, Quiet, Effect
  <2>3. CASE t \in resolvers
    <3>1. /\ handler' = [handler EXCEPT ![t] = "done"]
          /\ confirms' = [confirms EXCEPT ![t] =
                 IF bridge[t] = "accepted" /\ streams[StreamOf[t]] = "open" THEN @ + 1 ELSE @]
      BY <2>1, <2>3 DEF ResolvePermission
    <3>2. handler[t] = "waiting"
      BY <2>3 DEF IInv, ResolversAreWaiting
    <3>3. up /\ streams[StreamOf[t]] # "new"
      BY <1>0, <3>2 DEF Causality, Suspended
    <3>4. confirms[t] = 0
      BY <3>2 DEF IInv, ConfirmOnlyAccepted
    <3>5. handler'[t] = "done" /\ OthersSame(t)
      BY <1>0, <3>1 DEF TypeOK, OthersSame
    <3>6. \/ confirms'[t] = confirms[t]
          \/ confirms'[t] = 1 /\ streams[StreamOf[t]] = "open"
      BY <1>0, <3>1, <3>4 DEF TypeOK
    <3>. QED
      BY <2>1, <3>2, <3>3, <3>4, <3>5, <3>6 DEF Effect, ComesToEnd, Suspended
  <2>. QED
    BY <2>2, <2>3
<1>4. CASE TxidPosted(t) \/ TxidFailed(t) \/ BridgeRecords(t) \/ BeneficiaryDecides(t)
           \/ CallbackUnanswered(t)
  BY <1>4 DEF TxidPosted, TxidFailed, BridgeRecords, BeneficiaryDecides, CallbackUnanswered, Quiet, Effect
<1>. QED
  BY <1>1, <1>2, <1>3, <1>4 DEF LaterStep

LEMMA CrashEffect == IInv /\ Crash => Dies({}) /\ crashes < MaxCrashes /\ crashes' = crashes + 1
<1>. SUFFICES ASSUME IInv, Crash PROVE Dies({}) /\ crashes < MaxCrashes /\ crashes' = crashes + 1
  OBVIOUS
<1>1. /\ up /\ Die(handler, streams) /\ UNCHANGED confirms
      /\ crashes < MaxCrashes /\ crashes' = crashes + 1
  BY DEF Crash, Die
<1>2. handler \in [Transfers -> HandlerStates] /\ streams \in [Streams -> StreamStates]
  BY DEF IInv, TypeOK
<1>. QED
  BY <1>1, <1>2, DeathEffect DEF IInv
===========================================================================
