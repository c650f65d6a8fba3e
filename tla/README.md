# Verification of the Sygna Bridge / TRISA interoperability PoC

This directory holds a TLA+ model of the program in `src/`: two programs that
let a VASP of the TRISA network and a VASP of the Sygna network ask each other
for permission before a crypto-currency transfer. TLC checks the model on small
instances; TLAPS proves every safety and action property of them, and both
refinements, for all values of the constants. Paths below are relative to `src/packages/`; *gateway* stands
for `sygna-gateway/src/`, *vasp* for `trisa-vasp/`.

## 1. The system

```
 /send         TRISA VASP          gRPC streams         Sygna Gateway        HTTPS       Sygna Bridge
 -----> Server.SendRequest  --- Transaction --->  handleServerEvent --- permission-request --->   |
        (Go, vasp)          <-- confirmation ---  resolvePermission <-- permission callback ---   |
                                                  (TypeScript, gateway) --- txid ------------->   |
        TransactionStream   <-- Transaction ----  sendClientEvent   <-- permission-request ----   |
        (Go, vasp)          --- answer -------->                    --- permission ----------->   |
```

Two flows cross the gateway. *Outbound* (TRISA to Sygna): a TRISA VASP sends a
`Transaction` on a stream, the gateway posts a permission request, the Bridge
later calls back with the beneficiary's decision, and the gateway writes a
confirmation to the stream and posts a transaction id. *Inbound* (Sygna to
TRISA): the Bridge calls the gateway, the gateway forwards the transaction to
the TRISA VASP on a cached stream, waits for an answer and posts ACCEPTED.

### Components

| component | state it keeps | operations | what makes it correct |
|---|---|---|---|
| gateway, outbound: `lib/connection-manager.ts:58-101`, `routes/post-permission.ts`, `server/grpc.ts` | `permissionResolveMap` (transfer id to resolve function), suspended calls, gRPC streams; memory only | `handleServerEvent`, `resolvePermission`, `POST /transaction/permission`, stream `data` and `end` | a confirmation only for an accepted transfer and once; every suspended call has its resolver and no resolver outlives its call; a call is released by its own callback only |
| gateway, inbound: `connection-manager.ts:40-56, 103-134`, `routes/post-permission-request.ts` | `connectionMap` (endpoint to client and stream), `once("data")` listeners | `getClient`, `sendClientEvent`, `POST /transaction/permission-request` | ACCEPTED only for a transfer the TRISA VASP answered; no call waits for an answer that already went by; forwarding reaches a VASP that is up |
| gateway, servers and start-up: `index.ts`, `server/*.ts`, `lib/initialize-context.ts`, `config.ts` | which servers listen; the Bridge keeps the callback URLs of the Sygna network's calls | read the configuration and trust chain, register the callback URLs, start gRPC, then REST | the Bridge has the endpoint of this start before it serves; a start ends or serves |
| gateway, translation: `lib/tx-transformer.ts`, `lib/utils.ts` | none | `sygnaTxToTrisa`, `trisaTxToSygna`, AES-GCM, HMAC | each program opens what the other sealed, and nothing that was not sealed under the key it carries |
| gateway, txid and validate-address routes | none | answer 200 / a signed refusal | stateless |
| vasp, client side: `pkg/trisa/server/server.go:24-127` | `Server.streams` (target to stream), without a lock | `SendRequest`, `getClient` | success only for the answer to one's own request; no answer is left for a later call; calls end |
| vasp, server side: `server.go:129-208`, `pkg/trisa/handler/` | none but the stream | `TransactionStream`, `handle`, `HandleRequest` | answers in order; one answer per request it can handle |
| vasp, envelope: `pkg/trisa/protocol`, `pkg/trisa/crypto/aesgcm` | none | `EncodeTransactionData`, `DecodeTransaction`, `Encrypt`, `Decrypt` | as for the gateway's translation |
| vasp, command and configuration: `cmd/trisa`, `pkg/trisa/config` | error channel, loaded configuration, the file | `/send`, `/connect`, listeners, `config generate` | a listener's error ends the process; a start ends or serves |
| vasp, identities: `pkg/trisa/handler/demo.go`, the examples of `/send` | none but the directory loaded at the start | encrypt for a VASP code, decrypt, encrypt the answer for the originator | an identity comes back just when the directories are right |
| vasp, trust provider, CA and RSA helpers | none | wrappers of Go's libraries | not protocol logic |

### What is hard here

* **Interleaving.** Node runs one event at a time, but everything around an
  `await` interleaves; Go's `/send` handlers are goroutines that share a map and
  a stream. All waiting inbound calls listen on one stream.
* **Ordering.** The permission callback can arrive before the answer to the
  request it belongs to; several answers are under way on one stream.
* **Failure.** Posts may fail before or after the Bridge recorded them; a failed
  one ends a stream other transfers wait on; processes die and lose their maps;
  a cached stream breaks; a request that cannot be handled ends the peer's stream.
  A start may fail at any of its awaits, one of two listeners may fail alone, and
  `config generate` rewrites the file both programs start from while they start.
* **Delivery and timeouts.** The Bridge may repeat callbacks. No wait in either
  program has a timeout, and retries have no bound.

`PROJECT.json` lists these hazards at their lines, with the properties that
would be violated if one went wrong. Four have none, and say why: the file a
program finds half written, a gRPC port that cannot be bound, the file `config generate`
writes, and an identity of another type than the gateway expects.

## 2. The modules

| module | what it is | code |
|---|---|---|
| `Permission` | abstract specification of a permission exchange: request, one decision, at most one confirmation of an acceptance | the promise both flows make |
| `Outbound` | TRISA to Sygna through the gateway | `connection-manager.ts`, `post-permission.ts`, `grpc.ts`, `rest.ts`, `index.ts` |
| `Inbound` | Sygna to TRISA through the gateway, with the VASP's `TransactionStream` | `connection-manager.ts`, `post-permission-request.ts`, `server.go` |
| `TrisaServer` | concurrent calls of `SendRequest` in the TRISA VASP | `server.go`, `demo.go` |
| `Interop` | `TrisaServer` and `Outbound` composed: `/send` through the gateway to the Bridge | the streams between the two |
| `Startup` | both programs starting from one configuration file | `cmd/server.go`, `cmd/config.go`, `config.go`, `index.ts`, `grpc.ts`, `rest.ts`, `config.ts` |
| `Identity` | what becomes of an identity `/send` encrypts, on top of `Startup` | `cmd/server.go`, `demo.go`, `context.go` |
| `Envelope` | sealing and opening a transaction in both programs | `aesgcm.go`, `protocol.go`, `utils.ts`, `tx-transformer.ts` |
| `MCOutbound`, `MCInbound`, `MCTrisaServer`, `MCInterop`, `MCIdentity`, `MCEnvelope` | instances of the above for TLC | |
| `OutboundProofs`, `InboundProofs`, `TrisaServerProofs`, `EnvelopeProofs`, `InteropProofs` | theorems about the module each is named after | |
| `IdentityProofs` | theorems about `Startup` and `Identity` | |
| `QueueLemmas` | what `Append`, `Tail`, `SubSeq` and `RemoveAt` do to what a queue holds, and that they keep it free of duplicates | |

Operators that start with "Mutant:" in their comment are plausible mistakes in
the definition they precede. They are not part of any specification: each shows
that a property notices when the code is wrong.

### Outbound

A `Transfer` is one `data` event with the call of `handleServerEvent` it starts
and the `transfer_id` the Bridge issues for it. The code between two awaits is
one action, because Node runs it without interruption:

| action | code |
|---|---|
| `HandleServerEvent` | the event up to `await axios.post` (69-80); `trisaTxToSygna` may throw |
| `PermissionRequestOk` | the answer arrives, the resolver is registered, the call waits (89-94) |
| `PermissionRequestFailed` | `stream.end()` and rethrow (83-87), whether or not the Bridge recorded the request |
| `PostPermission` | the whole route up to its await: `ResolvePermission`, what the resolved call does before any other event (96-100), and starting the txid post |
| `TxidPosted`, `TxidFailed` | the rest of the route |
| `StreamEnds`, `Crash`, `Restart` | `grpc.ts:18-21`, the process, `index.ts` |
| `BridgeRecords`, `BeneficiaryDecides`, `CallbackUnanswered` | the Bridge (external) |

`up`, `streams`, `handler`, `resolvers` and `txidPosts` are the gateway's
state; `bridge`, `calls` and `txids` the Bridge's; `confirms` counts what was
written to an open stream. `Faults` selects what may go wrong, so that a property
can be stated under exactly the faults it survives. An unhandled rejection ends
the process from Node 15 on and is a warning before, and `Dockerfile.gateway:13` pins no
version (`node:alpine`, so fatal today). With `fatalRejection` among the faults `Throw`
may end the process or leave it running, so a run explores both; without it the
process goes on. Every end of the process is counted in `crashes`.

The gateway's REST API listens as soon as its gRPC server does here: `app.listen` is called
in the event that follows the binding, and a transaction posted to the Bridge
before that takes at least a round trip to be called back. `Startup` has the two apart.

### Inbound

A `Call` is one callback of the Bridge; `IdOf` says which transfer it is about,
so a repeated callback is another call with the same id. `conn` is the cache
entry for the PoC's one TRISA endpoint with its stream, which is never replaced while the
process lives. `SendClientEvent` is `sendClientEvent` up to its await; `Data` is
one `data` event, which fires and removes every `once` listener; `VaspAnswers`
and `VaspAborts` are `TransactionStream`, including the nil answer to a refused
request, which gRPC refuses to marshal and ends the stream over. `sent`,
`answered` and `resolvedBy` are history.

### TrisaServer

Each call runs `Lookup`, `DialOk`/`DialFails`, `SendOk`/`SendFails`,
`RecvOk`/`RecvFails`, one action per access of the shared map or stream. A
stream is live, broken (the peer is gone, the caller has not noticed) or dead.
Unsynchronised map accesses and overlapping `Recv` calls are undefined
behaviour: `MapRace` is the Go runtime's fatal error, `RecvGarbled` a
message lost between two readers, and a benign outcome is the absence of both.
What identity an answer carries is left out: an answer is the call it is for.
The peer answers in order as `TransactionStream` does, or in any order or not at
all as the gateway does.

### Envelope

A blob is a sequence of symbolic bytes, each naming what it was made from, so
that cutting, joining and exchanging bytes is modelled exactly and cryptography
is perfect. `GoOpen` cuts from the front by computed length, `TsOpen` from the
end with clamped slices. The key, and `hmac_secret`, which neither program reads, travel as they are, so
what arrives may be anything that someone who read them can make: `Damaged` cuts a run of bytes
out of the blob or doubles it, replaces a byte, exchanges the key, the secret or the key of the HMAC,
each also with the HMAC recomputed (`Rehashed`), or seals another transaction under the
key. The Go decoder panics on a blob shorter than the nonce; Node's `setAuthTag` is given no
length to insist on and takes the lengths in `ShortTags` too. A cut tag leaves no cipher text before it,
so Node can open such a blob to the empty text only.

### Interop

`G` is an instance of `Outbound` and `V` one of `TrisaServer`. A transfer of `G`
is a pair of a call and a stream, because a retry of `/send` sends the same
request on another stream, where the gateway sees a new `data` event. The two
share the gateway's process (`peerUp <- up`) and the streams. A step of the
gateway is a step of `G` that `Wire` carries over to the VASP's side: requests are taken in
the order of the stream (`Arrives`), a confirmation written is an answer on it, a call that
returns without one is withheld (`Pending` and `Answered` are what `Wire` leaves of
the requests and answers of a stream), an ended stream is broken once its answers
are read, and a crash breaks every stream and cuts off answers under way.
A request under way when the gateway ends its side may still come
(`ArrivesLate`). `TrisaServer`'s own actions of its peer do not occur in `Next`:
they are an assumption, and `PeerAssumption` checks that every step of the
composition is one `TrisaServer` allows. So
the safety properties of `TrisaServer` with its freest peer hold with this gateway.
`CallStep` opens at most `MaxStreams` streams, the transfers `G` is an instance for.

Left out here, and covered by the parts' own runs: streams the client ends, early
callbacks, repeated callbacks and the data races of
the map. They multiply the states without adding a way for the two parts to meet.

### Startup

`file` is the `config.json` that the demo's compose file hands to both
programs: absent, filled in by the operator, truncated (`WriteFile`
between its two steps), or generated, which `FromFile` turns into a nil
configuration because it expects a `trisa` wrapper. `StartOk` and `StartFails` are `runServerCmd` up to its
`go` statements; `admin` and `grpc` are the two goroutines and `errs` the
channel `main` receives from once. `GrpcListenFails` leaves a goroutine that
serves on a nil listener (`GrpcServesNil`, a panic), which races with
`Terminated`. `file` has the gateway's endpoint too; the gateway loads it when it starts
(`endpoint`), and the Bridge keeps the last one it was given (`registered`) through failed and
killed starts and a changed file. The URLs registered are those of the Sygna network's calls; the permission callback
of an outbound transaction names its URL in the request itself. On the gateway's side `node` is the await its main
function has reached: the trust chain, the registration, the credentials, the servers.

### Identity

One `/send` at a time, to another TRISA VASP or to the gateway, for either VASP
code: in the code they are independent parameters. A message is the example it is, the
key its identity is encrypted for, and the text. `Encrypt` and `Decrypt` have the
errors `demo.go` and the examples drop: without a key, or with a wrong one, the identity is
null. `HandleRequest` decrypts and encrypts again for the originator with the
peer's directory. The gateway's answer is the request itself, as
`connection-manager.ts:96-99` writes it, after it posted the identity to the Bridge
(`GatewayPosts`): as `private_info` goes the third field of whatever identity it is, because
`trisaTxToSygna` does not look at its type (`trisa` stands for both the `us` identity, where that
is the social security number, and the IVMS 101 examples). The peer VASP is always up: its own start is
the same as the sender's.

## 3. The runs

| run | bounds | shows |
|---|---|---|
| `outbound_faults` | 3 transfers on 2 streams, one malformed, 2 callbacks each, 1 end of the process, all faults | `ResolversAreWaiting`, `ConfirmOnlyAccepted`, `ReturnedIsConfirmed`, `ReleasedByOwnCallback` and the refinement `ImplementsSafety` survive every fault |
| `outbound_ordered` | 2 transfers, 2 callbacks, 1 end of the process (crash or rejection), failed posts, ended streams; no early callback | `AnsweredNeverWaits`: no call waits for a callback that already came; `CallsEnd`; `AcceptedConfirmed`: an acceptance reaches its TRISA VASP unless its stream or call was lost |
| `outbound_overtaken` | early callbacks | finding, violates `TxidMeansConfirm` |
| `inbound_faults` | 4 calls, one repeats another's callback, one untranslatable, up to 3 waiting, 1 end of each process, all faults | `ListenersAwait`, `AnswerOwed`, `NeverAhead`, `AwaitEnds` |
| `inbound_single` | 4 calls, one repeated, one foreign, 1 waiting at a time, VASP failures, failed posts, rejections, 1 end of each process | `PermitOnlyAnswered` and the refinement `ImplementsSafety` hold for one call at a time |
| `inbound_shared` | 2 calls waiting together, no faults | finding, violates `PermitOnlyAnswered` |
| `inbound_stale` | 2 calls, the VASP may go down once | finding, violates `ForwardedWhenUp` |
| `trisa_shared` | 3 calls, 1 peer crash, all faults and races | `NoOrphanAnswer`, `OwnAnswerUnlessShared`, `CallsEnd` |
| `interop` | 2 concurrent calls, up to 4 streams, 1 callback, failing posts, 1 end of the gateway, by a crash or a rejection | `DotsAreAcceptances`: no acceptance gives two dots, and no dot comes without one; `OwnDotUnlessShared`: the dot of a call that shared no stream is for its own transfer; `CallsEndUnlessRefused`; `PeerAssumption` |
| `interop_dots` | 2 calls, 2 streams, no faults | finding, violates `DotMeansAccepted` |
| `demo` | 2 directories, 2 keys for the peer, 2 endpoints, all faults, any number of starts of both programs | `RegisteredFirst`, `StartSettles`, `GatewaySettles`, `IdentityComesBack` |
| `envelope` | plain texts of 0 to 3 bytes, 2 keys, 2 nonces, a 3-byte tag that may be cut to 2, a 2-byte nonce | `RoundTrip`, `DecodersAgree`, `OpensOnlySealed` |

Each of the modules `Outbound`, `Inbound`, `TrisaServer`, `Envelope` and `Startup` has its type
invariant checked as well, that of `Startup` in `demo`; those of `Interop` and `Identity` are conjunctions with them, and proved.

**Why these bounds are enough.** Transfers interact only through their stream,
the resolver map and the process, so two transfers on one stream and one on
another show each way of interfering and of not interfering. Two callbacks
show a repetition; one crash shows a callback after a restart. In
`Inbound` three waiting calls let an answer wake a call before, at and
after its own position. In `TrisaServer` three calls allow two to overlap while
a third comes later, and a stream to be replaced twice. In `Envelope` the
tag and the nonce have different lengths, and the plain texts are empty, shorter than, as
long as and longer than the nonce, so every cut falls into every part. Keys stand for those of 32 bytes
that both programs make; Go would take 16 and 24 as well.
In `Interop` two calls are enough to share and swap; with one end of the process and the
failed posts of two requests they dial at most four streams, so `MaxStreams`, a guard of `CallStep`, never
stops them (a call it stopped would hang and violate `CallsEndUnlessRefused`). `Startup` and `Identity` have no counter to bound: a
directory has the right key or one no longer in use, and the peer's has the originator's or none; keys are only
compared for equality, and the proofs allow any. The bounds (`MaxCallbacks`,
`MaxCrashes`, which counts every end of a process, `MaxAwaiting`) only cap the environment. Deadlock is
checked in `demo`, where a program can always be started again. Elsewhere it is
not: those instances stop when their transfers are used up, as the real system does.

**Fairness.** In `Outbound` the Bridge records, decides and calls back at least
once, posts complete, and Node's event loop runs a completed wait. In
`Inbound` what is on a stream is delivered and the VASP's loop answers what it
received. In `TrisaServer` runnable goroutines run, the transport notices a
broken connection, and the peer gets round to every request, to answer or
withhold it. `Interop` has the fairness of its two parts. In `demo` every started goroutine
runs and every operation the gateway awaits ends, one way or the other;
a server that listens need never fail, so its failing is not part of `TrisaSettles`. No fairness is assumed of arrivals, faults, crashes, restarts or
repeated callbacks. Weak fairness suffices throughout: nothing these actions
wait for is taken away and given back again and again.
`CallsEnd` of `Outbound` rests on the Bridge's answer, because the code has no timeout.
The liveness properties exempt what does hang in this code and say so: a call whose answer is
withheld, refused or taken by another (`CallsEnd` of `TrisaServer`, `CallsEndUnlessRefused`), an inbound
call on a broken stream (`AwaitEnds`).

## 4. Findings

1. *A callback that overtakes the answer to its permission request is lost*
   (`outbound_overtaken`). `resolvePermission` finds no resolver, the route posts a
   transaction id all the same, and the call then waits for ever. The comment at
   `post-permission.ts:15` says "send transaction confirm to trisa vasp".
2. *One answer accepts all waiting transfers* (`inbound_shared`). Every waiting
   call listens with `once("data")` and compares no identifier, against
   `trisa.proto:14`, "Any response to a transaction request needs to carry the
   same identifier".
3. *A broken stream is used for ever* (`inbound_stale`). `getClient` returns the
   cached stream whatever its state; the route says "forward to trisa node"
   (`post-permission-request.ts:23`).
4. *A dot for a transfer that was not accepted* (`interop_dots`). Concurrent
   `/send` calls share a stream and take its next answer, whoever's it is
   (`pkg/trisa/server/server.go:113`). One prints its dot for the other's
   acceptance, although its own transfer is not accepted. `testnet.md:157` says the output is a dot "if
   everything went fine", `trisa.proto:14` as above.
   It takes a shared stream: `OwnDotUnlessShared` holds.

The documents also say four things that the code does otherwise and no run refutes;
the model does what the code does, and no property claims the contrary:

* *The file `config generate` writes starts neither program.* It lacks the `trisa` wrapper `FromFile`
  expects (`pkg/trisa/config/config.go:9-11, 51, 59`), so `c` is nil without an error and
  `cmd/server.go:55` dereferences it. `demo.md:145-147` says "This binary in
  combination with the generated config files will be used by the next step", and `hack/lib/demo.sh:47-63`
  generates `config.yaml` and starts three servers from it. `StartFails` and `NodeStarts` follow the code.
* *The key travels beside what it encrypts*, as `encryption_key` and again as `hmac_secret`
  (`protocol.go:36-44`, `tx-transformer.ts:54-61`). `trisa.proto:21-22` and `31-32` and
  `aesgcm.go:15-19` say that both are encrypted with the public key of the receiver. So an
  HMAC that fits says that blob and key belong together, and not who sealed them; `OpensOnlySealed` claims no more.
* *The gateway posts a plain-text field as `private_info`.* `trisaTxToSygna` parses whatever
  identity it is given as a sygna `Identity` (`tx-transformer.ts:79-82`), whose third field, `bytes
  encrypted_identity` (sygna `identity.proto:10`), it posts (line 90). The third field of a `us` identity, the default of `/send`,
  is the social security number. `trisa.proto:40` allows "any valid identity structure". `GatewayPosts` takes any.
* *The Go decoder panics on a short blob.* `aesgcm.go:61` takes the last 12 bytes of what
  may be 1 to 11 bytes long; `aesgcm.go:54` says "Decrypt validates mac and returns decoded
  data". `DecodersAgree` names the panic as the exception it is.

One more thing, which contradicts no document: a failed
permission request ends the stream that the VASP's other transfers wait on
(`connection-manager.ts:85`); `ReturnedIsConfirmed` and `AcceptedConfirmed` say
exactly what is lost then.

What holds in spite of them is worth as much: confirmations are never
invented or repeated, a waiting call is never released by another transfer's
callback, no inbound call waits for an answer that went by, and a mismatch of
answers never outlives the calls that overlapped; every dot stands for an
acceptance no other dot stands for.

## 5. What is proved

Every safety invariant and every action property a passing run checks is a
theorem, and so are both refinements of `Permission`. Each proof module assumes of the
constants what the `ASSUME` of the module it extends says, which are types: no
bound, no fixed number of transfers, calls or streams, and any set of faults unless
the theorem names those it excludes. Each has an inductive invariant `IInv`, the
three facts `Init => IInv`, `IInv /\ [Next]_vars => IInv'` and `IInv => property`, and in
the second a step per action, below lemmas that say once what a composite action does.
Every `IInv` was checked by TLC before it was proved.

### OutboundProofs

For any assignment of transfers to streams; neither set need be finite.

| theorem | statement |
|---|---|
| `TypeCorrect` | `Spec => []TypeOK` |
| `ResolverMapExact` | `Spec => []ResolversAreWaiting` |
| `ConfirmSound` | `Spec => []ConfirmOnlyAccepted` |
| `ConfirmComplete` | `Spec => []ReturnedIsConfirmed` |
| `NoLostCallback` | without early callbacks, `Spec => []AnsweredNeverWaits` |
| `CallsIsolated` | `Spec => ReleasedByOwnCallback` |
| `Refinement` | `Spec => ImplementsSafety` |

    IInv == TypeOK /\ ResolversAreWaiting /\ Causality /\ ConfirmOnlyAccepted /\ ReturnedIsConfirmed

None of the properties is inductive alone. `ConfirmOnlyAccepted` needs to know
that a call with a resolver has not confirmed yet, which is
`ResolversAreWaiting`; that in turn must survive a crash, so a suspended call
must imply a running process; `ReturnedIsConfirmed` needs a call in progress to
have an opened stream and a returned call to have a decision.
`Causality` gathers these facts about the order in which a transfer's call,
stream, record and callbacks come about. `OrderedStep` adds the conditional
property, `ReleaseStep` reads the action property off a step, and `ExchangeStep`
maps each step to `Request`, `Decide`, `Confirm` or a stutter of `Permission`.
`Effect` sums up what a step does that can be seen from outside the gateway: nothing, a
call goes on, comes to its end, or the process dies. `InteropProofs` uses it.

### InboundProofs

For any number of calls, waiting together or not, and any callbacks of one
transfer.

| theorem | statement |
|---|---|
| `TypeCorrect` | `Spec => []TypeOK` |
| `ListenersExact` | `Spec => []ListenersAwait` |
| `AnswerNeverMissed` | `Spec => []AnswerOwed` |
| `WokenInOrder` | `Spec => []NeverAhead` |
| `PermitSound` | with one call waiting at a time, `Spec => []PermitOnlyAnswered` |
| `Refinement` | with one call waiting at a time, `Spec => ImplementsSafety` |

    IInv == TypeOK /\ ListenersAwait /\ Streaming /\ AnswerOwed /\ Asleep /\ NeverAhead

`NeverAhead` speaks of answers that woke a call; to keep it one must know the one that
will be next. `Streaming` says that what the gateway reads next was sent no later than the request
of any call that waits: true because each answer wakes everyone, so whoever
waits has queued since. `Asleep` says that a waiting call has not been woken before. The last two theorems add
`Alone`: with `MaxAwaiting <= 1`, all that is under way is one request or one
answer, that of the waiting call. The hypothesis is what finding 2 shows to be needed.

### TrisaServerProofs

For any finite number of calls, any number of streams and crashes, data races
included.

| theorem | statement |
|---|---|
| `TypeCorrect` | `Spec => []TypeOK` |
| `NoOrphans` | `Spec => []NoOrphanAnswer` |
| `OwnAnswers` | `Spec => []OwnAnswerUnlessShared` |

    IInv == TypeOK /\ Holding /\ Ended /\ NoOrphanAnswer /\ Unshared /\ OwnAnswerUnlessShared

`NoOrphanAnswer` counts what a stream carries against the calls that wait on
it; a `Recv` that fails takes a call away from the count, which is safe because only a
dead, emptied stream makes it fail, and such a stream carries no request (`Ended`).
`OwnAnswerUnlessShared` is about calls that are done; `Unshared` is
its cause: a waiting call that shared with nobody is alone on its stream, with at most its
own request or answer there. That a call which sends later finds nothing left over is
`NoOrphanAnswer` with no call to count.

### EnvelopeProofs

For any keys, nonces and plain texts, any lengths of plain text, tag and nonce, any lengths a tag may be cut to,
and everything `Damaged` allows.

| theorem | statement |
|---|---|
| `TypeCorrect` | `Spec => []TypeOK` |
| `SealedOpens` | `Spec => []RoundTrip` |
| `SameOpening` | `Spec => []DecodersAgree` |
| `OnlySealedOpens` | `Spec => []OpensOnlySealed` |

    IInv == TypeOK /\ Travels /\ OpensWire

The work is in lemmas about the operators. `SameCuts`: the Go decoder's cut from the
front and the TypeScript decoder's clamped cut from the end give the same three parts of any blob
long enough, so that `LongAgree` has both programs open it alike, however its HMAC came about; `ShortRefused`: of a shorter one Go makes
nothing, by a panic if it is shorter than a nonce, and Node nothing or the empty text;
`OpenSealed`: what was sealed opens to its plain text; `OpenedIsSealed`: what the Go decoder opens has the blob
and the HMAC of a transaction sealed under its key, because the parts that decrypt determine key, nonce and
text and, put together again, are the blob. `Travels` says that what arrives is a transaction, whatever was
changed (`DamagedTyped`), and that what was sent was sealed; `OpensWire` that the programs open just what arrived.

### InteropProofs

For any finite number of calls, any number of streams, callbacks and crashes,
and any faults of the gateway; `Malformed` transactions included.

| theorem | statement |
|---|---|
| `TypeCorrect` | `Spec => []TypeOK` |
| `DotsSound` | `Spec => []DotsAreAcceptances` |
| `OwnDots` | `Spec => []OwnDotUnlessShared` |
| `GatewayIsPeer` | `Spec => PeerAssumption` |

    IInv == GP!IInv /\ VP!IInv /\ WireInv

The proof is made of those of the parts: `GP` and `VP` are instances of
`OutboundProofs` and `TrisaServerProofs`, whose `InvStep` applies once a step of the
composition is shown to be one of the part's (`GatewayInv`, `VaspInv`). `WireInv` says that
the two ideas of a stream agree: a stream the gateway ended is not live at the VASP;
a request under way is one its call waits for and the gateway has not returned
from; an answer under way is a confirmation written; a dot stands for a
confirmation that is under way no longer and for which no other dot stands. `GatewayAsPeer`
turns the effects `OutboundProofs` distinguishes into the actions of `TrisaServer`'s
peer. A process that ends on an unhandled
rejection is a crash like any other there, counted in `crashes` as `PeerCrash` counts it.

### IdentityProofs

For **any** set of faults, any endpoints and any directories, with whatever keys, wrong ones
included. The theorems are about `Identity`, which takes every step of `Startup`.

| theorem | statement |
|---|---|
| `TypeCorrect` | `Spec => []TypeOK` |
| `StartsTyped` | `Spec => []StartupTypeOK`; with it, `errs <= 2`, the channel's capacity |
| `RegistersBeforeServing` | `Spec => []RegisteredFirst` |
| `ComesBack` | `Spec => []IdentityComesBack` |

Here too the properties need help. `Order` says which awaits a listening server
has behind it, and that past the registration the Bridge has this start's endpoint, not an earlier one's; `Channel` that the channel holds exactly the errors of the
goroutines that failed, which alone bounds it; `Lifetime` that no call outlives the
process, so a restart that loads another directory meets no message sealed under
the old one; `Exchange` that a message is a request of `/send` or the peer's answer
to one. Their conjunction with `TypeOK` is inductive. `CommandStep`,
`GatewayStep` and `FileStep` preserve the part about the starts, action by action;
`CallAfterStep`, `SendStep` and `AnswerStep` carry it to the call.

### Only model-checked

The liveness properties (`CallsEnd`, `AcceptedConfirmed`, `AwaitEnds`,
`CallsEndUnlessRefused`, `StartSettles`, `GatewaySettles`), because
they rest on fairness and `ENABLED`, which are out of the prover's reach.

## 6. What is not modelled

* The fields of identities and Bridge messages, and their protobuf and JSON
  forms: `tx-transformer.ts` copies fields, and no property is about one. `Identity`
  has of an identity only who can read it and which type it is.
* Cryptographic strength, TLS and certificates: keys are names, and a certificate
  matters only in that a missing or malformed one ends a start.
* The `txid` and `validate-address` routes: stateless answers.
* `/` and `/connect` of the admin server: a fixed text, and a test that opens and
  closes a TLS connection; neither changes state.
* Logging, command-line flags, the CA and RSA helpers, generated code.
* More than one TRISA endpoint: the gateway of this PoC is configured with one.

## 7. Plan

Done: `Permission`, `Outbound`, `Inbound`, `TrisaServer`, `Envelope`, `Interop`,
`Startup` and `Identity`, each with its proofs. What could still be proved:

1. That each part's theorems about its own steps survive in `Interop`
   (`ReleasedByOwnCallback`, the refinement of `Permission` end to end: a dot
   as the abstract confirmation).
2. Action properties from which the liveness properties follow by fairness alone, such
   as that a step that is owed to a waiting call stays enabled until it is taken.

## 8. Running it

    tlc -workers 2 -config MCOutbound_faults.cfg MCOutbound
    tlapm OutboundProofs.tla        # and InboundProofs, TrisaServerProofs, EnvelopeProofs,
                                    # InteropProofs, IdentityProofs, QueueLemmas

Every run finishes within three minutes; `InteropProofs` takes about six, the other
proofs two or less.
