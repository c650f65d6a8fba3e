------------------------------ MODULE Startup ------------------------------
(***************************************************************************)
(* The two programs of the demo start from one configuration file: the     *)
(* TRISA VASP's server command, whose main goroutine waits for the first   *)
(* error of its two listener goroutines, and the Sygna Gateway, whose main *)
(* function awaits its Bridge, then starts a gRPC and a REST server.  The  *)
(* command's config generate writes over that file.                        *)
(***************************************************************************)
EXTENDS Naturals

CONSTANTS
    Directories,   \* what an operator may fill in as the TRISA VASP's directory
    Endpoints,     \* and as the gateway's endpoint
    Faults         \* what may go wrong, see AllFaults

AllFaults == {
    "portTaken",    \* another process has a port a server wants
    "serveFails",   \* a server that listens may stop with an error
    "badFiles",     \* a certificate, key or trust chain is missing or malformed
    "bridgeDown",   \* the Bridge may not answer
    "killed"}       \* either process may be killed

NoEndpoint == "none"

ASSUME StartupAssumption ==
    /\ Directories # {} /\ Endpoints # {} /\ NoEndpoint \notin Endpoints
    /\ Faults \subseteq AllFaults

VARIABLES
    file,         \* the configuration file: what wrote it, its directory and endpoint
    main,         \* runServerCmd
    loaded,       \* the directory it loaded
    admin,        \* its goroutine of the admin server
    grpc,         \* its goroutine of the gRPC server
    errs,         \* errors in the channel of the two
    node,         \* the gateway's main function
    nodeGrpc,     \* its gRPC server
    nodeRest,     \* its REST server
    endpoint,     \* the endpoint it loaded
    registered    \* the endpoint the Bridge has for it

trisaVars   == <<main, loaded, admin, grpc, errs>>
gatewayVars == <<node, nodeGrpc, nodeRest, endpoint, registered>>
startupVars == <<file, trisaVars, gatewayVars>>

FileKinds == {"none", "filled", "truncated", "generated"}
Ended     == {"off", "fatal", "panicked"}

File(kinds) == [kind : kinds, directory : Directories, endpoint : Endpoints]

StartupTypeOK ==
    /\ file \in File(FileKinds)
    /\ main \in Ended \cup {"waiting"}
    /\ loaded \in Directories
    /\ admin \in {"off", "starting", "listening", "failed"}
    /\ grpc \in {"off", "starting", "listening", "nil", "failed"}
    /\ errs \in 0..2      \* the capacity of the channel: no goroutine blocks on it
    /\ node \in {"off", "trust", "context", "credentials", "servers"}
    /\ nodeGrpc \in {"off", "binding", "listening", "failed"}
    /\ nodeRest \in {"off", "binding", "listening"}
    /\ endpoint \in Endpoints
    /\ registered \in Endpoints \cup {NoEndpoint}

StartupInit ==
    /\ file \in File({"none", "filled"})
    /\ main = "off" /\ admin = "off" /\ grpc = "off" /\ errs = 0
    /\ loaded = file.directory
    /\ node = "off" /\ nodeGrpc = "off" /\ nodeRest = "off"
    /\ endpoint = file.endpoint
    /\ registered = NoEndpoint

---------------------------------------------------------------------------
\* The operator copies the template and fills it in.
OperatorWrites ==
    /\ file' \in File({"filled"})
    /\ UNCHANGED <<trisaVars, gatewayVars>>

\* config generate: Save truncates the file, and then writes a configuration
\* that has neither the "trisa" wrapper nor an identity or a gateway.
SaveTruncates ==
    /\ file.kind # "truncated"
    /\ file' = [file EXCEPT !.kind = "truncated"]
    /\ UNCHANGED <<trisaVars, gatewayVars>>

SaveWrites ==
    /\ file.kind = "truncated"
    /\ file' = [file EXCEPT !.kind = "generated"]
    /\ UNCHANGED <<trisaVars, gatewayVars>>

---------------------------------------------------------------------------
\* The command's process ends, its goroutines with it.
Exit(how) ==
    /\ main' = how
    /\ admin' = "off"
    /\ grpc' = "off"
    /\ errs' = 0
    /\ UNCHANGED <<file, loaded, gatewayVars>>

\* runServerCmd up to its go statements.
StartOk ==
    /\ main \in Ended
    /\ file.kind = "filled"
    /\ main' = "waiting"
    /\ admin' = "starting"
    /\ grpc' = "starting"
    /\ loaded' = file.directory
    /\ UNCHANGED <<file, errs, gatewayVars>>

\* It fails: on a file it cannot read or parse FromFile returns an error; of a
\* generated one it returns nil, which main dereferences.
StartFails ==
    /\ main \in Ended
    /\ \/ file.kind \in {"none", "truncated"} /\ Exit("fatal")
       \/ file.kind = "generated" /\ Exit("panicked")

\* A certificate or key that does not load is fatal; a malformed certificate in
\* the trust chain, which the provider parses only for its pool, panics.
FilesFail ==
    /\ main \in Ended
    /\ file.kind = "filled"
    /\ "badFiles" \in Faults
    /\ \E how \in {"fatal", "panicked"} : Exit(how)

AdminListens ==
    /\ admin = "starting"
    /\ admin' = "listening"
    /\ UNCHANGED <<file, main, loaded, grpc, errs, gatewayVars>>

\* Mutant: the error stays in the goroutine.
AdminFailsSilently ==
    /\ admin = "starting" /\ "portTaken" \in Faults
    /\ admin' = "failed"
    /\ UNCHANGED <<file, main, loaded, grpc, errs, gatewayVars>>

\* ListenAndServeTLS returns its error into the channel.
AdminFails ==
    /\ \/ admin = "starting" /\ "portTaken" \in Faults
       \/ admin = "listening" /\ "serveFails" \in Faults
    /\ admin' = "failed"
    /\ errs' = errs + 1
    /\ UNCHANGED <<file, main, loaded, grpc, gatewayVars>>

GrpcListens ==
    /\ grpc = "starting"
    /\ grpc' = "listening"
    /\ UNCHANGED <<file, main, loaded, admin, errs, gatewayVars>>

\* Listen's error is sent, and the goroutine goes on without a listener.
GrpcListenFails ==
    /\ grpc = "starting"
    /\ "portTaken" \in Faults
    /\ grpc' = "nil"
    /\ errs' = errs + 1
    /\ UNCHANGED <<file, main, loaded, admin, gatewayVars>>

\* Mutant: it reports the failure again and again instead.
GrpcRetries ==
    /\ grpc = "nil"
    /\ errs' = errs + 1
    /\ UNCHANGED <<file, main, loaded, admin, grpc, gatewayVars>>

GrpcServesNil == grpc = "nil" /\ Exit("panicked")

GrpcServeFails ==
    /\ grpc = "listening"
    /\ "serveFails" \in Faults
    /\ grpc' = "failed"
    /\ errs' = errs + 1
    /\ UNCHANGED <<file, main, loaded, admin, gatewayVars>>

\* log.Fatalf("terminated %v", <-errs)
Terminated == errs > 0 /\ Exit("fatal")

Killed == "killed" \in Faults /\ main = "waiting" /\ Exit("off")

---------------------------------------------------------------------------
\* The gateway's process ends.  A rejection in its main function leaves nothing
\* that would keep it alive; an error of the REST server is not caught.
NodeExit ==
    /\ node' = "off"
    /\ nodeGrpc' = "off"
    /\ nodeRest' = "off"
    /\ UNCHANGED <<file, trisaVars>>

\* config.ts reads the file, and throws on one that is not an operator's.
NodeStarts ==
    /\ node = "off"
    /\ file.kind = "filled"
    /\ node' = "trust"
    /\ endpoint' = file.endpoint
    /\ UNCHANGED <<file, trisaVars, nodeGrpc, nodeRest, registered>>

\* loadTrustChain, and later loadServerCredential, before both servers start.
NodeLoads ==
    /\ \/ /\ node = "trust"
          /\ node' = "context"
          /\ UNCHANGED <<nodeGrpc, nodeRest>>
       \/ /\ node = "credentials"
          /\ node' = "servers"
          /\ nodeGrpc' = "binding"
          /\ nodeRest' = "binding"
    /\ UNCHANGED <<file, trisaVars, endpoint, registered>>

\* Mutant: the rejection is caught and logged.
NodeLoadFailsQuietly ==
    /\ "badFiles" \in Faults
    /\ node \in {"trust", "credentials"}
    /\ node' = "servers"
    /\ UNCHANGED <<file, trisaVars, nodeGrpc, nodeRest, endpoint, registered>>

NodeLoadFails ==
    /\ "badFiles" \in Faults
    /\ node \in {"trust", "credentials"}
    /\ NodeExit
    /\ UNCHANGED <<endpoint, registered>>

\* Mutant: the main function does not await the registration.
RegistersLater ==
    /\ node = "context"
    /\ node' = "credentials"
    /\ UNCHANGED <<file, trisaVars, nodeGrpc, nodeRest, endpoint, registered>>

\* initializeContext posts the callback URLs to the Bridge.
Registers ==
    /\ node = "context"
    /\ node' = "credentials"
    /\ registered' = endpoint
    /\ UNCHANGED <<file, trisaVars, nodeGrpc, nodeRest, endpoint>>

\* The post fails, before or after the Bridge took it; what it had before stays.
RegisterFails ==
    /\ "bridgeDown" \in Faults
    /\ node = "context"
    /\ registered' \in {registered, endpoint}
    /\ NodeExit
    /\ UNCHANGED endpoint

\* bindAsync's callback starts the gRPC server, or only logs the error.
NodeBinds ==
    /\ nodeGrpc = "binding"
    /\ nodeGrpc' \in {"listening"} \cup (IF "portTaken" \in Faults THEN {"failed"} ELSE {})
    /\ UNCHANGED <<file, trisaVars, node, nodeRest, endpoint, registered>>

NodeListens ==
    /\ nodeRest = "binding"
    /\ nodeRest' = "listening"
    /\ UNCHANGED <<file, trisaVars, node, nodeGrpc, endpoint, registered>>

NodeListenFails ==
    /\ nodeRest = "binding"
    /\ "portTaken" \in Faults
    /\ NodeExit
    /\ UNCHANGED <<endpoint, registered>>

NodeKilled ==
    /\ "killed" \in Faults
    /\ node # "off"
    /\ NodeExit
    /\ UNCHANGED <<endpoint, registered>>

---------------------------------------------------------------------------
Goroutines == AdminListens \/ AdminFails \/ GrpcListens \/ GrpcListenFails
              \/ GrpcServesNil \/ GrpcServeFails \/ Terminated

NodeLoop == NodeLoads \/ NodeLoadFails \/ Registers \/ RegisterFails \/ NodeBinds
            \/ NodeListens \/ NodeListenFails

StartupNext ==
    \/ OperatorWrites \/ SaveTruncates \/ SaveWrites
    \/ StartOk \/ StartFails \/ FilesFail \/ Goroutines \/ Killed
    \/ NodeStarts \/ NodeLoop \/ NodeKilled

\* Steps that a runnable goroutine or a completed operation of Node takes.  A
\* server that listens need not ever fail.
TrisaSettles == \/ admin = "starting" /\ (AdminListens \/ AdminFails)
                \/ GrpcListens \/ GrpcListenFails \/ GrpcServesNil \/ Terminated

---------------------------------------------------------------------------
\* A command that starts either serves on both of its ports or ends: no failure of
\* one listener leaves it half up, although one goroutine goes on to serve without a
\* listener (server.go:206-232 in cmd/trisa).
StartSettles == main = "waiting" ~>
    main \in Ended \/ (admin = "listening" /\ grpc = "listening")

\* A gateway that starts ends, or listens for callbacks; it may do so without its
\* gRPC server, whose bind error is only logged (index.ts:7-11, grpc.ts:24).
GatewaySettles == node # "off" ~>
    node = "off" \/ (nodeRest = "listening" /\ nodeGrpc \in {"listening", "failed"})

\* A server of the gateway listens only when the Bridge has the endpoint this start
\* loaded: not one of an earlier start with another file, and not none, whatever
\* failed and was posted in between (index.ts:8-10, initialize-context.ts:9-17).  The
\* URLs registered are those of calls from the Sygna network; the permission callback
\* of an outbound transaction names its URL in the request (tx-transformer.ts:110-113).
RegisteredFirst ==
    nodeGrpc = "listening" \/ nodeRest = "listening" => registered = endpoint
===========================================================================
