CONSTANTS
    Directories <- MCDirectories
    PeerKeys <- MCPeerKeys
    Endpoints = {"one", "another"}
    Faults = {"portTaken", "serveFails", "badFiles", "bridgeDown", "killed"}
SPECIFICATION FairSpec
INVARIANT StartupTypeOK
INVARIANT IdentityComesBack
INVARIANT RegisteredFirst
PROPERTY StartSettles
PROPERTY GatewaySettles
