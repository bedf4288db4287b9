SPECIFICATION Spec
CONSTANTS
    AfSetting = "prefer6"
    Families = {"inet", "inet6"}
    PathMtus <- MCPathMtus
    PskMax = 32
    DtlsOverhead = 21
    Bindings = {"posix", "minimal", "dtls", "non_ip"}
    Psks <- MCPsks
    Ports = {5684, 65536}
    Datagrams <- MCDatagrams
    BufferSize = 1200
    MsgLength = 3
    MaxSockets = 2
INVARIANTS
    TransportInOrder
PROPERTIES
    ContractKept
    MessageWhole
    ComesUpAgain
