CONSTANTS
    NBlocks = 2
    NChunks = 2
    Uris = {u1, u2}
    Versions = {v1, v2}
    MaxRetransmit = 1
    AckSent = {"ok", "inprogress", "error"}
    RngResults = {TRUE, FALSE}
    OpenResults = {TRUE, FALSE}
SPECIFICATION Spec
INVARIANTS
    PulledWhole
    PartiesInStep
PROPERTIES
    DownloadEnds
