SPECIFICATION Spec
CONSTANTS
    IdLengthBuff = 5
    MaxDepth = 3
    AuxBuff = 24
    AuxOut = 9
    Case = "all"
    Payloads <- MCPayloads
    ResourceType <- MCResourceType
    BlockSizes = {1, 2, 3, 5}
    EmptyLast = {"tlv", "opaque"}
INVARIANTS
    DeliveredAsSent
    ReadToItsEnd
PROPERTIES
    LoopEnds
