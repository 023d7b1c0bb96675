\* Two clients, three kinds of transfer: safety and refinement of SerialBus.
SPECIFICATION FairSpec
CONSTANTS
    Clients = {c1, c2}
    NoClient = NoClient
    Requests <- MCRequests
    Width = 4
INVARIANTS
    TypeOK
    ByteInBuffer
    NoReset
PROPERTY BusRefined
