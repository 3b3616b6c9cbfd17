SPECIFICATION Spec
CONSTANTS
    MachineOrder = "Little"
    Endian = "Little"
    PeerEndian = "Machine"
    Capacity = 4
    MaxFields = 4
INVARIANTS SocketInv NothingLost
