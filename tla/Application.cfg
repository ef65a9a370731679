SPECIFICATION Spec
CONSTANTS
    Clients <- MCClients
    c1 = c1
    c2 = c2
    c3 = c3
    Port = Port
    MaxChannels = 3
    Absent = Absent
    Failed = Failed
INVARIANTS Serviceable CapabilitiesExact
PROPERTY ChannelsKept
