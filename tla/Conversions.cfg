SPECIFICATION MCSpec
CONSTANTS
    NoValue = NoValue
    NoText = ""
    Null = Null
    ZeroAddress = "0x0"
    Register = {"4", "11"}
    Value = {"x", "y", "z"}
    Alternatives <- ValueLists
    Service = {"rbuilder", "ip", "IP"}
    Text = {"", "10.0.0.1", "b", "b.net", "cert", "0x0", "addr", "eu"}
    PeerLists <- SmallPeerLists
    Fold <- FoldKey
    Index <- IndexPart
    ReadBack <- BetweenQuotes
    Unreadable = Unreadable
INVARIANTS
    MatchIsSomeReading
    PeersReadBack
    FlatMapsAreReadings
    MergedInPlace
