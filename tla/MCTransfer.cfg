SPECIFICATION TransferSpec
CONSTANTS
    h1 = h1
    one = one
    another = another
    owner = owner
    agent = agent
    Handles = {h1}
    Operations <- Competing
    Owner = owner
    Recipients = {agent}
    NoOne = NoOne
    Garbled = Garbled
    NoPayload = NoPayload
    MaxActive = 1
    MaxCrashes = 1
SYMMETRY Alike
INVARIANTS
    SpentOnce
    ReleasedIsQuiet
    CleanupIsFinal
PROPERTIES
    CustodyIsKept
