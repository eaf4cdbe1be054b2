SPECIFICATION Spec
CONSTANTS
    c1 = c1
    c2 = c2
    Client = {c1, c2}
    Uri <- CollidingUris
    Accept = {"html"}
    NoAccept = "no accept"
    AutoFlush = TRUE
    Capacity = 1
    MaxVersion = 1
INVARIANTS EntriesGenuine FlushSticks
SYMMETRY Clients
