SPECIFICATION MCSpec
CONSTANTS
    s1 = s1
    s2 = s2
    NoSession = NoSession
    Session <- MCSession
    TicketId <- MCTicket
    Command <- MCCommand
    MaxEdge = 5
    MaxRowVersion = 4
INVARIANTS TodoMatchesGraph
PROPERTIES ImplementsDependencyGraph EveryCommandEnds
