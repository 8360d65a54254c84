SPECIFICATION MCSpec
CONSTANTS
    t1 = t1
    t2 = t2
    t3 = t3
    owner = owner
    admin = admin
    outsider = outsider
    NoClassification = NoClassification
    Ticket <- MCTicket
    User <- MCUser
    Member <- MCMember
    Admin <- MCAdmin
    Classification <- MCClassification
    MaxVersion = 6
SYMMETRY Symmetry
INVARIANTS
    NoDependencyCycle
    TodoContractCurrent
    Reapprovable
PROPERTIES
    ImplementsDependencyGraph
    VersionCoversRow
CHECK_DEADLOCK FALSE
