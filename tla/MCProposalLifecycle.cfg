CONSTANTS
    s1 = s1
    s2 = s2
    NoSession = NoSession
    Proposal = {p1}
    Session <- MCSession
    admin = admin
    agent = agent
    Actor <- MCActor
    Admin <- MCAdmin
    MaxVersion = 5
SPECIFICATION MCSpec
INVARIANTS
    AcceptedMeansTicket
    ActivityCoversVersions
PROPERTIES
    DecisionIsFinal
    MergedIntoActiveTicket
    EveryCommandEnds
