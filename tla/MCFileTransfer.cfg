SPECIFICATION Spec
CONSTANTS
    N = 3
    Size = 2
    MaxJobs = 2
    MaxLinks = 2
    MaxFaults = 1
    None = None
    Skip = Skip
INVARIANTS
    NotStuck
    AnswersFit
PROPERTIES
    OverwriteAsked
    PublishesWhole
    DoneMeansDelivered
CHECK_DEADLOCK FALSE
