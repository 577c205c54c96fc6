SPECIFICATION FairSpec
CONSTANTS
    Query <- SmallQuery
    Id = {1, 40000}
    Reply <- SmallReply
INVARIANTS
    RequestUnderstood
    AnswersExact
    ReportedOnce
PROPERTIES
    ReportsInTime
CHECK_DEADLOCK FALSE
