CONSTANTS
    Page = {p1, p2}
    MaxRedirects = 1
    MaxCalls = 2
    MaxEvents = 3
SPECIFICATION FairSpec
INVARIANTS TypeOK AnswersAreCurrent EnvelopesTell
PROPERTIES HideIsEffective PageLoads
CHECK_DEADLOCK FALSE
