SPECIFICATION FairFormSpec
CONSTANTS
    a = a
    b = b
    x = x
    y = y
    n1 = n1
    n2 = n2
    Events = {a, b}
    Athletes = {x, y}
    Names = {n1, n2}
    NoRow = NoRow
    Results <- MCResults
    Pages <- MCPages
    YearOf <- MCYearOf
    Placeless <- MCPlaceless
    Unstarted <- MCUnstarted
    MaxErrors = 1
    MaxPublished = 2
    MaxAsked = 2
INVARIANTS
    TypeOK
    PagesTypeOK
    FormTypeOK
    RunnersAreAthletes
    NamesArePrinted
    EveryRowHasName
    RunsAreListed
    YearsFollowEvent
    OfferedYearsHaveLeagues
PROPERTIES
    ResultsGetStored
CHECK_DEADLOCK FALSE
