SPECIFICATION Spec
CONSTANTS
    a = a
    b = b
    timer = timer
    forcer = forcer
    Nobody = Nobody
    Events = {a}
    HarvestOrder <- OneEvent
    ForcedEvent = a
    Timer = timer
    Forcers = {forcer}
    MaxResult = 3
    LeagueYear <- NewYearAt2
    Unnumbered <- NoPages
    Tableless <- NoPages
    Unlisted <- NoPages
    Yearless <- NoPages
    Redated <- NoPages
    Malformed <- SecondOfA
    MaxForced = 1
    MaxCrashes = 1
    MaxDbErrors = 1
    MaxCuts = 0
    MaxFetchErrors = 0
INVARIANTS
    TypeOK
    ResultNeedsBirthday
    LeagueOfStoredResults
PROPERTIES
    ResultsArePermanent
    ImplementsArchive
