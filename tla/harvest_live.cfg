SPECIFICATION FairSpec
CONSTANTS
    a = a
    b = b
    timer = timer
    forcer = forcer
    Nobody = Nobody
    Events = {a, b}
    HarvestOrder <- TwoEvents
    ForcedEvent = a
    Timer = timer
    Forcers = {}
    MaxResult = 3
    LeagueYear <- SameYear
    Unnumbered <- SecondOfB
    Tableless <- EarlyTables
    Unlisted <- SecondOfA
    Yearless <- ThirdOfB
    Redated <- NoPages
    Malformed <- NoPages
    MaxForced = 0
    MaxCrashes = 0
    MaxDbErrors = 0
    MaxCuts = 0
    MaxFetchErrors = 2
INVARIANTS
    LeagueBehindIsDue
PROPERTIES
    LeaguesGrow
    StoredIsCounted
    PopulatedIsStored
