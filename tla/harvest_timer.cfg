SPECIFICATION FairSpec
CONSTANTS
    a = a
    b = b
    timer = timer
    forcer = forcer
    Nobody = Nobody
    Events = {a, b}
    HarvestOrder <- TwoEvents
    ForcedEvent = a
    Timer = timer
    Forcers = {}
    MaxResult = 2
    LeagueYear <- NewYearOfB
    Unnumbered <- NoPages
    Tableless <- LateTables
    Unlisted <- FirstOfB
    Yearless <- NoPages
    Redated <- SecondOfA
    Malformed <- FirstOfA
    MaxForced = 0
    MaxCrashes = 0
    MaxDbErrors = 2
    MaxCuts = 1
    MaxFetchErrors = 1
INVARIANTS
    StoredAsCached
PROPERTIES
    PopulatedIsStored
