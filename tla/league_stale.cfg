SPECIFICATION FairSpec
CONSTANTS
    a = a
    b = b
    timer = timer
    forcer = forcer
    Nobody = Nobody
    Events = {a}
    HarvestOrder <- OneEvent
    ForcedEvent = a
    Timer = timer
    Forcers = {}
    MaxResult = 2
    LeagueYear <- SameYear
    Unnumbered <- NoPages
    Tableless <- NoPages
    Unlisted <- NoPages
    Yearless <- NoPages
    Redated <- NoPages
    Malformed <- NoPages
    MaxForced = 0
    MaxCrashes = 1
    MaxDbErrors = 0
    MaxCuts = 0
    MaxFetchErrors = 0
PROPERTIES
    StoredIsCounted
