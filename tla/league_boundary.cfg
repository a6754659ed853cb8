SPECIFICATION Spec
CONSTANTS
    a = a
    b = b
    timer = timer
    forcer = forcer
    Nobody = Nobody
    Events = {a}
    HarvestOrder <- OneEvent
    ForcedEvent = a
    Timer = timer
    Forcers = {}
    MaxResult = 3
    LeagueYear <- NewYearAt3
    Unnumbered <- NoPages
    Tableless <- NoPages
    Unlisted <- NoPages
    Yearless <- NoPages
    Redated <- NoPages
    Malformed <- NoPages
    MaxForced = 0
    MaxCrashes = 0
    MaxDbErrors = 0
    MaxCuts = 0
    MaxFetchErrors = 0
INVARIANTS
    LeagueWithinYear
