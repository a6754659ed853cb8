SPECIFICATION Spec
CONSTANTS
    a = a
    b = b
    timer = timer
    forcer = forcer
    Nobody = Nobody
    Events = {a}
    HarvestOrder <- OneEvent
    ForcedEvent = a
    Timer = timer
    Forcers = {forcer}
    MaxResult = 2
    LeagueYear <- SameYear
    Unnumbered <- NoPages
    Tableless <- NoPages
    Unlisted <- NoPages
    Yearless <- NoPages
    Redated <- NoPages
    Malformed <- NoPages
    MaxForced = 1
    MaxCrashes = 0
    MaxDbErrors = 0
    MaxCuts = 0
    MaxFetchErrors = 0
PROPERTIES
    LeaguesGrow
