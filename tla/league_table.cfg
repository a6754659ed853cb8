SPECIFICATION Spec
CONSTANTS
    nobody = nobody
    Athletes = {1, 2, 3, 4}
    Nobody = nobody
    Items <- SmallItems
    MaxPoints = 3
    MaxItems = 4
INVARIANTS
    TypeOK
    LeagueIsRanked
    GendersAreRanked
PROPERTIES
    LeagueIsSumOfItems
