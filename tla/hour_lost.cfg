SPECIFICATION Spec
CONSTANTS
    nobody = nobody
    Athletes = {1, 3}
    Nobody = nobody
    Items <- TimedItems
    MaxPoints = 3
    MaxItems = 3
PROPERTIES
    TimedRunsCount
