SPECIFICATION Spec
CONSTANTS
    Factor = 10
    MaxCounter = 15
PROPERTIES
    HarvestsAtRunTime
