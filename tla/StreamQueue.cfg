SPECIFICATION FairSpec
CONSTANTS
    Cap = 3
    Uses = {"stream"}
    MaxItems = 3
    Nothing = Nothing
PROPERTIES
    PopBlocksOnlyWhenEmpty
CHECK_DEADLOCK FALSE
