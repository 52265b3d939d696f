CONSTANTS
    Depths = {8, 10, 12, 16}
    Shades <- MCShades
    MaxSites = 1
SPECIFICATION Spec
INVARIANT GreyWorld
CHECK_DEADLOCK FALSE
