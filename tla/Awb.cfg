CONSTANTS
    Depths = {8, 10, 12, 16}
    Shades <- MCShades
    MaxSites = 2
SPECIFICATION Spec
INVARIANTS
    PixelsAreClose
    PicturesHoldPixels
    GreyWorldInThreeOrders
CHECK_DEADLOCK FALSE
