SPECIFICATION ColormapSpec
CONSTANTS
    ColourClients = {1, 2}
    Maps = {"m1", "m2"}
    MapOwner <- TwoMaps
    Pixels = {0, 1}
    PlaneMasks = {1}
    Colours = {"x"}
    Planes = {1}
    MaxRefs = 2
INVARIANTS
    SharedColoursAreCounted
