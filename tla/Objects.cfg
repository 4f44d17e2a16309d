SPECIFICATION ObjectsSpec
CONSTANTS
    Clients = {1, 2}
    Windows <- ThreeWindows
    FakeRange = 1
    InitBuckets = 1
    InitHashSize = 0
    MaxHashSize = 1
    Load = 2
    RRWindows <- FirstWindow
    MaxSelections = 1
    c1 = c1
    c2 = c2
    aString = aString
    FClients = {c1, c2}
    Fonts = {fA, fB}
    FontIds = {1, 2}
    IdOwner <- FontOwner
    NoFont = NoFont
    String = aString
    Texts <- SomeTexts
    MaxRequests = 4
    Functions = {f, g}
    MaxDepth = 2
    MaxChanges = 4
    GrabClients = {p1, p2}
    Keys = {1, 2}
    AnyKey = 0
    Modifiers = {1, 2}
    AnyModifier = 0
    MaxPassive = 2
    ColourClients = {1, 2}
    Maps = {"m1", "m2"}
    MapOwner <- TwoMaps
    Pixels = {0, 1}
    PlaneMasks = {1}
    Colours = {"x"}
    Planes = {1}
    MaxRefs = 2
    SpriteScreen <- Screen32
    SPRITE_PAD = 1
    CursorBits <- SomeCursors
    SpriteMaps = {"m1", "m2"}
    SpriteCells <- TwoColormaps
    CursorColours <- SomeColours
    Rgbs = {1, 3}
    SomeShapes <- Shapes
    SomeDefs <- Stored
    SomePoints <- Points
    SomeMoves <- Moves
    MaxSpriteChanges = 2
INVARIANTS
    ObjectsTypeOK
    ResourcesAgree
    ReferencesAgree
    FreesAreNested
    SavedWindowsSurvive
    EachIsCalledOnce
    SpriteIsAnOverlay
    SpriteColoursAreCurrent
PROPERTIES
    GrabsAreCombinations
