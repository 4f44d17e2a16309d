SPECIFICATION FontSpec
CONSTANTS
    c1 = c1
    c2 = c2
    aString = aString
    FClients = {c1, c2}
    Fonts = {fA, fB}
    FontIds = {1, 2}
    IdOwner <- FontOwner
    NoFont = NoFont
    String = aString
    Texts <- SomeTexts
    MaxRequests = 4
INVARIANTS
    FontsOutliveTheirUses
