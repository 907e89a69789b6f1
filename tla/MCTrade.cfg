SPECIFICATION Spec
CONSTANTS
    p1 = p1
    p2 = p2
    p3 = p3
    a = a
    b = b
    Player = {p1, p2, p3}
    Kind = {a, b}
    NoOne = NoOne
    Unguarded = {}
    MaxZeny = 1
    MaxAmount = 2
    Slots = 2
    MaxInventory = 2
    MaxWeight = 3
    MaxEntries = 2
    Start <- MCStart
    MaxChanges = 1
INVARIANTS TradeTypeOK 
 
