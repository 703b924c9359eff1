CONSTANTS
    Menus = {1, 2}
    Items = 2
    MaxBackdrops = 3
    ScrollWidth = 1
    MaxPad = 2
SPECIFICATION Spec
INVARIANTS
    PageIsLeftAsItWas
    OneThingAtATime
PROPERTIES
    DialogKeepsPromise
    NavKeepsPromise
