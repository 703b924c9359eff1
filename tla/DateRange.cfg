CONSTANTS
    Days = 2
    Slots = 2
    MonthDays = 1
    Offset = 1
    Presets = {"recent"}
    PresetRange <- Ranges
    FirstRange <- Recent
    Urls <- Addresses
    Loads = {1}
    MaxLate = 3
    Typed <- TypedBackwards
    None = None
SPECIFICATION Spec
INVARIANTS
    RangeIsOrdered
    HalfRangeStaysOpen
    TextIsRange
    RangeSpansClickedDays
PROPERTY
    ClosingTellsOrRestores
