\* Two lots of one card and owner, three slots around a midnight, two calls.
SPECIFICATION Spec
CONSTANTS
    evening = evening
    midnight = midnight
    morning = morning
    Lots = {l1, l2}
    Slots = {evening, midnight, morning}
    NoSlot = NoSlot
    LastDay = 1
    Calls = {c1, c2}
    DaysOf <- SlotDays
    Rival <- AllRival
SYMMETRY Interchangeable
VIEW Relevant
INVARIANTS
    NoDoubleBooking
    NoLockCycle
PROPERTIES
    BookingsAreSerial
