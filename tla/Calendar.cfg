SPECIFICATION CalendarSpec
CONSTANTS
    c1 = c1  c2 = c2  c3 = c3
    blue = blue  green = green
    t1 = t1  t2 = t2
    k1 = k1  k2 = k2
    None = None
    Calls <- MCCalls
    Colors <- MCColors
    FirstColor = blue
    Phones <- MCPhones
CHECK_DEADLOCK FALSE
INVARIANTS CalendarInv PushInv
PROPERTIES OperationsSettle FullRunRepairs Mirrors
