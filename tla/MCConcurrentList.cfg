CONSTANTS
    Thread = {t1, t2}
    Mutex = {"a", "b", "list", "throttle"}
    Order <- MCOrder
    MaxOrder = 255
    MaxHeld = 3
    Item = {x, y}
    ListMutex = "list"
    MaxGot = 2
    Editors = {t1}
    Free = {"b", "throttle"}
SPECIFICATION MCSpec
INVARIANTS NoCircularWait MonitorTrue IterationComplete
