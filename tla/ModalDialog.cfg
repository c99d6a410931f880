CONSTANTS
    Value = {v1, v2}
    Valid = {v1}
    Action = {ok, cancel, reset}
    reset = reset
    none = none
    MaxPosted = 4
    MaxGo = 2
SPECIFICATION DialogSpec
INVARIANTS ResultIsSheets ReturnsForAReason
PROPERTIES Ends
CHECK_DEADLOCK FALSE
