CONSTANTS
    a = a
    b = b
    c1 = c1
    c2 = c2
    on = on
    off = off
    Control <- One
    Cell <- MCCell
    Setting <- MCSetting
    Default <- MCDefault
    Additional <- MCAdditional
    Import <- MCImport
    MaxItems = 2
    custom = custom
    torn = torn
SPECIFICATION PresetsSpec
INVARIANTS NeverShowsWrong ListIsFile PresetsPreserved
