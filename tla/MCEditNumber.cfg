CONSTANTS
    BaseUnit = {"length", "size"}
    CellValue = {0, 1, 3}
    Limit = {0, 3}
    UnitName = {"fine", "coarse", "pixels"}
    Unit <- MCUnit
    Number = {1, 2, 4}
    Delta <- MCDelta
    unset = unset
    intermediate = intermediate
    junk = junk
SPECIFICATION NumberSpec
INVARIANTS FieldShowsUnit DebounceFollowsCells
