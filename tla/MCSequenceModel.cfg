CONSTANTS
    k1 = k1
    k2 = k2
    k3 = k3
    Key <- MCKey
    x1 = x1
    x2 = x2
    Value <- MCValue
    a = a
    b = b
    Widget <- MCWidget
    nkey = nkey
    AfterDetach = TRUE
    MaxLength = 3
SPECIFICATION Spec
INVARIANTS ViewsMirror ViewsFindKeys CommandKeysLive
SYMMETRY Symmetry
