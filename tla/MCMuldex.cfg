CONSTANTS
    k1 = k1
    k2 = k2
    k3 = k3
    k4 = k4
    Key <- MCKey
    x1 = x1
    x2 = x2
    Value <- MCValue
    a = a
    b = b
    Widget <- MCWidget
    nkey = nkey
    MaxLength = 2
SPECIFICATION Spec
INVARIANTS FarMirrors CarriedOnce ToldKeysHeld
SYMMETRY Symmetry
