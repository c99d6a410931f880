CONSTANTS
    n1 = n1
    n2 = n2
    n3 = n3
    Node <- MCNode
    s1 = s1
    s2 = s2
    Server <- MCServer
    null = null
    DrainEach = TRUE
    MayFail = TRUE
    QueueBound = 2
SPECIFICATION Spec
INVARIANTS ErasesLive RootFollowsList
PROPERTY CloseHappens
