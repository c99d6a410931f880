CONSTANTS
    v1 = v1
    v2 = v2
    r1 = r1
    r2 = r2
    q1 = q1
    q2 = q2
    Verb <- MCVerb
    Queue <- MCQueue
    Roots <- MCRoots
    SingleRoots <- MCSingleRoots
SPECIFICATION Spec
INVARIANTS TypeOK OrderAgrees IteratorsInRange
PROPERTY ImplementsEntryQueue
