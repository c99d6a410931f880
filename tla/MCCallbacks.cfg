CONSTANTS
    DebounceValue <- MCDebounceValue
    default = 0
    Accept <- MCAccept
    Feedback = TRUE
    MaxCommandCalls = 3
    ButtonValue = {0, 1}
    ButtonStates <- MCButtonStates
    Bindings <- MCBindings
    Sentence = {unary, binary}
    Binary = {binary}
    Subject = {subject1, subject2}
    DirectObject = {direct_object}
    MaxSentenceCalls = 2
    Name = {open, close}
    Monitor = {menu, tool}
    untold = untold
    Modifier = {m1, m2}
    Cell = {c1, c2}
    m1 = m1
    m2 = m2
    c1 = c1
    c2 = c2
    no_cell = no_cell
    unfired = unfired
    none = none
    unary = unary
    binary = binary
    subject1 = subject1
    subject2 = subject2
    direct_object = direct_object
    no_dirobj = no_dirobj
SPECIFICATION Spec
INVARIANTS LoopsBroken AgreeWhenSettled MonitorsAgree ButtonFires ShowsCellAtRest OneWritePerGesture
INVARIANTS TableIsCurrent MonitorsHeardTable
SYMMETRY Subjects
