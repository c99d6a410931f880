CONSTANTS
    w1 = w1
    w2 = w2
    c1 = c1
    c2 = c2
    p1 = p1
    p2 = p2
    p3 = p3
    i1 = i1
    dummy_display = dummy_display
    Window <- MCWindow
    Cell <- MCCell
    Panel <- MCPanel
    Image <- MCImage
    home <- MChome
    bound <- MCbound
    Sources <- ButtonSources
    MayThrow = FALSE
    QueueBound = 4
SPECIFICATION Spec
PROPERTY RelayoutSettles
