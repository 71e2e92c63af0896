SPECIFICATION Spec
CONSTANTS
    o1 = o1
    o2 = o2
    Main = Main
    Others = {o1, o2}
    Nobody = Nobody
    Calls = {1, 2, 3}
    MaxFrames = 4
    MaxTry = 1
    MaxTemps = 1
    MaxLeft = 2
    Allowed = {}
SYMMETRY MCSymmetry
CHECK_DEADLOCK FALSE
INVARIANTS LoopsApart CallsAnswered CatchGetsMessage
