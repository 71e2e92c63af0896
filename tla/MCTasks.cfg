SPECIFICATION FairSpec
CONSTANTS
    t1 = t1
    t2 = t2
    Tasks = {t1, t2}
    Main = Main
    Nobody = Nobody
    NoValue = NoValue
    NotATask = NotATask
    Error = Error
    MaxLen = 2
    MaxParallel = 1
CHECK_DEADLOCK FALSE
INVARIANTS ResultWaiting AwaitGivesOwnResult ResultsInOrder
PROPERTIES AwaitAnswered
