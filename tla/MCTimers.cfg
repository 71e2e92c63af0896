SPECIFICATION FairSpec
CONSTANTS
    once = once
    every = every
    Timers = {once, every}
    Once = {once}
    Program = Program
    Nobody = Nobody
    NoTimer = NoTimer
    MaxQueue = 2
CHECK_DEADLOCK FALSE
INVARIANTS CallsCounted LiveTimersStoppable
PROPERTIES StoppedGoroutineEnds
