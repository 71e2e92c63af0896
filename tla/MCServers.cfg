SPECIFICATION ServersSpec
CONSTANTS
    main = main
    h1 = h1
    h2 = h2
    Main = main
    Handlers = {h1, h2}
    MaxStarts = 3
    s1 = s1
    s2 = s2
    o1 = o1
    Sockets = {s1, s2, o1}
    Outgoing = {o1}
    First = s1
    Program = main
    Nobody = nobody
    MaxMessages = 1
CHECK_DEADLOCK FALSE
INVARIANTS PortFree ServedIsStoppable StoryInOrder ClientsTrue
PROPERTIES StopTakesEffect StopAnswered
