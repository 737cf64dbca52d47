CONSTANTS
    app = app  a = a  b = b  child = child
    main = main  worker = worker  p1 = p1
    NoOne = NoOne
    Receivers <- MCReceivers
    App = app
    Priorities = {0}
    Threads <- MCThreads
    Main = main
    Posters = {p1}
    Address <- MCAddress
    Members <- MCMembers
    Home <- MCHome
    Timers = {child}
    Posts <- MCPosts
    MaxPosts = 2
    MaxMoves = 2
SPECIFICATION LiveSpec
CHECK_DEADLOCK FALSE
INVARIANTS EventsFollowReceiver TimersFollow
PROPERTIES ImplementsQueue EventuallySettled
