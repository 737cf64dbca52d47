CONSTANTS
    app = app  a = a  b = b  any = any  t1 = t1
    Receivers <- MCReceivers
    App = app
    Priorities <- MCPriorities
    AnyReceiver = any
    AnyType = any
    Posters = {t1}
    Posts <- PostsMixed
    Filters <- NoFilters
    Calls = {"remove", "quit", "exit", "nested exec", "native"}
    MaxPosts = 3
    MaxStack = 7
SPECIFICATION LiveSpec
CHECK_DEADLOCK FALSE
INVARIANTS ExitHonoured DeletedWhenIdle
PROPERTIES EventuallySent ImplementsQueue
