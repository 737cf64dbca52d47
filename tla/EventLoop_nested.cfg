CONSTANTS
    app = app  a = a  b = b  any = any  t1 = t1
    Receivers <- MCReceivers
    App = app
    Priorities <- MCPriorities
    AnyReceiver = any
    AnyType = any
    Posters = {}
    Posts <- PostsDelete
    Filters <- FilterAll
    Calls = {"remove", "nested exec", "processEvents"}
    MaxPosts = 3
    MaxStack = 8
SPECIFICATION Spec
CHECK_DEADLOCK FALSE
INVARIANTS PostedCount NothingErased SearchedPartSorted NotDeletedUnderPoster
