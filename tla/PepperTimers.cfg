CONSTANTS
    o1 = o1  o2 = o2
    Objects <- MCObjects
    Ids = {1, 2}
    NoId = NoId  NoObject = NoObject
    MaxSerial = 4
SPECIFICATION TimersLiveSpec
CHECK_DEADLOCK FALSE
INVARIANT ArmedOnce
PROPERTIES NoStaleEvent KeepsFiring
