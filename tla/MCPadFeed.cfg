SPECIFICATION FeedSpec
CONSTANTS
    KEY_TOUCH = touch
    Button = {touch}
    interval = 75
    FrameTime = {30, 80}
    Setback = {30}
    MaxSetbacks = 1
    Position <- MCPosition
    IdMax = 2
    Reach = 170
    dead = 20
    max = 150
    thresh = 0
INVARIANTS
    NoPressLost
    StickBetween
    ScalesRight
PROPERTIES
    SameTouchSameId
    NewTouchNewId
