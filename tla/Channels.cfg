CONSTANTS
    User = {a, b}
    Bot = {bot1, bot2}
    Channel = {c1, c2}
    a = a
    b = b
    c1 = c1
    c2 = c2
    NULL = NULL
    BSMinUsers = 2
    Ignored = {}
    Unwelcome <- MCUnwelcome
    AutoOp <- MCAutoOp
    AutoDeop <- MCAutoDeop
    AutoOption <- MCAutoOption
    Allowed = {"kick_bot"}
    MaxEvents = 5
    MaxFlight = 2
SPECIFICATION Spec
SYMMETRY Symmetry
INVARIANTS ListsMirror BotComes UsersKnown
PROPERTIES BotLeaves
CHECK_DEADLOCK FALSE
