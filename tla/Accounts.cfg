SPECIFICATION Spec
CONSTANTS
    Handlers = {h1, h2}
    Browsers = {b}
    UserAccounts = {"u"}
    NoUser = "nobody"
    Passwords = {"p", "q", "short"}
    LongEnough = {"p", "q"}
    Links = {l1, l2}
    NoLink = noLink
    LinkLife = 1
    SessionLife = 1
    RememberedLife = 2
    ClockBound = 3
INVARIANTS
    OnlyTheLastLink
CHECK_DEADLOCK FALSE
