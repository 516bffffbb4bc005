SPECIFICATION SessionsSpec
CONSTANTS
    Tabs = {t1}
    Calls = {k1, k2}
    Refreshes = {f1, f2}
    WebTokens = {1, 2, 3, 4}
INVARIANT RefreshIsShared
CHECK_DEADLOCK FALSE
