CONSTANTS
    w1 = w1
    None = None
    Win <- MCWin
    Titles <- MCTitles
    WinClass <- MCWinClass
    TimeStep = 50
    MaxTimers = 2

INIT TInit
NEXT TNext

INVARIANT
    ChecksOnSchedule
