CONSTANTS
    w1 = w1
    w2 = w2
    None = None
    Win <- MCWin
    Titles <- MCTitles
    WinClass <- MCWinClass
    TimeStep = 50
    MaxTimers = 2

SPECIFICATION Spec

INVARIANTS
    SingleRetrySequence
