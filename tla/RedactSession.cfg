\* A paste that is redacted in its session, alone in the correlator.
SPECIFICATION CorrSpec
CONSTANTS
    Paster = {m1, m2}
    Session = {tab1}
    MaxSess = 1
    SessTTL = 1
    MaxPaste = 3
    MaxClock = 1
INVARIANT CopyJudgedAlone
CHECK_DEADLOCK FALSE
