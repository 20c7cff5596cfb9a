\* Retargets at every rate of shares, from starts and with suggestions in and out of range.
SPECIFICATION FairDiffSpec
CONSTANTS
    MinDiff = 2
    MaxDiff = 8
    Interval = 45
    Grace = 20
    Step = 5
    Suggestions <- MCSuggestions
    Starts <- MCStarts
    MaxIntervalShares = 46
    MaxElapsed = 50
INVARIANTS
    GraceHonoured
PROPERTIES
    EasedDown
