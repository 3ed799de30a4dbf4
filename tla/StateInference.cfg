CONSTANTS
    Tools <- TwoTools
    ChannelCap = 1
    MaxEntries = 7
    MaxChunks = 3
SPECIFICATION FairSpec
INVARIANT TypeOK
INVARIANT PublishedCurrent
INVARIANT DurationIsFinal
PROPERTY DefinitiveIdleSticks
PROPERTY TurnEndIsShown
