SPECIFICATION FairSpec
CONSTANTS
    coinpaprika = coinpaprika
    other = other
    btckmd = btckmd
    unknown = unknown
    Platforms = {coinpaprika, other}
    Pairs = {btckmd, unknown}
    NoPair = NoPair
    Tracked = {btckmd}
    Translated = {btckmd}
    Prices <- MCPrices
    MaxTries = 2
    Faulty = TRUE
INVARIANTS
    TypeOK
    MeanBetween
PROPERTIES
    CallEnds
    FetcherStops
