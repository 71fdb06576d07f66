SPECIFICATION FairSpec
CONSTANTS
    btc = btc
    kmd = kmd
    eth = eth
    Assets = {btc, kmd, eth}
    NoAsset = NoAsset
    Submitted <- MCTwoCrosses
    PricesOf <- MCSteadyPrices
    Short <- MCShort
    Faulty = TRUE
INVARIANTS
    QuotesAroundMid
PROPERTIES
    SmStops
