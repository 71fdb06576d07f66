SPECIFICATION FairSpec
CONSTANTS
    btc = btc
    kmd = kmd
    eth = eth
    Assets = {btc, kmd}
    NoAsset = NoAsset
    Submitted <- MCSubmitted
    PricesOf <- MCPricesOf
    Short <- MCShort
    Faulty = FALSE
INVARIANTS
    TypeOK
    NoSelfCross
PROPERTIES
    LatestQuoted
