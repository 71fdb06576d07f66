SPECIFICATION Spec
CONSTANTS
    btc = btc
    kmd = kmd
    eth = eth
    Assets = {btc, kmd}
    NoAsset = NoAsset
    Submitted <- MCSubmitted
    PricesOf <- MCPricesOf
    Short <- MCShort
    Faulty = FALSE
INVARIANT PricedForItsPair
