SPECIFICATION FairSpec
CONSTANTS
    r1 = r1
    r2 = r2
    kmd = kmd
    rfox = rfox
    ltc = ltc
    Requests = {r1, r2}
    NoRequest = NoRequest
    Calls <- MCCalls
    NoCall = NoCall
    Coins = {kmd, rfox, ltc}
    Tcp = {kmd}
    Ssl = {rfox}
    Faulty = TRUE
INVARIANTS
    TypeOK
    OkMeansCarriedOut
    AllEnabled
    ErrorMeansRefused
PROPERTY EveryRequestEnds
