SPECIFICATION FairSpec
CONSTANTS
    own = own
    other = other
    s1 = s1
    DefaultDecimals = 8
    EtomicDecimals = 18
    FiatDecimals = 2
    Unreadable = Unreadable
    None = None
    Swaps = {s1}
    Entries <- MCEntries
    Electrums <- MCElectrums
    UserConfig <- MCUserConfig
    Wallets = {own, other}
    OwnWallet = own
    MaxBoots = 2
INVARIANTS
    TypeOK
    UsesLiveMembers
    
    RunsItsWallet
    OrderlyEnd
    DefaultIsAccepted
PROPERTIES
    HedgedInTheEnd
    ShutdownEnds
