SPECIFICATION Spec
CONSTANTS
    DefaultDecimals = 3
    EtomicDecimals = 4
    FiatDecimals = 1
    ToStringDigits = 2
    Unreadable = Unreadable
    Terminates = Terminates
    ShortLimit = 1000000000
    PriceModulus = 2000000000
    Empty = Empty
    Absent = Absent
    IllFormed = IllFormed
    Refused = Refused
    None = None
    some = some
    Entries <- MCEntries
    Electrums <- MCElectrums
    Ids = {1}
    Levels <- MCLevels
    Bodies <- MCBodies
    Answers <- MCAnswers
    Lacking <- MCLacking
    Tokens <- MCTokens
INVARIANT PlacedAtItsPrice
