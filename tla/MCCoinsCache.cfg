\* Three caches over the database, one transaction of two outputs.
SPECIFICATION Spec
CONSTANTS
    one = one
    both = both
    Txids = {t1}
    Unspent <- MCUnspent
    CoinUsage <- MCCoinUsage
    Pruned = pruned
    Hashes = {h1, h2}
    NullHash = null
    N = 3
    BIP30 = TRUE
INVARIANTS
    FlagsSound
    NoLogicError
    UsageExact
PROPERTIES
    ImplementsCoinsView
