CONSTANTS
    Alice = Alice
    TokenModule = TokenModule
    NaN = NaN
    Addresses = {Alice}
    Blocked = {}
    BadAddresses = {}
    ModuleAccount = TokenModule
    NotAnInt = NaN
    Symbols <- MCSymbols
    ValidDenoms <- MCSymbols
    SupplyStrings <- MCSupplyStrings
    IntOf <- MCIntOf
    MaxInt <- MCMaxInt
    MaxSeq <- MCMaxSeq
    ForeignDenoms <- MCNoForeignDenoms
    BankGenesis <- MCBankGenesis
    Genesis <- MCGenesis
    Limits <- MCLimits
    DefaultLimit <- MCDefaultLimit

SPECIFICATION QuerySpec

INVARIANTS
    ListingAscending
    ListingComplete
