CONSTANTS
    Alice = Alice
    Bob = Bob
    Gov = Gov
    Invalid = Invalid
    TokenModule = TokenModule
    NaN = NaN
    Addresses = {Alice, Bob, Gov}
    Blocked = {Gov}
    BadAddresses = {Invalid}
    ModuleAccount = TokenModule
    NotAnInt = NaN
    Symbols <- MCSymbols
    ValidDenoms <- MCValidDenoms
    SupplyStrings <- MCSupplyStrings
    IntOf <- MCIntOf
    MaxInt <- MCMaxInt
    MaxSeq <- MCMaxSeq
    ForeignDenoms <- MCNoForeignDenoms
    BankGenesis <- MCBankGenesis
    Genesis <- MCGenesis

SPECIFICATION Spec

PROPERTY
    ImplementsContract
