CONSTANTS
    Alice = Alice
    Bob = Bob
    Gov = Gov
    Invalid = Invalid
    TokenModule = TokenModule
    NaN = NaN
    Addresses = {Alice}
    Blocked = {}
    BadAddresses = {}
    ModuleAccount = TokenModule
    NotAnInt = NaN
    Symbols <- MCEmptyFields
    ValidDenoms <- MCNoDenoms
    SupplyStrings <- MCEmptyFields
    IntOf <- MCEmptySupply
    MaxInt <- MCMaxInt
    MaxSeq <- MCMaxSeq
    ForeignDenoms <- MCNoDenoms
    BankGenesis <- MCEmptyBank
    Genesis <- MCDefaultGenesis

SPECIFICATION Spec

PROPERTY
    TestCreateSucceeds
