CONSTANTS
    Alice = Alice
    Bob = Bob
    Gov = Gov
    Invalid = Invalid
    TokenModule = TokenModule
    NaN = NaN
    Addresses = {Alice, Bob}
    Blocked = {}
    BadAddresses = {Invalid}
    ModuleAccount = TokenModule
    NotAnInt = NaN
    Symbols <- MCSimulationSymbols
    ValidDenoms <- MCSimulationDenoms
    SupplyStrings <- MCSimulationSupplies
    IntOf <- MCSimulationIntOf
    MaxInt <- MCMaxInt
    MaxSeq <- MCSimulationMaxSeq
    ForeignDenoms <- MCNoForeignDenoms
    BankGenesis <- MCSimulationBank
    Genesis <- MCSimulationGenesis

SPECIFICATION Spec

INVARIANTS
    ExportImportRoundTrip

PROPERTIES
    NoIdReuse
