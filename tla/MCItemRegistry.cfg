CONSTANTS
    Alice = Alice
    Bob = Bob
    Invalid = Invalid
    Addresses = {Alice, Bob}
    BadAddresses = {Invalid}
    EmptyId = ""
    ItemIds <- MCItemIds
    Names <- MCNames
    KeyOrder <- MCKeyOrder

SYMMETRY MCSymmetry

SPECIFICATION Spec

INVARIANTS
    ItemTypeOK
    OmnisKeeperBuilds
    IndexAgreesWithQueries

PROPERTIES
    CreateNeverOverwrites
    ItemOwnerOnlyMutation
