CONSTANTS
    TokenKeyPrefixes <- MCTokenKeyPrefixes
    Layouts <- TokenLayouts

INIT SchemaInit
NEXT SchemaNext

CHECK_DEADLOCK FALSE

INVARIANT
    NewKeeperSucceeds
