--------------------------- MODULE MCItemRegistry ---------------------------
(* Model-checking instance of ItemRegistry: two owners, a malformed        *)
(* creator, two non-empty ids and the empty one, two names.                *)
EXTENDS ItemRegistry, TLC

CONSTANTS Alice, Bob, Invalid

MCItemIds == {"", "a", "b"}
MCNames == {"n1", "n2"}
\* StringKey encodes a string as its bytes: "" < "a" < "b".
MCKeyOrder == <<"", "a", "b">>
MCSymmetry == Permutations({Alice, Bob})
=============================================================================
