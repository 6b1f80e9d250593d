------------------------- MODULE MCTokenKeeperSchema -------------------------
(* Model-checking instance of TokenKeeperSchema: a one-byte and a longer   *)
(* TokenKeyPrefix.                                                         *)
EXTENDS TokenKeeperSchema

MCTokenKeyPrefixes == {<<"t">>, <<"t", "o", "k", "e", "n">>}
=============================================================================
