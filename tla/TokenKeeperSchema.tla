-------------------------- MODULE TokenKeeperSchema --------------------------
(***************************************************************************)
(* The store schema the token keeper's NewKeeper (x/token/keeper/keeper.go)*)
(* builds: TokenSeq under TokenKeyPrefix + "_seq", then the Token map      *)
(* under TokenKeyPrefix.  TokenKeyPrefix is not defined in the sources; it *)
(* ranges over the non-empty prefixes TokenKeyPrefixes.                    *)
(***************************************************************************)
EXTENDS SchemaBuilder

CONSTANT
    TokenKeyPrefixes  \* candidate values of types.TokenKeyPrefix

\* The composite literal of NewKeeper, in evaluation order.
TokenLayout(p) ==
    << [name |-> "TokenSeq", prefix |-> p \o <<"_", "s", "e", "q">>],
       [name |-> "Token", prefix |-> p] >>

TokenLayouts == {TokenLayout(p) : p \in TokenKeyPrefixes}

=============================================================================
