---------------------------- MODULE MCTokenQuery ----------------------------
(***************************************************************************)
(* Model-checking instance of TokenQuery.  The bank and the error paths    *)
(* of the handlers are checked by MCTokenRegistry; here one creator, three *)
(* valid symbols and a zero supply keep the registry small, while three    *)
(* ids and page sizes 1 and 2 give listings of several pages during which  *)
(* tokens are created and deleted.                                         *)
(***************************************************************************)
EXTENDS TokenQuery, TLC

CONSTANTS Alice, TokenModule, NaN

MCSymbols == {"GLD", "SLV", "BRZ"}
MCSupplyStrings == {"0"}
MCIntOf == "0" :> 0
MCMaxInt == 1
MCMaxSeq == 3
MCGenesis == {[tokenList |-> <<>>, tokenCount |-> 0]}
MCLimits == {0, 1, 2}
MCDefaultLimit == 100
MCBankGenesis == [h \in Holders |-> [d \in MCSymbols |-> 0]]
MCNoForeignDenoms == {}
=============================================================================
