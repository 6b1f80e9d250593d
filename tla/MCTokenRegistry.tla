--------------------------- MODULE MCTokenRegistry ---------------------------
(***************************************************************************)
(* Model-checking instance of TokenRegistry.  Amounts are scaled down: the *)
(* sdk.Int ceiling 2^256-1 becomes MCMaxInt, and the supply strings are    *)
(* one of each kind NewIntFromString distinguishes.                        *)
(***************************************************************************)
EXTENDS TokenRegistry, TLC

CONSTANTS Alice, Bob, Gov, Invalid, TokenModule, NaN

\* "" is the empty symbol the scaffolded tests send; IsValidDenom rejects it.
MCSymbols == {"GLD", "SLV", ""}
MCValidDenoms == {"GLD", "SLV"}

\* sdk.NewIntFromString on each supply string, "2" standing for a large amount.
MCSupplyStrings == {"0", "2", "-1", "x"}
MCIntOf == ("0" :> 0) @@ ("2" :> 2) @@ ("-1" :> -1) @@ ("x" :> NaN)

\* Two creates of "2" under one denom pass the ceiling.
MCMaxInt == 3
MCMaxSeq == 2

\* DefaultGenesis and a validated genesis holding one token of Alice.
DefaultGenesis == [tokenList |-> <<>>, tokenCount |-> 0]
OneTokenGenesis ==
    [tokenList |-> <<[id |-> 0, creator |-> Alice, symbol |-> "GLD", totalSupply |-> "2"]>>,
     tokenCount |-> 1]
\* GenerateGenesisState of the simulation: ids 0 and 1 of two sampled
\* accounts with every other field empty, TokenCount 2.
SimulationGenesis ==
    [tokenList |-> <<[id |-> 0, creator |-> Alice, symbol |-> "", totalSupply |-> "x"],
                     [id |-> 1, creator |-> Bob, symbol |-> "", totalSupply |-> "x"]>>,
     tokenCount |-> 2]
MCGenesis == {DefaultGenesis, OneTokenGenesis}
MCSimulationGenesis == {SimulationGenesis}
\* From the simulation genesis TokenSeq starts at 2: two more creates, by
\* the two genesis creators, with one valid denom, the genesis tokens'
\* empty symbol, and a parsable supply beside the genesis tokens' "x".
MCSimulationMaxSeq == 4
MCSimulationSymbols == {"GLD", ""}
MCSimulationDenoms == {"GLD"}
MCSimulationSupplies == {"2", "x"}
MCSimulationIntOf == ("2" :> 2) @@ ("x" :> NaN)
MCSimulationBank == [h \in Holders |-> [d \in MCSimulationDenoms |-> 0]]

ASSUME \A g \in MCGenesis \cup MCSimulationGenesis : GenesisValidate(g)

\* A chain started from DefaultGenesis only.
MCDefaultGenesis == {DefaultGenesis}

\* The bank starts empty of every registry denom, none issued elsewhere.
MCBankGenesis == [h \in Holders |-> [d \in MCValidDenoms |-> 0]]
MCNoForeignDenoms == {}

\* "SLV" is a denom another module already issues: Bob holds 1 of it.
MCForeignDenoms == {"SLV"}
MCForeignBank == [MCBankGenesis EXCEPT ![Bob]["SLV"] = 1]

\* TestTokenMsgServerCreate sends MsgCreateToken{Creator: creator} five
\* times: every other field is the empty string.
MCEmptyFields == {""}
MCEmptySupply == "" :> NaN
MCNoDenoms == {}
MCEmptyBank == [h \in Holders |-> [d \in MCNoDenoms |-> 0]]

\* TestTokenMsgServerCreate expects every such create to succeed and to
\* return the ids 0, 1, 2, ... in call order.
TestCreateSucceeds ==
    [][lastTx'.type = "create" => lastTx'.err = OK /\ lastTx'.id = seq]_vars
=============================================================================
