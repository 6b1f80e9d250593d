---------------------------- MODULE TokenRegistry ----------------------------
(***************************************************************************)
(* The x/token registry of Omnis: the keeper's collections (Token map and  *)
(* TokenSeq sequence), the three message handlers of msg_server_token.go,  *)
(* the bank calls CreateToken makes, and InitGenesis/ExportGenesis.        *)
(*                                                                         *)
(* Every message is one step.  A handler is modelled as an outcome: the    *)
(* store after the writes it performed before its first error, and that    *)
(* error.  The Ledger Host (BaseApp) runs each message in a cache-wrapped  *)
(* context and writes it back only when the handler returns no error;      *)
(* Commit models that.  Name, decimals and metadata are carried by the     *)
(* code but never read by any branch, so a token here is its creator,      *)
(* symbol and totalSupply string.                                          *)
(***************************************************************************)
EXTENDS Integers, FiniteSets, Sequences, SequencesExt, Functions

CONSTANTS
    Addresses,      \* creator strings addressCodec.StringToBytes accepts
    Blocked,        \* valid addresses the bank refuses to credit (app.go BlockedAddresses)
    BadAddresses,   \* creator strings that fail to decode
    ModuleAccount,  \* the "token" module account MintCoins credits
    Symbols,        \* symbols used in messages
    ValidDenoms,    \* the symbols sdk.IsValidDenom accepts
    SupplyStrings,  \* totalSupply strings used in messages
    IntOf,          \* sdk.NewIntFromString: SupplyStrings -> Int \cup {NotAnInt}
    NotAnInt,       \* result of a string NewIntFromString rejects
    MaxInt,         \* largest amount an sdk.Int holds (2^256-1, scaled down)
    MaxSeq,         \* model bound on TokenSeq: CreateToken runs only while TokenSeq < MaxSeq
    Genesis,        \* genesis states the chain may be started from
    ForeignDenoms,  \* valid denoms other modules already issue (the bond denom, ...)
    BankGenesis     \* the bank's genesis balances: holder -> denom -> amount

ASSUME /\ Blocked \subseteq Addresses
       /\ ValidDenoms \subseteq Symbols
       /\ IntOf \in [SupplyStrings -> Int \cup {NotAnInt}]
       /\ MaxInt \in Nat /\ MaxSeq \in Nat
       /\ ForeignDenoms \subseteq ValidDenoms

OK == "OK"
NoId == -1

Creators == Addresses \cup BadAddresses
\* app.go BlockedAddresses: every module account is blocked from receiving
\* funds.  The accounts that can hold coins of a registry denom are the
\* unblocked ones and the token module account MintCoins credits.
Holders == (Addresses \ Blocked) \cup {ModuleAccount}
ASSUME BankGenesis \in [Holders -> [ValidDenoms -> Nat]]
Ids == 0..MaxSeq
Token == [creator : Addresses, symbol : Symbols, totalSupply : SupplyStrings]
GenesisEntry == [id : Ids, creator : Addresses, symbol : Symbols, totalSupply : SupplyStrings]

VARIABLES
    tokens,   \* collections.Map[uint64, Token]: a function from the ids present
    seq,      \* collections.Sequence TokenSeq: the next id to hand out
    supply,   \* bank total supply per registry denom
    balance,  \* bank balances: holder -> denom -> amount
    lastTx    \* the last message the host delivered: its signer, id, error and events

vars == <<tokens, seq, supply, balance, lastTx>>

\* The state a handler reads and writes, as one record.
Store == [tokens |-> tokens, seq |-> seq, supply |-> supply, balance |-> balance]

-----------------------------------------------------------------------------
(* Collections and keeper helpers.                                         *)

\* collections.Map.Set inserts or overwrites the value at key k.
MapSet(f, k, v) == [i \in DOMAIN f \cup {k} |-> IF i = k THEN v ELSE f[i]]

\* collections.Map.Remove
MapRemove(f, k) == Restrict(f, DOMAIN f \ {k})

\* GetTokenBySymbol: Walk over the tokens, stop at the first with this symbol.
BySymbolFound(s, symbol) == \E i \in DOMAIN s.tokens : s.tokens[i].symbol = symbol

\* Fault variants of SeqNext: the counter is not advanced; the id is taken
\* from the number of stored tokens.
SeqNextNoIncrement(s) == [id |-> s.seq, st |-> s]
SeqNextCountTokens(s) == [id |-> Cardinality(DOMAIN s.tokens), st |-> [s EXCEPT !.seq = @ + 1]]

\* TokenSeq.Next: returns the current value and stores it plus one.
SeqNext(s) == [id |-> s.seq, st |-> [s EXCEPT !.seq = @ + 1]]

\* A handler's outcome: the store it leaves and its error.
Ok(s) == [st |-> s, err |-> OK, id |-> NoId]
Err(s, e) == [st |-> s, err |-> e, id |-> NoId]
\* Run F on the store of o unless o already failed (the handler's early return).
Then(o, F(_)) == IF o.err = OK THEN F(o.st) ELSE o

-----------------------------------------------------------------------------
(* The bank calls of CreateToken.  sdk.NewCoins drops a zero coin, so a    *)
(* zero supply mints and sends nothing.                                    *)

\* Fault variant of MintCoins: no ceiling on the supply.
MintCoinsNoCeiling(s, d, amt) ==
    IF amt = 0 THEN Ok(s)
    ELSE Ok([s EXCEPT !.supply[d] = @ + amt, !.balance[ModuleAccount][d] = @ + amt])

\* bankKeeper.MintCoins(ctx, "token", coins): adding past the sdk.Int width panics.
MintCoins(s, d, amt) ==
    IF amt = 0 THEN Ok(s)
    ELSE IF s.supply[d] + amt > MaxInt THEN Err(s, "ErrPanic")
    ELSE Ok([s EXCEPT !.supply[d] = @ + amt,
                      !.balance[ModuleAccount][d] = @ + amt])

\* Fault variant of SendCoinsFromModuleToAccount: the module account is
\* not debited.
SendCoinsNoDebit(s, to, d, amt) ==
    IF to \in Blocked THEN Err(s, "ErrLogic")
    ELSE IF amt = 0 THEN Ok(s)
    ELSE Ok([s EXCEPT !.balance[to][d] = @ + amt])

\* bankKeeper.SendCoinsFromModuleToAccount: a blocked recipient is refused first.
SendCoinsFromModuleToAccount(s, to, d, amt) ==
    IF to \in Blocked THEN Err(s, "ErrLogic")
    ELSE IF amt = 0 THEN Ok(s)
    ELSE Ok([s EXCEPT !.balance[ModuleAccount][d] = @ - amt,
                      !.balance[to][d] = @ + amt])

-----------------------------------------------------------------------------
(* The message handlers, as outcomes over a store s.                       *)

\* Fault variant of CreateTokenOutcome: GetTokenBySymbol is not consulted.
CreateTokenOutcomeNoSymbolCheck(s, m) ==
    LET amt  == IntOf[m.totalSupply]
        next == SeqNext(s)
        s1   == [next.st EXCEPT !.tokens = MapSet(@, next.id,
                    [creator |-> m.creator, symbol |-> m.symbol,
                     totalSupply |-> m.totalSupply])]
    IN IF m.creator \in BadAddresses THEN Err(s, "ErrInvalidAddress")
       ELSE IF amt = NotAnInt \/ amt < 0 THEN Err(s, "ErrInvalidRequest")
       ELSE IF m.symbol \notin ValidDenoms THEN Err(s1, "ErrInvalidRequest")
       ELSE LET o == Then(MintCoins(s1, m.symbol, amt),
                          LAMBDA t : SendCoinsFromModuleToAccount(t, m.creator, m.symbol, amt))
            IN [o EXCEPT !.id = next.id]

\* The outcome carries the id Next handed out.
CreateTokenOutcome(s, m) ==
    LET amt  == IntOf[m.totalSupply]
        next == SeqNext(s)
        s1   == [next.st EXCEPT !.tokens = MapSet(@, next.id,
                    [creator |-> m.creator, symbol |-> m.symbol,
                     totalSupply |-> m.totalSupply])]
    IN IF m.creator \in BadAddresses THEN Err(s, "ErrInvalidAddress")
       ELSE IF BySymbolFound(s, m.symbol) THEN Err(s, "ErrTokenAlreadyExists")
       ELSE IF amt = NotAnInt THEN Err(s, "ErrInvalidRequest")
       ELSE IF amt < 0 THEN Err(s, "ErrInvalidRequest")
       \* the token is written before the denom is checked and coins are minted
       ELSE IF m.symbol \notin ValidDenoms THEN Err(s1, "ErrInvalidRequest")
       ELSE LET o == Then(MintCoins(s1, m.symbol, amt),
                          LAMBDA t : SendCoinsFromModuleToAccount(t, m.creator, m.symbol, amt))
            IN [o EXCEPT !.id = next.id]

\* Fault variant of UpdateTokenOutcome: the ownership check is missing.
UpdateTokenOutcomeNoOwnerCheck(s, m) ==
    IF m.creator \in BadAddresses THEN Err(s, "ErrInvalidAddress")
    ELSE IF m.id \notin DOMAIN s.tokens THEN Err(s, "ErrKeyNotFound")
    ELSE Ok([s EXCEPT !.tokens = MapSet(@, m.id,
                [creator |-> m.creator, symbol |-> m.symbol, totalSupply |-> m.totalSupply])])

\* Get, then ownership check, then a full replace of the stored token.
UpdateTokenOutcome(s, m) ==
    IF m.creator \in BadAddresses THEN Err(s, "ErrInvalidAddress")
    ELSE IF m.id \notin DOMAIN s.tokens THEN Err(s, "ErrKeyNotFound")
    ELSE IF m.creator # s.tokens[m.id].creator THEN Err(s, "ErrUnauthorized")
    ELSE Ok([s EXCEPT !.tokens = MapSet(@, m.id,
                [creator |-> m.creator, symbol |-> m.symbol,
                 totalSupply |-> m.totalSupply])])

DeleteTokenOutcome(s, m) ==
    IF m.creator \in BadAddresses THEN Err(s, "ErrInvalidAddress")
    ELSE IF m.id \notin DOMAIN s.tokens THEN Err(s, "ErrKeyNotFound")
    ELSE IF m.creator # s.tokens[m.id].creator THEN Err(s, "ErrUnauthorized")
    ELSE Ok([s EXCEPT !.tokens = MapRemove(@, m.id)])

-----------------------------------------------------------------------------
(* Genesis.                                                                *)

\* InitGenesis: Set every listed token (a later duplicate id overwrites an
\* earlier one), then TokenSeq.Set(TokenCount).  Nothing is validated.
InitGenesis(g) ==
    LET l == g.tokenList
        LastAt(i) == CHOOSE k \in DOMAIN l :
                        l[k].id = i /\ \A j \in DOMAIN l : l[j].id = i => j <= k
    IN [tokens |-> [i \in {l[k].id : k \in DOMAIN l} |->
                      [creator |-> l[LastAt(i)].creator, symbol |-> l[LastAt(i)].symbol,
                       totalSupply |-> l[LastAt(i)].totalSupply]],
        seq |-> g.tokenCount]

\* Fault variant of ExportGenesis: TokenCount is the number of tokens listed.
ExportGenesisCountsTokens(s) ==
    LET ids == SetToSortSeq(DOMAIN s.tokens, <)
    IN [tokenList |-> [k \in DOMAIN ids |->
                         [id |-> ids[k], creator |-> s.tokens[ids[k]].creator,
                          symbol |-> s.tokens[ids[k]].symbol,
                          totalSupply |-> s.tokens[ids[k]].totalSupply]],
        tokenCount |-> Cardinality(DOMAIN s.tokens)]

\* ExportGenesis: Walk the tokens in ascending id order, then TokenSeq.Peek.
ExportGenesis(s) ==
    LET ids == SetToSortSeq(DOMAIN s.tokens, <)
    IN [tokenList |-> [k \in DOMAIN ids |->
                         [id |-> ids[k], creator |-> s.tokens[ids[k]].creator,
                          symbol |-> s.tokens[ids[k]].symbol,
                          totalSupply |-> s.tokens[ids[k]].totalSupply]],
        tokenCount |-> s.seq]

\* GenesisState.Validate: no duplicated id, every id below TokenCount.
GenesisValidate(g) ==
    \A k \in DOMAIN g.tokenList :
        /\ g.tokenList[k].id < g.tokenCount
        /\ \A j \in DOMAIN g.tokenList : j # k => g.tokenList[j].id # g.tokenList[k].id

-----------------------------------------------------------------------------
(* The Ledger Host and the state machine.                                  *)

\* BaseApp runs the message in a cache context: the writes are kept only
\* when the handler succeeds.  Events of a failed message are dropped too.
Commit(o, tx) ==
    LET s == IF o.err = OK THEN o.st ELSE Store
    IN /\ tokens' = s.tokens
       /\ seq' = s.seq
       /\ supply' = s.supply
       /\ balance' = s.balance
       /\ lastTx' = [tx EXCEPT !.err = o.err,
                               !.events = IF o.err = OK THEN @ ELSE {}]

CreateMsgs == [creator : Creators, symbol : Symbols, totalSupply : SupplyStrings]
UpdateMsgs == [creator : Creators, id : Ids, symbol : Symbols, totalSupply : SupplyStrings]
DeleteMsgs == [creator : Creators, id : Ids]

\* CreateToken emits create_token carrying the new id.
CreateToken(m) ==
    /\ seq < MaxSeq
    /\ LET o == CreateTokenOutcome(Store, m)
       IN Commit(o, [type |-> "create", signer |-> m.creator, err |-> OK,
                     id |-> IF o.err = OK THEN o.id ELSE NoId,
                     events |-> {[type |-> "create_token", id |-> o.id]}])

\* UpdateToken emits no event.
UpdateToken(m) ==
    Commit(UpdateTokenOutcome(Store, m),
           [type |-> "update", signer |-> m.creator, id |-> m.id, err |-> OK,
            events |-> {}])

\* DeleteToken emits no event.
DeleteToken(m) ==
    Commit(DeleteTokenOutcome(Store, m),
           [type |-> "delete", signer |-> m.creator, id |-> m.id, err |-> OK,
            events |-> {}])

NoTx == [type |-> "none", signer |-> NoId, id |-> NoId, err |-> OK, events |-> {}]

Init ==
    \E g \in Genesis :
        /\ tokens = InitGenesis(g).tokens
        /\ seq = InitGenesis(g).seq
        /\ supply = [d \in ValidDenoms |-> MapThenSumSet(LAMBDA h : BankGenesis[h][d], Holders)]
        /\ balance = BankGenesis
        /\ lastTx = NoTx

Next ==
    \/ \E m \in CreateMsgs : CreateToken(m)
    \/ \E m \in UpdateMsgs : UpdateToken(m)
    \/ \E m \in DeleteMsgs : DeleteToken(m)

Spec == Init /\ [][Next]_vars

-----------------------------------------------------------------------------
(* Refinement mapping to the registry's contract: the Token map is the     *)
(* entity map, TokenSeq the number of ids issued, and the ledger is the    *)
(* bank seen from the accounts that may receive coins.                     *)

Receivers == Addresses \ Blocked
ParsedSupplies == {x \in SupplyStrings : IntOf[x] # NotAnInt}
ParsedAmount == [x \in ParsedSupplies |-> IntOf[x]]

Contract == INSTANCE RegistryContract WITH
    entities <- tokens,
    issued <- seq,
    supply <- supply,
    holdings <- [a \in Receivers |-> balance[a]],
    Accounts <- Receivers,
    Symbols <- ValidDenoms,
    ValidSupplies <- {x \in ParsedSupplies : ParsedAmount[x] >= 0},
    Amount <- ParsedAmount,
    Entity <- Token

-----------------------------------------------------------------------------
(* Properties.                                                             *)

TypeOK ==
    /\ DOMAIN tokens \subseteq Ids /\ \A i \in DOMAIN tokens : tokens[i] \in Token
    /\ seq \in 0..MaxSeq
    /\ supply \in [ValidDenoms -> 0..MaxInt]
    /\ balance \in [Holders -> [ValidDenoms -> 0..MaxInt]]
    /\ lastTx.err \in {OK, "ErrInvalidAddress", "ErrTokenAlreadyExists", "ErrInvalidRequest",
                       "ErrKeyNotFound", "ErrUnauthorized", "ErrLogic", "ErrPanic"}

\* Spec 3: every stored id is below TokenSeq, so Next can never hand out an
\* id that is in use (CreateToken Sets at nextId without checking Has).
IdsBelowSeq == \A i \in DOMAIN tokens : i < seq

\* Spec 3/4.2: ids are never reused.  A successful CreateToken writes an id
\* that is neither live nor freed by an earlier DeleteToken: it is at least
\* the counter, which no step lowers.
NoIdReuse ==
    [][/\ lastTx'.type = "create" /\ lastTx'.err = OK
         => /\ lastTx'.id \notin DOMAIN tokens
            /\ lastTx'.id >= seq
       /\ seq' >= seq]_vars

\* Spec 4.3: only the stored creator changes or removes a token.  Any token
\* that UpdateToken or DeleteToken alters was owned by the message signer,
\* and the owner recorded on a token never changes.
OwnerOnlyMutation ==
    [][\A i \in DOMAIN tokens :
          (i \notin DOMAIN tokens' \/ tokens'[i] # tokens[i])
             => /\ lastTx'.signer = tokens[i].creator
                /\ i \in DOMAIN tokens' => tokens'[i].creator = tokens[i].creator]_vars

\* Spec 6: from any reachable state ExportGenesis yields a genesis that
\* GenesisState.Validate accepts and InitGenesis turns back into the same
\* registry (same tokens, same TokenSeq).
ExportImportRoundTrip ==
    LET g == ExportGenesis(Store)
    IN /\ GenesisValidate(g)
       /\ InitGenesis(g).tokens = tokens
       /\ InitGenesis(g).seq = seq

\* Spec 3: symbol is unique across all entities.  CreateToken enforces it
\* with GetTokenBySymbol; UpdateToken replaces the symbol with no such check.
SymbolUnique == IsInjective([i \in DOMAIN tokens |-> tokens[i].symbol])

\* Spec 6: create, update and delete each emit an event carrying the id of
\* the token they changed, for external indexers.
EventOnEveryChange ==
    [][\A i \in DOMAIN tokens \cup DOMAIN tokens' :
          (i \notin DOMAIN tokens \/ i \notin DOMAIN tokens' \/ tokens'[i] # tokens[i])
             => \E e \in lastTx'.events : e.id = i]_vars

\* Spec 4.4: mint and transfer are one atomic unit.  After every message
\* the token module account holds nothing (all it minted reached the
\* creator, or the mint was rolled back with the refused send), and each
\* denom's supply is what its holders hold.
LedgerConserved ==
    \A d \in ValidDenoms :
        /\ balance[ModuleAccount][d] = 0
        /\ supply[d] = MapThenSumSet(LAMBDA h : balance[h][d], Holders)

\* Spec 4.4: the registry mints the denomination of its own tokens only: a
\* denom some other module issues (the staking denom, say) is never minted
\* by CreateToken.  GetTokenBySymbol only looks at the registry's own
\* tokens, so a token whose symbol is such a denom mints it.
ForeignSupplyUntouched ==
    [][\A d \in ForeignDenoms : supply'[d] = supply[d]]_vars
\* The token registry implements its contract: every message either takes
\* effect as one whole create (next id, unused symbol, exact mint to the
\* creator), update (creator kept) or delete, or leaves the registry and
\* the bank as they were, whatever genesis the chain started from.
ImplementsContract == Contract!Spec
=============================================================================
