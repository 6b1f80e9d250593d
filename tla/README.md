# TLA+ models of the Omnis token and item registries

This directory holds TLA+ models of the two registry modules of the Omnis chain:
`x/token` (tokens with a minted supply) and `x/omnis` (items). It also holds
the TLC configurations that check them. Every definition is translated from the
Go sources under `src/`. `PROJECT.json` maps each definition to the lines it
models and lists the runs, mutants, findings and hazards.

## 1. Inventory

### Components and their state

| Component | Sources | State | Operations |
|---|---|---|---|
| Entity Registry (token) | `x/token/keeper/msg_server_token.go`, `keeper.go`, `types/messages_token.go` | `Token` map `uint64 -> Token{creator, name, symbol, decimals, totalSupply, metadata}` | `CreateToken`, `UpdateToken`, `DeleteToken`, `GetTokenBySymbol` (a linear Walk) |
| Sequence Allocator | `keeper.go` (`TokenSeq`) | one persisted `uint64` | `Next` in CreateToken, `Set` in InitGenesis, `Peek` in ExportGenesis |
| Ledger Bridge | `msg_server_token.go:65-84`, `app/app.go` (module permissions) | bank supply and balances (external) | `MintCoins` to the `token` module account, then `SendCoinsFromModuleToAccount` to the creator |
| Genesis Codec | `keeper/genesis.go`, `types/genesis.go`, `module/simulation.go` | none of its own | `InitGenesis`, `ExportGenesis`, `GenesisState.Validate`, `DefaultGenesis`, the simulation genesis |
| Query Paginator | `keeper/query_token.go` | none; the client holds the cursor | `ListToken` (CollectionPaginate, key or offset), `GetToken` |
| Event Emitter | `msg_server_token.go:86-94`, `x/omnis/keeper/msg_server.go` | events of the current message | `create_token`; the item module emits `create_item`, `update_item`, `delete_item` |
| Item Registry (omnis) | `x/omnis/keeper/keeper.go`, `msg_server.go`, `query_params.go`, `types/keys.go` | `Items` map `string -> Item{id, name, owner}`, `Params` | `CreateItem`, `UpdateItem`, `DeleteItem`, `GetItem`, `AllItems` |
| Not modelled | `types/token.go`, `module/autocli.go`, `app/app.go` | — | a stale placeholder type, CLI descriptors, wiring |

### How they interact

The Ledger Host (Cosmos SDK BaseApp) delivers one message at a time. It runs
each message in a cache-wrapped context and writes that context back only when
the handler returns no error. The spec (section 5) makes this all-or-nothing
commit a contract of the host.

`CreateToken` runs these steps in order:
1. decode the creator address;
2. check the symbol with `GetTokenBySymbol`;
3. parse `totalSupply`;
4. call `TokenSeq.Next`;
5. `Token.Set`;
6. check `IsValidDenom(symbol)`;
7. call `MintCoins` and then `SendCoinsFromModuleToAccount`;
8. emit the event.

The token is therefore in the store and the id consumed before the three steps
that can still fail (the denom check, the mint and the send). Update and delete
check ownership against the stored creator. They write the token back or remove
it. They touch no coins and emit no event.

Genesis runs outside the message path. `InitGenesis` writes the list and then
sets `TokenSeq`. `ExportGenesis` walks the map in key order and peeks at the
counter.

`ListToken` reads the map as it is when the request arrives. A client that
pages through the map sends several requests, and any messages may be
delivered between them.

### What is hard

- **Partial failure.** Writes happen before checks that can still fail (lines
  57, 67, 75, 81). Only the host's rollback makes them safe.
- **Long legal sequences.** Create, delete, create must not reuse an id. A
  sequence of updates must not make two symbols equal, yet it does. Re-creating
  a deleted symbol mints it again.
- **Restart.** An export followed by an import must give back the same registry
  with a counter above every id.
- **Interleaving with a reader.** Pagination runs across blocks while creates
  and deletes land between the pages.
- **Numeric edge.** Minting a denom twice can exceed the 256-bit `sdk.Int`
  ceiling, and the bank then panics.

Nothing in the core runs concurrently inside one message. The hazards come from
the order of messages and from failing steps.

### What makes each component correct

- Registry:
  - ids are unique and below `TokenSeq`;
  - freed ids are never reused;
  - only the creator mutates a token, and the creator never changes;
  - symbols are unique (spec section 3);
  - every change is announced by an event (spec section 6).
- Ledger Bridge: the module account keeps nothing after a message, and the
  supply of every denom equals what the accounts hold.
- Genesis: `Validate(Export(S))` holds, and `Import(Export(S)) = S`.
- Paginator:
  - pages are ascending with no repeats;
  - a key-mode listing returns every token that survives it.
- Items: a create never overwrites, and only the owner mutates. An indexer
  that loads `AllItems` once and then follows the events stays equal to what
  `GetItem` answers.

## 2. Modules

| Module | Models | Composes |
|---|---|---|
| `TokenRegistry` | the token keeper, the three handlers, the bank calls, the genesis codec and the host's commit | instances `RegistryContract` through a refinement mapping (`Contract`) |
| `MCTokenRegistry` | constants for TLC: three accounts (one blocked), a malformed address, symbols `GLD`, `SLV` and `""`, and the supply strings `"0"`, `"2"`, `"-1"` and `"x"` | `TokenRegistry` |
| `TokenQuery` | a `ListToken` client in key or offset mode | extends `TokenRegistry`: any registry message may occur between two pages |
| `MCTokenQuery` | a small registry with three ids and page sizes 0, 1 and 2 | `TokenQuery` |
| `RegistryContract` | the abstract registry: what create, update and delete promise (spec 3, 4.2-4.4, 5, 8), each one whole step | — |
| `SchemaBuilder` | `NewKeeper`'s schema build: collections registered in literal order, then `sb.Build()`, which rejects overlapping prefixes (spec 4.1), and the panic on its error | — |
| `TokenKeeperSchema` | the token keeper's layout: `TokenSeq` under `TokenKeyPrefix + "_seq"`, then `Token` under `TokenKeyPrefix` | extends `SchemaBuilder` |
| `MCTokenKeeperSchema` | two candidate values of `TokenKeyPrefix`, which the sources leave undefined | `TokenKeeperSchema` |
| `ItemRegistry` | the omnis keeper's construction, its three handlers, the `GetItem` and `AllItems` queries, and an indexer reading them | instances `SchemaBuilder` (`Schema`) with the omnis layout, as the phase before any message |
| `MCItemRegistry` | two owners, a malformed creator, ids `""`, `a` and `b` in key order | `ItemRegistry` |

### How the code maps to the model

- **State.** `tokens` is the `Token` map, as a function from the ids present.
  `seq` is `TokenSeq`. `supply` and `balance` are the bank. `lastTx` holds the
  message just delivered: its type, signer, id, error and committed events.
  Name, decimals and metadata are never read by any branch, so they are left
  out.
- **Handlers.** Each handler is an operator `XOutcome(s, m)`. It returns the
  store after the writes the Go code performs before its first `return`,
  together with that error. `Then` is the early return.
- **Commit.** `Commit` is the host. It keeps the outcome's store when there is
  no error and the old store otherwise. The events of a failed message are
  dropped too.
- **Actions.** `CreateToken(m)`, `UpdateToken(m)` and `DeleteToken(m)` are the
  whole handlers. Their inputs range over small message sets.
- **Initial states.** `Init` starts from a genesis, through `InitGenesis`. The
  bank starts from its own genesis balances `BankGenesis`, with the supply of
  each denom the sum of what its holders hold. `ForeignDenoms` are valid denoms
  another module already issues, such as the staking denom.
- **Blocked accounts.** `Holders` follows `app.go`'s `BlockedAddresses`. Every
  module account is blocked, so the bank credits only the unblocked accounts and
  the token module account that `MintCoins` fills.
- **Items.** `items` is the `Items` map and `lastTx` the last message, as for
  tokens. `CreateEvent`, `UpdateEvent` and `DeleteEvent` carry the attributes
  the handlers put on their events: the id, the new name and the stored owner.
  `AllItems` is the walk over `IterateItems` in the byte order of the keys
  (`KeyOrder`). `GetItemQuery` maps `ErrNotFound` to `NotFound`. The indexer
  (`synced`, `index`) is the environment, not code. `SyncIndex` loads an
  `AllItems` answer once. After that, `Deliver` applies the events of every
  committed message to it.
- **Data.** `sdk.NewIntFromString` is the table `IntOf`. `IsValidDenom` is the
  subset `ValidDenoms`. The bank's amounts are scaled so that `MaxInt = 3`
  stands for `2^256-1`: two mints of `"2"` to one denom overflow.

## 3. Runs

| Run | Cfg | Expect | What it shows |
|---|---|---|---|
| `token_registry` | `MCTokenRegistry.cfg` | pass | `TypeOK`, `IdsBelowSeq`, `LedgerConserved` (the module account never keeps minted coins, and supply equals holdings), `ExportImportRoundTrip`, `NoIdReuse`, `OwnerOnlyMutation` hold over every message sequence from the default and a validated one-token genesis. |
| `token_simulation_genesis` | `MCTokenRegistry_Simulation.cfg` | pass | From the genesis `GenerateGenesisState` builds (two tokens, `TokenCount` 2), further creates by the simulation's accounts never reuse an id (`NoIdReuse`), and every reachable registry passes `ExportImportRoundTrip`. |
| `token_symbol_unique` | `MCTokenRegistry_SymbolUnique.cfg` | violation | Create GLD, create SLV, then update the first token to SLV: two tokens share a symbol. |
| `token_update_events` | `MCTokenRegistry_Events.cfg` | violation | An update changes a token and emits no event. |
| `token_refinement` | `MCTokenRegistry_Refinement.cfg` | pass | `ImplementsContract`: the detailed registry implements `RegistryContract` under the mapping below. |
| `token_foreign_denom` | `MCTokenRegistry_Foreign.cfg` | violation | Bob holds 1 `SLV` issued by another module. Alice's `CreateToken` with symbol `SLV` mints 2 more. |
| `token_create_test` | `MCTokenRegistry_CreateTest.cfg` | violation | The creator-only `MsgCreateToken` of `TestTokenMsgServerCreate` fails with `ErrInvalidRequest` instead of returning id 0. |
| `token_keeper_schema` | `MCTokenKeeperSchema.cfg` | violation | `NewKeeperSucceeds` fails for both prefixes. `TokenSeq`'s prefix extends `Token`'s, so `Build` reports an overlap and `NewKeeper` panics. |
| `token_pagination` | `MCTokenQuery.cfg` | pass | `ListingAscending`, and `ListingComplete` (key mode) hold with creates and deletes between the pages (55k states). |
| `item_registry` | `MCItemRegistry.cfg` | pass | The following hold: `ItemTypeOK`, `OmnisKeeperBuilds` (the `p_omnis` and `i_omnis_item` prefixes do not overlap, so the keeper is built before any message), `CreateNeverOverwrites` and `ItemOwnerOnlyMutation`. `IndexAgreesWithQueries` also holds: after loading `AllItems` at any point and following the events, the indexer answers every id as `GetItem` does. |

### The refinement

`RegistryContract` has no error path and no partial write. Each of its steps
is one whole operation:
- `Create` gives the next id (0, 1, 2, ... with no gap), refuses a symbol
  already registered, and in the same step mints exactly the parsed supply to
  the creator.
- `Update` replaces an entity and keeps its creator.
- `Delete` removes an entity.

Neither `Update` nor `Delete` touches the ledger. `TokenRegistry` maps onto it
as follows:
- `entities <- tokens` and `issued <- seq`;
- `supply <- supply`;
- `holdings <-` the balances of the accounts the bank may credit.

A failed message is a stuttering step of the contract. The refinement
therefore states, in one property, several things together:
- ids are consecutive;
- creates are unique;
- mint and send are atomic;
- update and delete leave the ledger alone;
- genesis ids lie below the counter.

The mutant that drops `GetTokenBySymbol` from `CreateToken` breaks it.

Every property of a passing run has a mutant in `PROJECT.json`: a fault variant
of a mapped definition, defined next to it, that TLC must catch. Examples are
the counter not advanced, the id taken from the token count, the ownership
check dropped, the export counting tokens, the offset ignored and the key
range made exclusive.

### Bounds

- **Token registry.** `MaxSeq = 2` lets create, delete, create happen, which is
  enough for id reuse and for minting a denom twice. Three valid accounts
  include one blocked account, so the refused send is reached. The empty symbol
  reaches the invalid-denom path after the write. The four supply strings cover
  every branch of the parse. `MaxSeq` bounds `TokenSeq` itself, so the
  simulation genesis, whose `TokenCount` is 2, has its own run with
  `MaxSeq = 4`: two more creates, by its two accounts, with one valid denom
  and two supply strings to keep that run small.
- **Query.** Three ids and page sizes 1 and 2 give listings of two or three
  pages with deletions before, at and after the cursor. Limit 0 covers the
  default.
- **Items.** The bound is the finite id set. Owners are symmetric. Two names
  make a rename visible to the indexer. The indexer can sync before, between or
  after any messages.

### Fairness

No fairness is assumed and no liveness is checked. A query is answered
synchronously, but nothing in the code bounds how many tokens are created
between two page requests (`TokenSeq` is unbounded), so a key-mode listing
need not reach its last page; only the model's `MaxSeq` would make it end.
Messages may be delivered or not.

## 4. Findings

1. **Duplicate symbols.** `UpdateToken` does not enforce symbol uniqueness
   (`msg_server_token.go:133`), which spec section 3 requires.
2. **Missing events.** `UpdateToken` and `DeleteToken` emit no events, which
   spec section 6 requires.
3. **Foreign denoms.** `CreateToken` mints any denom that `IsValidDenom`
   accepts. This includes denoms other modules issue, such as the staking
   denom, because the symbol check searches only the registry.
4. **Create test.** `TestTokenMsgServerCreate` expects five creates with only a
   creator to succeed with ids 0 to 4. The handler rejects the empty
   `TotalSupply` at line 34.
5. **Overlapping prefixes.** The token `NewKeeper` registers `TokenSeq` under
   `TokenKeyPrefix + "_seq"` (`keeper.go:43`), and that prefix begins with the
   `Token` map's prefix. Spec 4.1 makes overlapping prefixes a fatal error at
   construction, so `sb.Build()` fails and `NewKeeper` panics at line 48.
   `token_keeper_schema` shows this for every value of `TokenKeyPrefix` it
   tries.

`GetTokenBySymbol` swallows a Walk error, and `CreateToken` then treats the
symbol as unused. In the sources, the only way that Walk can fail is the
`TokenSeq` key, the layout of finding 5. With spec 4.1's check in place, no
keeper with a failing Walk exists. This part is read from the code and not
checked by a run: if the overlap were let through, the sequence key would sort
after every token with an id below `0x5f << 56`. A symbol lookup would then
still find each token before it reached that key, and a miss would still
report not-found. `ListToken` on its last page and `ExportGenesis` would fail
instead.

## 5. Not modelled, and why

- `GetToken` is a single `Token.Get` with its error mapping. No property reads
  it, because the registry has no event stream a reader could compare it with.
  `TokenQuery` checks the reads a client combines over time, which are the
  pages of `ListToken`.
- Requests are never nil, and store reads never fail. So the `InvalidArgument`
  and `Internal` answers of the queries never occur.
- `Params`: the token keeper has no `Params` collection, although genesis uses
  one. Params are opaque.
- Store and decode errors of the collections: every stored value is a typed
  token.
- The collections library itself is outside the sources. `SchemaBuilder`
  takes its `Build` check from spec 4.1. `Get` and `Walk` never fail on a store
  or decode error, because every value is written by the same codec.
- `types/token.go` is a placeholder conflicting with the generated types.
- `autocli.go` and `app.go` are surface and wiring.
- The `x/omnis` sources do not compile as given: methods sit inside the struct
  and imports are missing. The model follows their evident intent.

## 6. Status of the plan

1. **Done, reframed: Walk failure.** The sources can make the Walk fail only
   through the prefix layout. That layout is now checked by
   `token_keeper_schema` (finding 5). A fault that corrupts stored bytes is not
   something this code handles, so it is not modelled.
2. **Done:** `RegistryContract`, with the `token_refinement` run, and the
   `token_create_test` run.
3. **Done:** the item queries and the indexer (`IndexAgreesWithQueries`).
4. **Dropped: restart step.** `ExportImportRoundTrip` already holds in every
   reachable state. So a restart through export and import leaves the registry
   and `TokenSeq` unchanged, and a restart action adds no state.
5. **Dropped: item refinement.** An abstract item registry would state only
   what `CreateNeverOverwrites` and `ItemOwnerOnlyMutation` state. The events
   cannot appear in a state mapping.
