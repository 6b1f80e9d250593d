---------------------------- MODULE ItemRegistry ----------------------------
(***************************************************************************)
(* The x/omnis item registry: the keeper's Items map (keyed by a string id *)
(* the creator chooses) and the CreateItem, UpdateItem and DeleteItem      *)
(* handlers of msg_server.go.  None of them writes before its last check,  *)
(* so a failed message changes nothing even without the host's rollback.  *)
(* An item is its owner and its name; the events are the ones the          *)
(* handlers emit on success, with the attributes they carry.               *)
(* The GetItem and AllItems queries of query_params.go are read by an      *)
(* indexer, the environment: it loads an AllItems answer once and then     *)
(* follows the events of every committed message.                          *)
(* NewKeeper's schema build (SchemaBuilder) comes first; the handlers and  *)
(* queries run only on the keeper it returns.                              *)
(***************************************************************************)
EXTENDS FiniteSets, Sequences, Functions

CONSTANTS
    Addresses,     \* creator strings addressCodec.StringToBytes accepts
    BadAddresses,  \* creator strings that fail to decode
    ItemIds,       \* ids used in messages, the empty id among them
    EmptyId,       \* the id ""
    Names,         \* item names used in messages
    KeyOrder       \* the ids in the byte order of their StringKey encoding

ASSUME EmptyId \in ItemIds
ASSUME KeyOrder \in Seq(ItemIds) /\ Range(KeyOrder) = ItemIds

OK == "OK"
NoSigner == "none"

Creators == Addresses \cup BadAddresses
Item == [owner : Addresses, name : Names]

VARIABLES
    items,   \* collections.Map[string, Item] Items: a function from the ids present
    lastTx,  \* the last message: its type, signer, id, error and events
    synced,  \* whether the indexer has loaded an AllItems answer
    index,   \* the indexer's copy: id -> item as a query returns it
    layout, registered, phase  \* NewKeeper's schema build (SchemaBuilder)

itemVars == <<items, lastTx, synced, index>>
vars == <<items, lastTx, synced, index, layout, registered, phase>>

\* types.ParamsKey and types.ItemKeyPrefix (keys.go), as the bytes of the
\* strings "p_omnis" and "i_omnis_item".
ParamsKey == <<"p", "_", "o", "m", "n", "i", "s">>
\* Fault variant of ItemKeyPrefix: the item prefix extends the params one.
ItemKeyPrefixUnderParams == ParamsKey \o <<"_", "i", "t", "e", "m">>
ItemKeyPrefix == <<"i", "_", "o", "m", "n", "i", "s", "_", "i", "t", "e", "m">>

\* NewKeeper's composite literal: the Params item, then the Items map.
OmnisLayout ==
    << [name |-> "params", prefix |-> ParamsKey],
       [name |-> "items", prefix |-> ItemKeyPrefix] >>

Schema == INSTANCE SchemaBuilder WITH Layouts <- {OmnisLayout}

\* Keeper.SetItem: Items.Set(item.Id, item) inserts or overwrites.
SetItem(f, id, it) == [i \in DOMAIN f \cup {id} |-> IF i = id THEN it ELSE f[i]]

\* Keeper.DeleteItem: Items.Remove(id).
DeleteItemKey(f, id) == Restrict(f, DOMAIN f \ {id})

\* The events of keys.go with their attributes: item_id, item_name or
\* new_item_name, and creator (the stored owner on update and delete).
CreateEvent(id, name, owner) == [type |-> "create_item", id |-> id, name |-> name, creator |-> owner]
UpdateEvent(id, name, owner) == [type |-> "update_item", id |-> id, name |-> name, creator |-> owner]
DeleteEvent(id, owner) == [type |-> "delete_item", id |-> id, creator |-> owner]

\* Outcome of a handler: the map it leaves, its error, its events.
Ok(f, evs) == [items |-> f, err |-> OK, events |-> evs]
Err(f, e) == [items |-> f, err |-> e, events |-> {}]

\* Fault variant of CreateItemOutcome: the existence check is missing, and
\* one where the empty id is accepted.
CreateItemOutcomeNoExistCheck(f, m) ==
    IF m.creator \in BadAddresses THEN Err(f, "ErrInvalidAddress")
    ELSE IF m.id = EmptyId THEN Err(f, "ErrEmptyId")
    ELSE Ok(SetItem(f, m.id, [owner |-> m.creator, name |-> m.name]),
            {CreateEvent(m.id, m.name, m.creator)})
CreateItemOutcomeEmptyId(f, m) ==
    IF m.creator \in BadAddresses THEN Err(f, "ErrInvalidAddress")
    ELSE IF m.id \in DOMAIN f THEN Err(f, "ErrExists")
    ELSE Ok(SetItem(f, m.id, [owner |-> m.creator, name |-> m.name]),
            {CreateEvent(m.id, m.name, m.creator)})

\* CreateItem: decode the creator, refuse the empty id, GetItem must report
\* not-found, then SetItem with the creator as owner and emit create_item.
CreateItemOutcome(f, m) ==
    IF m.creator \in BadAddresses THEN Err(f, "ErrInvalidAddress")
    ELSE IF m.id = EmptyId THEN Err(f, "ErrEmptyId")
    ELSE IF m.id \in DOMAIN f THEN Err(f, "ErrExists")
    ELSE Ok(SetItem(f, m.id, [owner |-> m.creator, name |-> m.name]),
            {CreateEvent(m.id, m.name, m.creator)})

\* Fault variants of UpdateItemOutcome: no ownership check; no event.
UpdateItemOutcomeNoOwnerCheck(f, m) ==
    IF m.id \notin DOMAIN f THEN Err(f, "ErrNotFound")
    ELSE Ok(SetItem(f, m.id, [f[m.id] EXCEPT !.name = m.newName]),
            {UpdateEvent(m.id, m.newName, f[m.id].owner)})
UpdateItemOutcomeNoEvent(f, m) ==
    IF m.id \notin DOMAIN f THEN Err(f, "ErrNotFound")
    ELSE IF f[m.id].owner # m.creator THEN Err(f, "ErrUnauthorized")
    ELSE Ok(SetItem(f, m.id, [f[m.id] EXCEPT !.name = m.newName]), {})

\* UpdateItem: GetItem, ownership check, set the new name, SetItem, emit
\* update_item.  The creator string is not decoded.
UpdateItemOutcome(f, m) ==
    IF m.id \notin DOMAIN f THEN Err(f, "ErrNotFound")
    ELSE IF f[m.id].owner # m.creator THEN Err(f, "ErrUnauthorized")
    ELSE Ok(SetItem(f, m.id, [f[m.id] EXCEPT !.name = m.newName]),
            {UpdateEvent(m.id, m.newName, f[m.id].owner)})

\* DeleteItem: GetItem, ownership check, Keeper.DeleteItem, emit delete_item.
DeleteItemOutcome(f, m) ==
    IF m.id \notin DOMAIN f THEN Err(f, "ErrNotFound")
    ELSE IF f[m.id].owner # m.creator THEN Err(f, "ErrUnauthorized")
    ELSE Ok(DeleteItemKey(f, m.id), {DeleteEvent(m.id, f[m.id].owner)})

-----------------------------------------------------------------------------
(* The queries of query_params.go.  A request is never nil here, and a     *)
(* store read never fails, so InvalidArgument and Internal do not occur.   *)

\* types.Item as a response carries its id.
StoredItem(f, id) == [id |-> id, name |-> f[id].name, owner |-> f[id].owner]

\* Keeper.IterateItems: Items.Walk over the whole range visits the keys in
\* ascending order.
IterateItems(f) == SelectSeq(KeyOrder, LAMBDA i : i \in DOMAIN f)

\* AllItems: the callback appends every item and never stops the walk.
AllItems(f) ==
    LET ids == IterateItems(f) IN [k \in 1..Len(ids) |-> StoredItem(f, ids[k])]

\* GetItem (query): collections.ErrNotFound becomes codes.NotFound.
GetItemQuery(f, id) ==
    IF id \in DOMAIN f THEN [code |-> "OK", item |-> StoredItem(f, id)]
    ELSE [code |-> "NotFound"]

-----------------------------------------------------------------------------
(* The indexer: loads an AllItems answer, then applies each committed      *)
(* event by its attributes.  A handler emits at most one event.            *)

IndexFromAllItems(resp) ==
    [i \in {r.id : r \in Range(resp)} |-> CHOOSE r \in Range(resp) : r.id = i]

ApplyEvent(ix, e) ==
    IF e.type = "delete_item" THEN DeleteItemKey(ix, e.id)
    ELSE SetItem(ix, e.id, [id |-> e.id, name |-> e.name, owner |-> e.creator])

ApplyEvents(ix, evs) ==
    IF evs = {} THEN ix ELSE ApplyEvent(ix, CHOOSE e \in evs : TRUE)

IndexLookup(ix, id) ==
    IF id \in DOMAIN ix THEN [code |-> "OK", item |-> ix[id]] ELSE [code |-> "NotFound"]

SyncIndex ==
    /\ ~synced
    /\ synced' = TRUE
    /\ index' = IndexFromAllItems(AllItems(items))
    /\ UNCHANGED <<items, lastTx>>

\* The host keeps the writes and events of a message that succeeds; a
\* synced indexer sees the events of the committed ones.
Deliver(o, type, m) ==
    /\ items' = IF o.err = OK THEN o.items ELSE items
    /\ lastTx' = [type |-> type, signer |-> m.creator, id |-> m.id,
                  err |-> o.err, events |-> o.events]
    /\ index' = IF synced /\ o.err = OK THEN ApplyEvents(index, o.events) ELSE index
    /\ UNCHANGED synced

CreateMsgs == [creator : Creators, id : ItemIds, name : Names]
UpdateMsgs == [creator : Creators, id : ItemIds, newName : Names]
DeleteMsgs == [creator : Creators, id : ItemIds]

CreateItem(m) == Deliver(CreateItemOutcome(items, m), "create", m)
UpdateItem(m) == Deliver(UpdateItemOutcome(items, m), "update", m)
DeleteItem(m) == Deliver(DeleteItemOutcome(items, m), "delete", m)

\* The omnis module's genesis is not part of the sources: the map starts empty.
Init ==
    /\ Schema!SchemaInit
    /\ items = <<>>
    /\ lastTx = [type |-> "none", signer |-> NoSigner, id |-> EmptyId, err |-> OK, events |-> {}]
    /\ synced = FALSE
    /\ index = <<>>

\* The keeper is constructed first; messages and queries reach it only
\* once NewKeeper has returned.
Next ==
    \/ Schema!SchemaNext /\ UNCHANGED itemVars
    \/ /\ phase = "built"
       /\ UNCHANGED <<layout, registered, phase>>
       /\ \/ SyncIndex
          \/ \E m \in CreateMsgs : CreateItem(m)
          \/ \E m \in UpdateMsgs : UpdateItem(m)
          \/ \E m \in DeleteMsgs : DeleteItem(m)

Spec == Init /\ [][Next]_vars

-----------------------------------------------------------------------------
(* Properties.                                                             *)

\* NewKeeper of the omnis module returns: its Params item and Items map
\* live under key ranges that do not overlap, so sb.Build() succeeds and the
\* item handlers get a keeper to run on.
OmnisKeeperBuilds == Schema!NewKeeperSucceeds

\* Every stored item sits under a non-empty id and is owned by an address
\* that decodes.
ItemTypeOK ==
    /\ DOMAIN items \subseteq ItemIds \ {EmptyId}
    /\ \A i \in DOMAIN items : items[i] \in Item

\* Only an item's owner changes or removes it, and its owner never changes:
\* UpdateItem, which never decodes the signer, still only lets the stored
\* owner rename.
ItemOwnerOnlyMutation ==
    [][\A i \in DOMAIN items :
          (i \notin DOMAIN items' \/ items'[i] # items[i])
             => /\ lastTx'.signer = items[i].owner
                /\ i \in DOMAIN items' => items'[i].owner = items[i].owner]_vars

\* CreateItem never replaces an item another (or the same) creator made
\* under the id it chose.
CreateNeverOverwrites ==
    [][lastTx'.type = "create" =>
          \A i \in DOMAIN items : i \in DOMAIN items' /\ items'[i] = items[i]]_vars

\* An indexer that loaded the AllItems answer at some height and then
\* applied the create_item, update_item and delete_item events of every
\* later committed message answers every id as the GetItem query does: the
\* events carry each change, with the new name and the owner, and AllItems
\* lists every item.
IndexAgreesWithQueries ==
    synced => \A id \in ItemIds : IndexLookup(index, id) = GetItemQuery(items, id)

=============================================================================
