----------------------------- MODULE TokenQuery -----------------------------
(***************************************************************************)
(* ListToken (query_token.go) served while transactions keep changing the  *)
(* registry.  ListToken hands the Token map to query.CollectionPaginate:   *)
(* a request without a key skips Offset entries and returns Limit of them; *)
(* a request with a key starts at that key (inclusive); either way NextKey *)
(* is the key of the entry after the page, or nil at the end.  Limit 0     *)
(* means DefaultLimit.                                                     *)
(*                                                                         *)
(* One client lists the registry page by page, following NextKey (key     *)
(* mode) or advancing Offset by Limit (offset mode).  Between two of its   *)
(* requests any number of messages of TokenRegistry may be delivered.      *)
(***************************************************************************)
EXTENDS TokenRegistry

CONSTANTS
    Limits,        \* page sizes the client asks for
    DefaultLimit   \* query.DefaultLimit, used when Limit is 0

None == -1

VARIABLES
    mode,      \* "idle", "key" or "offset": how the client pages
    limit,     \* the Limit of its requests
    cursor,    \* next request: the key (key mode) or the offset (offset mode)
    returned,  \* ids returned so far, in order
    stable,    \* ids present from the first request until now (history)
    done       \* the last response had no NextKey

clientVars == <<mode, limit, cursor, returned, stable, done>>
allVars == <<vars, clientVars>>

\* The Token map's keys in iteration order (ascending uint64 keys).
Keys(s) == SetToSortSeq(DOMAIN s.tokens, <)

EffLimit(l) == IF l = 0 THEN DefaultLimit ELSE l

Page(ks, l) == [ids |-> SubSeq(ks, 1, IF Len(ks) < l THEN Len(ks) ELSE l),
                next |-> IF Len(ks) > l THEN ks[l + 1] ELSE None]

\* Fault variant of PaginateNoKey: the offset is not applied.
PaginateNoKeyFromStart(s, offset, l) == Page(Keys(s), EffLimit(l))

\* collFilteredPaginateNoKey: skip offset entries, take l, NextKey after them.
PaginateNoKey(s, offset, l) ==
    Page(SubSeq(Keys(s), offset + 1, Len(Keys(s))), EffLimit(l))

\* Fault variant of PaginateByKey: the range starts after the key instead
\* of at it.
PaginateByKeyExclusive(s, key, l) ==
    Page(SelectSeq(Keys(s), LAMBDA i : i > key), EffLimit(l))

\* collFilteredPaginateByKey: iterate from key inclusive, take l, NextKey after.
PaginateByKey(s, key, l) ==
    Page(SelectSeq(Keys(s), LAMBDA i : i >= key), EffLimit(l))

\* The client's first request carries no key and no offset.
StartListing(md, l) ==
    /\ mode = "idle"
    /\ mode' = md
    /\ limit' = l
    /\ cursor' = 0
    /\ returned' = <<>>
    /\ stable' = DOMAIN tokens
    /\ done' = FALSE
    /\ UNCHANGED vars

\* ListToken: the request is answered from the registry as it is now.
FetchPage ==
    /\ mode # "idle" /\ ~done
    /\ LET p == IF mode = "key" /\ returned # <<>>
                THEN PaginateByKey(Store, cursor, limit)
                ELSE PaginateNoKey(Store, cursor, limit)
       IN /\ returned' = returned \o p.ids
          /\ done' = (p.next = None)
          /\ cursor' = IF mode = "key" THEN p.next ELSE cursor + EffLimit(limit)
    /\ UNCHANGED <<vars, mode, limit, stable>>

\* A message of the registry delivered between two requests.
RegistryStep ==
    /\ Next
    /\ stable' = stable \cap DOMAIN tokens'
    /\ UNCHANGED <<mode, limit, cursor, returned, done>>

QueryInit ==
    /\ Init
    /\ mode = "idle" /\ limit = 0 /\ cursor = 0
    /\ returned = <<>> /\ stable = {} /\ done = FALSE

QueryNext ==
    \/ \E md \in {"key", "offset"}, l \in Limits : StartListing(md, l)
    \/ FetchPage
    \/ RegistryStep

\* No fairness: nothing in the code bounds how many tokens are created
\* between two page requests, so no listing is promised to end.
QuerySpec == QueryInit /\ [][QueryNext]_allVars

-----------------------------------------------------------------------------
(* Properties.                                                             *)

\* Spec 4.6: pages come in ascending key order and no id is returned twice
\* over a whole listing, in either mode, whatever is created or deleted
\* between the requests.
ListingAscending == IsSorted(returned, <)

\* Spec 4.6: a key-mode listing that has finished returned every token that
\* existed when it began and was not deleted before it finished.
ListingComplete ==
    (mode = "key" /\ done) => stable \subseteq ToSet(returned)

=============================================================================
