-------------------------- MODULE RegistryContract --------------------------
(***************************************************************************)
(* What the entity registry promises its callers (spec 3, 4.2-4.4, 5, 8),  *)
(* with no handler, error path or partial write in it.  Each step is one   *)
(* whole operation that took effect:                                       *)
(*   - Create gives the entity the next id of 0, 1, 2, ... (no gap, no     *)
(*     repeat), refuses a symbol already registered, and in the same step  *)
(*     mints exactly the parsed supply of that denom to the creator;       *)
(*   - Update replaces an entity's fields and keeps its creator;           *)
(*   - Delete removes an entity; neither touches the ledger.               *)
(* A message that fails is no step at all.                                 *)
(***************************************************************************)
EXTENDS Integers, Functions, TLC

CONSTANTS
    Accounts,       \* accounts the ledger may credit
    Symbols,        \* symbols that are valid ledger denoms
    ValidSupplies,  \* supply strings that parse to a non-negative integer
    Amount,         \* the integer each of them parses to
    Entity          \* the entity records

VARIABLES
    entities,  \* id -> entity
    issued,    \* the number of ids handed out so far
    supply,    \* ledger supply per denom
    holdings   \* ledger balances of the accounts: account -> denom -> amount

avars == <<entities, issued, supply, holdings>>

Create(c, sym, sup) ==
    /\ issued' = issued + 1
    /\ \A i \in DOMAIN entities : entities[i].symbol # sym
    /\ entities' = entities @@ (issued :> [creator |-> c, symbol |-> sym, totalSupply |-> sup])
    /\ supply' = [supply EXCEPT ![sym] = @ + Amount[sup]]
    /\ holdings' = [holdings EXCEPT ![c][sym] = @ + Amount[sup]]

\* The new fields are whatever entity record the update wrote.
Update(i) ==
    /\ i \in DOMAIN entities
    /\ DOMAIN entities' = DOMAIN entities
    /\ entities'[i] \in Entity
    /\ entities'[i].creator = entities[i].creator
    /\ \A j \in DOMAIN entities \ {i} : entities'[j] = entities[j]
    /\ UNCHANGED <<issued, supply, holdings>>

Delete(i) ==
    /\ i \in DOMAIN entities
    /\ i \notin DOMAIN entities'
    /\ entities' = Restrict(entities, DOMAIN entities \ {i})
    /\ UNCHANGED <<issued, supply, holdings>>

\* Any state a trusted genesis may load: every id below the counter.
Init ==
    /\ issued \in Nat
    /\ \A i \in DOMAIN entities : i \in 0..(issued - 1)

Next ==
    \/ \E c \in Accounts, sym \in Symbols, sup \in ValidSupplies : Create(c, sym, sup)
    \/ \E i \in DOMAIN entities : Update(i)
    \/ \E i \in DOMAIN entities : Delete(i)

Spec == Init /\ [][Next]_avars

=============================================================================
