------------------------- MODULE InventoryContract -------------------------
(***************************************************************************)
(* Module Inventory states what ListParts answers for a fixed catalogue,   *)
(* and OrderService is modelled with that.  Here InventoryService is shown *)
(* to meet it.                                                             *)
(***************************************************************************)
EXTENDS InventoryProperties

\* The rows of a table as a catalogue of module Inventory.
CatalogOf(t) == [p \in {q \in PartIds : t[q] # NoPart} |->
                   [price |-> t[p].price, stock |-> t[p].stock]]

\* The contract for the present table.
Contract == INSTANCE Inventory WITH Catalog <- CatalogOf(versions[Len(versions)])

\* A ListParts of well-formed UUIDs that no edit falls into answers what
\* Inventory!ListParts says of the catalogue: OrderService may be modelled with
\* it (order/pkg/service/service.go:102-119).
MeetsContract ==
  /\ TypeOK
  /\ \A c \in Calls :
       /\ code[c] \in {"OK", "NOT_FOUND"} /\ since[c] = Len(versions)
       /\ req[c].uuids # <<>>
       /\ \A i \in DOMAIN req[c].uuids : Wanted(c, i) \in PartIds
       => LET promise == Contract!ListParts([i \in DOMAIN req[c].uuids |-> Wanted(c, i)])
          IN  /\ code[c] = promise.code
              /\ code[c] = "OK" =>
                   [i \in DOMAIN parts[c] |->
                      [price |-> parts[c][i].price, stock |-> parts[c][i].stock]]
                     = promise.parts
=============================================================================
