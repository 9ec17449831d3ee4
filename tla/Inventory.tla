----------------------------- MODULE Inventory -----------------------------
(***************************************************************************)
(* InventoryService as its callers see it: what GetPart and ListParts      *)
(* answer for a given catalogue.  A catalogue is a function from the UUIDs *)
(* in table `parts' to part records; the service never writes it.          *)
(***************************************************************************)
EXTENDS Integers, Sequences, SequencesExt

CONSTANTS PartIds,      \* well-formed part UUIDs a caller may name
          Catalog       \* table parts: a function from some of PartIds to Part

Part == [price : Int, stock : Int]

ASSUME CatalogAssumption ==
  /\ DOMAIN Catalog \subseteq PartIds
  /\ \A p \in DOMAIN Catalog : Catalog[p] \in Part

\* ListParts with a non-empty uuids list: the parts in request order, or
\* NOT_FOUND as soon as one of them is missing.
ListParts(uuids) ==
  IF \A i \in DOMAIN uuids : uuids[i] \in DOMAIN Catalog
    THEN [code |-> "OK", parts |-> [i \in DOMAIN uuids |-> Catalog[uuids[i]]]]
    ELSE [code |-> "NOT_FOUND", parts |-> <<>>]
=============================================================================
