------------------------------ MODULE Pricing ------------------------------
(***************************************************************************)
(* How CreateOrder turns a client's choice of components into a request to *)
(* the inventory, and the parts it answers into a price.                   *)
(***************************************************************************)
EXTENDS Integers, Sequences, SequencesExt

CONSTANTS Int64Bound,   \* 2^63 in the code; a smaller power of two under TLC
          None          \* a NULL column, an omitted component

ASSUME PricingAssumption == Int64Bound \in Nat \ {0}

\* Two's complement int64: what Go's + leaves in total_price.
Int64(n) == ((n + Int64Bound) % (2 * Int64Bound)) - Int64Bound

\* The UUIDs CreateOrder asks the inventory for, in its order.
Uuids(ship) ==
  <<ship.hull, ship.engine>>
    \o (IF ship.shield = None THEN <<>> ELSE <<ship.shield>>)
    \o (IF ship.weapon = None THEN <<>> ELSE <<ship.weapon>>)

\* Mutation: the test for an empty stock is < 0.
InStockOffByOne(parts) == \A i \in DOMAIN parts : parts[i].stock >= 0

\* Every listed part has stock left.
InStock(parts) == \A i \in DOMAIN parts : parts[i].stock > 0

\* Mutation: the sum is kept in half as many values.
TotalPriceNarrow(parts) ==
  LET Half(n) == ((n + Int64Bound \div 2) % Int64Bound) - Int64Bound \div 2
  IN  FoldLeft(LAMBDA total, part : Half(total + part.price), 0, parts)

\* totalPrice += part.GetPrice(), in int64.
TotalPrice(parts) ==
  FoldLeft(LAMBDA total, part : Int64(total + part.price), 0, parts)
=============================================================================
