-------------------------- MODULE MCOrderCheckout --------------------------
(***************************************************************************)
(* A small instance of OrderCheckout for TLC: prices near the bound of the *)
(* integers, one below zero, and a hull that can be sold out; the engine   *)
(* may be ordered three times.                                             *)
(***************************************************************************)
EXTENDS OrderCheckoutProperties

CONSTANTS hull, engine, weapon, c1

MCParse == [raw \in PartIds |-> raw]

RowOf(id, price, stock) ==
  [uuid |-> id, name |-> 0, part_type |-> 1, price |-> price, stock |-> stock]

MCRows == {RowOf(hull, 7, 1), RowOf(hull, 5, 0), RowOf(engine, 6, 2), RowOf(engine, -3, 1),
           RowOf(weapon, 4, 1)}

ShipOf(h, e, s, w) == [hull |-> h, engine |-> e, shield |-> s, weapon |-> w]

MCShips == {ShipOf(hull, engine, None, None), ShipOf(hull, engine, None, weapon),
            ShipOf(hull, engine, engine, engine)}

MCRawLists == {Uuids(choice) : choice \in MCShips}
=============================================================================
