--------------------------- MODULE MCOrderProcess --------------------------
(***************************************************************************)
(* Small instances of OrderProcess for TLC: two requests, of which one can *)
(* keep the only connection from the other.                                *)
(***************************************************************************)
EXTENDS OrderProcessProperties, OrderProperties

CONSTANTS hull, engine, o1, o2, o3, r1, r2, t1, t2

MCCatalog == [p \in {hull, engine} |-> [price |-> 3, stock |-> 1]]

MCShips == {[hull |-> hull, engine |-> engine, shield |-> None, weapon |-> None]}
=============================================================================
