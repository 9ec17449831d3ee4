------------------------------ MODULE MCOrder ------------------------------
(***************************************************************************)
(* Small instances of OrderService for TLC.  Three requests suffice for a  *)
(* pay, a second pay and a cancel of one order; o1 is in the table from    *)
(* the start, the others can be created.                                   *)
(***************************************************************************)
EXTENDS OrderSerial, OrderContract

CONSTANTS hull, engine, sold, ghost,    \* parts; ghost is in no catalogue
          o1, o2, o3, r1, r2, r3, t1, t2, t3

MCPartIds == {hull, engine, sold, ghost}

MCCatalog ==
  [p \in {hull, engine, sold} |->
     [price |-> IF p = hull THEN 3 ELSE 2, stock |-> IF p = sold THEN 0 ELSE 1]]

Ship(h, e, s, w) == [hull |-> h, engine |-> e, shield |-> s, weapon |-> w]

\* The engine is also ordered as a weapon: nothing compares a part's type with
\* the slot it is ordered for.
Good == Ship(hull, engine, None, engine)
MCShips == {Good, Ship(hull, ghost, None, None), Ship(hull, engine, sold, None)}

Symmetry == Permutations(Requests) \cup Permutations(Txns)
=============================================================================
