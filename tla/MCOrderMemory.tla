--------------------------- MODULE MCOrderMemory ---------------------------
(***************************************************************************)
(* A small instance of OrderMemory for TLC: the map starts empty, so one   *)
(* request creates the order that the others pay and cancel.               *)
(***************************************************************************)
EXTENDS OrderMemory

CONSTANTS hull, engine, ghost, o1, o2, r1, r2, r3, t1, t2

MCCatalog == [p \in {hull, engine} |-> [price |-> 3, stock |-> 1]]

MCShips == {[hull |-> hull, engine |-> e, shield |-> None, weapon |-> None] :
              e \in {engine, ghost}}
=============================================================================
