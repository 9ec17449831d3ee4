---------------------------- MODULE MCOrderClient --------------------------
(***************************************************************************)
(* The calls TLC lets the client make: every operation, optional parts     *)
(* chosen, left out or null, a method the API does not know, and a wrong   *)
(* server URL.                                                             *)
(***************************************************************************)
EXTENDS OrderClientProperties

CONSTANTS p1, p2, o1, o2, x1, t1, t2

Ship(shield, weapon) ==
  [hull_uuid |-> p1, engine_uuid |-> p2, shield_uuid |-> shield, weapon_uuid |-> weapon]

MCShips == {Ship(Null, Null), Ship(p2, Null), Ship(p2, p1)}

\* t1 lies between two seconds, t2 on one.
MCRfc3339 == t1 :> t2 @@ t2 :> t2

Call(o, i, body) == [op : {o}, id : {i}, request : body, urlOk : BOOLEAN]

Parts == {p1, p2}

MCClientCalls ==
  Call("createOrder", Nothing,
       [hull_uuid : Parts, engine_uuid : Parts, shield_uuid : Parts \cup {Unset, Null},
        weapon_uuid : Parts \cup {Unset, Null}])
  \cup UNION {Call("payOrder", i, [payment_method : PaymentMethods \cup {Garbage}]) : i \in OrderIds}
  \cup UNION {Call(o, i, {Nothing}) : o \in {"getOrder", "cancelOrder"}, i \in OrderIds}
=============================================================================
