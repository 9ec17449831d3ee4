---------------------------- MODULE OrderContract --------------------------
(***************************************************************************)
(* OrderApi replaces OrderService by what its methods may return.  Here    *)
(* the two meet: each request OrderService answers is such a call, and     *)
(* what it answers and holds by then is such a return.                     *)
(***************************************************************************)
EXTENDS OrderInvariant

\* A choice of components by the names of the API.
ApiShip(ship) ==
  [hull_uuid |-> ship.hull, engine_uuid |-> ship.engine,
   shield_uuid |-> ship.shield, weapon_uuid |-> ship.weapon]

\* OrderService does not look at created_at: one time stands for all.
Method ==
  INSTANCE OrderMethods
    WITH Txs <- Txns, Null <- None, Times <- {None},
         Ships <- {ApiShip(ship) : ship \in Ships},
         Prices <- {TotalPrice(ListParts(Uuids(ship)).parts) : ship \in {s \in Ships : Orderable(s)}}

OpOf == [create |-> "createOrder", get |-> "getOrder", pay |-> "payOrder", cancel |-> "cancelOrder"]

\* The call of the service method a request is, and the order it holds.
MethodCall(r) ==
  [op |-> OpOf[call[r].op],
   id |-> IF call[r].op = "create" THEN None ELSE call[r].id,
   input |-> IF call[r].op = "create" THEN ApiShip(call[r].ship)
             ELSE IF call[r].op = "pay" THEN call[r].method ELSE None]

MethodOrder(r) ==
  [order_uuid |-> local[r].id, hull_uuid |-> local[r].parts.hull,
   engine_uuid |-> local[r].parts.engine, shield_uuid |-> local[r].parts.shield,
   weapon_uuid |-> local[r].parts.weapon, total_price |-> local[r].price,
   transaction_uuid |-> local[r].txn, payment_method |-> local[r].method,
   status |-> local[r].status, created_at |-> None]

\* The status the handlers answer each outcome with, as MappedAsDocumented has it.
StatusOf(op, outcome) ==
  CASE outcome = "ok" -> IF op = "createOrder" THEN 201 ELSE 200
    [] outcome \in {"ErrOrderNotFound", "ErrComponentNotFound"} -> 404
    [] outcome \in {"ErrOrderAlreadyFinal", "ErrComponentOutOfStock"} -> 409
    [] outcome = "failed" -> 500

\* A request is answered with the status of an outcome the handlers expect of its
\* service method.  If it went well the order it holds is one the method may return:
\* a created one as it was posted and pending, a paid one with a transaction and the
\* method asked for, a cancelled one with neither, a read one any of these.  If the
\* error has a name it has changed nothing and never will: no charge was asked for
\* and no transaction begun (service.go:91-218, api/handler.go:78-185).
ReturnsAsSupposed ==
  \A r \in Requests : pc[r] = "done" =>
    \E outcome \in Method!Outcomes(MethodCall(r).op) :
      /\ code[r] = StatusOf(MethodCall(r).op, outcome)
      /\ outcome = "ok" => MethodOrder(r) \in Method!Returned(MethodCall(r))
      /\ outcome \notin {"ok", "failed"} => tx[r] = "none" /\ rpc[r] = "none"

-----------------------------------------------------------------------------
\* What it takes: the order a request holds is a good row from the moment it is
\* handed to PostgreSQL or read for the client, and is what the request asked for.
ReturnInv ==
  \A r \in Requests :
    /\ tx[r] # "none" =>
         /\ RowOK(local[r], ledger)
         /\ call[r].op = "create" =>
              local[r].status = "PENDING_PAYMENT" /\ local[r].parts = call[r].ship
         /\ call[r].op # "create" => local[r].id = call[r].id
         /\ call[r].op = "pay" => local[r].status = "PAID" /\ local[r].method = call[r].method
         /\ call[r].op = "cancel" => local[r].status = "CANCELLED"
    /\ pc[r] = "done" => code[r] # NoCode
    /\ code[r] = 409 => call[r].op # "get"
    /\ code[r] \in {404, 409} => tx[r] = "none" /\ rpc[r] = "none"
    /\ code[r] \in {200, 201} =>
         /\ code[r] = 201 <=> call[r].op = "create"
         /\ call[r].op = "get" => RowOK(local[r], ledger)
=============================================================================
