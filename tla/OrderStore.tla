----------------------------- MODULE OrderStore ----------------------------
(***************************************************************************)
(* The order repository on PostgreSQL, and the transactions trManager.Do   *)
(* runs Save in.  Each request owns at most one transaction: `open' until  *)
(* its upsert has the row lock, `locked' until PostgreSQL commits it or    *)
(* rolls it back.  The database session outlives the handler that opened   *)
(* it: a COMMIT already on the wire can take effect after the handler has  *)
(* given up or its process has died.                                       *)
(***************************************************************************)
EXTENDS OrderData

VARIABLES orders,       \* table orders: OrderIds -> row or NoOrder
          local,        \* the handler's copy of its order, and what Save binds
          tx            \* what became of the request's transaction

storeVars == <<orders, local, tx>>

TxStates == {"none", "open", "locked", "committed", "aborted"}

StoreTypeOK ==
  /\ orders \in [OrderIds -> Order \cup {NoOrder}]
  /\ local \in [Requests -> Order \cup {NoOrder}]
  /\ tx \in [Requests -> TxStates]

\* SELECT ... WHERE order_uuid = $1, outside any transaction: the committed row.
Get(id) == orders[id]

\* trManager.Do is entered with Save(order) as its body.
Save(r, order) ==
  /\ local' = [local EXCEPT ![r] = order]
  /\ tx' = [tx EXCEPT ![r] = "open"]

\* INSERT ... ON CONFLICT (order_uuid) DO UPDATE waits for whoever holds the row.
Upsert(r) ==
  /\ tx[r] = "open"
  /\ \A q \in Requests : tx[q] = "locked" => local[q].id # local[r].id
  /\ tx' = [tx EXCEPT ![r] = "locked"]
  /\ UNCHANGED <<orders, local>>

\* COMMIT: the whole row is replaced, whatever it holds by now.
Commit(r) ==
  /\ tx[r] = "locked"
  /\ orders' = [orders EXCEPT ![local[r].id] = local[r]]
  /\ tx' = [tx EXCEPT ![r] = "committed"]
  /\ UNCHANGED local

Rollback(r) ==
  /\ tx[r] \in {"open", "locked"}
  /\ tx' = [tx EXCEPT ![r] = "aborted"]
  /\ UNCHANGED <<orders, local>>

=============================================================================
