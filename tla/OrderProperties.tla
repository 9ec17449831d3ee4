-------------------------- MODULE OrderProperties --------------------------
(***************************************************************************)
(* What OrderService must do for its clients, whatever the interleaving of *)
(* their requests, the failures of the calls it makes and its crashes.     *)
(***************************************************************************)
EXTENDS OrderService

Succeeded(r, op) == pc[r] = "done" /\ code[r] \in {200, 201} /\ call[r].op = op

\* Request r is, or was, a pay or cancel of order id.
Targets(r, id) ==
  call[r] # None /\ call[r].op \in {"pay", "cancel"} /\ call[r].id = id

\* Request r ended and its client was not told whether it took effect: it may have
\* been charged, and its COMMIT may yet come (service.go:170-191).
Unclear(r) == pc[r] = "gone" \/ code[r] = 500

Doubted == {id \in OrderIds : \E r \in Requests : Targets(r, id) /\ Unclear(r)}

-----------------------------------------------------------------------------
\* The name of a payment method in shared/proto/payment/v1/payment.proto:15-21.
ProtoName == [CARD           |-> "PAYMENT_METHOD_CARD",
              SBP            |-> "PAYMENT_METHOD_SBP",
              CREDIT_CARD    |-> "PAYMENT_METHOD_CREDIT_CARD",
              INVESTOR_MONEY |-> "PAYMENT_METHOD_INVESTOR_MONEY"]

\* A row says PAID exactly when it holds a transaction and a method, and they
\* are those of one charge PaymentService made for that very order: no mix of
\* two payments, no payment left on a cancelled order (service.go:183-185, 211).
PaidIsBacked ==
  \A id \in OrderIds :
    orders[id] # NoOrder =>
      IF orders[id].status = "PAID"
        THEN /\ orders[id].method # None
             /\ [txn |-> orders[id].txn, order |-> id,
                 method |-> ProtoName[orders[id].method]] \in ledger
        ELSE orders[id].txn = None /\ orders[id].method = None

\* Every charge belongs to one pay request for that order and method, and that
\* request is still on its way to record it, or its client was told it failed,
\* or it recorded the charge - and the row shows it, unless another request
\* that saw the order pending has replaced the row (service.go:170-193).
ChargeAccounted ==
  \A c \in ledger : \E r \in Requests :
    /\ rpc[r] = "served" /\ reply[r] = c.txn
    /\ call[r].op = "pay" /\ call[r].id = c.order /\ ProtoName[call[r].method] = c.method
    /\ \/ pc[r] \in {"paying", "saving"}
       \/ pc[r] = "gone" \/ code[r] = 500
       \/ /\ tx[r] = "committed"
          /\ \/ orders[c.order].txn = c.txn
             \/ \E q \in Requests \ {r} : Targets(q, c.order) /\ tx[q] = "committed"

\* An order the client was told of is in the table with the components and the
\* price it was told (service.go:132-138), and an order a client was told is
\* paid or cancelled is never pending again (187-193, 213-219).
AcknowledgedIsStored ==
  \A r \in Requests :
    /\ Succeeded(r, "create") =>
         LET row == orders[local[r].id]
         IN  row # NoOrder /\ row.parts = call[r].ship /\ row.price = local[r].price
    /\ Succeeded(r, "pay") \/ Succeeded(r, "cancel") =>
         orders[call[r].id] # NoOrder /\ ~Pending(call[r].id)

\* A 409 on an order, like a GET that showed it paid or cancelled, stays true:
\* the client may drop the order for good (service.go:166-168, 207-209).
FinalSeenStaysFinal ==
  \A r \in Requests :
    /\ pc[r] = "done" /\ code[r] = 409 /\ call[r].op # "create" => ~Pending(call[r].id)
    /\ Succeeded(r, "get") /\ local[r].status # "PENDING_PAYMENT" => ~Pending(call[r].id)

\* An order's price is the sum of the catalogue prices of its components, in int64:
\* an omitted one costs nothing and one taken twice costs double, and all of them
\* exist and were in stock (service.go:92-119).
PriceOf(part) == IF part = None THEN 0 ELSE Catalog[part].price

PricedFromCatalog ==
  \A id \in OrderIds :
    orders[id] # NoOrder =>
      LET ship == orders[id].parts
      IN  /\ \A p \in {ship.hull, ship.engine, ship.shield, ship.weapon} \ {None} :
               p \in DOMAIN Catalog /\ Catalog[p].stock > 0
          /\ orders[id].price = Int64(PriceOf(ship.hull) + PriceOf(ship.engine)
                                      + PriceOf(ship.shield) + PriceOf(ship.weapon))

\* A row is never deleted, its components and its price never change, and once
\* paid or cancelled it is never pending again, although every Save replaces
\* the whole row with a copy read earlier (postgres.go:34-49).
NeverBackToPending ==
  [][\A id \in OrderIds : orders[id] # NoOrder =>
       /\ orders'[id] # NoOrder
       /\ orders'[id].id = orders[id].id
       /\ orders'[id].parts = orders[id].parts
       /\ orders'[id].price = orders[id].price
       /\ orders[id].status # "PENDING_PAYMENT" =>
            orders'[id].status # "PENDING_PAYMENT"]_vars

-----------------------------------------------------------------------------
\* Every request that is received is answered or dies with the process: no
\* outcome of a call leaves its handler waiting for ever.
Answered == \A r \in Requests : (pc[r] \in InFlight) ~> (pc[r] \in Ended)

\* A payment that is under way settles its order, unless it fails: the order
\* does not stay pending behind a pay request that was answered 200.
PaymentTakesEffect ==
  \A r \in Requests, id \in OrderIds :
    (pc[r] = "paying" /\ call[r].id = id)
      ~> \/ orders[id] # NoOrder /\ ~Pending(id)
         \/ code[r] = 500
         \/ pc[r] = "gone"

\* The table and the charges evolve as a last-writer-wins OrderBook.
Book == INSTANCE OrderBook WITH doubt <- Doubted
ImplementsBook == Book!BookSpec

-----------------------------------------------------------------------------
\* What the documents say of payments and cancellations.

\* "Cancels an order that has not yet been paid": a paid order is not cancelled
\* (shared/api/order/v1/paths/order_cancel.yaml:3).
CancelsOnlyUnpaid ==
  [][\A id \in OrderIds :
       orders[id] # NoOrder /\ orders[id].status = "PAID"
         => orders'[id].status # "CANCELLED"]_vars

\* "Try to pay again (should be a conflict error)": of all the pay requests for
\* an order at most one succeeds (order/tests/api_test.go:838).
PaysOnce ==
  \A q, r \in Requests :
    Succeeded(q, "pay") /\ Succeeded(r, "pay") /\ call[q].id = call[r].id => q = r
=============================================================================
