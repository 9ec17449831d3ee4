----------------------------- MODULE OrderBook -----------------------------
(***************************************************************************)
(* What OrderService promises of the table of orders and of the charges,   *)
(* without requests, transactions or calls: an order is placed once, at    *)
(* the catalogue's price, and is afterwards only paid - with a charge made *)
(* for that very order - or cancelled.  `from' maps an order to the        *)
(* statuses it may be paid or cancelled from.  LifecycleSpec is the        *)
(* promise the API makes, as far as its answers go: only a pending order   *)
(* is, unless a client of the order was left in doubt.  BookSpec is the    *)
(* weaker promise of a last-writer-wins table.                             *)
(***************************************************************************)
EXTENDS OrderData

CONSTANTS Stored

VARIABLES orders, ledger,
          doubt         \* orders a pay or cancel of which ended without an outcome

bookVars == <<orders, ledger>>

BookInit ==
  /\ \E ships \in [Stored -> {ship \in Ships : Orderable(ship)}] :
       orders = [id \in OrderIds |->
                   IF id \in Stored THEN NewOrder(id, ships[id]) ELSE NoOrder]
  /\ ledger = {}

Place(id) ==
  /\ orders[id] = NoOrder
  /\ \E ship \in Ships :
       Orderable(ship) /\ orders' = [orders EXCEPT ![id] = NewOrder(id, ship)]
  /\ UNCHANGED ledger

ChargeFor(id) ==
  /\ orders[id] # NoOrder
  /\ \E t \in Txns, m \in Methods :
       /\ \A c \in ledger : c.txn # t
       /\ ledger' = ledger \cup {[txn |-> t, order |-> id, method |-> paymentMethodToProto(m)]}
  /\ UNCHANGED orders

Pay(id, from) ==
  /\ orders[id] # NoOrder /\ orders[id].status \in from
  /\ \E c \in ledger, m \in Methods :
       /\ c.order = id /\ c.method = paymentMethodToProto(m)
       /\ orders' = [orders EXCEPT ![id] =
            [@ EXCEPT !.status = "PAID", !.txn = c.txn, !.method = m]]
  /\ UNCHANGED ledger

Cancel(id, from) ==
  /\ orders[id] # NoOrder /\ orders[id].status \in from
  /\ orders' = [orders EXCEPT ![id] =
       [@ EXCEPT !.status = "CANCELLED", !.txn = None, !.method = None]]
  /\ UNCHANGED ledger

BookNext(from) ==
  \E id \in OrderIds : \/ Place(id)
                       \/ ChargeFor(id)
                       \/ Pay(id, from[id])
                       \/ Cancel(id, from[id])

Anything == [id \in OrderIds |-> Statuses]

BookSpec == BookInit /\ [][BookNext(Anything)]_bookVars

\* What an earlier pay or cancel left in doubt may still happen, before or after
\* the one that is sent in its place.
Lifecycle == [id \in OrderIds |-> IF id \in doubt THEN Statuses ELSE {"PENDING_PAYMENT"}]

LifecycleNext ==
  \/ BookNext(Lifecycle) /\ UNCHANGED doubt
  \/ doubt \subseteq doubt' /\ doubt' \subseteq OrderIds /\ UNCHANGED bookVars

LifecycleSpec == BookInit /\ doubt = {} /\ [][LifecycleNext]_<<orders, ledger, doubt>>
=============================================================================
