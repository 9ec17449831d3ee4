---------------------------- MODULE OrderMethods ---------------------------
(***************************************************************************)
(* The methods of OrderService as its HTTP handlers see them: the errors   *)
(* each of them names and the orders it may return.  OrderApi takes them   *)
(* for granted; OrderContract says that OrderService keeps to them.        *)
(***************************************************************************)
CONSTANTS OrderIds,   \* UUIDs of orders
          Txs,        \* UUIDs of transactions
          Null,       \* an optional field that is not set
          Times,      \* times at which orders are created
          Ships,      \* ships of the orders in the table
          Prices      \* totals of orders

PaymentMethods == {"CARD", "SBP", "CREDIT_CARD", "INVESTOR_MONEY"}
Ops == {"createOrder", "getOrder", "payOrder", "cancelOrder"}

\* A ship has its hull and engine, and what else was chosen.
ShipOf(parts) ==
  [hull_uuid : parts, engine_uuid : parts,
   shield_uuid : parts \cup {Null}, weapon_uuid : parts \cup {Null}]

\* The errors of each service method; "failed" is any error without a name.
Outcomes(o) ==
  {"ok", "failed"} \cup
    IF o = "createOrder" THEN {"ErrComponentNotFound", "ErrComponentOutOfStock"}
    ELSE IF o = "getOrder" THEN {"ErrOrderNotFound"}
    ELSE {"ErrOrderNotFound", "ErrOrderAlreadyFinal"}

\* An order as the service returns it.
Row(i, ship, status, tx, method) ==
  [order_uuid : {i}, hull_uuid : {ship.hull_uuid}, engine_uuid : {ship.engine_uuid},
   shield_uuid : {ship.shield_uuid}, weapon_uuid : {ship.weapon_uuid},
   total_price : Prices, transaction_uuid : {tx}, payment_method : {method},
   status : {status}, created_at : Times]

\* The orders a successful call may return.
Returned(call) ==
  LET Paid(method) ==
        UNION {Row(call.id, ship, "PAID", tx, method) : ship \in Ships, tx \in Txs}
      Unpaid(status) == UNION {Row(call.id, ship, status, Null, Null) : ship \in Ships}
  IN  CASE call.op = "createOrder" ->
             UNION {Row(i, call.input, "PENDING_PAYMENT", Null, Null) : i \in OrderIds}
        [] call.op = "getOrder" ->
             Unpaid("PENDING_PAYMENT") \cup Unpaid("CANCELLED")
               \cup UNION {Paid(method) : method \in PaymentMethods}
        [] call.op = "payOrder" -> Paid(call.input)
        [] call.op = "cancelOrder" -> Unpaid("CANCELLED")
=============================================================================
