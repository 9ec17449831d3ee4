----------------------------- MODULE OrderData -----------------------------
(***************************************************************************)
(* The values OrderService works with: the orders it stores, the charges   *)
(* PaymentService makes for them, and how CreateOrder turns a client's     *)
(* choice of components into a priced order.                               *)
(***************************************************************************)
EXTENDS Inventory, Pricing

CONSTANTS OrderIds,     \* UUIDs that uuid.New() can give an order
          Txns,         \* UUIDs that uuid.New() can give a transaction
          Methods,      \* payment methods the API accepts
          Ships,        \* component choices a client may post
          Requests,     \* one per HTTP request, each handled once
          NoOrder       \* "no such row"

Statuses == {"PENDING_PAYMENT", "PAID", "CANCELLED"}

\* Mutation: Status keeps its zero value.
NewOrderNoStatus(id, ship) ==
  [id |-> id, parts |-> ship, price |-> TotalPrice(ListParts(Uuids(ship)).parts),
   status |-> "", txn |-> None, method |-> None]

\* The order CreateOrder builds.
NewOrder(id, ship) ==
  [id |-> id, parts |-> ship, price |-> TotalPrice(ListParts(Uuids(ship)).parts),
   status |-> "PENDING_PAYMENT", txn |-> None, method |-> None]

Order == [id : OrderIds, parts : Ships,
          price : {TotalPrice(ListParts(Uuids(ship)).parts) : ship \in Ships},
          status : Statuses, txn : Txns \cup {None}, method : Methods \cup {None}]

ProtoMethods == {"PAYMENT_METHOD_CARD", "PAYMENT_METHOD_SBP",
                 "PAYMENT_METHOD_CREDIT_CARD", "PAYMENT_METHOD_INVESTOR_MONEY"}

\* Mutation: the case of one method is missing, another one is copied twice.
paymentMethodToProtoSlip(method) ==
  CASE method = "CARD"            -> "PAYMENT_METHOD_CARD"
    [] method = "SBP"             -> "PAYMENT_METHOD_CARD"
    [] method = "INVESTOR_MONEY"  -> "PAYMENT_METHOD_INVESTOR_MONEY"
    [] OTHER                      -> "PAYMENT_METHOD_UNSPECIFIED"

paymentMethodToProto(method) ==
  CASE method = "CARD"            -> "PAYMENT_METHOD_CARD"
    [] method = "SBP"             -> "PAYMENT_METHOD_SBP"
    [] method = "CREDIT_CARD"     -> "PAYMENT_METHOD_CREDIT_CARD"
    [] method = "INVESTOR_MONEY"  -> "PAYMENT_METHOD_INVESTOR_MONEY"
    [] OTHER                      -> "PAYMENT_METHOD_UNSPECIFIED"

\* What PaymentService logs of a payment: the transaction, the order and the
\* method it was asked to charge.
Charge == [txn : Txns, order : OrderIds, method : ProtoMethods]

\* A choice that CreateOrder accepts.
Orderable(ship) ==
  LET listed == ListParts(Uuids(ship))
  IN  listed.code = "OK" /\ InStock(listed.parts)

ASSUME DataAssumption ==
  /\ Ships \subseteq [hull : PartIds, engine : PartIds,
                      shield : PartIds \cup {None},
                      weapon : PartIds \cup {None}]
  /\ Methods \subseteq {"CARD", "SBP", "CREDIT_CARD", "INVESTOR_MONEY"}
  /\ None \notin PartIds \cup Txns \cup Methods
  /\ NoOrder \notin Order
=============================================================================
