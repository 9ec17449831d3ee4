------------------------- MODULE OrderServiceProofs ------------------------
(***************************************************************************)
(* OrderService keeps its inductive invariant, IInv, and with it its       *)
(* safety properties, for any sets of requests, orders, transactions,      *)
(* methods and component choices.  One lemma shows that each action keeps  *)
(* IInv.  The argument turns on two facts: only a COMMIT writes the table, *)
(* and what it writes is either an order nobody else holds or a copy that  *)
(* agrees with the row in all but its status and its payment.  After that: *)
(* whose each charge is (ChargeInv), and what an order's price adds up to. *)
(***************************************************************************)
EXTENDS OrderInvariant, FoldLemmas, SequenceTheorems, TLAPS

\* The order that CreateOrder builds from a choice it accepts is a good row.
LEMMA NewOrderOK ==
  ASSUME NEW id \in OrderIds, NEW ship \in Ships, Orderable(ship), NEW charges
  PROVE  /\ NewOrder(id, ship) \in Order
         /\ RowOK(NewOrder(id, ship), charges)
         /\ NewOrder(id, ship).id = id
         /\ NewOrder(id, ship).parts = ship
         /\ NewOrder(id, ship).status = "PENDING_PAYMENT"
<1>1. NewOrder(id, ship) \in Order
  BY DEF NewOrder, Order, Statuses
<1>. QED  BY <1>1 DEF NewOrder, RowOK

\* Every method of the API has its name in the payment protocol.
LEMMA ProtoNames ==
  ASSUME NEW m \in Methods
  PROVE  paymentMethodToProto(m) \in ProtoMethods /\ paymentMethodToProto(m) = ProtoName[m]
BY DataAssumption DEF paymentMethodToProto, ProtoMethods, ProtoName

\* A good row stays good while charges are only added.
LEMMA RowOKMonotone ==
  ASSUME NEW row, NEW old, NEW new, old \subseteq new, RowOK(row, old)
  PROVE  RowOK(row, new)
BY DEF RowOK

\* What CancelOrder writes is a good row if the pending row it read is.
LEMMA CancelledOK ==
  ASSUME NEW row, NEW charges, RowOK(row, charges), row.status = "PENDING_PAYMENT",
         NEW cancelled, cancelled = [row EXCEPT !.status = "CANCELLED"]
  PROVE  /\ RowOK(cancelled, charges)
         /\ cancelled.id = row.id
         /\ cancelled.parts = row.parts /\ cancelled.price = row.price
         /\ cancelled.status = "CANCELLED"
         /\ cancelled.txn = None /\ cancelled.method = None
BY DEF RowOK, Order, Statuses

-----------------------------------------------------------------------------
USE DEF InFlight, Ended, NoCode, Codes, TxStates, RpcStates, storeVars, paymentVars

(* The inductive invariant holds before any request: nothing stored, nothing sent. *)
LEMMA InitInv == Init => IInv
<1> SUFFICES ASSUME Init PROVE IInv  OBVIOUS
<1> USE DEF Init
<1>0. PICK ships \in [Stored -> {ship \in Ships : Orderable(ship)}] :
        orders = [id \in OrderIds |->
                    IF id \in Stored THEN NewOrder(id, ships[id]) ELSE NoOrder]
  OBVIOUS
<1>1. ASSUME NEW id \in OrderIds, orders[id] # NoOrder
      PROVE  orders[id] \in Order /\ RowOK(orders[id], ledger) /\ orders[id].id = id
  BY <1>0, <1>1, NewOrderOK
<1>2. orders \in [OrderIds -> Order \cup {NoOrder}]
  BY <1>0, <1>1
<1>3. TypeOK
  BY <1>2 DEF TypeOK, StoreTypeOK, PaymentTypeOK
<1>4. TableInv
  BY <1>1 DEF TableInv
<1>5. ControlInv /\ PayingInv /\ WriteInv /\ ServedInv /\ CommittedInv /\ AnswerInv
  BY DEF ControlInv, PayingInv, WriteInv, ServedInv, CommittedInv, AnswerInv
<1>. QED  BY <1>3, <1>4, <1>5 DEF IInv

\* What the operation of a request says about its other fields.
LEMMA CallFields ==
  ASSUME NEW c \in Calls
  PROVE  /\ c.op \in {"create", "pay", "get", "cancel"}
         /\ c.op = "create" => c.ship \in Ships
         /\ c.op # "create" => c.id \in OrderIds
         /\ c.op = "pay" => c.method \in Methods
<1>1. CASE c \in [op : {"create"}, ship : Ships]
  BY <1>1
<1>2. CASE c \in [op : {"pay"}, id : OrderIds, method : Methods]
  BY <1>2
<1>3. CASE c \in [op : {"get", "cancel"}, id : OrderIds]
  BY <1>3
<1>. QED  BY <1>1, <1>2, <1>3 DEF Calls

(* One lemma per action of OrderService: each keeps the inductive invariant. *)
LEMMA ReceiveInv ==
  ASSUME IInv, NEW r \in Requests, NEW c \in Calls, Receive(r, c)
  PROVE  IInv'
<1> USE DEF IInv, Receive
<1>1. TypeOK'
  BY DEF TypeOK, StoreTypeOK, PaymentTypeOK
<1>2. TableInv'
  BY DEF TableInv, TypeOK, StoreTypeOK, PaymentTypeOK
<1>3. ControlInv'
  BY CallFields DEF ControlInv, TypeOK, StoreTypeOK, PaymentTypeOK
<1>4. PayingInv'
  BY DEF PayingInv, ControlInv, TypeOK, StoreTypeOK, PaymentTypeOK
<1>5. WriteInv'
  BY DEF WriteInv, ControlInv, TypeOK, StoreTypeOK, PaymentTypeOK
<1>6. ServedInv'
  BY DEF ServedInv, ControlInv, TypeOK, StoreTypeOK, PaymentTypeOK
<1>7. CommittedInv'
  BY DEF CommittedInv, ControlInv, TypeOK, StoreTypeOK, PaymentTypeOK, Pending, Get
<1>8. AnswerInv'
  BY CallFields DEF AnswerInv, ControlInv, TypeOK, StoreTypeOK, PaymentTypeOK, Pending, Get
<1>. QED  BY <1>1, <1>2, <1>3, <1>4, <1>5, <1>6, <1>7, <1>8 DEF IInv

LEMMA OrderNotFoundInv ==
  ASSUME IInv, NEW r \in Requests, OrderNotFound(r)
  PROVE  IInv'
<1> USE DEF IInv, OrderNotFound, Answer, Get
<1>1. TypeOK'
  BY DEF TypeOK, StoreTypeOK, PaymentTypeOK
<1>2. TableInv'
  BY DEF TableInv, TypeOK, StoreTypeOK, PaymentTypeOK
<1>3. ControlInv'
  BY CallFields DEF ControlInv, TypeOK, StoreTypeOK, PaymentTypeOK
<1>4. PayingInv'
  BY DEF PayingInv, ControlInv, TypeOK, StoreTypeOK, PaymentTypeOK
<1>5. WriteInv'
  BY DEF WriteInv, ControlInv, TypeOK, StoreTypeOK, PaymentTypeOK
<1>6. ServedInv'
  BY DEF ServedInv, ControlInv, TypeOK, StoreTypeOK, PaymentTypeOK
<1>7. CommittedInv'
  BY DEF CommittedInv, ControlInv, TypeOK, StoreTypeOK, PaymentTypeOK, Pending
<1>8. AnswerInv'
  BY CallFields DEF AnswerInv, ControlInv, TypeOK, StoreTypeOK, PaymentTypeOK, Pending
<1>. QED  BY <1>1, <1>2, <1>3, <1>4, <1>5, <1>6, <1>7, <1>8 DEF IInv

LEMMA GetOrderInv ==
  ASSUME IInv, NEW r \in Requests, GetOrder(r)
  PROVE  IInv'
<1> USE DEF IInv, GetOrder, Answer, Get, Reads
<1>1. TypeOK'
  BY CallFields DEF TypeOK, ControlInv, TableInv, StoreTypeOK, PaymentTypeOK
<1>2. TableInv'
  BY DEF TableInv, TypeOK, StoreTypeOK, PaymentTypeOK
<1>3. ControlInv'
  BY CallFields DEF ControlInv, TypeOK, StoreTypeOK, PaymentTypeOK
<1>4. PayingInv'
  BY DEF PayingInv, ControlInv, TypeOK, StoreTypeOK, PaymentTypeOK
<1>5. WriteInv'
  BY CallFields DEF WriteInv, TableInv, ControlInv, TypeOK, StoreTypeOK, PaymentTypeOK
<1>6. ServedInv'
  BY DEF ServedInv, ControlInv, TypeOK, StoreTypeOK, PaymentTypeOK
<1>7. CommittedInv'
  BY DEF CommittedInv, ControlInv, TypeOK, StoreTypeOK, PaymentTypeOK, Pending
<1>8. AnswerInv'
  BY CallFields DEF AnswerInv, TableInv, ControlInv, TypeOK, StoreTypeOK, PaymentTypeOK, Pending
<1>. QED  BY <1>1, <1>2, <1>3, <1>4, <1>5, <1>6, <1>7, <1>8 DEF IInv

LEMMA AlreadyFinalInv ==
  ASSUME IInv, NEW r \in Requests, AlreadyFinal(r)
  PROVE  IInv'
<1> USE DEF IInv, AlreadyFinal, Answer, Get, Reads
<1>1. TypeOK'
  BY DEF TypeOK, StoreTypeOK, PaymentTypeOK
<1>2. TableInv'
  BY DEF TableInv, TypeOK, StoreTypeOK, PaymentTypeOK
<1>3. ControlInv'
  BY CallFields DEF ControlInv, TypeOK, StoreTypeOK, PaymentTypeOK
<1>4. PayingInv'
  BY DEF PayingInv, ControlInv, TypeOK, StoreTypeOK, PaymentTypeOK
<1>5. WriteInv'
  BY DEF WriteInv, ControlInv, TypeOK, StoreTypeOK, PaymentTypeOK
<1>6. ServedInv'
  BY DEF ServedInv, ControlInv, TypeOK, StoreTypeOK, PaymentTypeOK
<1>7. CommittedInv'
  BY DEF CommittedInv, ControlInv, TypeOK, StoreTypeOK, PaymentTypeOK, Pending
<1>8. AnswerInv'
  BY CallFields DEF AnswerInv, TableInv, ControlInv, TypeOK, StoreTypeOK, PaymentTypeOK, Pending
<1>. QED  BY <1>1, <1>2, <1>3, <1>4, <1>5, <1>6, <1>7, <1>8 DEF IInv

LEMMA PayOrderInv ==
  ASSUME IInv, NEW r \in Requests, PayOrder(r)
  PROVE  IInv'
<1> USE DEF IInv, PayOrder, GoTo, Get, Reads, Send, Pending
<1>1. TypeOK'
  BY CallFields DEF TypeOK, ControlInv, TableInv, StoreTypeOK, PaymentTypeOK
<1>2. TableInv'
  BY DEF TableInv, TypeOK, StoreTypeOK, PaymentTypeOK
<1>3. ControlInv'
  BY CallFields DEF ControlInv, TypeOK, StoreTypeOK, PaymentTypeOK
<1>4. PayingInv'
  BY CallFields DEF PayingInv, TableInv, CopyOf, ControlInv, TypeOK, StoreTypeOK, PaymentTypeOK
<1>5. WriteInv'
  BY CallFields DEF WriteInv, TableInv, ControlInv, TypeOK, StoreTypeOK, PaymentTypeOK
<1>6. ServedInv'
  BY DEF ServedInv, ControlInv, TypeOK, StoreTypeOK, PaymentTypeOK
<1>7. CommittedInv'
  BY DEF CommittedInv, ControlInv, TypeOK, StoreTypeOK, PaymentTypeOK
<1>8. AnswerInv'
  BY CallFields DEF AnswerInv, TableInv, ControlInv, TypeOK, StoreTypeOK, PaymentTypeOK
<1>. QED  BY <1>1, <1>2, <1>3, <1>4, <1>5, <1>6, <1>7, <1>8 DEF IInv

LEMMA SavePaidInv ==
  ASSUME IInv, NEW r \in Requests, SavePaid(r)
  PROVE  IInv'
<1> USE DEF IInv, SavePaid, GoTo, Save
<1>a. /\ call[r] \in Calls /\ call[r].op = "pay"
      /\ call[r].id \in OrderIds /\ call[r].method \in Methods
  BY CallFields DEF ControlInv
<1>b. /\ local[r].id = call[r].id
      /\ RowOK(local[r], ledger) /\ CopyOf(local[r], orders[local[r].id])
  BY DEF PayingInv
<1>c. [txn |-> reply[r], order |-> local[r].id, method |-> paymentMethodToProto(call[r].method)] \in ledger
  BY <1>b DEF ServedInv
<1>d. reply[r] \in Txns
  BY <1>c DEF TypeOK, PaymentTypeOK, Charge
<1>e. /\ RowOK(PaidOrder(r), ledger)
      /\ PaidOrder(r).id = local[r].id
      /\ PaidOrder(r).parts = local[r].parts /\ PaidOrder(r).price = local[r].price
      /\ PaidOrder(r).status = "PAID"
  <2>1. PaidOrder(r) = [local[r] EXCEPT !.status = "PAID", !.txn = reply[r],
                                        !.method = call[r].method]
    BY DEF PaidOrder
  <2> HIDE DEF IInv, SavePaid
  <2>. QED  BY <1>a, <1>b, <1>c, <1>d, <2>1 DEF RowOK, Order, Statuses
<1>f. /\ PaidOrder(r) \in Order
      /\ PaidOrder(r).id = call[r].id
      /\ CopyOf(PaidOrder(r), orders[call[r].id])
  BY <1>b, <1>e DEF CopyOf, RowOK
<1>g. local[r] # NoOrder
  BY <1>b, DataAssumption DEF RowOK
<1> HIDE DEF PaidOrder
<1>1. TypeOK'
  BY <1>f DEF TypeOK, StoreTypeOK, PaymentTypeOK
<1>2. TableInv'
  BY DEF TableInv, TypeOK, StoreTypeOK, PaymentTypeOK
<1>3. ControlInv'
  BY <1>a, <1>f DEF ControlInv, TypeOK, StoreTypeOK, PaymentTypeOK
<1>4. PayingInv'
  BY DEF PayingInv, ControlInv, TypeOK, StoreTypeOK, PaymentTypeOK
<1>5. WriteInv'
  BY <1>a, <1>b, <1>e, <1>f, <1>g DEF WriteInv, ControlInv, TypeOK, StoreTypeOK, PaymentTypeOK
<1>6. ServedInv'
  BY DEF ServedInv, ControlInv, TypeOK, StoreTypeOK, PaymentTypeOK
<1>7. CommittedInv'
  BY DEF CommittedInv, ControlInv, TypeOK, StoreTypeOK, PaymentTypeOK, Pending, Get
<1>8. AnswerInv'
  BY <1>a DEF AnswerInv, ControlInv, TypeOK, StoreTypeOK, PaymentTypeOK, Pending, Get
<1>. QED  BY <1>1, <1>2, <1>3, <1>4, <1>5, <1>6, <1>7, <1>8 DEF IInv

LEMMA CancelOrderInv ==
  ASSUME IInv, NEW r \in Requests, CancelOrder(r)
  PROVE  IInv'
<1> USE DEF IInv, CancelOrder, GoTo, Save, Reads, Get, Pending
<1> DEFINE row == orders[call[r].id]
<1> DEFINE cancelled == [row EXCEPT !.status = "CANCELLED"]
<1>a. call[r] \in Calls /\ call[r].op = "cancel" /\ call[r].id \in OrderIds
  BY CallFields DEF ControlInv
<1>b. RowOK(row, ledger) /\ row # NoOrder /\ row.id = call[r].id
  BY <1>a DEF TableInv
<1>c. /\ RowOK(cancelled, ledger) /\ cancelled \in Order
      /\ cancelled.id = call[r].id
      /\ CopyOf(cancelled, row)
      /\ cancelled.status = "CANCELLED"
  <2>1. cancelled = [row EXCEPT !.status = "CANCELLED"] /\ row.status = "PENDING_PAYMENT"
    OBVIOUS
  <2> HIDE DEF cancelled, row
  <2>2. /\ RowOK(cancelled, ledger) /\ cancelled.id = row.id
        /\ cancelled.parts = row.parts /\ cancelled.price = row.price
        /\ cancelled.status = "CANCELLED"
    BY <1>b, <2>1, CancelledOK
  <2>. QED  BY <1>b, <2>2 DEF CopyOf, RowOK
<1>d. /\ local' = [local EXCEPT ![r] = cancelled]
      /\ tx' = [tx EXCEPT ![r] = "open"]
      /\ pc' = [pc EXCEPT ![r] = "saving"]
  OBVIOUS
<1> HIDE DEF cancelled
<1>1. TypeOK'
  BY <1>c, <1>d DEF TypeOK, StoreTypeOK, PaymentTypeOK
<1>2. TableInv'
  BY DEF TableInv, TypeOK, StoreTypeOK, PaymentTypeOK
<1>3. ControlInv'
  BY <1>a, <1>c, <1>d DEF ControlInv, TypeOK, StoreTypeOK, PaymentTypeOK
<1>4. PayingInv'
  BY <1>d DEF PayingInv, ControlInv, TypeOK, StoreTypeOK, PaymentTypeOK
<1>5. WriteInv'
  BY <1>a, <1>b, <1>c, <1>d DEF WriteInv, ControlInv, TypeOK, StoreTypeOK, PaymentTypeOK
<1>6. ServedInv'
  BY DEF ServedInv, ControlInv, TypeOK, StoreTypeOK, PaymentTypeOK
<1>7. CommittedInv'
  BY <1>d DEF CommittedInv, ControlInv, TypeOK, StoreTypeOK, PaymentTypeOK
<1>8. AnswerInv'
  BY <1>a, <1>d DEF AnswerInv, ControlInv, TypeOK, StoreTypeOK, PaymentTypeOK
<1>. QED  BY <1>1, <1>2, <1>3, <1>4, <1>5, <1>6, <1>7, <1>8 DEF IInv

LEMMA RejectCreateInv ==
  ASSUME IInv, NEW r \in Requests, RejectCreate(r)
  PROVE  IInv'
<1> USE DEF IInv, RejectCreate, Answer
<1>1. TypeOK'
  BY DEF TypeOK, StoreTypeOK, PaymentTypeOK
<1>2. TableInv'
  BY DEF TableInv, TypeOK, StoreTypeOK, PaymentTypeOK
<1>3. ControlInv'
  BY CallFields DEF ControlInv, TypeOK, StoreTypeOK, PaymentTypeOK
<1>4. PayingInv'
  BY DEF PayingInv, ControlInv, TypeOK, StoreTypeOK, PaymentTypeOK
<1>5. WriteInv'
  BY DEF WriteInv, ControlInv, TypeOK, StoreTypeOK, PaymentTypeOK
<1>6. ServedInv'
  BY DEF ServedInv, ControlInv, TypeOK, StoreTypeOK, PaymentTypeOK
<1>7. CommittedInv'
  BY DEF CommittedInv, ControlInv, TypeOK, StoreTypeOK, PaymentTypeOK, Pending, Get
<1>8. AnswerInv'
  BY CallFields DEF AnswerInv, ControlInv, TypeOK, StoreTypeOK, PaymentTypeOK, Pending, Get
<1>. QED  BY <1>1, <1>2, <1>3, <1>4, <1>5, <1>6, <1>7, <1>8 DEF IInv

LEMMA CreateOrderInv ==
  ASSUME IInv, NEW r \in Requests, CreateOrder(r)
  PROVE  IInv'
<1> USE DEF IInv, CreateOrder, GoTo, Save
<1>a. call[r] \in Calls /\ call[r].op = "create" /\ call[r].ship \in Ships
  BY CallFields DEF ControlInv
<1>b. PICK id \in OrderIds : Unused(id) /\ Save(r, NewOrder(id, call[r].ship))
  OBVIOUS
<1> DEFINE new == NewOrder(id, call[r].ship)
<1>c. /\ RowOK(new, ledger) /\ new \in Order
      /\ new.id = id /\ new.parts = call[r].ship /\ new.status = "PENDING_PAYMENT"
  BY <1>a, NewOrderOK
<1>d. local' = [local EXCEPT ![r] = new] /\ tx' = [tx EXCEPT ![r] = "open"]
  BY <1>b
<1> HIDE DEF new
<1>1. TypeOK'
  BY <1>c, <1>d DEF TypeOK, StoreTypeOK, PaymentTypeOK
<1>2. TableInv'
  BY DEF TableInv, TypeOK, StoreTypeOK, PaymentTypeOK
<1>3. ControlInv'
  BY <1>a, <1>c, <1>d DEF ControlInv, TypeOK, StoreTypeOK, PaymentTypeOK
<1>4. PayingInv'
  BY <1>d DEF PayingInv, ControlInv, TypeOK, StoreTypeOK, PaymentTypeOK
<1>5. WriteInv'
  BY <1>a, <1>b, <1>c, <1>d, DataAssumption DEF WriteInv, Unused, CopyOf, ControlInv, TypeOK, StoreTypeOK, PaymentTypeOK
<1>6. ServedInv'
  BY DEF ServedInv, ControlInv, TypeOK, StoreTypeOK, PaymentTypeOK
<1>7. CommittedInv'
  BY <1>a, <1>b, <1>d DEF CommittedInv, ControlInv, TypeOK, StoreTypeOK, PaymentTypeOK, Pending, Get
<1>8. AnswerInv'
  BY <1>a, <1>d DEF AnswerInv, ControlInv, TypeOK, StoreTypeOK, PaymentTypeOK, Pending, Get
<1>. QED  BY <1>1, <1>2, <1>3, <1>4, <1>5, <1>6, <1>7, <1>8 DEF IInv

LEMMA SavedInv ==
  ASSUME IInv, NEW r \in Requests, Saved(r)
  PROVE  IInv'
<1> USE DEF IInv, Saved, Answer
<1>1. TypeOK'
  BY DEF TypeOK, StoreTypeOK, PaymentTypeOK
<1>2. TableInv'
  BY DEF TableInv, TypeOK, StoreTypeOK, PaymentTypeOK
<1>3. ControlInv'
  BY CallFields DEF ControlInv, TypeOK, StoreTypeOK, PaymentTypeOK
<1>4. PayingInv'
  BY DEF PayingInv, ControlInv, TypeOK, StoreTypeOK, PaymentTypeOK
<1>5. WriteInv'
  BY DEF WriteInv, ControlInv, TypeOK, StoreTypeOK, PaymentTypeOK
<1>6. ServedInv'
  BY DEF ServedInv, ControlInv, TypeOK, StoreTypeOK, PaymentTypeOK
<1>7. CommittedInv'
  BY DEF CommittedInv, ControlInv, TypeOK, StoreTypeOK, PaymentTypeOK, Pending, Get
<1>8. AnswerInv'
  BY CallFields DEF AnswerInv, ControlInv, TypeOK, StoreTypeOK, PaymentTypeOK, Pending, Get
<1>. QED  BY <1>1, <1>2, <1>3, <1>4, <1>5, <1>6, <1>7, <1>8 DEF IInv

LEMMA CallFailedInv ==
  ASSUME IInv, NEW r \in Requests, CallFailed(r)
  PROVE  IInv'
<1> USE DEF IInv, CallFailed, Answer
<1>1. TypeOK'
  BY DEF TypeOK, StoreTypeOK, PaymentTypeOK
<1>2. TableInv'
  BY DEF TableInv, TypeOK, StoreTypeOK, PaymentTypeOK
<1>3. ControlInv'
  BY CallFields DEF ControlInv, TypeOK, StoreTypeOK, PaymentTypeOK
<1>4. PayingInv'
  BY DEF PayingInv, ControlInv, TypeOK, StoreTypeOK, PaymentTypeOK
<1>5. WriteInv'
  BY DEF WriteInv, ControlInv, TypeOK, StoreTypeOK, PaymentTypeOK
<1>6. ServedInv'
  BY DEF ServedInv, ControlInv, TypeOK, StoreTypeOK, PaymentTypeOK
<1>7. CommittedInv'
  BY DEF CommittedInv, ControlInv, TypeOK, StoreTypeOK, PaymentTypeOK, Pending, Get
<1>8. AnswerInv'
  BY CallFields DEF AnswerInv, ControlInv, TypeOK, StoreTypeOK, PaymentTypeOK, Pending, Get
<1>. QED  BY <1>1, <1>2, <1>3, <1>4, <1>5, <1>6, <1>7, <1>8 DEF IInv

LEMMA GiveUpInv ==
  ASSUME IInv, NEW r \in Requests, GiveUp(r)
  PROVE  IInv'
<1> USE DEF IInv, GiveUp, Answer
<1>1. TypeOK'
  BY DEF TypeOK, StoreTypeOK, PaymentTypeOK
<1>2. TableInv'
  BY DEF TableInv, TypeOK, StoreTypeOK, PaymentTypeOK
<1>3. ControlInv'
  BY CallFields DEF ControlInv, TypeOK, StoreTypeOK, PaymentTypeOK
<1>4. PayingInv'
  BY DEF PayingInv, ControlInv, TypeOK, StoreTypeOK, PaymentTypeOK
<1>5. WriteInv'
  BY DEF WriteInv, ControlInv, TypeOK, StoreTypeOK, PaymentTypeOK
<1>6. ServedInv'
  BY DEF ServedInv, ControlInv, TypeOK, StoreTypeOK, PaymentTypeOK
<1>7. CommittedInv'
  BY DEF CommittedInv, ControlInv, TypeOK, StoreTypeOK, PaymentTypeOK, Pending, Get
<1>8. AnswerInv'
  BY CallFields DEF AnswerInv, ControlInv, TypeOK, StoreTypeOK, PaymentTypeOK, Pending, Get
<1>. QED  BY <1>1, <1>2, <1>3, <1>4, <1>5, <1>6, <1>7, <1>8 DEF IInv

LEMMA UpsertInv ==
  ASSUME IInv, NEW r \in Requests, pc[r] = "saving", Upsert(r),
         UNCHANGED <<paymentVars, pc, call, code>>
  PROVE  IInv'
<1> USE DEF IInv, Upsert
<1>1. TypeOK'
  BY DEF TypeOK, StoreTypeOK, PaymentTypeOK
<1>2. TableInv'
  BY DEF TableInv, TypeOK, StoreTypeOK, PaymentTypeOK
<1>3. ControlInv'
  BY CallFields DEF ControlInv, TypeOK, StoreTypeOK, PaymentTypeOK
<1>4. PayingInv'
  BY DEF PayingInv, ControlInv, TypeOK, StoreTypeOK, PaymentTypeOK
<1>5. WriteInv'
  BY DEF WriteInv, ControlInv, TypeOK, StoreTypeOK, PaymentTypeOK
<1>6. ServedInv'
  BY DEF ServedInv, ControlInv, TypeOK, StoreTypeOK, PaymentTypeOK
<1>7. CommittedInv'
  BY DEF CommittedInv, ControlInv, TypeOK, StoreTypeOK, PaymentTypeOK, Pending, Get
<1>8. AnswerInv'
  BY CallFields DEF AnswerInv, ControlInv, TypeOK, StoreTypeOK, PaymentTypeOK, Pending, Get
<1>. QED  BY <1>1, <1>2, <1>3, <1>4, <1>5, <1>6, <1>7, <1>8 DEF IInv

\* What a COMMIT does to the table: it adds a new pending order, or it changes
\* the status, the transaction and the method of a stored one.
LEMMA CommitRow ==
  ASSUME IInv, NEW r \in Requests, Commit(r),
         NEW row, row = local[r]
  PROVE  /\ RowOK(row, ledger) /\ row \in Order /\ row # NoOrder /\ row.id \in OrderIds
         /\ orders' = [orders EXCEPT ![row.id] = row]
         /\ orders'[row.id] = row
         /\ \A id \in OrderIds \ {row.id} : orders'[id] = orders[id]
         /\ call[r].op = "create" =>
              /\ orders[row.id] = NoOrder /\ row.parts = call[r].ship
              /\ row.status = "PENDING_PAYMENT"
              /\ \A q \in Requests \ {r} : local[q] # NoOrder => local[q].id # row.id
         /\ call[r].op # "create" =>
              /\ CopyOf(row, orders[row.id]) /\ row.id = call[r].id
              /\ row.status # "PENDING_PAYMENT"
<1> USE DEF Commit
<1>1. tx[r] \in {"open", "locked"}
  OBVIOUS
<1>2. RowOK(row, ledger) /\ row \in Order /\ row # NoOrder /\ row.id \in OrderIds
  BY <1>1, DataAssumption DEF IInv, WriteInv, RowOK, Order
<1>3. /\ orders' = [orders EXCEPT ![row.id] = row]
      /\ orders'[row.id] = row
      /\ \A id \in OrderIds \ {row.id} : orders'[id] = orders[id]
  BY <1>2 DEF IInv, TypeOK, StoreTypeOK
<1>. QED  BY <1>1, <1>2, <1>3 DEF IInv, WriteInv

LEMMA CommitInv ==
  ASSUME IInv, NEW r \in Requests, Commit(r), UNCHANGED <<paymentVars, pc, call, code>>
  PROVE  IInv'
<1> DEFINE row == local[r]
<1>a. /\ RowOK(row, ledger) /\ row \in Order /\ row # NoOrder /\ row.id \in OrderIds
      /\ call[r] \in Calls
  BY CommitRow DEF IInv, ControlInv, WriteInv, Commit
<1>b. /\ call[r].op = "create" =>
           /\ orders[row.id] = NoOrder /\ row.parts = call[r].ship
           /\ \A q \in Requests \ {r} : local[q] # NoOrder => local[q].id # row.id
      /\ call[r].op # "create" =>
           /\ CopyOf(row, orders[row.id]) /\ row.id = call[r].id
           /\ row.status # "PENDING_PAYMENT"
  BY CommitRow
<1>c. /\ orders'[row.id] = row
      /\ \A id \in OrderIds \ {row.id} : orders'[id] = orders[id]
  BY CommitRow
<1> USE DEF IInv, Commit
<1>d. \A copy : copy.id \in OrderIds /\ CopyOf(copy, orders[copy.id])
                 => CopyOf(copy, orders'[copy.id])
  BY <1>a, <1>b, <1>c DEF CopyOf
<1>e. \A id \in OrderIds : orders[id] # NoOrder /\ orders[id].status # "PENDING_PAYMENT"
        => orders'[id] # NoOrder /\ orders'[id].status # "PENDING_PAYMENT"
  BY <1>a, <1>b, <1>c
<1> HIDE DEF row
<1>1. TypeOK'
  <2>1. orders' \in [OrderIds -> Order \cup {NoOrder}]
    BY <1>a, CommitRow DEF TypeOK, StoreTypeOK
  <2>2. tx' \in [Requests -> TxStates] /\ local' = local
    BY DEF TypeOK, StoreTypeOK
  <2>. QED  BY <2>1, <2>2 DEF TypeOK, StoreTypeOK, PaymentTypeOK
<1>2. TableInv'
  BY <1>a, <1>c DEF TableInv, TypeOK, StoreTypeOK, PaymentTypeOK
<1>3. ControlInv'
  BY DEF ControlInv, TypeOK, StoreTypeOK, PaymentTypeOK
<1>4. PayingInv'
  BY <1>d DEF PayingInv, ControlInv, TypeOK, StoreTypeOK, PaymentTypeOK
<1>5. WriteInv'
  <2> SUFFICES ASSUME NEW q \in Requests, tx'[q] \in {"open", "locked"}
               PROVE  /\ RowOK(local[q], ledger)
                      /\ call[q].op = "create" =>
                           /\ local[q].status = "PENDING_PAYMENT"
                           /\ local[q].parts = call[q].ship
                           /\ orders'[local[q].id] = NoOrder
                           /\ \A p \in Requests \ {q} : local[p] # NoOrder => local[p].id # local[q].id
                      /\ call[q].op # "create" =>
                           /\ CopyOf(local[q], orders'[local[q].id])
                           /\ local[q].id = call[q].id
                           /\ local[q].status # "PENDING_PAYMENT"
    BY DEF WriteInv
  <2>1. q # r /\ tx[q] \in {"open", "locked"}
    BY DEF TypeOK, StoreTypeOK
  <2>2. RowOK(local[q], ledger) /\ local[q].id \in OrderIds
    BY <2>1 DEF WriteInv, RowOK, Order
  <2>3. call[q].op = "create" => orders'[local[q].id] = NoOrder
    BY <1>a, <1>c, <2>1, <2>2 DEF WriteInv, row
  <2>4. call[q].op # "create" => CopyOf(local[q], orders'[local[q].id])
    BY <1>d, <2>1, <2>2 DEF WriteInv
  <2>. QED  BY <2>1, <2>2, <2>3, <2>4 DEF WriteInv
<1>6. ServedInv'
  BY CallFields, <1>a, <1>c DEF ServedInv, ControlInv, TypeOK, StoreTypeOK, PaymentTypeOK
<1>7. CommittedInv'
  <2> SUFFICES ASSUME NEW q \in Requests, tx'[q] = "committed"
               PROVE  /\ CopyOf(local[q], orders'[local[q].id])
                      /\ call[q].op = "create" => local[q].parts = call[q].ship
                      /\ call[q].op # "create" =>
                           /\ local[q].id = call[q].id
                           /\ orders'[local[q].id].status # "PENDING_PAYMENT"
    BY DEF CommittedInv, Pending, Get
  <2>1. CASE q = r
    BY <1>a, <1>b, <1>c, <2>1 DEF CopyOf, row
  <2>2. CASE q # r
    <3>1. tx[q] = "committed" /\ local[q].id \in OrderIds
      BY <2>2 DEF TypeOK, StoreTypeOK, ControlInv, Order
    <3>. QED  BY <1>d, <1>e, <3>1 DEF CommittedInv, CopyOf, Pending, Get
  <2>. QED  BY <2>1, <2>2
<1>8. AnswerInv'
  BY CallFields, <1>e DEF AnswerInv, ControlInv, TypeOK, StoreTypeOK, PaymentTypeOK, Pending, Get
<1>. QED  BY <1>1, <1>2, <1>3, <1>4, <1>5, <1>6, <1>7, <1>8 DEF IInv

LEMMA RollbackInv ==
  ASSUME IInv, NEW r \in Requests, Rollback(r), UNCHANGED <<paymentVars, pc, call, code>>
  PROVE  IInv'
<1> USE DEF IInv, Rollback
<1>1. TypeOK'
  BY DEF TypeOK, StoreTypeOK, PaymentTypeOK
<1>2. TableInv'
  BY DEF TableInv, TypeOK, StoreTypeOK, PaymentTypeOK
<1>3. ControlInv'
  BY CallFields DEF ControlInv, TypeOK, StoreTypeOK, PaymentTypeOK
<1>4. PayingInv'
  BY DEF PayingInv, ControlInv, TypeOK, StoreTypeOK, PaymentTypeOK
<1>5. WriteInv'
  BY DEF WriteInv, ControlInv, TypeOK, StoreTypeOK, PaymentTypeOK
<1>6. ServedInv'
  BY DEF ServedInv, ControlInv, TypeOK, StoreTypeOK, PaymentTypeOK
<1>7. CommittedInv'
  BY DEF CommittedInv, ControlInv, TypeOK, StoreTypeOK, PaymentTypeOK, Pending, Get
<1>8. AnswerInv'
  BY CallFields DEF AnswerInv, ControlInv, TypeOK, StoreTypeOK, PaymentTypeOK, Pending, Get
<1>. QED  BY <1>1, <1>2, <1>3, <1>4, <1>5, <1>6, <1>7, <1>8 DEF IInv

LEMMA ServeInv ==
  ASSUME IInv, NEW r \in Requests, Serve(r, call[r].id, paymentMethodToProto(call[r].method)),
         UNCHANGED <<storeVars, pc, call, code>>
  PROVE  IInv'
<1> USE DEF IInv, Serve
<1>a. PICK t \in Txns :
        /\ ledger' = ledger \cup {[txn |-> t, order |-> call[r].id,
                               method |-> paymentMethodToProto(call[r].method)]}
        /\ reply' = [reply EXCEPT ![r] = t]
  OBVIOUS
<1>b. call[r].id \in OrderIds /\ call[r].method \in Methods /\ pc[r] # "idle"
  BY CallFields DEF ControlInv
<1>c. ledger \subseteq ledger'
  BY <1>a
<1>d. \A row : RowOK(row, ledger) => RowOK(row, ledger')
  BY <1>c, RowOKMonotone
<1>1. TypeOK'
  BY <1>a, <1>b, ProtoNames DEF TypeOK, Charge, StoreTypeOK, PaymentTypeOK
<1>2. TableInv'
  BY <1>d DEF TableInv, TypeOK, StoreTypeOK, PaymentTypeOK
<1>3. ControlInv'
  BY CallFields DEF ControlInv, TypeOK, StoreTypeOK, PaymentTypeOK
<1>4. PayingInv'
  BY <1>d DEF PayingInv, ControlInv, TypeOK, StoreTypeOK, PaymentTypeOK
<1>5. WriteInv'
  <2>1. UNCHANGED <<orders, local, tx, call>>
    OBVIOUS
  <2>2. ASSUME NEW q \in Requests, tx[q] \in {"open", "locked"}
        PROVE  RowOK(local[q], ledger')
    BY <1>d, <2>2 DEF WriteInv
  <2> HIDE DEF Serve
  <2>. QED  BY <2>1, <2>2 DEF WriteInv
<1>6. ServedInv'
  BY <1>a, <1>b, <1>c DEF ServedInv, ControlInv, TypeOK, StoreTypeOK, PaymentTypeOK
<1>7. CommittedInv'
  BY DEF CommittedInv, ControlInv, TypeOK, StoreTypeOK, PaymentTypeOK, Pending, Get
<1>8. AnswerInv'
  BY CallFields DEF AnswerInv, ControlInv, TypeOK, StoreTypeOK, PaymentTypeOK, Pending, Get
<1>. QED  BY <1>1, <1>2, <1>3, <1>4, <1>5, <1>6, <1>7, <1>8 DEF IInv

LEMMA LoseInv ==
  ASSUME IInv, NEW r \in Requests, Lose(r), UNCHANGED <<storeVars, pc, call, code>>
  PROVE  IInv'
<1> USE DEF IInv, Lose
<1>1. TypeOK'
  BY DEF TypeOK, StoreTypeOK, PaymentTypeOK
<1>2. TableInv'
  BY DEF TableInv, TypeOK, StoreTypeOK, PaymentTypeOK
<1>3. ControlInv'
  BY CallFields DEF ControlInv, TypeOK, StoreTypeOK, PaymentTypeOK
<1>4. PayingInv'
  BY DEF PayingInv, ControlInv, TypeOK, StoreTypeOK, PaymentTypeOK
<1>5. WriteInv'
  BY DEF WriteInv, ControlInv, TypeOK, StoreTypeOK, PaymentTypeOK
<1>6. ServedInv'
  BY DEF ServedInv, ControlInv, TypeOK, StoreTypeOK, PaymentTypeOK
<1>7. CommittedInv'
  BY DEF CommittedInv, ControlInv, TypeOK, StoreTypeOK, PaymentTypeOK, Pending, Get
<1>8. AnswerInv'
  BY CallFields DEF AnswerInv, ControlInv, TypeOK, StoreTypeOK, PaymentTypeOK, Pending, Get
<1>. QED  BY <1>1, <1>2, <1>3, <1>4, <1>5, <1>6, <1>7, <1>8 DEF IInv

LEMMA CrashInv ==
  ASSUME IInv, Crash
  PROVE  IInv'
<1> USE DEF IInv, Crash
<1>1. TypeOK'
  BY DEF TypeOK, StoreTypeOK, PaymentTypeOK
<1>2. TableInv'
  BY DEF TableInv, TypeOK, StoreTypeOK, PaymentTypeOK
<1>3. ControlInv'
  BY CallFields DEF ControlInv, TypeOK, StoreTypeOK, PaymentTypeOK
<1>4. PayingInv'
  BY DEF PayingInv, ControlInv, TypeOK, StoreTypeOK, PaymentTypeOK
<1>5. WriteInv'
  BY DEF WriteInv, ControlInv, TypeOK, StoreTypeOK, PaymentTypeOK
<1>6. ServedInv'
  BY DEF ServedInv, ControlInv, TypeOK, StoreTypeOK, PaymentTypeOK
<1>7. CommittedInv'
  BY DEF CommittedInv, ControlInv, TypeOK, StoreTypeOK, PaymentTypeOK, Pending, Get
<1>8. AnswerInv'
  BY CallFields DEF AnswerInv, ControlInv, TypeOK, StoreTypeOK, PaymentTypeOK, Pending, Get
<1>. QED  BY <1>1, <1>2, <1>3, <1>4, <1>5, <1>6, <1>7, <1>8 DEF IInv

LEMMA StutterInv ==
  ASSUME IInv, UNCHANGED vars
  PROVE  IInv'
<1> USE DEF IInv, vars
<1>1. TypeOK'
  BY DEF TypeOK, StoreTypeOK, PaymentTypeOK
<1>2. TableInv'
  BY DEF TableInv, TypeOK, StoreTypeOK, PaymentTypeOK
<1>3. ControlInv'
  BY DEF ControlInv, TypeOK, StoreTypeOK, PaymentTypeOK
<1>4. PayingInv'
  BY DEF PayingInv, ControlInv, TypeOK, StoreTypeOK, PaymentTypeOK
<1>5. WriteInv'
  BY DEF WriteInv, ControlInv, TypeOK, StoreTypeOK, PaymentTypeOK
<1>6. ServedInv'
  BY DEF ServedInv, ControlInv, TypeOK, StoreTypeOK, PaymentTypeOK
<1>7. CommittedInv'
  BY DEF CommittedInv, ControlInv, TypeOK, StoreTypeOK, PaymentTypeOK, Pending, Get
<1>8. AnswerInv'
  BY DEF AnswerInv, ControlInv, TypeOK, StoreTypeOK, PaymentTypeOK, Pending, Get
<1>. QED  BY <1>1, <1>2, <1>3, <1>4, <1>5, <1>6, <1>7, <1>8 DEF IInv

-----------------------------------------------------------------------------
(* Every step keeps the inductive invariant, by the lemmas above. *)
LEMMA NextInv == IInv /\ [Next]_vars => IInv'
<1> SUFFICES ASSUME IInv, [Next]_vars PROVE IInv'  OBVIOUS
<1>1. ASSUME NEW r \in Requests, NEW c \in Calls, Receive(r, c) PROVE IInv'
  BY <1>1, ReceiveInv
<1>2. ASSUME NEW r \in Requests, HandlerStep(r) PROVE IInv'
  BY <1>2, OrderNotFoundInv, GetOrderInv, AlreadyFinalInv, PayOrderInv, SavePaidInv,
     CancelOrderInv, RejectCreateInv, CreateOrderInv, SavedInv, CallFailedInv
     DEF HandlerStep
<1>3. ASSUME NEW r \in Requests, GiveUp(r) PROVE IInv'
  BY <1>3, GiveUpInv
<1>4. ASSUME NEW r \in Requests, StoreStep(r) PROVE IInv'
  BY <1>4, UpsertInv, CommitInv, RollbackInv DEF StoreStep
<1>5. ASSUME NEW r \in Requests, PaymentStep(r) PROVE IInv'
  BY <1>5, ServeInv, LoseInv DEF PaymentStep
<1>6. CASE Crash
  BY <1>6, CrashInv
<1>7. CASE Quiesced \/ UNCHANGED vars
  BY <1>7, StutterInv DEF Quiesced
<1>. QED  BY <1>1, <1>2, <1>3, <1>4, <1>5, <1>6, <1>7 DEF Next

\* The inductive invariant holds in every reachable state.
THEOREM Invariance == Spec => []IInv
BY InitInv, NextInv, PTL DEF Spec

\* Every variable keeps its type.
THEOREM TypeCorrect == Spec => []TypeOK
<1>1. IInv => TypeOK
  BY DEF IInv
<1>. QED  BY <1>1, Invariance, PTL

\* A row says PAID exactly when one charge for that order backs it, and a
\* pending or cancelled row carries no payment.
THEOREM PaymentsBacked == Spec => []PaidIsBacked
<1>1. IInv => PaidIsBacked
  BY ProtoNames, DataAssumption DEF IInv, TableInv, RowOK, PaidIsBacked
<1>. QED  BY <1>1, Invariance, PTL

\* What a client was told of a created, paid or cancelled order stays so.
THEOREM AcknowledgedOrders == Spec => []AcknowledgedIsStored
<1>1. IInv => AcknowledgedIsStored
  BY DEF IInv, AnswerInv, CommittedInv, CopyOf, AcknowledgedIsStored, Succeeded, Pending, Get
<1>. QED  BY <1>1, Invariance, PTL

\* An order a client saw paid or cancelled, or was refused for it, stays so.
THEOREM FinalForGood == Spec => []FinalSeenStaysFinal
<1>1. IInv => FinalSeenStaysFinal
  BY DEF IInv, AnswerInv, FinalSeenStaysFinal, Succeeded
<1>. QED  BY <1>1, Invariance, PTL

\* Only a COMMIT writes table orders.
LEMMA OnlyCommitWrites ==
  ASSUME [Next]_vars
  PROVE  orders' = orders \/ \E r \in Requests : Commit(r) /\ UNCHANGED <<ledger, pc, call, code>>
BY DEF Next, vars, HandlerStep, StoreStep, PaymentStep, Receive, OrderNotFound, GetOrder,
       AlreadyFinal, PayOrder, SavePaid, CancelOrder, RejectCreate, CreateOrder, Saved,
       CallFailed, GiveUp, Upsert, Rollback, Serve, Lose, Crash, Quiesced, paymentVars

\* No row vanishes, changes its components or price, or goes back to pending.
THEOREM NoWayBack == Spec => NeverBackToPending
<1>1. ASSUME IInv, [Next]_vars, NEW id \in OrderIds, orders[id] # NoOrder
      PROVE  /\ orders'[id] # NoOrder
             /\ orders'[id].id = orders[id].id
             /\ orders'[id].parts = orders[id].parts
             /\ orders'[id].price = orders[id].price
             /\ orders[id].status # "PENDING_PAYMENT" =>
                  orders'[id].status # "PENDING_PAYMENT"
  <2>1. CASE orders' = orders
    BY <1>1, <2>1
  <2>2. ASSUME NEW r \in Requests, Commit(r), orders'[id] # orders[id]
        PROVE  /\ local[r].id = id /\ orders'[id] = local[r] /\ local[r] # NoOrder
               /\ CopyOf(local[r], orders[id])
               /\ local[r].status # "PENDING_PAYMENT"
    BY <1>1, <2>2, CommitRow
  <2>. QED  BY <1>1, <2>1, <2>2, OnlyCommitWrites DEF CopyOf
<1>2. IInv /\ [Next]_vars =>
        [\A id \in OrderIds : orders[id] # NoOrder =>
           /\ orders'[id] # NoOrder
           /\ orders'[id].id = orders[id].id
           /\ orders'[id].parts = orders[id].parts
           /\ orders'[id].price = orders[id].price
           /\ orders[id].status # "PENDING_PAYMENT" =>
                orders'[id].status # "PENDING_PAYMENT"]_vars
  BY <1>1
<1>. QED  BY <1>2, Invariance, PTL DEF Spec, NeverBackToPending

-----------------------------------------------------------------------------
\* Only PaymentService's answer adds to the charges.
LEMMA OnlyServeCharges ==
  ASSUME [Next]_vars
  PROVE  ledger' = ledger \/ \E r \in Requests :
           /\ Serve(r, call[r].id, paymentMethodToProto(call[r].method))
           /\ UNCHANGED <<orders, pc, call, code>>
BY DEF Next, vars, HandlerStep, StoreStep, PaymentStep, Receive, OrderNotFound, GetOrder,
       AlreadyFinal, PayOrder, SavePaid, CancelOrder, RejectCreate, CreateOrder, Saved,
       CallFailed, GiveUp, Upsert, Commit, Rollback, Lose, Crash, Quiesced, Send,
       storeVars, paymentVars

\* A request keeps what it was asked, what it was charged and what it has
\* handed to PostgreSQL, and once it has ended it stays as it ended.
LEMMA Kept ==
  ASSUME IInv, [Next]_vars, NEW q \in Requests
  PROVE  /\ pc[q] # "idle" => call'[q] = call[q] /\ pc'[q] # "idle"
         /\ rpc[q] = "served" => rpc'[q] = "served"
         /\ rpc[q] # "sent" => reply'[q] = reply[q]
         /\ tx[q] # "none" => local'[q] = local[q]
         /\ tx[q] = "committed" => tx'[q] = "committed"
         /\ pc[q] \in Ended => pc'[q] = pc[q] /\ code'[q] = code[q]
<1> USE DEF IInv, TypeOK, StoreTypeOK, PaymentTypeOK
<1>1. ASSUME NEW r \in Requests, NEW c \in Calls, Receive(r, c)
      PROVE  /\ pc[q] # "idle" => call'[q] = call[q] /\ pc'[q] # "idle"
             /\ UNCHANGED <<storeVars, paymentVars, code>>
             /\ pc[q] \in Ended => pc'[q] = pc[q]
  BY <1>1 DEF Receive
<1>2. ASSUME NEW r \in Requests, OrderNotFound(r) \/ AlreadyFinal(r) \/ RejectCreate(r)
                                 \/ Saved(r) \/ CallFailed(r) \/ GiveUp(r) \/ GetOrder(r)
      PROVE  /\ pc[q] # "idle" => pc'[q] # "idle"
             /\ UNCHANGED <<orders, tx, paymentVars, call>>
             /\ local'[q] = local[q] \/ tx[q] = "none"
             /\ pc[q] \in Ended => pc'[q] = pc[q] /\ code'[q] = code[q]
  BY <1>2 DEF OrderNotFound, AlreadyFinal, RejectCreate, Saved, CallFailed, GiveUp, GetOrder,
              Answer, Reads, ControlInv
<1>3. ASSUME NEW r \in Requests, PayOrder(r) \/ SavePaid(r) \/ CancelOrder(r) \/ CreateOrder(r)
      PROVE  /\ pc[q] # "idle" => pc'[q] # "idle"
             /\ UNCHANGED <<orders, reply, ledger, call, code>>
             /\ rpc[q] = "served" => rpc'[q] = "served"
             /\ (local'[q] = local[q] /\ tx'[q] = tx[q]) \/ tx[q] = "none"
             /\ pc[q] \in Ended => pc'[q] = pc[q]
  BY <1>3 DEF PayOrder, SavePaid, CancelOrder, CreateOrder, GoTo, Reads, Send, Save, ControlInv
<1>4. ASSUME NEW r \in Requests, StoreStep(r)
      PROVE  /\ UNCHANGED <<local, paymentVars, pc, call, code>>
             /\ tx[q] = "committed" => tx'[q] = "committed"
  BY <1>4 DEF StoreStep, Upsert, Commit, Rollback
<1>5. ASSUME NEW r \in Requests, PaymentStep(r)
      PROVE  /\ UNCHANGED <<storeVars, pc, call, code>>
             /\ rpc[q] = "served" => rpc'[q] = "served"
             /\ rpc[q] # "sent" => reply'[q] = reply[q]
  BY <1>5 DEF PaymentStep, Serve, Lose
<1>6. CASE Crash
  BY <1>6 DEF Crash
<1>7. CASE UNCHANGED vars
  BY <1>7 DEF vars
<1> HIDE DEF IInv, TypeOK, StoreTypeOK, PaymentTypeOK
<1>. QED  BY <1>1, <1>2, <1>3, <1>4, <1>5, <1>6, <1>7 DEF Next, HandlerStep, Quiesced

(* The charge accounting holds before any payment. *)
LEMMA ChargeInit == Init => ChargeInv
BY DEF Init, ChargeInv, LedgerInv, RecordInv

(* Every step keeps each charge one caller's: only PaymentService's answer adds to the ledger. *)
LEMMA LedgerNext ==
  ASSUME IInv, LedgerInv, [Next]_vars
  PROVE  LedgerInv'
<1> USE DEF LedgerInv
<1>1. CASE ledger' = ledger
  BY <1>1, Kept DEF IInv, ControlInv
<1>2. ASSUME NEW r \in Requests, Serve(r, call[r].id, paymentMethodToProto(call[r].method))
      PROVE  LedgerInv'
  <2>1. PICK t \in Txns :
          /\ ledger' = ledger \cup {[txn |-> t, order |-> call[r].id,
                                     method |-> paymentMethodToProto(call[r].method)]}
          /\ reply' = [reply EXCEPT ![r] = t]
    BY <1>2 DEF Serve
  <2>2. rpc[r] = "sent" /\ rpc'[r] = "served" /\ reply'[r] = t /\ call'[r] = call[r]
    BY <1>2, <2>1, Kept DEF Serve, IInv, TypeOK, PaymentTypeOK, ControlInv
  <2>3. ASSUME NEW c \in ledger
        PROVE  \E q \in Requests :
                 /\ rpc'[q] = "served" /\ reply'[q] = c.txn
                 /\ call'[q].id = c.order /\ paymentMethodToProto(call'[q].method) = c.method
    BY Kept DEF IInv, ControlInv
  <2>. QED  BY <2>1, <2>2, <2>3
<1>. QED  BY <1>1, <1>2, OnlyServeCharges

\* A handler that neither calls PaymentService nor hands PostgreSQL anything
\* leaves the record alone, and it answers for its charge only after a COMMIT.
LEMMA RecordAnswer ==
  ASSUME IInv, RecordInv, NEW r \in Requests,
         \/ \E c \in Calls : Receive(r, c)
         \/ OrderNotFound(r) \/ AlreadyFinal(r) \/ RejectCreate(r) \/ GetOrder(r)
         \/ Saved(r) \/ CallFailed(r) \/ GiveUp(r)
  PROVE  RecordInv'
<1>1. /\ UNCHANGED <<orders, tx, paymentVars>>
      /\ \A q \in Requests : tx[q] \in {"open", "locked"} => local'[q] = local[q]
      /\ \A q \in Requests : rpc[q] # "none" \/ tx[q] # "none" => call'[q] = call[q]
      /\ \A q \in Requests : code[q] = 500 => code'[q] = 500
  BY Kept DEF Receive, OrderNotFound, AlreadyFinal, RejectCreate, GetOrder, Saved, CallFailed,
     GiveUp, Next, HandlerStep, IInv, ControlInv, AnswerInv
<1>2. \A q \in Requests :
        rpc[q] \in {"sent", "served"} /\ pc[q] \in {"paying", "saving", "gone"} =>
          pc'[q] = pc[q] \/ code'[q] = 500 \/ tx[q] = "committed"
  BY DEF Receive, OrderNotFound, AlreadyFinal, RejectCreate, GetOrder, Saved, CallFailed, GiveUp,
     Answer, Reads, IInv, TypeOK
<1>3. \A p \in Requests : \A id :
        tx[p] = "committed" /\ Targets(p, id) => Targets(p, id)'
  BY <1>1 DEF Targets
<1>. QED  BY <1>1, <1>2, <1>3 DEF RecordInv

(* Every step keeps the record conjuncts: a charge is recorded by the caller that made it. *)
LEMMA RecordNext ==
  ASSUME IInv, RecordInv, [Next]_vars
  PROVE  RecordInv'
<1> USE DEF IInv, TypeOK, StoreTypeOK, PaymentTypeOK
<1>1. ASSUME NEW r \in Requests, PayOrder(r) PROVE RecordInv'
  BY <1>1 DEF PayOrder, Reads, Send, GoTo, RecordInv, ControlInv, Targets
<1>2. ASSUME NEW r \in Requests, SavePaid(r) PROVE RecordInv'
  BY <1>2 DEF SavePaid, Save, GoTo, PaidOrder, RecordInv, ControlInv, PayingInv, Targets, RowOK, Order
<1>3. ASSUME NEW r \in Requests, CancelOrder(r) \/ CreateOrder(r) PROVE RecordInv'
  BY <1>3 DEF CancelOrder, CreateOrder, Save, Reads, GoTo, RecordInv, ControlInv, Targets
<1>4. ASSUME NEW r \in Requests, Upsert(r) \/ Rollback(r), UNCHANGED <<paymentVars, pc, call, code>>
      PROVE  RecordInv'
  BY <1>4 DEF Upsert, Rollback, RecordInv, Targets
<1>6. ASSUME NEW r \in Requests, PaymentStep(r) PROVE RecordInv'
  BY <1>6 DEF PaymentStep, Serve, Lose, RecordInv, Targets
<1>7. CASE Crash
  BY <1>7 DEF Crash, RecordInv, Targets
<1>8. CASE UNCHANGED vars
  BY <1>8 DEF vars, RecordInv, Targets
<1> HIDE DEF IInv, TypeOK, StoreTypeOK, PaymentTypeOK
<1>5. ASSUME NEW r \in Requests, Commit(r), UNCHANGED <<paymentVars, pc, call, code>>
      PROVE  RecordInv'
  <2> SUFFICES ASSUME NEW q \in Requests, rpc[q] = "served", tx'[q] = "committed"
               PROVE  \/ orders'[call[q].id].txn = reply[q]
                      \/ \E p \in Requests \ {q} : Targets(p, call[q].id) /\ tx'[p] = "committed"
    BY <1>5 DEF Commit, RecordInv, Targets, IInv, TypeOK, StoreTypeOK
  <2>1. tx' = [tx EXCEPT ![r] = "committed"] /\ tx[r] = "locked" /\ tx' \in [Requests -> TxStates]
    BY <1>5 DEF Commit, IInv, TypeOK, StoreTypeOK
  <2>2. call[q].op = "pay" /\ call[q] \in Calls /\ orders[call[q].id] # NoOrder
    BY DEF IInv, ControlInv, ServedInv
  <2>3. CASE q = r
    <3>1. tx[r] = "locked" /\ local[r].id = call[r].id /\ orders'[local[r].id] = local[r]
      BY <1>5, <2>1, <2>2, <2>3, CommitRow
    <3>. QED  BY <2>3, <3>1 DEF RecordInv
  <2>4. CASE q # r /\ local[r].id = call[q].id
    <3>1. call[r].op # "create" /\ local[r].id = call[r].id
      BY <1>5, <2>2, <2>4, CommitRow
    <3>2. call[r] \in Calls /\ call[r].op # "get"
      BY <2>1 DEF IInv, ControlInv
    <3>3. Targets(r, call[q].id)
      BY <2>4, <3>1, <3>2, CallFields, CallAssumption DEF Targets
    <3>4. tx'[r] = "committed"
      BY <2>1 DEF IInv, TypeOK, StoreTypeOK
    <3>. QED  BY <2>4, <3>3, <3>4
  <2>5. CASE q # r /\ local[r].id # call[q].id
    BY <1>5, <2>1, <2>2, <2>5, CommitRow, CallFields DEF RecordInv, Targets
  <2>. QED  BY <2>3, <2>4, <2>5
<1>. QED  BY <1>1, <1>2, <1>3, <1>4, <1>5, <1>6, <1>7, <1>8, RecordAnswer
          DEF Next, HandlerStep, StoreStep, Quiesced

(* Both halves of the charge accounting together are inductive relative to IInv. *)
LEMMA ChargeNext == IInv /\ ChargeInv /\ [Next]_vars => ChargeInv'
BY LedgerNext, RecordNext DEF ChargeInv

(* Each charge is that of a pay request (service.go:170), which is under way, has
   failed visibly, or has recorded it in the row (service.go:188). *)
THEOREM ChargeInvariance == Spec => []ChargeInv
BY ChargeInit, ChargeNext, Invariance, PTL DEF Spec

\* No charge is lost sight of: it is being recorded, its client was told of a
\* failure, or it was recorded and only another request replaced the row.
THEOREM ChargesAccounted == Spec => []ChargeAccounted
<1>1. IInv /\ ChargeInv => ChargeAccounted
  <2> SUFFICES ASSUME IInv, ChargeInv, NEW c \in ledger
               PROVE  \E r \in Requests :
                        /\ rpc[r] = "served" /\ reply[r] = c.txn
                        /\ call[r].op = "pay" /\ call[r].id = c.order
                        /\ ProtoName[call[r].method] = c.method
                        /\ \/ pc[r] \in {"paying", "saving"}
                           \/ pc[r] = "gone" \/ code[r] = 500
                           \/ /\ tx[r] = "committed"
                              /\ \/ orders[c.order].txn = c.txn
                                 \/ \E q \in Requests \ {r} : Targets(q, c.order) /\ tx[q] = "committed"
    BY DEF ChargeAccounted
  <2>1. PICK r \in Requests :
          /\ rpc[r] = "served" /\ reply[r] = c.txn
          /\ call[r].id = c.order /\ paymentMethodToProto(call[r].method) = c.method
    BY DEF ChargeInv, LedgerInv
  <2>2. call[r].op = "pay" /\ ProtoName[call[r].method] = c.method
    BY <2>1, CallFields, ProtoNames DEF IInv, ControlInv
  <2>. QED  BY <2>1, <2>2 DEF ChargeInv, RecordInv
<1>. QED  BY <1>1, ChargeInvariance, Invariance, PTL

-----------------------------------------------------------------------------
\* The total of listed parts is the sum of their prices, wrapped once.
LEMMA ListedTotal ==
  ASSUME NEW N \in Nat, NEW uuids, DOMAIN uuids = 1 .. N,
         \A i \in 1 .. N : uuids[i] \in DOMAIN Catalog
  PROVE  \E sum \in [0 .. N -> Int] :
           /\ sum[0] = 0 /\ \A i \in 1 .. N : sum[i] = sum[i - 1] + Catalog[uuids[i]].price
           /\ TotalPrice(ListParts(uuids).parts) = Int64(sum[N])
<1>. DEFINE number == [i \in 1 .. N |-> Catalog[uuids[i]].price]
            list == [i \in 1 .. N |-> Catalog[uuids[i]]]
<1>1. ListParts(uuids).parts = list
  BY DEF ListParts
<1>2. /\ number \in [1 .. N -> Int] /\ DOMAIN list = 1 .. N
      /\ \A i \in 1 .. N : list[i].price = number[i] /\ number[i] = Catalog[uuids[i]].price
  BY CatalogAssumption DEF Part
<1>3. TotalPrice(list) = WrappedTotal(list, Int64Bound) /\ \A n : Int64(n) = Wrap(n, Int64Bound)
  <2>1. \A n : Int64(n) = Wrap(n, Int64Bound)
    BY DEF Int64, Wrap
  <2>2. TotalPrice(list) = WrappedTotal(list, Int64Bound)
    <3>. HIDE DEF list
    <3>. QED  BY <2>1 DEF TotalPrice, WrappedTotal, FoldLeft, MapThenFoldSet
  <2>. QED  BY <2>1, <2>2
<1>. HIDE DEF number, list
<1>4. PICK sum \in [0 .. N -> Int] :
        /\ IsSum(sum, N, number) /\ Sum(number) = sum[N]
        /\ WrappedTotal(list, Int64Bound) = Wrap(sum[N], Int64Bound)
  <2>1. \A i \in 1 .. N : list[i].price = number[i]
    BY <1>2
  <2>. QED  BY <1>2, <2>1, PricingAssumption, WrappedOnce
<1>5. sum[0] = 0 /\ \A i \in 1 .. N : sum[i] = sum[i - 1] + Catalog[uuids[i]].price
  BY <1>2, <1>4 DEF IsSum
<1>6. TotalPrice(ListParts(uuids).parts) = Int64(sum[N])
  BY <1>1, <1>3, <1>4
<1>. QED  BY <1>5, <1>6

(* Joining one element is appending it. *)
LEMMA Appended ==
  ASSUME NEW S, NEW list \in Seq(S), NEW x \in S
  PROVE  list \o <<x>> = Append(list, x)
<1>1. <<x>> \in Seq(S) /\ Len(<<x>>) = 1 /\ <<x>>[1] = x
  OBVIOUS
<1>2. Append(list, x) \in Seq(S) /\ Len(Append(list, x)) = Len(list) + 1
      /\ \A i \in 1 .. Len(list) + 1 :
           Append(list, x)[i] = IF i <= Len(list) THEN list[i] ELSE x
  OBVIOUS
<1>. QED  BY <1>1, <1>2, ConcatProperties, SeqEqual

(* The sequences of components that joining builds, element by element. *)
LEMMA Joined ==
  ASSUME NEW h, NEW e, NEW s, NEW w
  PROVE  /\ <<h, e>> \o <<>> = <<h, e>> /\ <<h, e>> \o <<s>> = <<h, e, s>>
         /\ <<h, e, s>> \o <<>> = <<h, e, s>> /\ <<h, e, s>> \o <<w>> = <<h, e, s, w>>
<1>. DEFINE S == {h, e, s, w}
<1>1. <<h, e>> \in Seq(S) /\ <<h, e, s>> \in Seq(S) /\ s \in S /\ w \in S
  OBVIOUS
<1>2. <<h, e>> \o <<>> = <<h, e>> /\ <<h, e, s>> \o <<>> = <<h, e, s>>
  BY <1>1, ConcatEmptySeq
<1>3. <<h, e>> \o <<s>> = Append(<<h, e>>, s) /\ <<h, e, s>> \o <<w>> = Append(<<h, e, s>>, w)
  BY <1>1, Appended
<1>4. Append(<<h, e>>, s) = <<h, e, s>>
  <2>. DEFINE new == Append(<<h, e>>, s)
              old == <<h, e, s>>
  <2>1. new \in Seq(S) /\ old \in Seq(S)
    BY <1>1
  <2>2. Len(new) = 3 /\ new[1] = h /\ new[2] = e /\ new[3] = s
    OBVIOUS
  <2>3. Len(old) = 3 /\ old[1] = h /\ old[2] = e /\ old[3] = s
    OBVIOUS
  <2>4. \A i \in 1 .. Len(new) : i = 1 \/ i = 2 \/ i = 3
    BY <2>2
  <2>. HIDE DEF new, old
  <2>5. Len(new) = Len(old) /\ \A i \in 1 .. Len(new) : new[i] = old[i]
    BY <2>2, <2>3, <2>4
  <2>6. new = old
    BY <2>1, <2>5, SeqEqual
  <2>. QED  BY <2>6 DEF new, old
<1>5. Append(<<h, e, s>>, w) = <<h, e, s, w>>
  <2>. DEFINE new == Append(<<h, e, s>>, w)
              old == <<h, e, s, w>>
  <2>1. new \in Seq(S) /\ old \in Seq(S)
    BY <1>1
  <2>2. Len(new) = 4 /\ new[1] = h /\ new[2] = e /\ new[3] = s /\ new[4] = w
    OBVIOUS
  <2>3. Len(old) = 4 /\ old[1] = h /\ old[2] = e /\ old[3] = s /\ old[4] = w
    OBVIOUS
  <2>4. \A i \in 1 .. Len(new) : i = 1 \/ i = 2 \/ i = 3 \/ i = 4
    BY <2>2
  <2>. HIDE DEF new, old
  <2>5. Len(new) = Len(old) /\ \A i \in 1 .. Len(new) : new[i] = old[i]
    BY <2>2, <2>3, <2>4
  <2>6. new = old
    BY <2>1, <2>5, SeqEqual
  <2>. QED  BY <2>6 DEF new, old
<1>. QED  BY <1>2, <1>3, <1>4, <1>5

\* A choice that CreateOrder accepts costs what its components cost.
LEMMA ShipPrice ==
  ASSUME NEW ship \in Ships, Orderable(ship)
  PROVE  /\ \A p \in {ship.hull, ship.engine, ship.shield, ship.weapon} \ {None} :
              p \in DOMAIN Catalog /\ Catalog[p].stock > 0
         /\ TotalPrice(ListParts(Uuids(ship)).parts) =
              Int64(PriceOf(ship.hull) + PriceOf(ship.engine)
                    + PriceOf(ship.shield) + PriceOf(ship.weapon))
<1>. DEFINE uuids == Uuids(ship)
            N == Len(uuids)
            price(i) == Catalog[uuids[i]].price
<1>1. /\ ship.hull \in PartIds /\ ship.engine \in PartIds
      /\ ship.shield \in PartIds \cup {None} /\ ship.weapon \in PartIds \cup {None}
      /\ None \notin PartIds
  BY DataAssumption
<1>2. /\ N \in Nat /\ DOMAIN uuids = 1 .. N
      /\ \A i \in 1 .. N : uuids[i] \in DOMAIN Catalog /\ Catalog[uuids[i]].stock > 0
  <2>1. uuids \in Seq(PartIds)
    BY <1>1 DEF Uuids
  <2>2. /\ \A i \in DOMAIN uuids : uuids[i] \in DOMAIN Catalog
        /\ ListParts(uuids).parts = [i \in DOMAIN uuids |-> Catalog[uuids[i]]]
    BY DEF Orderable, ListParts
  <2>3. \A i \in DOMAIN uuids : Catalog[uuids[i]].stock > 0
    BY <2>2 DEF Orderable, InStock
  <2>. QED  BY <2>1, <2>2, <2>3
<1>3. \A i \in 1 .. N : price(i) \in Int
  BY <1>2, CatalogAssumption DEF Part
<1>4. PICK sum \in [0 .. N -> Int] :
        /\ sum[0] = 0 /\ \A i \in 1 .. N : sum[i] = sum[i - 1] + price(i)
        /\ TotalPrice(ListParts(uuids).parts) = Int64(sum[N])
  <2>. HIDE DEF uuids, N
  <2>. QED  BY <1>2, ListedTotal
<1>. HIDE DEF price
<1>5. sum[0] = 0 /\ \A i \in 1 .. N : sum[i] = sum[i - 1] + price(i) /\ price(i) \in Int
  BY <1>3, <1>4
<1>6. CASE ship.shield = None /\ ship.weapon = None
  <2>1. uuids = <<ship.hull, ship.engine>> /\ N = 2
    <3>1. uuids = (<<ship.hull, ship.engine>> \o <<>>) \o <<>>
      BY <1>6 DEF Uuids
    <3>. QED  BY <3>1, Joined
  <2>2. sum[2] = price(1) + price(2)
    BY <1>5, <2>1
  <2>. QED  BY <1>1, <1>2, <1>3, <1>4, <1>6, <2>1, <2>2 DEF PriceOf, price
<1>7. CASE ship.shield = None /\ ship.weapon # None
  <2>1. uuids = <<ship.hull, ship.engine, ship.weapon>> /\ N = 3
    <3>1. uuids = (<<ship.hull, ship.engine>> \o <<>>) \o <<ship.weapon>>
      BY <1>7 DEF Uuids
    <3>. QED  BY <3>1, Joined
  <2>2. sum[3] = price(1) + price(2) + price(3)
    BY <1>5, <2>1
  <2>. QED  BY <1>1, <1>2, <1>3, <1>4, <1>7, <2>1, <2>2 DEF PriceOf, price
<1>8. CASE ship.shield # None /\ ship.weapon = None
  <2>1. uuids = <<ship.hull, ship.engine, ship.shield>> /\ N = 3
    <3>1. uuids = (<<ship.hull, ship.engine>> \o <<ship.shield>>) \o <<>>
      BY <1>8 DEF Uuids
    <3>. QED  BY <3>1, Joined
  <2>2. sum[3] = price(1) + price(2) + price(3)
    BY <1>5, <2>1
  <2>. QED  BY <1>1, <1>2, <1>3, <1>4, <1>8, <2>1, <2>2 DEF PriceOf, price
<1>9. CASE ship.shield # None /\ ship.weapon # None
  <2>1. uuids = <<ship.hull, ship.engine, ship.shield, ship.weapon>> /\ N = 4
    <3>1. uuids = (<<ship.hull, ship.engine>> \o <<ship.shield>>) \o <<ship.weapon>>
      BY <1>9 DEF Uuids
    <3>2. uuids = <<ship.hull, ship.engine, ship.shield, ship.weapon>>
      BY <3>1, Joined
    <3>. QED  BY <3>2
  <2>2. sum[4] = price(1) + price(2) + price(3) + price(4)
    BY <1>5, <2>1
  <2>. QED  BY <1>1, <1>2, <1>3, <1>4, <1>9, <2>1, <2>2 DEF PriceOf, price
<1>. QED  BY <1>6, <1>7, <1>8, <1>9

\* Every order costs the sum of the catalogue prices of its components, in int64,
\* and they exist and were in stock.
THEOREM PricesFromCatalog == Spec => []PricedFromCatalog
<1>1. IInv => PricedFromCatalog
  <2>. SUFFICES ASSUME IInv, NEW id \in OrderIds, orders[id] # NoOrder
                PROVE  LET ship == orders[id].parts
                       IN  /\ \A p \in {ship.hull, ship.engine, ship.shield, ship.weapon} \ {None} :
                                p \in DOMAIN Catalog /\ Catalog[p].stock > 0
                           /\ orders[id].price =
                                Int64(PriceOf(ship.hull) + PriceOf(ship.engine)
                                      + PriceOf(ship.shield) + PriceOf(ship.weapon))
    BY DEF PricedFromCatalog
  <2>1. /\ orders[id].parts \in Ships /\ Orderable(orders[id].parts)
        /\ orders[id].price = TotalPrice(ListParts(Uuids(orders[id].parts)).parts)
    BY DEF IInv, TableInv, RowOK, Order
  <2>. QED  BY <2>1, ShipPrice
<1>. QED  BY <1>1, Invariance, PTL
=============================================================================
