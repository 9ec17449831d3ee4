---------------------------- MODULE OrderService ---------------------------
(***************************************************************************)
(* OrderService: one goroutine per HTTP request runs the API handler and   *)
(* the service method behind it, calling InventoryService, PaymentService  *)
(* and PostgreSQL.  A handler is a sequence of actions, cut wherever it    *)
(* waits for one of them, so that other requests, PostgreSQL and           *)
(* PaymentService run in between; the process may crash at any point and   *)
(* is started again on the same table.                                     *)
(***************************************************************************)
EXTENDS OrderStore, Payment

CONSTANTS Stored        \* orders an earlier run of the service left pending

ASSUME StoredAssumption == Stored \subseteq OrderIds

VARIABLES pc,           \* where the request's handler waits
          call,         \* the decoded request
          code          \* the HTTP status it was answered with

vars == <<orders, local, tx, rpc, reply, ledger, pc, call, code>>

InFlight == {"listing", "reading", "paying", "saving"}
Ended == {"done", "gone"}       \* answered; died with the process

Calls == [op : {"create"}, ship : Ships]
    \cup [op : {"pay"}, id : OrderIds, method : Methods]
    \cup [op : {"get", "cancel"}, id : OrderIds]

\* "No request yet" is not a request.
ASSUME CallAssumption == None \notin Calls

NoCode == 0
Codes == {200, 201, 404, 409, 500}

TypeOK ==
  /\ StoreTypeOK
  /\ PaymentTypeOK
  /\ pc \in [Requests -> {"idle"} \cup InFlight \cup Ended]
  /\ call \in [Requests -> Calls \cup {None}]
  /\ code \in [Requests -> Codes \cup {NoCode}]

Init ==
  /\ \E ships \in [Stored -> {ship \in Ships : Orderable(ship)}] :
       orders = [id \in OrderIds |->
                   IF id \in Stored THEN NewOrder(id, ships[id]) ELSE NoOrder]
  /\ local = [r \in Requests |-> NoOrder]
  /\ tx = [r \in Requests |-> "none"]
  /\ rpc = [r \in Requests |-> "none"]
  /\ reply = [r \in Requests |-> None]
  /\ ledger = {}
  /\ pc = [r \in Requests |-> "idle"]
  /\ call = [r \in Requests |-> None]
  /\ code = [r \in Requests |-> NoCode]

-----------------------------------------------------------------------------
\* The router hands a decoded request to its handler.
Receive(r, c) ==
  /\ pc[r] = "idle"
  /\ call' = [call EXCEPT ![r] = c]
  /\ pc' = [pc EXCEPT ![r] = IF c.op = "create" THEN "listing" ELSE "reading"]
  /\ UNCHANGED <<orders, local, tx, rpc, reply, ledger, code>>

GoTo(r, next) == pc' = [pc EXCEPT ![r] = next] /\ UNCHANGED <<call, code>>

Answer(r, status) ==
  /\ pc' = [pc EXCEPT ![r] = "done"]
  /\ code' = [code EXCEPT ![r] = status]
  /\ UNCHANGED call

Reads(r, op) == pc[r] = "reading" /\ call[r].op = op

\* repository.ErrNotFound, in all three methods that read an order.
OrderNotFound(r) ==
  /\ pc[r] = "reading"
  /\ Get(call[r].id) = NoOrder
  /\ Answer(r, 404)
  /\ UNCHANGED <<storeVars, paymentVars>>

GetOrder(r) ==
  /\ Reads(r, "get")
  /\ Get(call[r].id) # NoOrder
  /\ local' = [local EXCEPT ![r] = Get(call[r].id)]
  /\ Answer(r, 200)
  /\ UNCHANGED <<orders, tx, paymentVars>>

\* The status check of PayOrder and CancelOrder.
Pending(id) == Get(id).status = "PENDING_PAYMENT"

AlreadyFinal(r) ==
  /\ \/ Reads(r, "pay")
     \/ Reads(r, "cancel")
  /\ Get(call[r].id) # NoOrder
  /\ ~Pending(call[r].id)
  /\ Answer(r, 409)
  /\ UNCHANGED <<storeVars, paymentVars>>

\* Mutation: PayOrder does not look at the status.
PayOrderUnchecked(r) ==
  /\ Reads(r, "pay")
  /\ Get(call[r].id) # NoOrder
  /\ local' = [local EXCEPT ![r] = Get(call[r].id)]
  /\ Send(r)
  /\ GoTo(r, "paying")
  /\ UNCHANGED <<orders, tx>>

\* PayOrder up to its call of PaymentService.
PayOrder(r) ==
  /\ Reads(r, "pay")
  /\ Get(call[r].id) # NoOrder
  /\ Pending(call[r].id)
  /\ local' = [local EXCEPT ![r] = Get(call[r].id)]
  /\ Send(r)
  /\ GoTo(r, "paying")
  /\ UNCHANGED <<orders, tx>>

\* Mutation: the status is left as it was read.
PaidOrderNoStatus(r) == [local[r] EXCEPT !.txn = reply[r], !.method = call[r].method]

\* PayOrder from PaymentService's answer: the copy read before the call is
\* what is marked paid and saved.
PaidOrder(r) ==
  [local[r] EXCEPT !.status = "PAID", !.txn = reply[r], !.method = call[r].method]

SavePaid(r) ==
  /\ pc[r] = "paying"
  /\ rpc[r] = "served"
  /\ Save(r, PaidOrder(r))
  /\ GoTo(r, "saving")
  /\ UNCHANGED <<orders, paymentVars>>

\* Mutation: CancelOrder does not look at the status.
CancelOrderUnchecked(r) ==
  /\ Reads(r, "cancel")
  /\ Get(call[r].id) # NoOrder
  /\ Save(r, [Get(call[r].id) EXCEPT !.status = "CANCELLED"])
  /\ GoTo(r, "saving")
  /\ UNCHANGED <<orders, paymentVars>>

CancelOrder(r) ==
  /\ Reads(r, "cancel")
  /\ Get(call[r].id) # NoOrder
  /\ Pending(call[r].id)
  /\ Save(r, [Get(call[r].id) EXCEPT !.status = "CANCELLED"])
  /\ GoTo(r, "saving")
  /\ UNCHANGED <<orders, paymentVars>>

\* CreateOrder refuses a choice with a component missing or out of stock.
RejectCreate(r) ==
  LET parts == ListParts(Uuids(call[r].ship))
  IN  /\ pc[r] = "listing"
      /\ \/ parts.code = "NOT_FOUND" /\ Answer(r, 404)
         \/ parts.code = "OK" /\ ~InStock(parts.parts) /\ Answer(r, 409)
      /\ UNCHANGED <<storeVars, paymentVars>>

\* uuid.New() never returns a UUID it has returned before.
Unused(id) ==
  /\ orders[id] = NoOrder
  /\ \A q \in Requests : local[q] # NoOrder => local[q].id # id

CreateOrder(r) ==
  /\ pc[r] = "listing"
  /\ Orderable(call[r].ship)
  /\ \E id \in OrderIds : Unused(id) /\ Save(r, NewOrder(id, call[r].ship))
  /\ GoTo(r, "saving")
  /\ UNCHANGED <<orders, paymentVars>>

\* Mutation: the error of trManager.Do is dropped.
SavedDespiteError(r) ==
  /\ pc[r] = "saving"
  /\ tx[r] \in {"committed", "aborted"}
  /\ Answer(r, IF call[r].op = "create" THEN 201 ELSE 200)
  /\ UNCHANGED <<storeVars, paymentVars>>

\* Mutation: the answer does not wait for the COMMIT.
SavedBeforeCommit(r) ==
  /\ pc[r] = "saving"
  /\ tx[r] \in {"locked", "committed"}
  /\ Answer(r, IF call[r].op = "create" THEN 201 ELSE 200)
  /\ UNCHANGED <<storeVars, paymentVars>>

\* Mutation: a created order is answered like any other.
SavedAsOk(r) ==
  /\ pc[r] = "saving"
  /\ tx[r] = "committed"
  /\ Answer(r, 200)
  /\ UNCHANGED <<storeVars, paymentVars>>

\* trManager.Do returns nil.
Saved(r) ==
  /\ pc[r] = "saving"
  /\ tx[r] = "committed"
  /\ Answer(r, IF call[r].op = "create" THEN 201 ELSE 200)
  /\ UNCHANGED <<storeVars, paymentVars>>

\* Mutation: nothing notices that the call to PaymentService failed.
CallFailedUnnoticed(r) ==
  /\ pc[r] = "saving" /\ tx[r] = "aborted"
  /\ Answer(r, 500)
  /\ UNCHANGED <<storeVars, paymentVars>>

\* The call to PaymentService, or trManager.Do, reports an error.
CallFailed(r) ==
  /\ \/ pc[r] = "paying" /\ rpc[r] = "lost"
     \/ pc[r] = "saving" /\ tx[r] = "aborted"
  /\ Answer(r, 500)
  /\ UNCHANGED <<storeVars, paymentVars>>

\* Any call a handler waits for can also return an error that says nothing of
\* what the other side did: a broken connection, a request context that was
\* cancelled because the client hung up.
GiveUp(r) ==
  /\ pc[r] \in InFlight
  /\ Answer(r, 500)
  /\ UNCHANGED <<storeVars, paymentVars>>

-----------------------------------------------------------------------------
\* PostgreSQL.  Only a handler that still waits has its upsert followed by a
\* COMMIT, so a transaction orphaned before its upsert can only be rolled back.
StoreStep(r) ==
  /\ \/ pc[r] = "saving" /\ Upsert(r)
     \/ Commit(r)
     \/ Rollback(r)
  /\ UNCHANGED <<paymentVars, pc, call, code>>

\* PaymentService, for the order and method PayOrder put in the request.
PaymentStep(r) ==
  /\ \/ Serve(r, call[r].id, paymentMethodToProto(call[r].method))
     \/ Lose(r)
  /\ UNCHANGED <<storeVars, pc, call, code>>

\* The process dies, or main returns while handlers are still running.
Crash ==
  /\ \E r \in Requests : pc[r] \in InFlight
  /\ pc' = [r \in Requests |-> IF pc[r] \in InFlight THEN "gone" ELSE pc[r]]
  /\ UNCHANGED <<storeVars, paymentVars, call, code>>

\* Every request has ended and nothing it started is still under way.
Quiesced ==
  /\ \A r \in Requests : /\ pc[r] \in Ended
                         /\ tx[r] \notin {"open", "locked"}
                         /\ rpc[r] # "sent"
  /\ UNCHANGED vars

HandlerStep(r) ==
  \/ OrderNotFound(r) \/ GetOrder(r) \/ AlreadyFinal(r) \/ PayOrder(r)
  \/ SavePaid(r) \/ CancelOrder(r) \/ RejectCreate(r) \/ CreateOrder(r)
  \/ Saved(r) \/ CallFailed(r)

Next ==
  \/ \E r \in Requests :
       \/ \E c \in Calls : Receive(r, c)
       \/ HandlerStep(r) \/ GiveUp(r) \/ StoreStep(r) \/ PaymentStep(r)
  \/ Crash
  \/ Quiesced

Spec == Init /\ [][Next]_vars

\* A handler that can go on does; PostgreSQL resolves every transaction; a
\* PayOrder call is served, or keepalive finds its connection dead.
Fairness ==
  \A r \in Requests : /\ WF_vars(HandlerStep(r))
                      /\ WF_vars(StoreStep(r))
                      /\ WF_vars(PaymentStep(r))

FairSpec == Spec /\ Fairness
=============================================================================
