--------------------------- MODULE OrderInvariant --------------------------
(***************************************************************************)
(* The inductive invariant of OrderService.  The properties say what the   *)
(* table and the answers look like; what keeps them so is what every       *)
(* handler holds in its hands while it waits: a copy of a row it will      *)
(* write back whole, or an order that is not in the table yet.             *)
(***************************************************************************)
EXTENDS OrderProperties

\* A row, in the table or about to be written: priced from the catalogue, and
\* backed by a charge if and only if it is paid.
RowOK(row, charges) ==
  /\ row \in Order
  /\ Orderable(row.parts)
  /\ row.price = TotalPrice(ListParts(Uuids(row.parts)).parts)
  /\ IF row.status = "PAID"
       THEN /\ row.method \in Methods
            /\ [txn |-> row.txn, order |-> row.id,
                method |-> paymentMethodToProto(row.method)] \in charges
       ELSE row.txn = None /\ row.method = None

TableInv ==
  \A id \in OrderIds : orders[id] # NoOrder => RowOK(orders[id], ledger) /\ orders[id].id = id

\* Each control state of a handler is reached by the operations that pass it.
ControlInv ==
  \A r \in Requests :
    /\ pc[r] = "idle" => tx[r] = "none" /\ rpc[r] = "none" /\ local[r] = NoOrder
    /\ pc[r] # "idle" => call[r] \in Calls
    /\ pc[r] = "listing" => call[r].op = "create" /\ tx[r] = "none" /\ rpc[r] = "none"
    /\ pc[r] = "reading" => call[r].op # "create" /\ tx[r] = "none" /\ rpc[r] = "none"
    /\ pc[r] = "paying" => call[r].op = "pay" /\ tx[r] = "none" /\ rpc[r] # "none"
    /\ pc[r] = "saving" => call[r].op # "get" /\ tx[r] # "none"
    /\ tx[r] # "none" => call[r].op # "get" /\ local[r] \in Order
    /\ rpc[r] # "none" => call[r].op = "pay"

\* The copy of an existing order, still pending as it was read or already
\* changed, differs from the row in status, transaction and method only.
CopyOf(copy, row) ==
  /\ row # NoOrder
  /\ copy.id = row.id /\ copy.parts = row.parts /\ copy.price = row.price

PayingInv ==
  \A r \in Requests : pc[r] = "paying" =>
    /\ RowOK(local[r], ledger) /\ CopyOf(local[r], orders[local[r].id])
    /\ local[r].id = call[r].id
    /\ local[r].status = "PENDING_PAYMENT"

\* What an unresolved transaction will write.  A new order is in no table and
\* in nobody else's hands; an existing one is never written back pending.
WriteInv ==
  \A r \in Requests : tx[r] \in {"open", "locked"} =>
    /\ RowOK(local[r], ledger)
    /\ call[r].op = "create" =>
         /\ local[r].status = "PENDING_PAYMENT"
         /\ local[r].parts = call[r].ship
         /\ orders[local[r].id] = NoOrder
         /\ \A q \in Requests \ {r} : local[q] # NoOrder => local[q].id # local[r].id
    /\ call[r].op # "create" =>
         /\ CopyOf(local[r], orders[local[r].id])
         /\ local[r].id = call[r].id
         /\ local[r].status # "PENDING_PAYMENT"

\* PaymentService is only asked to charge for stored orders, and its answer is
\* the transaction of a charge made for this request.
ServedInv ==
  \A r \in Requests :
    /\ rpc[r] # "none" => orders[call[r].id] # NoOrder
    /\ rpc[r] = "served" =>
         [txn |-> reply[r], order |-> call[r].id,
          method |-> paymentMethodToProto(call[r].method)] \in ledger

\* What a committed transaction has left in the table for good.
CommittedInv ==
  \A r \in Requests : tx[r] = "committed" =>
    /\ CopyOf(local[r], orders[local[r].id])
    /\ call[r].op = "create" => local[r].parts = call[r].ship
    /\ call[r].op # "create" => local[r].id = call[r].id /\ ~Pending(local[r].id)

\* What an answer is based on.
AnswerInv ==
  \A r \in Requests :
    /\ code[r] # NoCode => pc[r] = "done"
    /\ code[r] \in {200, 201} =>
         \/ call[r].op = "get" /\ local[r] \in Order /\ local[r].id = call[r].id
         \/ call[r].op # "get" /\ tx[r] = "committed"
    /\ code[r] = 409 /\ call[r].op # "create" =>
         orders[call[r].id] # NoOrder /\ ~Pending(call[r].id)
    /\ code[r] \in {200, 201} /\ call[r].op = "get" /\ local[r].status # "PENDING_PAYMENT"
         => orders[call[r].id] # NoOrder /\ ~Pending(call[r].id)

IInv == /\ TypeOK
        /\ TableInv
        /\ ControlInv
        /\ PayingInv
        /\ WriteInv
        /\ ServedInv
        /\ CommittedInv
        /\ AnswerInv

-----------------------------------------------------------------------------
\* The charges.  Each answers one pay request, the one that was given its
\* transaction.
LedgerInv ==
  \A c \in ledger : \E r \in Requests :
    /\ rpc[r] = "served" /\ reply[r] = c.txn
    /\ call[r].id = c.order /\ paymentMethodToProto(call[r].method) = c.method

\* A request that may be charged has not ended well before its charge is in the
\* row; it writes that charge or nothing; and only a commit of another request
\* for the same order takes it out of the row again.
RecordInv ==
  \A r \in Requests :
    /\ rpc[r] = "sent" => tx[r] = "none"
    /\ rpc[r] \in {"sent", "served"} =>
         pc[r] \in {"paying", "saving", "gone"} \/ code[r] = 500 \/ tx[r] = "committed"
    /\ rpc[r] = "served" /\ tx[r] \in {"open", "locked"} => local[r].txn = reply[r]
    /\ rpc[r] = "served" /\ tx[r] = "committed" =>
         \/ orders[call[r].id].txn = reply[r]
         \/ \E q \in Requests \ {r} : Targets(q, call[r].id) /\ tx[q] = "committed"

ChargeInv == LedgerInv /\ RecordInv

-----------------------------------------------------------------------------
\* What PayOrder and CancelOrder hand to PostgreSQL.
WrittenInv ==
  \A r \in Requests : tx[r] # "none" =>
    /\ call[r].op = "pay" => local[r].status = "PAID" /\ local[r].txn = reply[r]
    /\ call[r].op = "cancel" => local[r].status = "CANCELLED"

\* The requests for an order, when they come one at a time: those that are past the
\* check of its status or left a transaction that has the lock; of these the ones
\* that will write the row if they can; and the one whose write stands.
Writing(r) == pc[r] \in {"paying", "saving"} \/ tx[r] = "locked"

Committing(r) ==
  \/ pc[r] = "paying" \/ tx[r] = "locked"
  \/ pc[r] = "saving" /\ tx[r] = "open"

Holds(r) == tx[r] = "committed" /\ ~Unclear(r)

ForOrder(r, id) == call[r] # None /\ call[r].op # "create" /\ call[r].id = id

\* One transaction at most has the lock on a row.
LockInv ==
  \A r \in Requests : \A q \in Requests \ {r} :
    tx[r] = "locked" /\ tx[q] = "locked" => local[r].id # local[q].id

\* One request at most is in flight for an order.  One that may still commit finds
\* the row pending, unless an earlier one ended without an outcome; and the row is
\* what the last one to be told of its success wrote, which nobody is to replace.
SerialInv ==
  /\ LockInv
  /\ \A r \in Requests : call[r] # None /\ call[r].op # "create" =>
       /\ pc[r] \in InFlight =>
            \A q \in Requests \ {r} : ForOrder(q, call[r].id) => pc[q] \notin InFlight
       /\ tx[r] = "locked" => pc[r] = "saving" \/ Unclear(r)
       /\ Committing(r) => Pending(call[r].id) \/ call[r].id \in Doubted
       /\ Holds(r) =>
            /\ orders[call[r].id] = local[r]
            /\ \A q \in Requests \ {r} :
                 ForOrder(q, call[r].id) => ~Writing(q) /\ ~Holds(q)
=============================================================================
