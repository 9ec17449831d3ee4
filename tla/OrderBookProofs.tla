-------------------------- MODULE OrderBookProofs --------------------------
(***************************************************************************)
(* OrderService implements OrderBook: a COMMIT places, pays or cancels an  *)
(* order, PaymentService's answer adds a charge, and every other step      *)
(* leaves the table and the charges alone.  When each request for an order *)
(* is sent after the others were answered it implements the life cycle of  *)
(* an order too, as far as its answers go.  On the in-memory repository it *)
(* takes no step that it could not take on PostgreSQL, so what holds there *)
(* holds in the tests.  And it returns to its HTTP handlers what OrderApi  *)
(* supposes of the service methods.                                        *)
(***************************************************************************)
EXTENDS OrderServiceProofs, OrderSerial, OrderMemory, OrderContract

\* Two orders with the same fields are the same order.
LEMMA OrderEquality ==
  ASSUME NEW a \in Order, NEW b \in Order,
         a.id = b.id, a.parts = b.parts, a.price = b.price,
         a.status = b.status, a.txn = b.txn, a.method = b.method
  PROVE  a = b
BY DEF Order

\* The book's own names for what CreateOrder builds.
LEMMA BookData ==
  /\ Book!Statuses = Statuses
  /\ \A m : Book!paymentMethodToProto(m) = paymentMethodToProto(m)
  /\ \A ship : Book!Orderable(ship) = Orderable(ship)
  /\ \A id, ship : Book!NewOrder(id, ship) = NewOrder(id, ship)
<1>1. Book!Statuses = Statuses
  BY DEF Book!Statuses, Statuses
<1>2. \A ship : Book!Uuids(ship) = Uuids(ship)
  BY DEF Book!Uuids, Uuids
<1>3. \A uuids : Book!ListParts(uuids) = ListParts(uuids)
  BY DEF Book!ListParts, ListParts
<1>4. \A ship : Book!Orderable(ship) = Orderable(ship)
  BY <1>2, <1>3 DEF Book!Orderable, Orderable, Book!InStock, InStock
<1>5. \A parts : Book!TotalPrice(parts) = TotalPrice(parts)
  BY DEF Book!TotalPrice, TotalPrice, Book!Int64, Int64, Book!FoldLeft, FoldLeft,
         Book!MapThenFoldSet, MapThenFoldSet, Book!Max, Max
<1>6. \A id, ship : Book!NewOrder(id, ship) = NewOrder(id, ship)
  BY <1>2, <1>3, <1>5 DEF Book!NewOrder, NewOrder
<1>7. \A m : Book!paymentMethodToProto(m) = paymentMethodToProto(m)
  BY DEF Book!paymentMethodToProto, paymentMethodToProto
<1>. QED  BY <1>1, <1>4, <1>6, <1>7

(* An empty orders table is an empty book. *)
LEMMA InitRefines == Init => Book!BookInit
BY BookData DEF Init, Book!BookInit

\* The COMMIT of CreateOrder.
LEMMA CreateRefines ==
  ASSUME IInv, NEW r \in Requests, Commit(r), UNCHANGED ledger, call[r].op = "create"
  PROVE  \E id \in OrderIds : Book!Place(id)
<1> DEFINE row == local[r]
           new == NewOrder(row.id, row.parts)
<1>1. /\ RowOK(row, ledger) /\ row \in Order /\ row.id \in OrderIds
      /\ orders[row.id] = NoOrder /\ orders' = [orders EXCEPT ![row.id] = row]
      /\ row.status = "PENDING_PAYMENT"
  BY CommitRow
<1> HIDE DEF row
<1>2. row.parts \in Ships /\ Orderable(row.parts)
  BY <1>1 DEF RowOK, Order
<1>3. row = new
  <2>1. new \in Order
    BY <1>1, <1>2, NewOrderOK
  <2>. QED  BY <1>1, <2>1, OrderEquality DEF NewOrder, RowOK
<1>. QED  BY <1>1, <1>2, <1>3, BookData DEF Book!Place

\* The COMMIT of PayOrder or CancelOrder.
LEMMA UpdateRefines ==
  ASSUME IInv, NEW r \in Requests, Commit(r), UNCHANGED ledger, call[r].op # "create",
         NEW from, orders[local[r].id].status \in from[local[r].id]
  PROVE  \E id \in OrderIds : Book!Pay(id, from[id]) \/ Book!Cancel(id, from[id])
<1> DEFINE row == local[r]
           id == row.id
           old == orders[id]
<1>1. /\ RowOK(row, ledger) /\ row \in Order /\ id \in OrderIds
      /\ CopyOf(row, old) /\ orders' = [orders EXCEPT ![id] = row]
      /\ row.status # "PENDING_PAYMENT"
  BY CommitRow
<1>2. old \in Order /\ old # NoOrder /\ old.status \in from[id]
  BY <1>1 DEF IInv, TypeOK, StoreTypeOK, CopyOf
<1> HIDE DEF row, id, old
<1>3. CASE row.status = "PAID"
  <2> DEFINE c == [txn |-> row.txn, order |-> row.id, method |-> paymentMethodToProto(row.method)]
             paid == [old EXCEPT !.status = "PAID", !.txn = c.txn, !.method = row.method]
  <2>1. c \in ledger /\ c.order = id
    BY <1>1, <1>3 DEF RowOK, id
  <2>2. row = paid
    BY <1>1, <1>2, <1>3 DEF Order, CopyOf
  <2>3. row.method \in Methods /\ c.method = Book!paymentMethodToProto(row.method)
    BY <1>1, <1>3, BookData DEF RowOK
  <2> HIDE DEF c
  <2>4. orders' = [orders EXCEPT ![id] = paid]
    BY <1>1, <2>2
  <2>5. Book!Pay(id, from[id])
    BY <1>2, <2>1, <2>3, <2>4 DEF Book!Pay, old
  <2>. QED  BY <1>1, <2>5
<1>4. CASE row.status = "CANCELLED"
  <2> DEFINE cancelled == [old EXCEPT !.status = "CANCELLED", !.txn = None, !.method = None]
  <2>1. row = cancelled
    BY <1>1, <1>2, <1>4 DEF Order, CopyOf, RowOK
  <2>. QED  BY <1>1, <1>2, <2>1 DEF Book!Cancel, old
<1>. QED  BY <1>1, <1>3, <1>4 DEF Order, Statuses

(* Payment and inventory answers leave the book alone. *)
LEMMA ServeRefines ==
  ASSUME IInv, NEW r \in Requests, Serve(r, call[r].id, paymentMethodToProto(call[r].method)), UNCHANGED orders
  PROVE  \E id \in OrderIds : Book!ChargeFor(id)
<1>1. /\ call[r].id \in OrderIds /\ call[r].method \in Methods
      /\ orders[call[r].id] # NoOrder
  BY CallFields DEF IInv, ControlInv, ServedInv, Serve
<1>. QED  BY <1>1, BookData DEF Serve, Book!ChargeFor

(* Every step of the service is a step of the book or none. *)
LEMMA NextRefines == IInv /\ [Next]_vars => [Book!BookNext(Book!Anything)]_Book!bookVars
<1> SUFFICES ASSUME IInv, [Next]_vars
             PROVE  [Book!BookNext(Book!Anything)]_Book!bookVars
  OBVIOUS
<1>1. ASSUME NEW r \in Requests, Commit(r), UNCHANGED ledger
      PROVE  Book!BookNext(Book!Anything)
  <2>1. CASE call[r].op = "create"
    BY <1>1, <2>1, CreateRefines DEF Book!BookNext
  <2>2. CASE call[r].op # "create"
    <3>1. orders[local[r].id].status \in Book!Anything[local[r].id]
      BY <1>1, <2>2, CommitRow, BookData
         DEF Book!Anything, CopyOf, Order, IInv, TypeOK, StoreTypeOK
    <3>. QED  BY <1>1, <2>2, <3>1, UpdateRefines DEF Book!BookNext
  <2>. QED  BY <2>1, <2>2
<1>2. ASSUME NEW r \in Requests, Serve(r, call[r].id, paymentMethodToProto(call[r].method)), UNCHANGED orders
      PROVE  Book!BookNext(Book!Anything)
  BY <1>2, ServeRefines DEF Book!BookNext
<1>. QED  BY <1>1, <1>2, OnlyCommitWrites, OnlyServeCharges DEF Book!bookVars

\* OrderService implements the last-writer-wins book of orders.
THEOREM BookRefinement == Spec => ImplementsBook
BY InitRefines, NextRefines, Invariance, PTL DEF Spec, ImplementsBook, Book!BookSpec

-----------------------------------------------------------------------------
(***************************************************************************)
(* One request at a time per order.  The row a handler copied is then      *)
(* still pending when its copy is committed, unless a transaction of an    *)
(* earlier request, one that ended without an outcome, commits in between. *)
(* At most one transaction has the lock on the row, so a request that was  *)
(* told of its success is the last to have written it.                     *)
(***************************************************************************)

USE DEF InFlight, Ended, NoCode, Codes, TxStates, RpcStates, storeVars, paymentVars

\* What a step may do to request q: a transaction starts in three places, gets the lock in one
\* and commits in one; a handler is in flight from the time it is given its request, and one that
\* saves does so until its transaction is committed, or it ends without an outcome; and a handler
\* is about to write, or to commit, only after it found its order pending.
Moved(q) ==
  /\ tx[q] = "none" /\ tx'[q] # "none" => SavePaid(q) \/ CancelOrder(q) \/ CreateOrder(q)
  /\ tx'[q] = "committed" => tx[q] = "committed" \/ Commit(q)
  /\ tx'[q] = "locked" => tx[q] = "locked" \/ (Upsert(q) /\ pc'[q] = "saving")
  /\ pc'[q] \in InFlight => pc[q] \in InFlight \/ pc[q] = "idle"
  /\ pc[q] = "saving" => pc'[q] = "saving" \/ Unclear(q)' \/ tx[q] = "committed"
  /\ Committing(q)' /\ call[q].op # "create" =>
       Committing(q) \/ (UNCHANGED orders /\ Pending(call[q].id))
  /\ Writing(q)' /\ call[q].op # "create" =>
       Writing(q) \/ (UNCHANGED orders /\ Pending(call[q].id))

LEMMA Moves ==
  ASSUME IInv, [Next]_vars, NEW q \in Requests
  PROVE  Moved(q)
<1> USE DEF Moved, Unclear, Committing, Writing, Pending, IInv, TypeOK, StoreTypeOK, ControlInv
<1>1. ASSUME NEW r \in Requests, NEW c \in Calls, Receive(r, c)
      PROVE  Moved(q)
  BY <1>1 DEF Receive
<1>2. ASSUME NEW r \in Requests, OrderNotFound(r) \/ AlreadyFinal(r) \/ RejectCreate(r) \/ GetOrder(r)
      PROVE  Moved(q)
  BY <1>2 DEF OrderNotFound, AlreadyFinal, RejectCreate, GetOrder, Reads, Answer
<1>3. ASSUME NEW r \in Requests, Saved(r) \/ CallFailed(r) \/ GiveUp(r)
      PROVE  Moved(q)
  BY <1>3 DEF Saved, CallFailed, GiveUp, Answer
<1>4. ASSUME NEW r \in Requests, PayOrder(r)
      PROVE  Moved(q)
  BY <1>4 DEF PayOrder, Reads, Send, GoTo, Get
<1>5. ASSUME NEW r \in Requests, SavePaid(r)
      PROVE  Moved(q)
  <2>1. CASE r = q
    <3>1. pc[q] = "paying" /\ pc'[q] = "saving" /\ tx'[q] = "open"
      BY <1>5, <2>1 DEF SavePaid, Save, GoTo
    <3>. QED  BY <1>5, <2>1, <3>1
  <2>2. CASE r # q
    <3>1. pc'[q] = pc[q] /\ tx'[q] = tx[q] /\ code'[q] = code[q]
      BY <1>5, <2>2 DEF SavePaid, Save, GoTo
    <3>. QED  BY <3>1
  <2>. QED  BY <2>1, <2>2
<1>6. ASSUME NEW r \in Requests, CancelOrder(r) \/ CreateOrder(r)
      PROVE  Moved(q)
  BY <1>6 DEF CancelOrder, CreateOrder, Reads, Save, GoTo, Get
<1>7. ASSUME NEW r \in Requests, StoreStep(r)
      PROVE  Moved(q)
  BY <1>7 DEF StoreStep, Upsert, Commit, Rollback
<1>8. ASSUME NEW r \in Requests, PaymentStep(r)
      PROVE  Moved(q)
  BY <1>8 DEF PaymentStep
<1>9. CASE Crash
  BY <1>9 DEF Crash
<1>10. CASE UNCHANGED vars
  BY <1>10 DEF vars
<1> HIDE DEF Moved, Unclear, Committing, Writing, Pending, IInv, TypeOK, StoreTypeOK, ControlInv
<1>. QED  BY <1>1, <1>2, <1>3, <1>4, <1>5, <1>6, <1>7, <1>8, <1>9, <1>10 DEF Next, HandlerStep, Quiesced

\* A step gives one handler its request, and does nothing else.
LEMMA OneReceives ==
  ASSUME IInv, [Next]_vars, NEW q \in Requests, pc[q] = "idle", pc'[q] # "idle"
  PROVE  \E c \in Calls : Receive(q, c)
<1> USE DEF IInv, TypeOK
<1>1. ASSUME NEW r \in Requests, HandlerStep(r) \/ GiveUp(r) \/ StoreStep(r) \/ PaymentStep(r)
      PROVE  FALSE
  BY <1>1 DEF HandlerStep, OrderNotFound, AlreadyFinal, RejectCreate, Saved, CallFailed, GiveUp,
              GetOrder, PayOrder, SavePaid, CancelOrder, CreateOrder, StoreStep, PaymentStep,
              Reads, GoTo, Answer
<1>2. CASE Crash
  BY <1>2 DEF Crash
<1>3. CASE UNCHANGED vars
  BY <1>3 DEF vars
<1>4. ASSUME NEW r \in Requests, NEW c \in Calls, Receive(r, c)
      PROVE  \E d \in Calls : Receive(q, d)
  <2>1. r = q
    BY <1>4 DEF Receive
  <2>. QED  BY <1>4, <2>1
<1> HIDE DEF IInv, TypeOK
<1>. QED  BY <1>1, <1>2, <1>3, <1>4 DEF Next, Quiesced

(* Nothing has been written at the start. *)
LEMMA WrittenInit == Init => WrittenInv
BY DEF Init, WrittenInv

(* Every step keeps what is known of a written row. *)
LEMMA WrittenNext ==
  ASSUME IInv, RecordInv, WrittenInv, [Next]_vars
  PROVE  WrittenInv'
<1> SUFFICES ASSUME NEW r \in Requests, tx'[r] # "none"
             PROVE  /\ call'[r].op = "pay" => local'[r].status = "PAID" /\ local'[r].txn = reply'[r]
                    /\ call'[r].op = "cancel" => local'[r].status = "CANCELLED"
  BY DEF WrittenInv
<1>1. CASE tx[r] # "none"
  <2>1. rpc[r] # "sent" /\ pc[r] # "idle"
    BY <1>1 DEF RecordInv, IInv, ControlInv
  <2>2. local'[r] = local[r] /\ call'[r] = call[r] /\ reply'[r] = reply[r]
    BY <1>1, <2>1, Kept
  <2>. QED  BY <1>1, <2>2 DEF WrittenInv
<1>2. CASE SavePaid(r)
  <2>1. call[r].op = "pay" /\ local[r] \in Order
    BY <1>2 DEF SavePaid, IInv, ControlInv, PayingInv, RowOK
  <2>2. local'[r] = PaidOrder(r) /\ call'[r] = call[r] /\ reply'[r] = reply[r]
    BY <1>2 DEF SavePaid, Save, GoTo, IInv, TypeOK, StoreTypeOK
  <2>. QED  BY <2>1, <2>2 DEF PaidOrder, Order
<1>3. CASE CancelOrder(r)
  <2>1. call[r].op = "cancel" /\ call[r] \in Calls
    BY <1>3 DEF CancelOrder, Reads, IInv, ControlInv
  <2>2. orders[call[r].id] \in Order
    BY <1>3, <2>1, CallFields DEF CancelOrder, Get, IInv, TypeOK, StoreTypeOK
  <2>3. local'[r] = [orders[call[r].id] EXCEPT !.status = "CANCELLED"] /\ call'[r] = call[r]
    BY <1>3 DEF CancelOrder, Save, Get, GoTo, IInv, TypeOK, StoreTypeOK
  <2>. QED  BY <2>1, <2>2, <2>3 DEF Order
<1>4. CASE CreateOrder(r)
  BY <1>4 DEF CreateOrder, GoTo, IInv, ControlInv
<1>. QED  BY <1>1, <1>2, <1>3, <1>4, Moves DEF Moved

(* No request is being served at the start. *)
LEMMA SerialInit == Init => SerialInv
BY DEF Init, SerialInv, LockInv

\* A COMMIT is a step of its own: no handler moves with it.
LEMMA OneCommits ==
  ASSUME IInv, [Next]_vars, NEW r \in Requests, Commit(r)
  PROVE  UNCHANGED <<pc, call, code>>
<1>1. tx[r] = "locked" /\ tx'[r] = "committed"
  BY DEF Commit, IInv, TypeOK, StoreTypeOK
<1>. QED
  BY <1>1 DEF Next, vars, HandlerStep, StoreStep, PaymentStep, Receive, OrderNotFound, GetOrder,
       AlreadyFinal, PayOrder, SavePaid, CancelOrder, RejectCreate, CreateOrder, Saved,
       CallFailed, GiveUp, Serve, Lose, Crash, Quiesced, Reads, Save, Send,
       IInv, TypeOK, StoreTypeOK

\* Only one of two requests for an order is in flight: the other had ended when
\* this one was received.
LEMMA ReceiveAlone ==
  ASSUME IInv, SerialNext, NEW a \in Requests, NEW b \in Requests \ {a},
         pc[a] = "idle", pc'[a] \in InFlight, call'[a].op # "create", ForOrder(b, call[a].id)'
  PROVE  pc'[b] \notin InFlight
<1>1. [Next]_vars /\ OneAtATime /\ IInv'
  BY NextInv DEF SerialNext
<1>2. PICK c \in Calls : Receive(a, c)
  BY <1>1, OneReceives
<1>3. /\ pc'[a] = "reading" /\ call'[a] = c
      /\ pc'[b] = pc[b] /\ call'[b] = call[b]
  BY <1>2 DEF Receive, IInv, TypeOK
<1>4. pc[b] \in Ended
  BY <1>1, <1>3 DEF OneAtATime, ForOrder
<1>. QED  BY <1>3, <1>4

\* Of two requests for one order one at most is in flight.
LEMMA OneInFlight ==
  ASSUME IInv, SerialInv, SerialNext, NEW r \in Requests, NEW q \in Requests \ {r},
         call'[r] # None, call'[r].op # "create", ForOrder(q, call[r].id)', pc'[r] \in InFlight
  PROVE  pc'[q] \notin InFlight
<1>1. [Next]_vars
  BY DEF SerialNext
<1>2. CASE pc[r] = "idle"
  BY <1>2, ReceiveAlone
<1>3. CASE pc[q] = "idle"
  <2>1. call'[q].op # "create" /\ ForOrder(r, call[q].id)'
    BY DEF ForOrder
  <2>. QED  BY <1>3, <2>1, ReceiveAlone
<1>4. CASE pc[r] # "idle" /\ pc[q] # "idle"
  <2>1. call'[r] = call[r] /\ call'[q] = call[q]
    BY <1>1, <1>4, Kept
  <2>2. pc[r] \in InFlight /\ ForOrder(q, call[r].id)
    BY <1>1, <1>4, <2>1, Moves DEF ForOrder, Moved
  <2>3. pc[q] \notin InFlight
    BY <2>1, <2>2 DEF SerialInv
  <2>. QED  BY <1>1, <1>4, <2>3, Moves DEF Moved
<1>. QED  BY <1>2, <1>3, <1>4

(* An upsert waits for the lock, and a locked transaction keeps its row. *)
LEMMA LockStep == IInv /\ LockInv /\ [Next]_vars => LockInv'
<1> SUFFICES ASSUME IInv, LockInv, [Next]_vars, NEW r \in Requests, NEW q \in Requests \ {r},
                    tx'[r] = "locked", tx'[q] = "locked"
             PROVE  local'[r].id # local'[q].id
  BY DEF LockInv
<1>1. ASSUME NEW a \in Requests, NEW b \in Requests \ {a}, Upsert(a), tx'[b] = "locked"
      PROVE  local'[a].id # local'[b].id
  BY <1>1 DEF Upsert, IInv, TypeOK, StoreTypeOK
<1>2. CASE tx[r] = "locked" /\ tx[q] = "locked"
  BY <1>2, Kept DEF LockInv
<1>. QED  BY <1>1, <1>2, Moves DEF Moved

\* A request that ended without an outcome stays so, and its order with it.
LEMMA DoubtStays ==
  ASSUME IInv, [Next]_vars
  PROVE  /\ \A r \in Requests : Unclear(r) => Unclear(r)'
         /\ Doubted \subseteq Doubted'
<1>1. ASSUME NEW r \in Requests, Unclear(r)
      PROVE  Unclear(r)' /\ call'[r] = call[r]
  <2>1. pc[r] \in Ended
    BY <1>1 DEF Unclear, IInv, AnswerInv
  <2>. QED  BY <1>1, <2>1, Kept DEF Unclear
<1>. QED  BY <1>1 DEF Doubted, Targets

\* The order of a request that is about to commit to it, or has, is stored.
LEMMA StoredOrder ==
  ASSUME IInv, NEW r \in Requests, call[r].op # "create", Committing(r) \/ tx[r] = "committed"
  PROVE  /\ call[r] \in Calls /\ call[r] # None /\ call[r].id \in OrderIds
         /\ local[r].id = call[r].id /\ orders[call[r].id] # NoOrder
         /\ ForOrder(r, call[r].id)
         /\ pc[r] # "idle"
<1>1. call[r] \in Calls /\ pc[r] # "idle"
  BY DEF Committing, IInv, ControlInv
<1>. QED
  BY <1>1, CallFields, CallAssumption
     DEF Committing, IInv, PayingInv, WriteInv, CommittedInv, CopyOf, ForOrder

\* A COMMIT to an order, but the one that places it, finds it pending or in doubt.
LEMMA CommitsPending ==
  ASSUME IInv, SerialInv, NEW q \in Requests, Commit(q), call[q].op # "create"
  PROVE  Pending(local[q].id) \/ local[q].id \in Doubted
<1>1. Committing(q)
  BY DEF Commit, Committing
<1>. QED  BY <1>1, StoredOrder DEF SerialInv

\* The order that a commit writes, when the order of request r is written by another.
LEMMA OtherCommits ==
  ASSUME IInv, [Next]_vars, NEW r \in Requests, call[r].op # "create",
         Committing(r) \/ tx[r] = "committed", ~Commit(r),
         orders'[call[r].id] # orders[call[r].id]
  PROVE  \E q \in Requests \ {r} :
           /\ Commit(q) /\ call[q].op # "create" /\ call[q].id = call[r].id
           /\ ForOrder(q, call[r].id) /\ local[q].id = local[r].id /\ tx[q] = "locked"
<1>1. /\ call[r] # None /\ call[r].id \in OrderIds
      /\ local[r].id = call[r].id /\ orders[call[r].id] # NoOrder
  BY StoredOrder
<1>2. PICK q \in Requests : Commit(q)
  BY OnlyCommitWrites
<1>3. local[q].id = call[r].id
  BY <1>1, <1>2, CommitRow
<1>4. q # r /\ call[q].op # "create" /\ tx[q] = "locked"
  <2>1. q # r
    BY <1>2
  <2>2. tx[q] = "locked"
    BY <1>2 DEF Commit
  <2>3. call[q].op = "create" => orders[local[q].id] = NoOrder
    BY <1>2, CommitRow
  <2>. QED  BY <1>1, <1>3, <2>1, <2>2, <2>3
<1>5. local[q].id = call[q].id /\ ForOrder(q, call[q].id)
  BY <1>4, StoredOrder DEF Committing
<1>. QED  BY <1>1, <1>2, <1>3, <1>4, <1>5

\* The row a handler is about to write stays as it read it, or comes into doubt: only a
\* transaction that outlives its request can commit in between.
LEMMA PendingOrDoubted ==
  ASSUME IInv, SerialInv, [Next]_vars, NEW r \in Requests, call[r].op # "create",
         Committing(r), ~Commit(r)
  PROVE  Pending(call[r].id)' \/ call[r].id \in Doubted'
<1>1. /\ call[r] # None /\ local[r].id = call[r].id /\ ForOrder(r, call[r].id)
      /\ pc[r] # "idle"
  BY StoredOrder
<1>2. call'[r] = call[r]
  BY <1>1, Kept
<1>3. Pending(call[r].id) \/ call[r].id \in Doubted
  BY <1>1 DEF SerialInv
<1>4. CASE call[r].id \in Doubted
  BY <1>4, DoubtStays
<1>5. CASE Pending(call[r].id) /\ orders'[call[r].id] = orders[call[r].id]
  BY <1>2, <1>5 DEF Pending, Get
<1>6. CASE orders'[call[r].id] # orders[call[r].id]
  <2>1. PICK q \in Requests \ {r} :
          /\ Commit(q) /\ call[q].op # "create" /\ call[q].id = call[r].id
          /\ ForOrder(q, call[r].id) /\ local[q].id = local[r].id /\ tx[q] = "locked"
    BY <1>6, OtherCommits
  <2>2. tx[r] # "locked"
    BY <2>1 DEF SerialInv, LockInv
  <2>3. pc[r] \in InFlight
    BY <2>2 DEF Committing
  <2>4. pc[q] \notin InFlight
    BY <1>1, <2>1, <2>3 DEF SerialInv
  <2>5. Unclear(q)
    BY <2>1, <2>4 DEF SerialInv, ForOrder
  <2>6. Targets(q, call[r].id)
    <3>1. call[q] \in Calls /\ call[q].op # "get"
      BY <2>1 DEF IInv, ControlInv
    <3>. QED  BY <2>1, <3>1, CallFields DEF Targets, ForOrder
  <2>7. call[r].id \in Doubted
    BY <1>1, <2>5, <2>6, StoredOrder DEF Doubted
  <2>. QED  BY <2>7, DoubtStays
<1>. QED  BY <1>3, <1>4, <1>5, <1>6

\* A write that stands goes on standing: nobody is about to replace the row, and
\* nobody who comes later finds it pending.
LEMMA StillHolds ==
  ASSUME IInv, SerialInv, [Next]_vars, NEW r \in Requests, call[r].op # "create", Holds(r)
  PROVE  /\ orders'[call[r].id] = local[r]
         /\ \A q \in Requests \ {r} : ForOrder(q, call[r].id)' => ~Writing(q)' /\ ~Holds(q)'
<1>1. /\ call[r] # None /\ local[r].id = call[r].id /\ tx[r] = "committed" /\ pc[r] # "idle"
      /\ orders[call[r].id] = local[r]
      /\ \A q \in Requests \ {r} : ForOrder(q, call[r].id) => ~Writing(q) /\ ~Holds(q)
  BY StoredOrder DEF Holds, SerialInv
<1>2. call'[r] = call[r] /\ ~Commit(r) /\ ~Pending(call[r].id)
  BY <1>1, Kept DEF Commit, IInv, CommittedInv
<1>3. orders'[call[r].id] = orders[call[r].id]
  BY <1>1, <1>2, OtherCommits DEF Writing
<1>4. ASSUME NEW q \in Requests \ {r}, ForOrder(q, call[r].id)'
      PROVE  ~Writing(q)' /\ ~Holds(q)'
  <2>1. CASE pc[q] = "idle"
    <3>1. tx[q] = "none" /\ ~(\E a \in Requests : Commit(a) /\ a = q)
      BY <2>1 DEF IInv, ControlInv, Commit
    <3>2. CASE pc'[q] = "idle"
      BY <3>2, NextInv DEF Writing, Holds, IInv, ControlInv
    <3>3. CASE pc'[q] # "idle"
      <4>1. PICK c \in Calls : Receive(q, c)
        BY <2>1, <3>3, OneReceives
      <4>. QED  BY <3>1, <4>1 DEF Receive, Writing, Holds, IInv, TypeOK
    <3>. QED  BY <3>2, <3>3
  <2>2. CASE pc[q] # "idle"
    <3>1. call'[q] = call[q] /\ call[q].op # "create" /\ call[q].id = call[r].id
          /\ ForOrder(q, call[r].id)
      BY <1>2, <1>4, <2>2, Kept DEF ForOrder
    <3>2. ~Writing(q) /\ ~Holds(q)
      BY <1>1, <3>1
    <3>3. ~Writing(q)'
      BY <1>2, <3>1, <3>2, Moves DEF Moved
    <3>4. ASSUME Holds(q)' PROVE FALSE
      <4>1. ~Unclear(q) /\ (tx[q] = "committed" \/ Commit(q))
        BY <3>4, Moves, DoubtStays DEF Holds, Moved
      <4>. QED  BY <3>2, <4>1 DEF Holds, Writing, Commit
    <3>. QED  BY <3>3, <3>4
  <2>. QED  BY <2>1, <2>2
<1>. QED  BY <1>1, <1>3, <1>4

\* A write comes to stand by a COMMIT its handler waits for: no other request for
\* the order is in flight, none has the lock, and none stood against this one.
LEMMA ComesToHold ==
  ASSUME IInv, SerialInv, [Next]_vars, NEW r \in Requests, call[r].op # "create", Commit(r),
         ~Unclear(r)'
  PROVE  /\ orders'[call[r].id] = local[r]
         /\ \A q \in Requests \ {r} : ForOrder(q, call[r].id)' => ~Writing(q)' /\ ~Holds(q)'
<1>1. tx[r] = "locked" /\ Committing(r)
  BY DEF Commit, Committing
<1>2. /\ call[r] # None /\ local[r].id = call[r].id /\ ForOrder(r, call[r].id)
      /\ pc[r] # "idle"
  BY <1>1, StoredOrder
<1>3. pc[r] = "saving"
  BY <1>1, <1>2, DoubtStays DEF SerialInv
<1>4. UNCHANGED <<pc, call, code>> /\ orders'[call[r].id] = local[r]
  <2>1. orders'[call[r].id] = local[r]
    BY <1>2, CommitRow
  <2>2. UNCHANGED <<pc, call, code>>
    BY OneCommits
  <2>. QED  BY <2>1, <2>2
<1>5. ASSUME NEW q \in Requests \ {r}, ForOrder(q, call[r].id)'
      PROVE  ~Writing(q)' /\ ~Holds(q)'
  <2>1. ForOrder(q, call[r].id) /\ call[q].op # "create" /\ call[q].id = call[r].id
        /\ tx'[q] = tx[q]
    BY <1>4, <1>5 DEF ForOrder, Commit, IInv, TypeOK, StoreTypeOK
  <2>2. pc[q] \notin InFlight
    BY <1>2, <1>3, <2>1 DEF SerialInv
  <2>3. tx[q] # "locked"
    <3>. SUFFICES ASSUME tx[q] = "locked" PROVE FALSE
      OBVIOUS
    <3>1. local[q].id = call[q].id
      BY <2>1, StoredOrder DEF Committing
    <3>. QED  BY <1>1, <1>2, <2>1, <3>1 DEF SerialInv, LockInv
  <2>4. ~Writing(q)'
    BY <1>4, <2>1, <2>2, <2>3 DEF Writing
  <2>5. ~Holds(q)
    <3>. SUFFICES ASSUME Holds(q) PROVE FALSE
      OBVIOUS
    <3>1. ForOrder(r, call[q].id) /\ call[q] # None
      BY <1>2, <2>1 DEF ForOrder
    <3>. QED  BY <1>1, <2>1, <3>1 DEF SerialInv, Writing
  <2>6. ~Holds(q)'
    BY <1>4, <2>1, <2>5 DEF Holds, Unclear
  <2>. QED  BY <2>4, <2>6
<1>. QED  BY <1>4, <1>5

(* One request at a time: every serial step keeps the serial invariant. *)
LEMMA SerialStep == IInv /\ SerialInv /\ (SerialNext \/ UNCHANGED vars) => SerialInv'
<1> SUFFICES ASSUME IInv, SerialInv, SerialNext \/ UNCHANGED vars PROVE SerialInv'
  OBVIOUS
<1>0. CASE UNCHANGED vars
  BY <1>0 DEF vars, SerialInv, LockInv, ForOrder, Committing, Writing, Holds, Unclear, Doubted, Targets,
              Pending, Get
<1>1. ASSUME SerialNext
      PROVE  LockInv' /\ [Next]_vars
  BY <1>1, LockStep DEF SerialNext, SerialInv
<1>2. ASSUME SerialNext, NEW r \in Requests, call'[r] # None, call'[r].op # "create"
      PROVE  /\ pc'[r] \in InFlight =>
                  \A q \in Requests \ {r} : ForOrder(q, call[r].id)' => pc'[q] \notin InFlight
             /\ tx'[r] = "locked" => pc'[r] = "saving" \/ Unclear(r)'
             /\ Committing(r)' => Pending(call[r].id)' \/ call'[r].id \in Doubted'
             /\ Holds(r)' =>
                  /\ orders'[call'[r].id] = local'[r]
                  /\ \A q \in Requests \ {r} :
                       ForOrder(q, call[r].id)' => ~Writing(q)' /\ ~Holds(q)'
  <2>1. [Next]_vars /\ IInv'
    BY <1>2, NextInv DEF SerialNext
  <2>2. pc'[r] \in InFlight => \A q \in Requests \ {r} : ForOrder(q, call[r].id)' => pc'[q] \notin InFlight
    BY <1>2, OneInFlight
  <2>3. ASSUME pc[r] # "idle"
        PROVE  call'[r] = call[r] /\ call[r] # None /\ call[r].op # "create"
    BY <1>2, <2>1, <2>3, Kept
  <2>4. ASSUME tx'[r] = "locked" PROVE pc'[r] = "saving" \/ Unclear(r)'
    <3>1. CASE tx[r] = "locked"
      <4>1. pc[r] = "saving" \/ Unclear(r)
        BY <2>3, <3>1 DEF SerialInv, IInv, ControlInv
      <4>. QED  BY <2>1, <3>1, <4>1, Moves, DoubtStays DEF Moved
    <3>. QED  BY <2>1, <2>4, <3>1, Moves DEF Moved
  <2>5. ASSUME Committing(r)' PROVE Pending(call[r].id)' \/ call'[r].id \in Doubted'
    <3>1. pc[r] # "idle"
      BY <2>1, <2>5, OneReceives DEF Receive, Committing, IInv, ControlInv, TypeOK
    <3>2. ~Commit(r)
      BY <2>1, <2>5, <3>1 DEF Commit, Committing, IInv, ControlInv, TypeOK, StoreTypeOK
    <3>3. CASE Committing(r)
      BY <2>1, <2>3, <3>1, <3>2, <3>3, PendingOrDoubted
    <3>4. CASE UNCHANGED orders /\ Pending(call[r].id)
      BY <2>3, <3>1, <3>4 DEF Pending, Get
    <3>. QED  BY <2>1, <2>3, <2>5, <3>1, <3>3, <3>4, Moves DEF Moved
  <2>6. ASSUME Holds(r)'
        PROVE  /\ orders'[call'[r].id] = local'[r]
               /\ \A q \in Requests \ {r} : ForOrder(q, call[r].id)' => ~Writing(q)' /\ ~Holds(q)'
    <3>1. ~Unclear(r) /\ ~Unclear(r)' /\ (tx[r] = "committed" \/ Commit(r))
      BY <2>1, <2>6, Moves, DoubtStays DEF Holds, Moved
    <3>2. /\ pc[r] # "idle" /\ call'[r] = call[r] /\ call[r].op # "create"
          /\ local'[r] = local[r]
      BY <2>1, <2>3, <3>1, Kept DEF Commit, IInv, ControlInv
    <3>3. CASE Holds(r)
      BY <2>1, <3>2, <3>3, StillHolds
    <3>4. CASE Commit(r)
      BY <2>1, <3>1, <3>2, <3>4, ComesToHold
    <3>. QED  BY <3>1, <3>3, <3>4 DEF Holds
  <2>. QED  BY <2>2, <2>4, <2>5, <2>6
<1>3. CASE SerialNext
  BY <1>1, <1>2, <1>3 DEF SerialInv
<1>. QED  BY <1>0, <1>3

(* A serial step is a step of the concurrent service. *)
LEMMA SerialIsNext == SerialNext => [Next]_vars
BY DEF SerialNext

(* When the requests for an order come one at a time, the row a handler is about to
   write is as it read it, unless one that ended in doubt has committed since
   (service.go:157-188, 198-214). *)
THEOREM SerialInvariance == SerialSpec => [](IInv /\ ChargeInv /\ WrittenInv /\ SerialInv)
<1>1. Init => IInv /\ ChargeInv /\ WrittenInv /\ SerialInv
  BY InitInv, ChargeInit, WrittenInit, SerialInit
<1>2. IInv /\ ChargeInv /\ WrittenInv /\ SerialInv /\ [SerialNext]_vars
        => (IInv /\ ChargeInv /\ WrittenInv /\ SerialInv)'
  <2>1. [SerialNext]_vars => [Next]_vars /\ (SerialNext \/ UNCHANGED vars)
    BY SerialIsNext
  <2>2. IInv /\ ChargeInv /\ WrittenInv /\ [Next]_vars => IInv' /\ ChargeInv' /\ WrittenInv'
    BY NextInv, ChargeNext, WrittenNext DEF ChargeInv
  <2>. QED  BY <2>1, <2>2, SerialStep
<1>. QED  BY <1>1, <1>2, PTL DEF SerialSpec

\* One request at a time, only pending orders are paid or cancelled, as long as no
\* client of the order was left in doubt.  A COMMIT that comes late, after its request
\* ended in a 500 or with the process, is one of the book's steps like any other.
THEOREM LifecycleRefinement == SerialSpec => ImplementsLifecycle
<1>1. Init => Book!BookInit /\ Doubted = {}
  BY InitRefines DEF Init, Doubted, Targets
<1>2. ASSUME IInv, SerialInv, [SerialNext]_vars
      PROVE  Book!LifecycleNext \/ UNCHANGED <<orders, ledger, Doubted>>
  <2>1. [Next]_vars
    BY <1>2, SerialIsNext
  <2>2. ASSUME UNCHANGED <<pc, call, code>>
        PROVE  Doubted' = Doubted
    BY <2>2 DEF Doubted, Targets, Unclear
  <2>3. ASSUME NEW r \in Requests, Commit(r), UNCHANGED <<ledger, pc, call, code>>
        PROVE  Book!LifecycleNext
    <3>1. CASE call[r].op = "create"
      BY <1>2, <2>2, <2>3, <3>1, CreateRefines DEF Book!LifecycleNext, Book!BookNext
    <3>2. CASE call[r].op # "create"
      <4>1. local[r].id \in OrderIds /\ orders[local[r].id].status \in Statuses
        BY <1>2, <2>3, <3>2, CommitRow DEF CopyOf, Order, IInv, TypeOK, StoreTypeOK
      <4>2. orders[local[r].id].status \in Book!Lifecycle[local[r].id]
        BY <1>2, <2>3, <3>2, <4>1, BookData, CommitsPending DEF Pending, Get, Book!Lifecycle
      <4>. QED
        BY <1>2, <2>2, <2>3, <3>2, <4>2, UpdateRefines DEF Book!LifecycleNext, Book!BookNext
    <3>. QED  BY <3>1, <3>2
  <2>4. ASSUME NEW r \in Requests, Serve(r, call[r].id, paymentMethodToProto(call[r].method)),
               UNCHANGED <<orders, pc, call, code>>
        PROVE  Book!LifecycleNext
    BY <1>2, <2>2, <2>4, ServeRefines DEF Book!LifecycleNext, Book!BookNext
  <2>5. CASE UNCHANGED <<orders, ledger>>
    <3>1. Doubted \subseteq Doubted' /\ Doubted' \subseteq OrderIds
      BY <1>2, <2>1, DoubtStays DEF Doubted
    <3>. QED  BY <2>5, <3>1 DEF Book!LifecycleNext, Book!bookVars
  <2>. QED  BY <2>1, <2>3, <2>4, <2>5, OnlyCommitWrites, OnlyServeCharges
<1>. QED  BY <1>1, <1>2, SerialInvariance, PTL
          DEF SerialSpec, ImplementsLifecycle, Book!LifecycleSpec

\* One request at a time, an order is paid by one request only.
THEOREM OnePayment == SerialSpec => []PaysOnce
<1>1. IInv /\ SerialInv => PaysOnce
  <2> SUFFICES ASSUME IInv, SerialInv, NEW q \in Requests, NEW r \in Requests,
                      Succeeded(q, "pay"), Succeeded(r, "pay"), call[q].id = call[r].id
               PROVE  q = r
    BY DEF PaysOnce
  <2>1. /\ Holds(q) /\ Holds(r) /\ tx[q] = "committed" /\ tx[r] = "committed"
        /\ call[q].op = "pay" /\ call[r].op = "pay"
    BY DEF Succeeded, Holds, Unclear, IInv, AnswerInv
  <2>2. call[q] # None /\ call[r] # None
    BY <2>1, StoredOrder
  <2>. QED  BY <2>1, <2>2 DEF SerialInv, ForOrder
<1>. QED  BY <1>1, SerialInvariance, PTL

\* One request at a time, what a payment or a cancellation answered stays in
\* the row.
THEOREM AnswersHold == SerialSpec => []AnswersStand
<1>1. IInv /\ WrittenInv /\ SerialInv => AnswersStand
  <2> SUFFICES ASSUME IInv, WrittenInv, SerialInv, NEW r \in Requests,
                      Succeeded(r, "pay") \/ Succeeded(r, "cancel")
               PROVE  /\ call[r].op = "pay" => /\ orders[call[r].id].status = "PAID"
                                               /\ orders[call[r].id].txn = reply[r]
                      /\ call[r].op = "cancel" => orders[call[r].id].status = "CANCELLED"
    BY DEF AnswersStand, Succeeded
  <2>1. Holds(r) /\ tx[r] = "committed" /\ call[r].op \in {"pay", "cancel"}
    BY DEF Succeeded, Holds, Unclear, IInv, AnswerInv
  <2>2. orders[call[r].id] = local[r]
    BY <2>1, StoredOrder DEF SerialInv
  <2>. QED  BY <2>1, <2>2 DEF WrittenInv
<1>. QED  BY <1>1, SerialInvariance, PTL

\* One request at a time, a charge is in its order's row, or its client knows
\* of no success.
THEOREM ChargesShown == SerialSpec => []UnrecordedChargeFailed
<1>1. IInv /\ ChargeInv /\ WrittenInv /\ SerialInv => UnrecordedChargeFailed
  <2> SUFFICES ASSUME IInv, ChargeInv, WrittenInv, SerialInv, NEW c \in ledger,
                      orders[c.order].txn # c.txn
               PROVE  \E r \in Requests :
                        /\ rpc[r] = "served" /\ reply[r] = c.txn
                        /\ pc[r] \in {"paying", "saving", "gone"} \/ code[r] = 500
    BY DEF UnrecordedChargeFailed
  <2>1. PICK r \in Requests : rpc[r] = "served" /\ reply[r] = c.txn /\ call[r].id = c.order
    BY DEF ChargeInv, LedgerInv
  <2>2. call[r].op = "pay"
    BY <2>1 DEF IInv, ControlInv
  <2>3. ASSUME tx[r] = "committed", ~Unclear(r) PROVE FALSE
    <3>1. orders[call[r].id] = local[r]
      BY <2>2, <2>3, StoredOrder DEF SerialInv, Holds
    <3>. QED  BY <2>1, <2>2, <2>3, <3>1 DEF WrittenInv
  <2>. QED  BY <2>1, <2>3 DEF ChargeInv, RecordInv, Unclear
<1>. QED  BY <1>1, SerialInvariance, PTL

\* One request at a time, a second charge for an order follows one that ended in doubt.
THEOREM NoSecondCharge == SerialSpec => []ChargedTwiceOnlyInDoubt
<1>1. IInv /\ ChargeInv /\ SerialInv => ChargedTwiceOnlyInDoubt
  <2> SUFFICES ASSUME IInv, ChargeInv, SerialInv, NEW q \in Requests, NEW r \in Requests,
                      q # r, call[q] # None, call[r] # None,
                      rpc[q] = "served", rpc[r] = "served", call[q].id = call[r].id,
                      ~Unclear(q), ~Unclear(r)
               PROVE  FALSE
    BY DEF ChargedTwiceOnlyInDoubt
  <2>1. call[q].op = "pay" /\ call[r].op = "pay"
    BY DEF IInv, ControlInv
  <2>2. ForOrder(q, call[r].id) /\ ForOrder(r, call[q].id)
    BY <2>1 DEF ForOrder
  <2>3. \A a \in {q, r} : (pc[a] \in InFlight /\ Writing(a)) \/ Holds(a)
    BY DEF ChargeInv, RecordInv, Writing, Holds, Unclear
  <2>4. CASE Holds(q) \/ Holds(r)
    BY <2>1, <2>2, <2>3, <2>4 DEF SerialInv
  <2>. QED  BY <2>1, <2>2, <2>3, <2>4 DEF SerialInv
<1>. QED  BY <1>1, SerialInvariance, PTL

-----------------------------------------------------------------------------
(* A step over the in-memory repository is a step over PostgreSQL. *)
LEMMA MemoryStep == [MemoryNext]_vars => [Next]_vars
<1>1. ASSUME NEW r \in Requests, MemoryGet(r) \/ MemoryHandler(r)
      PROVE  HandlerStep(r)
  BY <1>1 DEF MemoryGet, MemoryHandler, HandlerStep
<1>2. ASSUME NEW r \in Requests, Lock(r) \/ Write(r)
      PROVE  StoreStep(r)
  BY <1>2 DEF Lock, Write, StoreStep
<1>3. ASSUME NEW r \in Requests, GrpcFailed(r)
      PROVE  GiveUp(r)
  BY <1>3 DEF GrpcFailed
<1>. QED  BY <1>1, <1>2, <1>3 DEF MemoryNext, Next

\* The safety half of MemoryImplementsService: every behaviour on the map is one of
\* OrderService on its table (order/pkg/repository/memory.go:24-44).
THEOREM MemoryRefinement == MemorySpec => Spec
<1>1. MemoryInit => Init
  BY DEF MemoryInit
<1>. QED  BY <1>1, MemoryStep, PTL DEF MemorySpec, Spec

\* What the tests read as PAID was charged for, in memory as in PostgreSQL.
THEOREM MemoryPaymentsBacked == MemorySpec => []PaidIsBacked
BY MemoryRefinement, PaymentsBacked, PTL
-----------------------------------------------------------------------------
(***************************************************************************)
(* OrderService keeps to what OrderApi supposes of its methods.            *)
(***************************************************************************)

\* A request that is answered was answered before and holds what it held, or has
\* just been told what it read, that its transaction is committed, a failure, or a
\* refusal that comes before the first change.
LEMMA AnsweredHow ==
  ASSUME IInv, [Next]_vars, NEW q \in Requests, pc'[q] = "done"
  PROVE  \/ /\ pc[q] = "done" /\ code'[q] = code[q] /\ call'[q] = call[q]
            /\ tx[q] = "none" /\ tx'[q] = "none" => local'[q] = local[q]
            /\ tx[q] = "none" /\ rpc[q] = "none" => tx'[q] = "none" /\ rpc'[q] = "none"
         \/ GetOrder(q)
         \/ Saved(q)
         \/ call'[q] = call[q] /\ code'[q] = 500
         \/ /\ call'[q] = call[q] /\ code'[q] \in {404, 409} /\ tx'[q] = "none" /\ rpc'[q] = "none"
            /\ code'[q] = 409 => call[q].op # "get"
<1> USE DEF IInv, TypeOK, StoreTypeOK, PaymentTypeOK, ControlInv
<1>1. ASSUME NEW r \in Requests, NEW c \in Calls, Receive(r, c)
      PROVE  pc[q] = "done" /\ UNCHANGED <<local, tx, rpc, code>> /\ call'[q] = call[q]
  BY <1>1 DEF Receive
<1>2. ASSUME NEW r \in Requests, CallFailed(r) \/ GiveUp(r)
      PROVE  /\ UNCHANGED <<local, tx, rpc, call>>
             /\ (pc[q] = "done" /\ code'[q] = code[q]) \/ code'[q] = 500
  BY <1>2 DEF CallFailed, GiveUp, Answer
<1>3. ASSUME NEW r \in Requests, OrderNotFound(r) \/ AlreadyFinal(r) \/ RejectCreate(r)
      PROVE  /\ UNCHANGED <<local, tx, rpc, call>>
             /\ \/ pc[q] = "done" /\ code'[q] = code[q]
                \/ /\ code'[q] \in {404, 409} /\ tx'[q] = "none" /\ rpc'[q] = "none"
                   /\ code'[q] = 409 => call[q].op # "get"
  BY <1>3 DEF OrderNotFound, AlreadyFinal, RejectCreate, Reads, Answer
<1>4. ASSUME NEW r \in Requests, GetOrder(r) \/ Saved(r), r # q
      PROVE  /\ UNCHANGED <<tx, rpc, call>> /\ local'[q] = local[q]
             /\ pc[q] = "done" /\ code'[q] = code[q]
  BY <1>4 DEF GetOrder, Saved, Answer
<1>5. ASSUME NEW r \in Requests, PayOrder(r) \/ SavePaid(r) \/ CancelOrder(r) \/ CreateOrder(r)
      PROVE  /\ pc[q] = "done" /\ UNCHANGED <<call, code>>
             /\ local'[q] = local[q] /\ tx'[q] = tx[q] /\ rpc'[q] = rpc[q]
  BY <1>5 DEF PayOrder, SavePaid, CancelOrder, CreateOrder, Reads, Send, Save, GoTo
<1>6. ASSUME NEW r \in Requests, StoreStep(r) \/ PaymentStep(r)
      PROVE  /\ pc[q] = "done" /\ UNCHANGED <<local, call, code>>
             /\ tx[q] = "none" => tx'[q] = "none"
             /\ rpc[q] = "none" => rpc'[q] = "none"
  BY <1>6 DEF StoreStep, Upsert, Commit, Rollback, PaymentStep, Serve, Lose
<1>7. CASE Crash
  BY <1>7 DEF Crash
<1>8. CASE UNCHANGED vars
  BY <1>8 DEF vars
<1> HIDE DEF IInv, TypeOK, StoreTypeOK, PaymentTypeOK, ControlInv
<1>. QED  BY <1>1, <1>2, <1>3, <1>4, <1>5, <1>6, <1>7, <1>8 DEF Next, HandlerStep, Quiesced

(* Nobody holds an order at the start. *)
LEMMA ReturnInit == Init => ReturnInv
BY DEF Init, ReturnInv

\* What a request hands to PostgreSQL is what it was asked for, and stays that.
LEMMA HandsOver ==
  ASSUME IInv, IInv', ReturnInv, [Next]_vars, NEW r \in Requests, tx'[r] # "none"
  PROVE  /\ RowOK(local'[r], ledger')
         /\ call'[r].op = "create" =>
              local'[r].status = "PENDING_PAYMENT" /\ local'[r].parts = call'[r].ship
         /\ call'[r].op # "create" => local'[r].id = call'[r].id
         /\ call'[r].op = "pay" => local'[r].status = "PAID" /\ local'[r].method = call'[r].method
         /\ call'[r].op = "cancel" => local'[r].status = "CANCELLED"
<1>1. CASE tx[r] # "none"
  <2>1. pc[r] # "idle"
    BY <1>1 DEF IInv, ControlInv
  <2>2. local'[r] = local[r] /\ call'[r] = call[r]
    BY <1>1, <2>1, Kept
  <2>3. ledger \subseteq ledger'
    BY OnlyServeCharges DEF Serve
  <2>4. RowOK(local'[r], ledger')
    BY <1>1, <2>2, <2>3, RowOKMonotone DEF ReturnInv
  <2>. QED  BY <1>1, <2>2, <2>4 DEF ReturnInv
<1>2. ASSUME SavePaid(r) \/ CancelOrder(r) \/ CreateOrder(r)
      PROVE  /\ tx'[r] = "open" /\ UNCHANGED call
             /\ RowOK(local'[r], ledger')
             /\ call'[r].op = "create" =>
                  local'[r].status = "PENDING_PAYMENT" /\ local'[r].parts = call'[r].ship
             /\ call'[r].op # "create" => local'[r].id = call'[r].id
  <2>1. tx'[r] = "open" /\ UNCHANGED call
    BY <1>2 DEF SavePaid, CancelOrder, CreateOrder, Save, GoTo, IInv, TypeOK, StoreTypeOK
  <2>. QED  BY <2>1 DEF IInv, WriteInv
<1>3. CASE SavePaid(r)
  <2>1. call[r].op = "pay" /\ local[r] \in Order
    BY <1>3 DEF SavePaid, IInv, ControlInv, PayingInv, RowOK
  <2>2. local'[r] = PaidOrder(r)
    BY <1>3 DEF SavePaid, Save, IInv, TypeOK, StoreTypeOK
  <2>. QED  BY <1>2, <1>3, <2>1, <2>2 DEF PaidOrder, Order
<1>4. CASE CancelOrder(r)
  <2>1. call[r].op = "cancel" /\ call[r] \in Calls
    BY <1>4 DEF CancelOrder, Reads, IInv, ControlInv
  <2>2. orders[call[r].id] \in Order
    BY <1>4, <2>1, CallFields DEF CancelOrder, Get, IInv, TypeOK, StoreTypeOK
  <2>3. local'[r] = [orders[call[r].id] EXCEPT !.status = "CANCELLED"]
    BY <1>4 DEF CancelOrder, Save, Get, IInv, TypeOK, StoreTypeOK
  <2>. QED  BY <1>2, <1>4, <2>1, <2>2, <2>3 DEF Order
<1>5. CASE CreateOrder(r)
  <2>1. call[r].op = "create"
    BY <1>5 DEF CreateOrder, IInv, ControlInv
  <2>. QED  BY <1>2, <1>5, <2>1
<1>. QED  BY <1>1, <1>3, <1>4, <1>5, Moves DEF Moved

(* Every step keeps what an answer says of the order its request holds. *)
LEMMA ReturnNext ==
  ASSUME IInv, IInv', ReturnInv, [Next]_vars
  PROVE  ReturnInv'
<1>1. ASSUME NEW r \in Requests
      PROVE  /\ pc'[r] = "done" => code'[r] # NoCode
             /\ code'[r] = 409 => call'[r].op # "get"
             /\ code'[r] \in {404, 409} => tx'[r] = "none" /\ rpc'[r] = "none"
             /\ code'[r] \in {200, 201} =>
                  /\ code'[r] = 201 <=> call'[r].op = "create"
                  /\ call'[r].op = "get" => RowOK(local'[r], ledger')
  <2>1. code'[r] # NoCode => pc'[r] = "done"
    BY DEF IInv, AnswerInv
  <2>2. CASE /\ pc[r] = "done" /\ code'[r] = code[r] /\ call'[r] = call[r]
             /\ tx[r] = "none" /\ tx'[r] = "none" => local'[r] = local[r]
             /\ tx[r] = "none" /\ rpc[r] = "none" => tx'[r] = "none" /\ rpc'[r] = "none"
    <3>1. call[r].op = "get" => tx[r] = "none" /\ tx'[r] = "none"
      BY <2>2 DEF IInv, ControlInv
    <3>2. ledger \subseteq ledger'
      BY OnlyServeCharges DEF Serve
    <3>3. code[r] \in {200, 201} /\ call[r].op = "get" => RowOK(local'[r], ledger')
      BY <2>2, <3>1, <3>2, RowOKMonotone DEF ReturnInv
    <3>. QED  BY <2>2, <3>3 DEF ReturnInv
  <2>3. CASE GetOrder(r)
    <3>1. call'[r] = call[r] /\ call[r].op = "get" /\ code'[r] = 200 /\ ledger' = ledger
      BY <2>3 DEF GetOrder, Reads, Answer, IInv, TypeOK
    <3>2. call[r].id \in OrderIds /\ local'[r] = orders[call[r].id] /\ local'[r] # NoOrder
      BY <2>3, <3>1, CallFields
      DEF GetOrder, Reads, Get, IInv, TypeOK, StoreTypeOK, ControlInv
    <3>3. RowOK(local'[r], ledger')
      BY <3>1, <3>2 DEF IInv, TableInv
    <3>. QED  BY <3>1, <3>3
  <2>4. CASE Saved(r)
    BY <2>4 DEF Saved, Answer, IInv, TypeOK, ControlInv
  <2>5. CASE call'[r] = call[r] /\ code'[r] = 500
    BY <2>5
  <2>6. CASE /\ call'[r] = call[r] /\ code'[r] \in {404, 409} /\ tx'[r] = "none" /\ rpc'[r] = "none"
             /\ code'[r] = 409 => call[r].op # "get"
    BY <2>6
  <2>. QED  BY <2>1, <2>2, <2>3, <2>4, <2>5, <2>6, AnsweredHow
<1>. QED  BY <1>1, HandsOver DEF ReturnInv

\* The values OrderApi is given here are as it assumes: ships are made of the UUIDs
\* of parts, and totals are integers.
LEMMA SuppliesAsAssumed ==
  /\ {ApiShip(ship) : ship \in Ships} \subseteq Method!ShipOf(PartIds)
  /\ {TotalPrice(ListParts(Uuids(ship)).parts) : ship \in {s \in Ships : Orderable(s)}}
       \subseteq Int
<1>1. ASSUME NEW ship \in Ships
      PROVE  ApiShip(ship) \in Method!ShipOf(PartIds)
  BY DataAssumption DEF ApiShip, Method!ShipOf
<1>2. ASSUME NEW ship \in Ships, Orderable(ship)
      PROVE  TotalPrice(ListParts(Uuids(ship)).parts) \in Int
  <2>1. \A p \in {ship.hull, ship.engine, ship.shield, ship.weapon} : PriceOf(p) \in Int
    BY <1>2, ShipPrice, CatalogAssumption DEF PriceOf, Part
  <2>2. \A n \in Int : Int64(n) \in Int
    BY PricingAssumption DEF Int64
  <2>3. PriceOf(ship.hull) + PriceOf(ship.engine) + PriceOf(ship.shield) + PriceOf(ship.weapon)
          \in Int
    BY <2>1
  <2>. QED  BY <1>2, <2>2, <2>3, ShipPrice
<1>. QED  BY <1>1, <1>2

\* A good row, in the terms of the API.
LEMMA HeldRow ==
  ASSUME IInv, NEW r \in Requests, RowOK(local[r], ledger)
  PROVE  LET row == local[r]
         IN  /\ MethodOrder(r) \in Method!Row(row.id, ApiShip(row.parts), row.status, row.txn, row.method)
             /\ row.id \in OrderIds /\ row.status \in Statuses
             /\ ApiShip(row.parts) \in {ApiShip(ship) : ship \in Ships}
             /\ IF row.status = "PAID" THEN row.txn \in Txns /\ row.method \in Method!PaymentMethods
                ELSE row.txn = None /\ row.method = None
<1>. DEFINE row == local[r]
<1>1. /\ row.id \in OrderIds /\ row.parts \in Ships /\ row.status \in Statuses
      /\ row.price \in {TotalPrice(ListParts(Uuids(ship)).parts) : ship \in {s \in Ships : Orderable(s)}}
  BY DEF RowOK, Order
<1>2. MethodOrder(r) \in Method!Row(row.id, ApiShip(row.parts), row.status, row.txn, row.method)
  BY <1>1 DEF MethodOrder, ApiShip, Method!Row
<1>3. CASE row.status = "PAID"
  <2>1. [txn |-> row.txn, order |-> row.id, method |-> paymentMethodToProto(row.method)] \in Charge
    BY <1>3 DEF RowOK, IInv, TypeOK, PaymentTypeOK
  <2>2. row.txn \in Txns
    BY <2>1 DEF Charge
  <2>3. row.method \in Method!PaymentMethods
    BY <1>3, DataAssumption DEF RowOK, Method!PaymentMethods
  <2>. QED  BY <1>1, <1>2, <1>3, <2>2, <2>3
<1>4. CASE row.status # "PAID"
  BY <1>1, <1>2, <1>4 DEF RowOK
<1>. QED  BY <1>3, <1>4

\* What a method may return, by its operation: a row of the shape named.
LEMMA MayReturn ==
  ASSUME NEW called, NEW o, NEW i \in OrderIds, NEW ship \in {ApiShip(s) : s \in Ships},
         NEW status, NEW t, NEW method, o \in Method!Row(i, ship, status, t, method),
         called.op # "createOrder" => called.id = i,
         IF status = "PAID" THEN t \in Txns /\ method \in Method!PaymentMethods
         ELSE t = None /\ method = None
  PROVE  /\ called.op = "createOrder" /\ called.input = ship /\ status = "PENDING_PAYMENT" =>
              o \in Method!Returned(called)
         /\ called.op = "payOrder" /\ called.input = method /\ status = "PAID" =>
              o \in Method!Returned(called)
         /\ called.op = "cancelOrder" /\ status = "CANCELLED" => o \in Method!Returned(called)
         /\ called.op = "getOrder" /\ status \in Statuses => o \in Method!Returned(called)
<1>. DEFINE S == {ApiShip(s) : s \in Ships}
            Paid(m) == UNION {Method!Row(called.id, s, "PAID", x, m) : s \in S, x \in Txns}
            Unpaid(st) == UNION {Method!Row(called.id, s, st, None, None) : s \in S}
            Created == UNION {Method!Row(n, called.input, "PENDING_PAYMENT", None, None) : n \in OrderIds}
<1>1. Method!Returned(called) =
        CASE called.op = "createOrder" -> Created
          [] called.op = "getOrder" ->
               Unpaid("PENDING_PAYMENT") \cup Unpaid("CANCELLED")
                 \cup UNION {Paid(m) : m \in Method!PaymentMethods}
          [] called.op = "payOrder" -> Paid(called.input)
          [] called.op = "cancelOrder" -> Unpaid("CANCELLED")
  BY DEF Method!Returned
<1>2. called.op # "createOrder" /\ status # "PAID" => o \in Unpaid(status)
  OBVIOUS
<1>3. called.op # "createOrder" /\ status = "PAID" => o \in Paid(method)
  OBVIOUS
<1>4. called.op = "createOrder" /\ called.input = ship /\ status = "PENDING_PAYMENT" => o \in Created
  OBVIOUS
<1>5. called.op # "createOrder" /\ status = "PAID" => o \in UNION {Paid(m) : m \in Method!PaymentMethods}
  <2>. HIDE DEF Paid
  <2>. QED  BY <1>3
<1>. HIDE DEF Paid, Unpaid, Created
<1>. QED  BY <1>1, <1>2, <1>3, <1>4, <1>5 DEF Statuses

\* An order that was handed over or read is one its method may return.
LEMMA HeldIsReturned ==
  ASSUME IInv, ReturnInv, NEW r \in Requests, code[r] \in {200, 201}
  PROVE  MethodOrder(r) \in Method!Returned(MethodCall(r))
<1>. DEFINE row == local[r]
            ship == ApiShip(row.parts)
            called == MethodCall(r)
<1>1. call[r] \in Calls /\ call[r].op \in {"create", "pay", "get", "cancel"} /\ pc[r] = "done"
  BY CallFields DEF IInv, ControlInv, AnswerInv
<1>2. call[r].op # "get" => tx[r] # "none"
  BY DEF IInv, AnswerInv
<1>3. RowOK(row, ledger)
  BY <1>2 DEF ReturnInv
<1>4. /\ MethodOrder(r) \in Method!Row(row.id, ship, row.status, row.txn, row.method)
      /\ row.id \in OrderIds /\ row.status \in Statuses /\ ship \in {ApiShip(s) : s \in Ships}
      /\ IF row.status = "PAID" THEN row.txn \in Txns /\ row.method \in Method!PaymentMethods
         ELSE row.txn = None /\ row.method = None
  BY <1>3, HeldRow
<1>5. call[r].op = "get" => row.id = call[r].id
  BY DEF IInv, AnswerInv
<1>6. CASE call[r].op = "create"
  <2>1. called.op = "createOrder" /\ called.input = ship /\ row.status = "PENDING_PAYMENT"
    BY <1>2, <1>6 DEF MethodCall, OpOf, ReturnInv
  <2>. HIDE DEF row, ship, called
  <2>2. MethodOrder(r) \in Method!Returned(called)
    BY <1>4, <2>1, MayReturn
  <2>. QED  BY <2>2 DEF called
<1>7. CASE call[r].op = "pay"
  <2>1. /\ called.op = "payOrder" /\ called.id = row.id /\ called.input = row.method
        /\ row.status = "PAID"
    BY <1>2, <1>7 DEF MethodCall, OpOf, ReturnInv
  <2>. HIDE DEF row, ship, called
  <2>2. MethodOrder(r) \in Method!Returned(called)
    BY <1>4, <2>1, MayReturn
  <2>. QED  BY <2>2 DEF called
<1>8. CASE call[r].op = "cancel"
  <2>1. called.op = "cancelOrder" /\ called.id = row.id /\ row.status = "CANCELLED"
    BY <1>2, <1>8 DEF MethodCall, OpOf, ReturnInv
  <2>. HIDE DEF row, ship, called
  <2>2. MethodOrder(r) \in Method!Returned(called)
    BY <1>4, <2>1, MayReturn
  <2>. QED  BY <2>2 DEF called
<1>9. CASE call[r].op = "get"
  <2>1. called.op = "getOrder" /\ called.id = row.id
    BY <1>5, <1>9 DEF MethodCall, OpOf
  <2>. HIDE DEF row, ship, called
  <2>2. MethodOrder(r) \in Method!Returned(called)
    BY <1>4, <2>1, MayReturn
  <2>. QED  BY <2>2 DEF called
<1>. QED  BY <1>1, <1>6, <1>7, <1>8, <1>9

(* A state that satisfies the invariants answers as OrderApi supposes. *)
LEMMA SupposedNow == IInv /\ ReturnInv => ReturnsAsSupposed
<1>. SUFFICES ASSUME IInv, ReturnInv, NEW r \in Requests, pc[r] = "done"
              PROVE  \E outcome \in Method!Outcomes(MethodCall(r).op) :
                       /\ code[r] = StatusOf(MethodCall(r).op, outcome)
                       /\ outcome = "ok" => MethodOrder(r) \in Method!Returned(MethodCall(r))
                       /\ outcome \notin {"ok", "failed"} => tx[r] = "none" /\ rpc[r] = "none"
  BY DEF ReturnsAsSupposed
<1>0. code[r] \in {404, 409} => tx[r] = "none" /\ rpc[r] = "none"
  BY DEF ReturnInv
<1>. DEFINE op == MethodCall(r).op
<1>1. /\ op = OpOf[call[r].op] /\ call[r].op \in {"create", "pay", "get", "cancel"}
      /\ code[r] \in {200, 201, 404, 409, 500}
  BY CallFields DEF MethodCall, IInv, TypeOK, ControlInv, ReturnInv
<1>2. op \in {"createOrder", "payOrder", "getOrder", "cancelOrder"}
      /\ (op = "createOrder" <=> call[r].op = "create") /\ (op = "getOrder" <=> call[r].op = "get")
  BY <1>1 DEF OpOf
<1>. HIDE DEF op
<1>3. CASE code[r] \in {200, 201}
  <2>1. code[r] = StatusOf(op, "ok") /\ "ok" \in Method!Outcomes(op)
    BY <1>2, <1>3 DEF StatusOf, Method!Outcomes, ReturnInv
  <2>. QED  BY <1>3, <2>1, HeldIsReturned DEF op
<1>4. CASE code[r] = 404
  <2>1. \E outcome \in Method!Outcomes(op) : outcome # "ok" /\ StatusOf(op, outcome) = 404
    BY <1>2 DEF StatusOf, Method!Outcomes
  <2>. QED  BY <1>0, <1>4, <2>1 DEF op
<1>5. CASE code[r] = 409
  <2>1. op # "getOrder"
    BY <1>2, <1>5 DEF ReturnInv
  <2>2. \E outcome \in Method!Outcomes(op) : outcome # "ok" /\ StatusOf(op, outcome) = 409
    BY <1>2, <2>1 DEF StatusOf, Method!Outcomes
  <2>. QED  BY <1>0, <1>5, <2>2 DEF op
<1>6. CASE code[r] = 500
  <2>1. "failed" \in Method!Outcomes(op) /\ StatusOf(op, "failed") = 500
    BY DEF StatusOf, Method!Outcomes
  <2>. QED  BY <1>6, <2>1 DEF op
<1>. QED  BY <1>1, <1>3, <1>4, <1>5, <1>6

\* Whatever the interleaving, the failures and the crashes, OrderService returns
\* to its handlers what OrderApi, and the client at its other end, suppose.
THEOREM MethodsAsSupposed == Spec => []ReturnsAsSupposed
<1>1. Init => ReturnInv
  BY ReturnInit
<1>2. IInv /\ IInv' /\ ReturnInv /\ [Next]_vars => ReturnInv'
  BY ReturnNext
<1>. QED  BY <1>1, <1>2, Invariance, SupposedNow, PTL DEF Spec
=============================================================================
