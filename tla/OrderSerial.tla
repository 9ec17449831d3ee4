---------------------------- MODULE OrderSerial ----------------------------
(***************************************************************************)
(* OrderService driven one request at a time per order: a request for an   *)
(* order is sent only when every earlier request for it was answered or    *)
(* died with the process, which is all its clients can know.  Requests     *)
(* still fail, the process still crashes, and a request may be repeated    *)
(* while the COMMIT of one that was answered 500 is still on its way.      *)
(* Nothing in the service enforces this; it is what the tests and a        *)
(* careful client do, and under it the service keeps the promise of        *)
(* LifecycleSpec.                                                          *)
(***************************************************************************)
EXTENDS OrderProperties

\* What a step that receives a request for an order finds of the others.
OneAtATime ==
  \A r \in Requests : pc[r] = "idle" /\ pc'[r] = "reading" =>
    \A q \in Requests \ {r} :
      call[q] # None /\ call[q].op # "create" /\ call[q].id = call'[r].id
        => pc[q] \in Ended

SerialNext == Next /\ OneAtATime

SerialSpec == Init /\ [][SerialNext]_vars

\* Only a pending order is ever paid or cancelled: nothing is paid twice,
\* cancelled after it was paid or paid after it was cancelled (service.go:23,
\* 166, 207), until a pay or cancel of the order ends without an outcome, in a 500
\* or with the process: the request that repeats it may read the row before that
\* one's late COMMIT and replace it afterwards (service.go:187, 213).
ImplementsLifecycle == Book!LifecycleSpec

\* A pay request that was answered 200 left its order PAID with the very
\* transaction it returned (order/tests/api_test.go:804), and an order whose
\* cancellation was answered 200 is CANCELLED (api_test.go:859).
AnswersStand ==
  \A r \in Requests :
    /\ Succeeded(r, "pay") =>
         /\ orders[call[r].id].status = "PAID"
         /\ orders[call[r].id].txn = reply[r]
    /\ Succeeded(r, "cancel") => orders[call[r].id].status = "CANCELLED"

\* A charge that its order's row does not show is one whose request is still
\* under way or whose client got no success (service.go:170-191).
UnrecordedChargeFailed ==
  \A c \in ledger :
    \/ orders[c.order].txn = c.txn
    \/ \E r \in Requests :
         /\ rpc[r] = "served" /\ reply[r] = c.txn
         /\ pc[r] \in {"paying", "saving", "gone"} \/ code[r] = 500

\* An order is charged twice only if one of the requests that charged it ended without
\* an outcome: a customer whose payment was answered is not charged again by what
\* comes later, and one who repeats a pay after a 404 or 409 pays once (service.go:
\* 166-180).  After a 500 it is no longer so: the charge may have been made.
ChargedTwiceOnlyInDoubt ==
  \A q, r \in Requests :
    /\ q # r /\ call[q] # None /\ call[r] # None
    /\ rpc[q] = "served" /\ rpc[r] = "served" /\ call[q].id = call[r].id
    => Unclear(q) \/ Unclear(r)
=============================================================================
