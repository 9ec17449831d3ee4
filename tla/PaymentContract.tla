-------------------------- MODULE PaymentContract --------------------------
(***************************************************************************)
(* What callers of PaymentService may conclude from what they are told,    *)
(* and that its process does what module Payment lets OrderService see.    *)
(***************************************************************************)
EXTENDS PaymentServer

ChargesOf(c) == {charge \in ledger : charge.call = c}

\* A caller whose connection did not fail it knows exactly what it was charged:
\* OK and the transaction of the one charge made for its own order and method, or
\* an error and no charge, now or later - process stops and restarts included.
\* Only a broken connection leaves a charge its caller does not know; and no charge
\* is for anything but the UUID of an order
\* (payment/pkg/service/service.go:33-55, payment/cmd/main.go:50-54).
ChargeIsKnown ==
  /\ TypeOK
  /\ \A c \in Calls : told[c] # None /\ link[c] =>
       IF told[c].code = "OK"
         THEN ChargesOf(c) = {[call |-> c, txn |-> told[c].txn, order |-> req[c].order,
                               method |-> req[c].method]}
         ELSE ChargesOf(c) = {} /\ stream[c] # "accepted"

\* However a call ends, its connection and the process with it, it is charged at
\* most once, and no transaction stands for two charges
\* (payment/pkg/service/service.go:33-55).
ChargedOnce ==
  \A x, y \in ledger : x.call = y.call \/ x.txn = y.txn => x = y

\* An orderly stop drops no call it has taken: a call dies in its handler only if
\* its caller has lost the connection (payment/cmd/main.go:53).
StopDropsNothing == \A c \in Calls : stream[c] = "dead" => ~link[c]

\* Every caller is told something, whatever becomes of the process.
CallEnds == \A c \in Calls : Waiting(c) ~> told[c] # None

\* GracefulStop, which has no time limit, comes to an end
\* (payment/cmd/main.go:53).
StopEnds == phase = "draining" ~> phase \in {"stopped", "killed"}

-----------------------------------------------------------------------------
\* The state of the call in module Payment: `served' when it is charged, whether
\* the caller is told or not; `lost' when it no longer can be.
RpcOf(c) ==
  IF ChargesOf(c) # {} THEN "served"
  ELSE IF req[c] = None THEN "none"
  ELSE IF stream[c] = "accepted" \/ InFlight(c) \/ (stream[c] = "none" /\ Waiting(c)) THEN "sent"
  ELSE "lost"

rpcBar == [c \in Calls |-> RpcOf(c)]
ReplyOf(charges) ==
  IF charges = {} THEN None ELSE (CHOOSE charge \in charges : TRUE).txn

replyBar == [c \in Calls |-> ReplyOf(ChargesOf(c))]
ledgerBar == {[txn |-> charge.txn, order |-> charge.order, method |-> charge.method] :
                charge \in ledger}

Seen == INSTANCE Payment
          WITH rpc <- rpcBar, reply <- replyBar, ledger <- ledgerBar, Requests <- Calls,
               PartIds <- {}, Catalog <- <<>>, Int64Bound <- 1, Methods <- {}, Ships <- {},
               NoOrder <- None

\* Each step of the process is one OrderService is modelled with: a call is sent,
\* charged for the order and method it carries, a method that was chosen, or lost
\* for good.
ImplementsPayment ==
  [][\E c \in Calls : \/ Seen!Send(c)
                      \/ Seen!Serve(c, req[c].order, req[c].method)
                      \/ Seen!Lose(c)]_<<rpcBar, replyBar, ledgerBar>>
=============================================================================
