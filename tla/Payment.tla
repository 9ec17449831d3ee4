------------------------------ MODULE Payment ------------------------------
(***************************************************************************)
(* PaymentService and the gRPC calls OrderService makes to it.  The        *)
(* service keeps no state: every PayOrder call that reaches it is charged  *)
(* under a fresh transaction UUID, and nothing recognises a second call    *)
(* for the same order.  `ledger' is the history of what it charged (the    *)
(* "payment succeeded" lines of its log).                                  *)
(***************************************************************************)
EXTENDS OrderData

VARIABLES rpc,          \* state of the request's PayOrder call
          reply,        \* transaction UUID in the answer to the call
          ledger        \* every charge made so far

paymentVars == <<rpc, reply, ledger>>

RpcStates == {"none", "sent", "served", "lost"}

PaymentTypeOK ==
  /\ rpc \in [Requests -> RpcStates]
  /\ reply \in [Requests -> Txns \cup {None}]
  /\ ledger \subseteq Charge

\* paymentClient.PayOrder puts the request on the wire.
Send(r) == rpc' = [rpc EXCEPT ![r] = "sent"] /\ UNCHANGED <<reply, ledger>>

\* Service.PayOrder: the context is ignored, so a call whose client is gone
\* is charged like any other.  The order UUID is one OrderService formatted.
Serve(r, order, method) ==
  /\ rpc[r] = "sent"
  /\ method # "PAYMENT_METHOD_UNSPECIFIED"
  /\ \E t \in Txns :
       /\ \A c \in ledger : c.txn # t
       /\ ledger' = ledger \cup {[txn |-> t, order |-> order, method |-> method]}
       /\ reply' = [reply EXCEPT ![r] = t]
  /\ rpc' = [rpc EXCEPT ![r] = "served"]

\* The call is refused, or it or the service that had it is lost, before
\* anything is charged.
Lose(r) ==
  /\ rpc[r] = "sent"
  /\ rpc' = [rpc EXCEPT ![r] = "lost"]
  /\ UNCHANGED <<reply, ledger>>

=============================================================================
