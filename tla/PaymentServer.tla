---------------------------- MODULE PaymentServer --------------------------
(***************************************************************************)
(* The process of PaymentService and the gRPC calls that reach it: the     *)
(* checks of Service.PayOrder, connections that break while a call is      *)
(* under way, GracefulStop, which main's Serve waits for, and a process    *)
(* that is killed and started again.  Module Payment is what OrderService  *)
(* sees of all this.                                                       *)
(***************************************************************************)
EXTENDS Integers, FiniteSets

CONSTANTS Calls,        \* one per PayOrder call
          OrderIds,     \* strings that parse as a UUID
          Empty,        \* the empty string
          Malformed,    \* a string that is no UUID
          PayMethods,   \* numbers of the open enum PaymentMethod a client may send
          Txns,         \* UUIDs that uuid.New() can give a transaction
          None

PAYMENT_METHOD_UNSPECIFIED == "PAYMENT_METHOD_UNSPECIFIED"

ASSUME ServerAssumption ==
  /\ Empty \notin OrderIds /\ Malformed \notin OrderIds \cup {Empty}
  /\ None \notin Txns

VARIABLES phase,        \* of the process
          req,          \* the call's request, None before it is made
          stream,       \* the call at the server
          answer,       \* what the handler returned
          link,         \* the call's connection has not failed it
          told,         \* what the caller's PayOrder returned
          ledger        \* every charge made, by call

vars == <<phase, req, stream, answer, link, told, ledger>>

PayOrderRequests == [order : OrderIds \cup {Empty, Malformed}, method : PayMethods]

Ok(t) == [code |-> "OK", txn |-> t]
Fault(code) == [code |-> code, txn |-> None]

Answers == {Ok(t) : t \in Txns} \cup {Fault("INVALID_ARGUMENT")}

TypeOK ==
  /\ phase \in {"serving", "draining", "stopped", "killed"}
  /\ req \in [Calls -> PayOrderRequests \cup {None}]
  /\ stream \in [Calls -> {"none", "accepted", "answered", "dead"}]
  /\ answer \in [Calls -> Answers \cup {None}]
  /\ link \in [Calls -> BOOLEAN]
  /\ told \in [Calls -> Answers \cup {Fault("UNAVAILABLE"), None}]
  /\ ledger \subseteq [call : Calls, txn : Txns, order : OrderIds, method : PayMethods]

Init ==
  /\ phase = "serving"
  /\ req = [c \in Calls |-> None]
  /\ stream = [c \in Calls |-> "none"]
  /\ answer = [c \in Calls |-> None]
  /\ link = [c \in Calls |-> TRUE]
  /\ told = [c \in Calls |-> None]
  /\ ledger = {}

Waiting(c) == req[c] # None /\ told[c] = None
Alive == phase \in {"serving", "draining"}

-----------------------------------------------------------------------------
\* paymentServiceClient.PayOrder
Invoke(c) ==
  /\ req[c] = None
  /\ \E request \in PayOrderRequests : req' = [req EXCEPT ![c] = request]
  /\ UNCHANGED <<phase, stream, answer, link, told, ledger>>

\* What was sent before its caller's connection failed.
InFlight(c) == stream[c] = "none" /\ ~link[c]

\* The server takes the call, whose caller may be gone, and starts its handler.
\* While it drains it still takes calls that come on a connection it has not
\* finished with.
Accept(c) ==
  /\ Alive /\ stream[c] = "none"
  /\ Waiting(c) \/ InFlight(c)
  /\ stream' = [stream EXCEPT ![c] = "accepted"]
  /\ UNCHANGED <<phase, req, answer, link, told, ledger>>

\* The call never reaches a handler: it is sent when the process is not there, or
\* no longer takes calls.
Refuse(c) ==
  /\ phase # "serving" /\ Waiting(c) /\ stream[c] = "none"
  /\ told' = [told EXCEPT ![c] = Fault("UNAVAILABLE")]
  /\ UNCHANGED <<phase, req, stream, answer, link, ledger>>

\* Mutation: the method is not looked at.
RejectedByOrder(request) == request.order \notin OrderIds

\* ErrEmptyOrderUUID, ErrUnspecifiedMethod and ErrInvalidOrderUUID, which
\* toStatusErr maps to one code.
Rejected(request) ==
  \/ request.order = Empty
  \/ request.method = PAYMENT_METHOD_UNSPECIFIED
  \/ request.order \notin OrderIds

\* Mutation: the handler heeds the signal.
PayOrderServing(c) ==
  /\ phase = "serving" /\ stream[c] = "accepted"
  /\ stream' = [stream EXCEPT ![c] = "answered"]
  /\ answer' = [answer EXCEPT ![c] = Fault("INVALID_ARGUMENT")]
  /\ UNCHANGED <<phase, req, link, told, ledger>>

\* Mutation: the payment is logged before the UUID is parsed.
PayOrderParsedLast(c) ==
  /\ Alive /\ stream[c] = "accepted"
  /\ stream' = [stream EXCEPT ![c] = "answered"]
  /\ \E t \in Txns :
       /\ \A charge \in ledger : charge.txn # t
       /\ answer' = [answer EXCEPT ![c] =
                       IF Rejected(req[c]) THEN Fault("INVALID_ARGUMENT") ELSE Ok(t)]
       /\ ledger' = ledger \cup {[call |-> c, txn |-> t, order |-> req[c].order,
                                  method |-> req[c].method]}
  /\ UNCHANGED <<phase, req, link, told>>

\* Mutation: the transaction is named after the order.
PayOrderNamed(c) ==
  /\ Alive /\ stream[c] = "accepted" /\ ~Rejected(req[c])
  /\ stream' = [stream EXCEPT ![c] = "answered"]
  /\ LET t == CHOOSE any \in Txns : TRUE
     IN  /\ answer' = [answer EXCEPT ![c] = Ok(t)]
         /\ ledger' = ledger \cup {[call |-> c, txn |-> t, order |-> req[c].order,
                                    method |-> req[c].method]}
  /\ UNCHANGED <<phase, req, link, told>>

\* The handler runs to its end whatever became of the call: Service.PayOrder
\* ignores its context.
PayOrder(c) ==
  /\ Alive /\ stream[c] = "accepted"
  /\ stream' = [stream EXCEPT ![c] = "answered"]
  /\ \/ /\ Rejected(req[c])
        /\ answer' = [answer EXCEPT ![c] = Fault("INVALID_ARGUMENT")]
        /\ UNCHANGED ledger
     \/ /\ ~Rejected(req[c])
        /\ \E t \in Txns :
             /\ \A charge \in ledger : charge.txn # t
             /\ answer' = [answer EXCEPT ![c] = Ok(t)]
             /\ ledger' = ledger \cup {[call |-> c, txn |-> t, order |-> req[c].order,
                                        method |-> req[c].method]}
  /\ UNCHANGED <<phase, req, link, told>>

Deliver(c) ==
  /\ Waiting(c) /\ link[c] /\ stream[c] = "answered"
  /\ told' = [told EXCEPT ![c] = answer[c]]
  /\ UNCHANGED <<phase, req, stream, answer, link, ledger>>

\* The connection breaks or goes silent, or the caller's context is cancelled.
\* A call the server has not seen yet may still get there.
Break(c) ==
  /\ Waiting(c)
  /\ link' = [link EXCEPT ![c] = FALSE]
  /\ told' = [told EXCEPT ![c] = Fault("UNAVAILABLE")]
  /\ \/ UNCHANGED stream
     \/ stream[c] = "none" /\ stream' = [stream EXCEPT ![c] = "dead"]
  /\ UNCHANGED <<phase, req, answer, ledger>>

-----------------------------------------------------------------------------
\* SIGINT or SIGTERM: GracefulStop begins.
Stop ==
  /\ phase = "serving" /\ phase' = "draining"
  /\ UNCHANGED <<req, stream, answer, link, told, ledger>>

\* Mutation: Stop instead of GracefulStop.
StoppedAtOnce ==
  /\ phase = "draining" /\ phase' = "stopped"
  /\ UNCHANGED <<req, stream, answer, link, told, ledger>>

\* GracefulStop has waited for every call on a connection that is up; Serve and
\* main return.
Stopped ==
  /\ phase = "draining" /\ phase' = "stopped"
  /\ \A c \in Calls : link[c] => stream[c] # "accepted"
  /\ UNCHANGED <<req, stream, answer, link, told, ledger>>

\* SIGKILL, or os.Exit because Serve failed.  What was under way ends with the
\* process, its callers seeing the connection break.
Kill ==
  /\ Alive /\ phase' = "killed"
  /\ UNCHANGED <<req, stream, answer, link, told, ledger>>

Reap(c) ==
  /\ ~Alive
  /\ stream[c] = "accepted" \/ InFlight(c)
  /\ stream' = [stream EXCEPT ![c] = "dead"]
  /\ IF phase = "killed" /\ Waiting(c)
       THEN /\ link' = [link EXCEPT ![c] = FALSE]
            /\ told' = [told EXCEPT ![c] = Fault("UNAVAILABLE")]
       ELSE UNCHANGED <<link, told>>
  /\ UNCHANGED <<phase, req, answer, ledger>>

\* A new process, when nothing of the old one is left.
Restart ==
  /\ ~Alive /\ \A c \in Calls : stream[c] # "accepted" /\ ~InFlight(c)
  /\ phase' = "serving"
  /\ UNCHANGED <<req, stream, answer, link, told, ledger>>

CallStep(c) == Accept(c) \/ Refuse(c) \/ PayOrder(c) \/ Deliver(c) \/ Reap(c)

Next ==
  \/ \E c \in Calls : Invoke(c) \/ CallStep(c) \/ Break(c)
  \/ Stop \/ Stopped \/ Kill \/ Restart

Spec == Init /\ [][Next]_vars

\* The server and the network go on, a handler never waits for anything, and
\* GracefulStop returns when it may.
Fairness == (\A c \in Calls : WF_vars(CallStep(c))) /\ WF_vars(Stopped)

FairSpec == Spec /\ Fairness
=============================================================================
