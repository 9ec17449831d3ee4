------------------------ MODULE PaymentServerProofs ------------------------
(***************************************************************************)
(* Proofs about the process of PaymentService: whatever connections break  *)
(* and whenever it is stopped, killed and started again, a call is charged *)
(* once at most, a caller whose connection holds knows its charge, and an  *)
(* orderly stop drops no call.                                             *)
(***************************************************************************)
EXTENDS PaymentContract, TLAPS

\* A charge is made by the step that answers its call, and an answered call is
\* answered for good.
AnswerInv ==
  /\ \A x \in ledger : stream[x.call] = "answered" /\ answer[x.call] = Ok(x.txn)
                       /\ x.order = req[x.call].order /\ x.method = req[x.call].method
  /\ \A c \in Calls : stream[c] = "answered" /\ answer[c].code = "OK" =>
       [call |-> c, txn |-> answer[c].txn, order |-> req[c].order,
        method |-> req[c].method] \in ledger

\* What a caller with a connection was told is the handler's answer, or that the
\* call never reached one; and a call is made before it is told anything.
ToldInv ==
  \A c \in Calls :
    /\ req[c] = None => stream[c] = "none" /\ told[c] = None /\ link[c]
    /\ told[c] # None /\ link[c] =>
         \/ stream[c] = "answered" /\ told[c] = answer[c]
         \/ stream[c] = "none" /\ told[c] = Fault("UNAVAILABLE")

StopInv == phase = "stopped" => \A c \in Calls : link[c] => stream[c] # "accepted"

ServerInv ==
  TypeOK /\ ChargedOnce /\ AnswerInv /\ ToldInv /\ StopDropsNothing /\ StopInv

-----------------------------------------------------------------------------
USE DEF Waiting, Alive, InFlight

(* No call is in flight at the start. *)
LEMMA ServerInit == Init => ServerInv
BY DEF Init, ServerInv, TypeOK, ChargedOnce, AnswerInv, ToldInv, StopDropsNothing, StopInv

(* One lemma per action of the server: each keeps the server's invariant. *)
LEMMA InvokeInv ==
  ASSUME ServerInv, NEW c \in Calls, Invoke(c)
  PROVE  ServerInv'
<1> USE DEF ServerInv, Invoke
<1>1. TypeOK'
  BY DEF TypeOK, Answers
<1>2. ChargedOnce'
  BY DEF ChargedOnce, TypeOK
<1>3. AnswerInv'
  BY DEF AnswerInv, ToldInv, TypeOK
<1>4. ToldInv'
  BY DEF ToldInv, TypeOK, StopInv
<1>5. StopDropsNothing'
  BY DEF StopDropsNothing, TypeOK, StopInv, ToldInv
<1>6. StopInv'
  BY DEF StopInv, TypeOK
<1>. QED  BY <1>1, <1>2, <1>3, <1>4, <1>5, <1>6

LEMMA AcceptInv ==
  ASSUME ServerInv, NEW c \in Calls, Accept(c)
  PROVE  ServerInv'
<1> USE DEF ServerInv, Accept
<1>1. TypeOK'
  BY DEF TypeOK, Answers
<1>2. ChargedOnce'
  BY DEF ChargedOnce, TypeOK
<1>3. AnswerInv'
  BY DEF AnswerInv, ToldInv, TypeOK
<1>4. ToldInv'
  BY DEF ToldInv, TypeOK, StopInv
<1>5. StopDropsNothing'
  BY DEF StopDropsNothing, TypeOK, StopInv, ToldInv
<1>6. StopInv'
  BY DEF StopInv, TypeOK
<1>. QED  BY <1>1, <1>2, <1>3, <1>4, <1>5, <1>6

LEMMA RefuseInv ==
  ASSUME ServerInv, NEW c \in Calls, Refuse(c)
  PROVE  ServerInv'
<1> USE DEF ServerInv, Refuse
<1>1. TypeOK'
  BY DEF TypeOK, Answers
<1>2. ChargedOnce'
  BY DEF ChargedOnce, TypeOK
<1>3. AnswerInv'
  BY DEF AnswerInv, ToldInv, TypeOK
<1>4. ToldInv'
  BY DEF ToldInv, TypeOK, StopInv
<1>5. StopDropsNothing'
  BY DEF StopDropsNothing, TypeOK, StopInv, ToldInv
<1>6. StopInv'
  BY DEF StopInv, TypeOK
<1>. QED  BY <1>1, <1>2, <1>3, <1>4, <1>5, <1>6

LEMMA PayOrderInv ==
  ASSUME ServerInv, NEW c \in Calls, PayOrder(c)
  PROVE  ServerInv'
<1> USE DEF ServerInv
<1>0. /\ stream[c] = "accepted" /\ stream' = [stream EXCEPT ![c] = "answered"]
      /\ req[c] \in PayOrderRequests /\ UNCHANGED <<phase, req, link, told>>
  BY DEF PayOrder, ToldInv, TypeOK
<1>1. \A x \in ledger : x.call # c
  BY <1>0 DEF AnswerInv
<1>2. CASE Rejected(req[c])
  <2>1. answer' = [answer EXCEPT ![c] = Fault("INVALID_ARGUMENT")] /\ UNCHANGED ledger
    BY <1>2 DEF PayOrder
  <2>2. TypeOK'
    BY <1>0, <2>1 DEF TypeOK, Answers
  <2>3. ChargedOnce'
    BY <2>1 DEF ChargedOnce
  <2>4. AnswerInv'
    BY <1>0, <1>1, <2>1 DEF AnswerInv, TypeOK, Fault
  <2>. QED
    BY <1>0, <2>1, <2>2, <2>3, <2>4 DEF ToldInv, StopDropsNothing, StopInv, TypeOK
<1>3. CASE ~Rejected(req[c])
  <2> DEFINE Charge(t) == [call |-> c, txn |-> t, order |-> req[c].order,
                           method |-> req[c].method]
  <2>1. PICK t \in Txns : /\ \A x \in ledger : x.txn # t
                          /\ answer' = [answer EXCEPT ![c] = Ok(t)]
                          /\ ledger' = ledger \cup {Charge(t)}
    BY <1>3 DEF PayOrder
  <2>2. TypeOK'
    <3>1. req[c].order \in OrderIds /\ req[c].method \in PayMethods
      BY <1>0, <1>3 DEF Rejected, PayOrderRequests
    <3>2. ledger' \subseteq [call : Calls, txn : Txns, order : OrderIds, method : PayMethods]
      BY <2>1, <3>1 DEF TypeOK
    <3>. QED  BY <1>0, <2>1, <3>2 DEF TypeOK, Answers
  <2>3. ChargedOnce'
    BY <1>1, <2>1 DEF ChargedOnce
  <2>4. AnswerInv'
    <3>1. ASSUME NEW x \in ledger'
          PROVE  /\ stream'[x.call] = "answered" /\ answer'[x.call] = Ok(x.txn)
                 /\ x.order = req'[x.call].order /\ x.method = req'[x.call].method
      <4>1. CASE x \in ledger
        BY <1>0, <1>1, <2>1, <4>1 DEF AnswerInv, TypeOK
      <4>2. CASE x = Charge(t)
        BY <1>0, <2>1, <4>2 DEF TypeOK
      <4>. QED  BY <2>1, <4>1, <4>2
    <3>2. ASSUME NEW d \in Calls, stream'[d] = "answered", answer'[d].code = "OK"
          PROVE  [call |-> d, txn |-> answer'[d].txn, order |-> req'[d].order,
                  method |-> req'[d].method] \in ledger'
      <4>1. CASE d = c
        BY <1>0, <2>1, <4>1 DEF TypeOK, Ok
      <4>2. CASE d # c
        BY <1>0, <2>1, <3>2, <4>2 DEF AnswerInv, TypeOK
      <4>. QED  BY <4>1, <4>2
    <3>. QED  BY <3>1, <3>2 DEF AnswerInv
  <2>. QED
    BY <1>0, <2>1, <2>2, <2>3, <2>4 DEF ToldInv, StopDropsNothing, StopInv, TypeOK
<1>. QED  BY <1>2, <1>3

LEMMA DeliverInv ==
  ASSUME ServerInv, NEW c \in Calls, Deliver(c)
  PROVE  ServerInv'
<1> USE DEF ServerInv, Deliver
<1>1. TypeOK'
  BY DEF TypeOK, Answers
<1>2. ChargedOnce'
  BY DEF ChargedOnce, TypeOK
<1>3. AnswerInv'
  BY DEF AnswerInv, ToldInv, TypeOK
<1>4. ToldInv'
  BY DEF ToldInv, TypeOK, StopInv
<1>5. StopDropsNothing'
  BY DEF StopDropsNothing, TypeOK, StopInv, ToldInv
<1>6. StopInv'
  BY DEF StopInv, TypeOK
<1>. QED  BY <1>1, <1>2, <1>3, <1>4, <1>5, <1>6

LEMMA BreakInv ==
  ASSUME ServerInv, NEW c \in Calls, Break(c)
  PROVE  ServerInv'
<1> USE DEF ServerInv, Break
<1>1. TypeOK'
  BY DEF TypeOK, Answers
<1>2. ChargedOnce'
  BY DEF ChargedOnce, TypeOK
<1>3. AnswerInv'
  BY DEF AnswerInv, ToldInv, TypeOK
<1>4. ToldInv'
  BY DEF ToldInv, TypeOK, StopInv
<1>5. StopDropsNothing'
  BY DEF StopDropsNothing, TypeOK, StopInv, ToldInv
<1>6. StopInv'
  BY DEF StopInv, TypeOK
<1>. QED  BY <1>1, <1>2, <1>3, <1>4, <1>5, <1>6

LEMMA ReapInv ==
  ASSUME ServerInv, NEW c \in Calls, Reap(c)
  PROVE  ServerInv'
<1> USE DEF ServerInv, Reap
<1>1. TypeOK'
  BY DEF TypeOK, Answers
<1>2. ChargedOnce'
  BY DEF ChargedOnce, TypeOK
<1>3. AnswerInv'
  BY DEF AnswerInv, ToldInv, TypeOK
<1>4. ToldInv'
  BY DEF ToldInv, TypeOK, StopInv
<1>5. StopDropsNothing'
  BY DEF StopDropsNothing, TypeOK, StopInv, ToldInv
<1>6. StopInv'
  BY DEF StopInv, TypeOK
<1>. QED  BY <1>1, <1>2, <1>3, <1>4, <1>5, <1>6

(* The server's own stop, kill and restart keep it too. *)
LEMMA PhaseInv ==
  ASSUME ServerInv, Stop \/ Stopped \/ Kill \/ Restart \/ UNCHANGED vars
  PROVE  ServerInv'
BY DEF ServerInv, Stop, Stopped, Kill, Restart, vars, TypeOK, ChargedOnce, AnswerInv, ToldInv,
       StopDropsNothing, StopInv

(* Every step of the server keeps its invariant. *)
LEMMA ServerNext == ServerInv /\ [Next]_vars => ServerInv'
BY InvokeInv, AcceptInv, RefuseInv, PayOrderInv, DeliverInv, BreakInv, ReapInv, PhaseInv
   DEF Next, CallStep

\* The inductive invariant of the process.
THEOREM ServerInvariance == Spec => []ServerInv
BY ServerInit, ServerNext, PTL DEF Spec

\* No call is charged twice and no transaction serves two charges.
THEOREM OneCharge == Spec => []ChargedOnce
<1>1. ServerInv => ChargedOnce
  BY DEF ServerInv
<1>. QED  BY <1>1, ServerInvariance, PTL

\* An orderly stop drops no call whose caller is still there.
THEOREM GracefulStop == Spec => []StopDropsNothing
<1>1. ServerInv => StopDropsNothing
  BY DEF ServerInv
<1>. QED  BY <1>1, ServerInvariance, PTL

\* A caller whose connection held knows exactly what it was charged.
THEOREM KnownCharges == Spec => []ChargeIsKnown
<1>1. ServerInv => ChargeIsKnown
  <2> SUFFICES ASSUME ServerInv, NEW c \in Calls, told[c] # None, link[c]
               PROVE  IF told[c].code = "OK"
                        THEN ChargesOf(c) = {[call |-> c, txn |-> told[c].txn,
                                              order |-> req[c].order, method |-> req[c].method]}
                        ELSE ChargesOf(c) = {} /\ stream[c] # "accepted"
    BY DEF ChargeIsKnown, ServerInv
  <2>1. \A x \in ledger : x.call \in Calls
    BY DEF ServerInv, TypeOK
  <2>2. \A x \in ChargesOf(c) : stream[c] = "answered" /\ answer[c].code = "OK"
    <3> SUFFICES ASSUME NEW x \in ledger, x.call = c
                 PROVE  stream[c] = "answered" /\ answer[c].code = "OK"
      BY DEF ChargesOf
    <3>1. stream[c] = "answered" /\ answer[c] = Ok(x.txn)
      BY DEF ServerInv, AnswerInv
    <3>. QED  BY <3>1 DEF Ok
  <2>3. CASE stream[c] = "answered" /\ told[c] = answer[c] /\ answer[c].code = "OK"
    <3> DEFINE charge == [call |-> c, txn |-> told[c].txn, order |-> req[c].order,
                          method |-> req[c].method]
    <3>1. charge \in ChargesOf(c)
      BY <2>3 DEF ServerInv, AnswerInv, ChargesOf
    <3>2. \A x \in ChargesOf(c) : x = charge
      BY <3>1 DEF ServerInv, ChargedOnce, ChargesOf
    <3>3. ChargesOf(c) = {charge}
      BY <3>1, <3>2
    <3>. QED  BY <2>3, <3>3
  <2>4. CASE stream[c] = "answered" /\ told[c] = answer[c] /\ answer[c].code # "OK"
    BY <2>2, <2>4
  <2>5. CASE stream[c] = "none" /\ told[c] = Fault("UNAVAILABLE")
    BY <2>2, <2>5 DEF Fault
  <2>. QED  BY <2>3, <2>4, <2>5 DEF ServerInv, ToldInv
<1>. QED  BY <1>1, ServerInvariance, PTL

-----------------------------------------------------------------------------
(***************************************************************************)
(* The process as OrderService sees it.  A step changes one call, and of   *)
(* that call at most its state in module Payment and what it is charged.   *)
(***************************************************************************)

\* A call that has not been answered has not been charged.
LEMMA NotCharged ==
  ASSUME ServerInv, NEW c \in Calls, stream[c] # "answered"
  PROVE  ChargesOf(c) = {}
BY DEF ServerInv, AnswerInv, ChargesOf

\* Without a charge only the states of the calls can change.
LEMMA SameCharges ==
  ASSUME UNCHANGED ledger
  PROVE  /\ UNCHANGED <<replyBar, ledgerBar>>
         /\ \A c \in Calls : ChargesOf(c)' = ChargesOf(c)
BY DEF replyBar, ledgerBar, ChargesOf

(* A step of one call leaves the abstract state of the others. *)
LEMMA OtherCalls ==
  ASSUME NEW c \in Calls,
         req'[c] = req[c], stream'[c] = stream[c], link'[c] = link[c], told'[c] = told[c],
         ChargesOf(c)' = ChargesOf(c)
  PROVE  RpcOf(c)' = RpcOf(c)
BY DEF RpcOf

\* A step that charges nothing and moves one call at most.
LEMMA OneMoves ==
  ASSUME NEW c \in Calls, UNCHANGED ledger,
         \A d \in Calls \ {c} : /\ req'[d] = req[d] /\ stream'[d] = stream[d]
                                /\ link'[d] = link[d] /\ told'[d] = told[d],
         \/ RpcOf(c)' = RpcOf(c)
         \/ RpcOf(c)' = "sent"
         \/ RpcOf(c) = "sent" /\ RpcOf(c)' = "lost"
  PROVE  \/ UNCHANGED <<rpcBar, replyBar, ledgerBar>>
         \/ Seen!Send(c)
         \/ Seen!Lose(c)
<1>1. \A d \in Calls \ {c} : RpcOf(d)' = RpcOf(d)
  BY SameCharges, OtherCalls
<1>2. rpcBar' = [rpcBar EXCEPT ![c] = RpcOf(c)']
  BY <1>1 DEF rpcBar
<1>3. rpcBar[c] = RpcOf(c)
  BY DEF rpcBar
<1>. QED  BY <1>2, <1>3, SameCharges DEF Seen!Send, Seen!Lose, rpcBar

(* A step of one call outside the handler, as the contract sees it. *)
LEMMA CallMoves ==
  ASSUME ServerInv, NEW c \in Calls,
         Invoke(c) \/ Accept(c) \/ Refuse(c) \/ Deliver(c) \/ Break(c) \/ Reap(c)
  PROVE  \/ UNCHANGED <<rpcBar, replyBar, ledgerBar>>
         \/ Seen!Send(c)
         \/ Seen!Lose(c)
<1> USE DEF ServerInv, TypeOK
<1>1. /\ UNCHANGED ledger
      /\ \A d \in Calls \ {c} : /\ req'[d] = req[d] /\ stream'[d] = stream[d]
                                /\ link'[d] = link[d] /\ told'[d] = told[d]
  BY DEF Invoke, Accept, Refuse, Deliver, Break, Reap
<1>2. ChargesOf(c)' = ChargesOf(c) /\ (stream[c] # "answered" => ChargesOf(c) = {})
  BY <1>1, SameCharges, NotCharged
<1>3. CASE Invoke(c)
  <2>1. stream[c] = "none" /\ stream'[c] = "none" /\ told'[c] = None /\ link'[c]
    BY <1>3 DEF Invoke, ToldInv
  <2>2. RpcOf(c)' = RpcOf(c) \/ RpcOf(c)' = "sent"
    BY <1>2, <1>3, <2>1 DEF RpcOf, Invoke
  <2>. QED  BY <1>1, <2>2, OneMoves
<1>4. CASE Accept(c)
  <2>1. RpcOf(c)' = "sent"
    BY <1>2, <1>4 DEF RpcOf, Accept, ToldInv
  <2>. QED  BY <1>1, <2>1, OneMoves
<1>5. CASE Refuse(c)
  <2>1. RpcOf(c) = "sent" /\ RpcOf(c)' \in {"sent", "lost"}
    BY <1>2, <1>5 DEF RpcOf, Refuse
  <2>. QED  BY <1>1, <2>1, OneMoves
<1>6. CASE Deliver(c)
  <2>1. RpcOf(c)' = RpcOf(c)
    BY <1>2, <1>6 DEF RpcOf, Deliver
  <2>. QED  BY <1>1, <2>1, OneMoves
<1>7. CASE Break(c)
  <2>1. CASE stream[c] \in {"none", "accepted"}
    <3>1. RpcOf(c) = "sent" /\ RpcOf(c)' \in {"sent", "lost"}
      BY <1>2, <1>7, <2>1 DEF RpcOf, Break
    <3>. QED  BY <1>1, <3>1, OneMoves
  <2>2. CASE stream[c] \in {"answered", "dead"}
    <3>1. RpcOf(c)' = RpcOf(c)
      BY <1>2, <1>7, <2>2 DEF RpcOf, Break
    <3>. QED  BY <1>1, <3>1, OneMoves
  <2>. QED  BY <2>1, <2>2
<1>8. CASE Reap(c)
  <2>1. RpcOf(c) = "sent" /\ RpcOf(c)' = "lost"
    BY <1>2, <1>8 DEF RpcOf, Reap, ToldInv
  <2>. QED  BY <1>1, <2>1, OneMoves
<1>. QED  BY <1>3, <1>4, <1>5, <1>6, <1>7, <1>8

(* The handler, as the contract sees it. *)
LEMMA HandlerMoves ==
  ASSUME ServerInv, NEW c \in Calls, PayOrder(c)
  PROVE  \/ UNCHANGED <<rpcBar, replyBar, ledgerBar>>
         \/ Seen!Send(c)
         \/ Seen!Serve(c, req[c].order, req[c].method)
         \/ Seen!Lose(c)
<1> USE DEF ServerInv, TypeOK
<1>1. /\ stream[c] = "accepted" /\ stream' = [stream EXCEPT ![c] = "answered"]
      /\ UNCHANGED <<phase, req, link, told>>
  BY DEF PayOrder
<1>2. ChargesOf(c) = {} /\ req[c] # None
  BY <1>1, NotCharged DEF ToldInv
<1>3. RpcOf(c) = "sent"
  BY <1>1, <1>2 DEF RpcOf
<1>4. CASE Rejected(req[c])
  <2>1. UNCHANGED ledger
    BY <1>4 DEF PayOrder
  <2>2. RpcOf(c)' = "lost"
    BY <1>1, <1>2, <2>1, SameCharges DEF RpcOf
  <2>3. \A d \in Calls \ {c} : /\ req'[d] = req[d] /\ stream'[d] = stream[d]
                               /\ link'[d] = link[d] /\ told'[d] = told[d]
    BY <1>1
  <2>. QED  BY <1>3, <2>1, <2>2, <2>3, OneMoves
<1>5. CASE ~Rejected(req[c])
  <2>1. PICK t \in Txns :
          /\ \A x \in ledger : x.txn # t
          /\ ledger' = ledger \cup {[call |-> c, txn |-> t, order |-> req[c].order,
                                     method |-> req[c].method]}
    BY <1>5 DEF PayOrder
  <2> DEFINE new == [call |-> c, txn |-> t, order |-> req[c].order, method |-> req[c].method]
  <2>2. /\ ChargesOf(c)' = {new}
        /\ \A d \in Calls \ {c} : ChargesOf(d)' = ChargesOf(d)
    BY <1>2, <2>1 DEF ChargesOf
  <2>3. RpcOf(c)' = "served" /\ \A d \in Calls \ {c} : RpcOf(d)' = RpcOf(d)
    BY <1>1, <2>2, OtherCalls DEF RpcOf
  <2>4. ReplyOf({new}) = t
    <3>1. (CHOOSE x \in {new} : TRUE) = new
      BY new \in {new}
    <3>. QED  BY <3>1 DEF ReplyOf
  <2>5. rpcBar' = [rpcBar EXCEPT ![c] = "served"] /\ rpcBar[c] = "sent"
    BY <1>3, <2>3 DEF rpcBar
  <2>6. replyBar' = [replyBar EXCEPT ![c] = t]
    BY <2>2, <2>4 DEF replyBar
  <2>7. ledgerBar' = ledgerBar \cup {[txn |-> t, order |-> req[c].order, method |-> req[c].method]}
    <3>1. ledgerBar' = {[txn |-> x.txn, order |-> x.order, method |-> x.method] :
                         x \in ledger \cup {new}}
      BY <2>1 DEF ledgerBar
    <3>2. [txn |-> new.txn, order |-> new.order, method |-> new.method]
            = [txn |-> t, order |-> req[c].order, method |-> req[c].method]
      OBVIOUS
    <3> HIDE DEF new
    <3>3. ASSUME NEW y
          PROVE  y \in ledgerBar' <=>
                   \/ y \in ledgerBar
                   \/ y = [txn |-> new.txn, order |-> new.order, method |-> new.method]
      BY <3>1 DEF ledgerBar
    <3>. QED  BY <3>2, <3>3
  <2>8. \A x \in ledgerBar : x.txn # t
    BY <2>1 DEF ledgerBar
  <2>9. req[c].method # "PAYMENT_METHOD_UNSPECIFIED"
    BY <1>5 DEF Rejected, PAYMENT_METHOD_UNSPECIFIED
  <2>. QED  BY <2>1, <2>5, <2>6, <2>7, <2>8, <2>9 DEF Seen!Serve
<1>. QED  BY <1>4, <1>5

\* The process does what module Payment lets OrderService see.
THEOREM PaymentRefinement == Spec => ImplementsPayment
<1>1. ASSUME ServerInv, [Next]_vars
      PROVE  [\E c \in Calls : \/ Seen!Send(c)
                               \/ Seen!Serve(c, req[c].order, req[c].method)
                               \/ Seen!Lose(c)]_<<rpcBar, replyBar, ledgerBar>>
  <2>1. CASE Stop \/ Stopped \/ Kill \/ Restart \/ UNCHANGED vars
    BY <2>1 DEF Stop, Stopped, Kill, Restart, vars, rpcBar, replyBar, ledgerBar, RpcOf, ChargesOf
  <2>. QED  BY <1>1, <2>1, CallMoves, HandlerMoves DEF Next, CallStep
<1>. QED  BY <1>1, ServerInvariance, PTL DEF Spec, ImplementsPayment
=============================================================================
