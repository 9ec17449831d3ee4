----------------------- MODULE OrderClientProperties -----------------------
(***************************************************************************)
(* What a caller of the generated client may conclude from what it is told *)
(***************************************************************************)
EXTENDS OrderClient

-----------------------------------------------------------------------------
\* What the call of its service method has to be.
CallMeant ==
  [op |-> call.op, id |-> call.id,
   input |-> CASE call.op = "createOrder" ->
                    [name \in Required \cup Optional |-> FromOptNil(call.request[name])]
               [] call.op = "payOrder" -> call.request.payment_method
               [] OTHER -> Nothing]

Typed == phase = "return" /\ res.type \in DOMAIN CancelOrderRes \cup DOMAIN CreateOrderRes
                                           \cup DOMAIN GetOrderRes \cup DOMAIN PayOrderRes

Success == {"CancelOrderResponse", "CreateOrderResponse", "OrderDto", "PayOrderResponse"}

\* The order as the API shows it: its time of creation to the second.
Shown ==
  [name \in Names(OrderDto) |->
     IF order[name] = Null THEN Unset
     ELSE IF name = "created_at" THEN Rfc3339[order.created_at] ELSE order[name]]

\* What the caller of the client is told is what happened: a typed answer means
\* that the service method ran once with the caller's own arguments, its value is
\* that of the order or error the method returned, and no optional or final part
\* of an order is lost or made up between the two ends (oas_client_gen.go:105,
\* oas_response_decoders_gen.go:378, handler.go:41).
ToldWhatHappened ==
  Typed =>
    /\ called = CallMeant
    /\ (res.type \in Success) <=> (outcome = "ok")
    /\ res.type \notin Success => res.value = [code |-> resp.status, message |-> outcome]
    /\ res.type = "OrderDto" => res.value = Shown
    /\ res.type = "CreateOrderResponse" =>
         /\ res.value.order_uuid = order.order_uuid
         /\ res.value.total_price = order.total_price
         /\ \A name \in Required \cup Optional : order[name] = CallMeant.input[name]
    /\ res.type = "PayOrderResponse" =>
         /\ order.status = "PAID" /\ res.value.transaction_uuid = order.transaction_uuid

\* What a caller can tell of each failure: a status or content type the operation
\* does not document says that the method was never called, a body that is not
\* what the status promises that it was refused before the method or failed
\* without a name; a named error is always read as such.  A failure without a name
\* leaves the order in doubt like a lost answer does: it can follow a charge, and a
\* COMMIT can follow it.
FailuresTellStage ==
  phase = "return" =>
    /\ res.type \in {"unexpected status", "content type"} => called = Nothing
    /\ res.type = "decode body" => called = Nothing \/ outcome = "failed"
    /\ res.type # "validate"
    /\ outcome \notin {Nothing, "ok", "failed"} => Typed \/ res.type \in {"do request", "read body"}
=============================================================================
