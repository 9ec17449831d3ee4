---------------------------- MODULE OrderClient ----------------------------
(***************************************************************************)
(* The generated client of the orders API at the other end of OrderApi:    *)
(* one call, the request it sends, a network that may lose the request,    *)
(* the answer or the end of it while the server goes on, and what the      *)
(* caller is told.                                                         *)
(***************************************************************************)
EXTENDS OrderApi

CONSTANT ClientCalls  \* calls of the client, and whether its server URL is right

\* The parameters of the generated methods: a UUID, or a request whose fields have
\* the types of its struct, any string for a method included.
ASSUME ClientAssumption ==
  \A c \in ClientCalls :
    /\ c.op \in Ops
    /\ c.urlOk \in BOOLEAN
    /\ IF c.op = "createOrder" THEN c.id = Nothing ELSE c.id \in OrderIds
    /\ c.op = "createOrder" =>
         /\ DOMAIN c.request = Names(CreateOrderRequest)
         /\ \A name \in Required : c.request[name] \in Uuids
         /\ \A name \in Optional : c.request[name] \in Uuids \cup {Null, Unset}
    /\ c.op = "payOrder" =>
         /\ DOMAIN c.request = Names(PayOrderRequest)
         /\ c.request.payment_method \in Texts

VARIABLES call,   \* the call
          phase,  \* what the client does: "build", "wait" or "return"
          res     \* what the call returns, a typed result or the stage that failed

clientVars == <<call, phase, res>>

ClientInit ==
  /\ call \in ClientCalls
  /\ phase = "build"
  /\ res = Nothing
  /\ http = Nothing
  /\ todo = <<"route">>
  /\ op = Nothing /\ id = Nothing /\ request = Nothing
  /\ called = Nothing /\ outcome = Nothing /\ order = Nothing
  /\ resp = [status |-> 0, ctype |-> "none", body |-> <<>>]

-----------------------------------------------------------------------------
Bodiless(verb, path) ==
  [verb |-> verb, known |-> call.urlOk, path |-> path, ctype |-> "other",
   body |-> "missing", members |-> <<>>]

WithBody(path, type) ==
  [verb |-> "POST", known |-> call.urlOk, path |-> path, ctype |-> "json",
   body |-> "object", members |-> Encode(type, call.request)]

\* The request each send... builds.
sendCancelOrder == Bodiless("POST", <<call.id, "cancel">>)
sendCreateOrder == WithBody(<<>>, CreateOrderRequest)
sendGetOrder == Bodiless("GET", <<call.id>>)
sendPayOrder == WithBody(<<call.id, "pay">>, PayOrderRequest)

Return(result) == res' = result /\ phase' = "return"
Failure(stage) == Return([type |-> stage, value |-> Nothing])

\* The request arrives at the server.
Send ==
  /\ phase = "build"
  /\ http' = CASE call.op = "cancelOrder" -> sendCancelOrder
               [] call.op = "createOrder" -> sendCreateOrder
               [] call.op = "getOrder" -> sendGetOrder
               [] call.op = "payOrder" -> sendPayOrder
  /\ phase' = "wait"
  /\ UNCHANGED <<call, res, todo, op, id, request, called, outcome, order, resp>>

\* Do returns an error: the request does not arrive, or nothing comes back of the
\* response.  The server's WriteTimeout is a way to the second: it cuts the
\* response of a handler that took too long, when the handler has done its work.
DoFails ==
  /\ phase \in {"build", "wait"}
  /\ Failure("do request")
  /\ UNCHANGED <<vars, call>>

\* The connection breaks behind the headers of the response.
BodyCut ==
  /\ phase = "wait" /\ Done
  /\ Failure("read body")
  /\ UNCHANGED <<vars, call>>

\* The server goes on whether the client still waits or not.
ServerStep ==
  /\ http # Nothing
  /\ Serve
  /\ UNCHANGED clientVars

-----------------------------------------------------------------------------
\* The type each status is decoded as.
decodeCancelOrderResponse ==
  [status \in {200, 400, 404, 409, 500} |->
     CASE status = 200 -> "CancelOrderResponse"
       [] status = 400 -> "CancelOrderBadRequest"
       [] status = 404 -> "CancelOrderNotFound"
       [] status = 409 -> "CancelOrderConflict"
       [] status = 500 -> "CancelOrderInternalServerError"]

decodeCreateOrderResponse ==
  [status \in {201, 400, 404, 409, 500} |->
     CASE status = 201 -> "CreateOrderResponse"
       [] status = 400 -> "CreateOrderBadRequest"
       [] status = 404 -> "CreateOrderNotFound"
       [] status = 409 -> "CreateOrderConflict"
       [] status = 500 -> "CreateOrderInternalServerError"]

decodeGetOrderResponse ==
  [status \in {200, 400, 404, 500} |->
     CASE status = 200 -> "OrderDto"
       [] status = 400 -> "GetOrderBadRequest"
       [] status = 404 -> "GetOrderNotFound"
       [] status = 500 -> "GetOrderInternalServerError"]

\* Mutation: no conflict is known.
decodePayOrderResponseNoConflict ==
  [status \in {200, 400, 404, 500} |->
     CASE status = 200 -> "PayOrderResponse"
       [] status = 400 -> "PayOrderBadRequest"
       [] status = 404 -> "PayOrderNotFound"
       [] status = 500 -> "PayOrderInternalServerError"]

decodePayOrderResponse ==
  [status \in {200, 400, 404, 409, 500} |->
     CASE status = 200 -> "PayOrderResponse"
       [] status = 400 -> "PayOrderBadRequest"
       [] status = 404 -> "PayOrderNotFound"
       [] status = 409 -> "PayOrderConflict"
       [] status = 500 -> "PayOrderInternalServerError"]

\* What every decode...Response does of the response.
DecodedAs(typeOf, types) ==
  LET type == typeOf[resp.status]
      value == Decode(types[type], resp.body)
  IN  CASE resp.status \notin DOMAIN typeOf -> Failure("unexpected status")
        [] resp.status \in DOMAIN typeOf /\ resp.ctype # "json" -> Failure("content type")
        [] OTHER -> IF value = Nothing THEN Failure("decode body")
                    ELSE IF type = "OrderDto" /\ ~ValidOrderDto(value) THEN Failure("validate")
                    ELSE Return(Result(type, value))

\* The whole response is there.
Receive ==
  /\ phase = "wait" /\ Done
  /\ CASE call.op = "cancelOrder" -> DecodedAs(decodeCancelOrderResponse, CancelOrderRes)
       [] call.op = "createOrder" -> DecodedAs(decodeCreateOrderResponse, CreateOrderRes)
       [] call.op = "getOrder" -> DecodedAs(decodeGetOrderResponse, GetOrderRes)
       [] call.op = "payOrder" -> DecodedAs(decodePayOrderResponse, PayOrderRes)
  /\ UNCHANGED <<vars, call>>

Finished == phase = "return" /\ (Done \/ http = Nothing) /\ UNCHANGED <<vars, clientVars>>

ClientNext == Send \/ DoFails \/ BodyCut \/ ServerStep \/ Receive \/ Finished

ClientSpec == ClientInit /\ [][ClientNext]_<<vars, clientVars>>

=============================================================================
