------------------------------ MODULE OrderApi -----------------------------
(***************************************************************************)
(* The HTTP transport of OrderService for one request: the generated       *)
(* router, decoders and validators, the handlers that translate between    *)
(* HTTP and the service methods, and the encoders of the response.  Module *)
(* OrderService starts where a request has passed all this.                *)
(***************************************************************************)
EXTENDS OrderJson

CONSTANT HttpRequests  \* requests a client may send

Required == {"hull_uuid", "engine_uuid"}
Optional == {"shield_uuid", "weapon_uuid"}

\* A path is its segments behind /api/v1/orders, if it starts with that (known).
\* A body that is an object is its members in the order of the text, names
\* repeated or not.
IsHttp(h) ==
  /\ h.verb \in {"GET", "POST", "OPTIONS", "DELETE"}
  /\ h.known \in BOOLEAN
  /\ h.path \in Seq(OrderIds \cup {Garbage, "", "pay", "cancel"})
  /\ h.ctype \in {"json", "other", "unparsable"}
  /\ h.body \in {"missing", "not json", "object"}
  /\ h.members \in Objects

ASSUME ApiAssumption ==
  /\ Ships \subseteq ShipOf(PartIds)
  /\ Prices \subseteq Int
  /\ \A h \in HttpRequests : IsHttp(h)

VARIABLES http,     \* the request
          todo,     \* the stages it has still to pass
          op,       \* the operation it was routed to
          id,       \* its path parameter
          request,  \* its decoded body
          called,   \* what the service method was called with
          outcome,  \* how the service method returned: "ok" or its error
          order,    \* the order it returned
          resp      \* the response

vars == <<http, todo, op, id, request, called, outcome, order, resp>>

\* What the handlers pass to the service methods, and get from them.
ShipInputs == ShipOf(Uuids)

Calls == [op : Ops, id : OrderIds \cup {Nothing}, input : ShipInputs \cup PaymentMethods \cup {Nothing}]

Orders ==
  [order_uuid : OrderIds, hull_uuid : Uuids, engine_uuid : Uuids,
   shield_uuid : Uuids \cup {Null}, weapon_uuid : Uuids \cup {Null},
   total_price : Prices, transaction_uuid : Txs \cup {Null},
   payment_method : PaymentMethods \cup {Null}, status : Statuses, created_at : Times]

ASSUME NothingAssumption ==
  /\ Nothing \notin Ops /\ Nothing \notin Calls /\ Nothing \notin Orders
  /\ \A o \in Ops : Nothing \notin Outcomes(o)

Stages == {"route", "params", "body", "service", "respond"}

TypeOK ==
  /\ todo \in Seq(Stages)
  /\ op \in Ops \cup {Nothing}
  /\ id \in OrderIds \cup {Nothing}
  /\ \/ request = Nothing
     \/ op = "payOrder" /\ request \in [{"payment_method"} -> PaymentMethods]
     \/ /\ op = "createOrder"
        /\ DOMAIN request = Required \cup Optional
        /\ \A name \in Required : request[name] \in Uuids
        /\ \A name \in Optional : request[name] \in Uuids \cup {Null, Unset}
  /\ \/ called = Nothing
     \/ called.op = op /\ called.id = id /\ called.input \in {Nothing} \cup
          IF op = "createOrder" THEN ShipInputs ELSE PaymentMethods
  /\ outcome \in {Nothing} \cup UNION {Outcomes(o) : o \in Ops}
  /\ (order # Nothing) <=> (outcome = "ok")
  /\ resp.status \in {0, 200, 201, 204, 400, 404, 405, 409, 415, 500}
  /\ resp.ctype \in {"none", "json", "text"}

Init ==
  /\ http \in HttpRequests
  /\ todo = <<"route">>
  /\ op = Nothing /\ id = Nothing /\ request = Nothing
  /\ called = Nothing /\ outcome = Nothing /\ order = Nothing
  /\ resp = [status |-> 0, ctype |-> "none", body |-> <<>>]

-----------------------------------------------------------------------------
Done == todo = <<>>
At(stage) == ~Done /\ Head(todo) = stage
Pass == todo' = Tail(todo) /\ UNCHANGED resp

Respond(status, ctype, body) ==
  /\ resp' = [status |-> status, ctype |-> ctype, body |-> body]
  /\ todo' = <<>>

\* ogen's DefaultErrorHandler and http.NotFound: SetupServer gives the server no
\* others.
ErrorHandler(status) == Respond(status, "json", <<<<"error_message", Str(Garbage)>>>>)
NotFound == Respond(404, "text", <<>>)
NotAllowed(verb) == Respond(IF verb = "OPTIONS" THEN 204 ELSE 405, "none", <<>>)

\* The operations the path is that of, and the verb of each.
Routes(path) ==
  CASE path = <<>> -> [createOrder |-> "POST"]
    [] Len(path) = 1 -> [getOrder |-> "GET"]
    [] Len(path) = 2 /\ path[2] = "pay" -> [payOrder |-> "POST"]
    [] Len(path) = 2 /\ path[2] = "cancel" -> [cancelOrder |-> "POST"]
    [] OTHER -> <<>>

\* The stages of each handle...Request; the first that fails ends it.
handleCreateOrderRequest == <<"body", "service", "respond">>
handleGetOrderRequest == <<"params", "service", "respond">>
handlePayOrderRequest == <<"params", "body", "service", "respond">>
handleCancelOrderRequest == <<"params", "service", "respond">>

Handle == [createOrder |-> handleCreateOrderRequest, getOrder |-> handleGetOrderRequest,
           payOrder |-> handlePayOrderRequest, cancelOrder |-> handleCancelOrderRequest]

\* ServeHTTP
Route ==
  /\ At("route")
  /\ LET routes == Routes(http.path)
     IN  \/ (~http.known \/ DOMAIN routes = {}) /\ NotFound /\ UNCHANGED op
         \/ /\ http.known
            /\ \E o \in DOMAIN routes :
                 \/ routes[o] = http.verb /\ op' = o /\ todo' = Handle[o] /\ UNCHANGED resp
                 \/ routes[o] # http.verb /\ NotAllowed(http.verb) /\ UNCHANGED op
  /\ UNCHANGED <<http, id, request, called, outcome, order>>

\* decodeGetOrderParams and its like: an empty segment is no UUID either.
DecodeParams ==
  /\ At("params")
  /\ \/ http.path[1] \in OrderIds /\ id' = http.path[1] /\ Pass
     \/ http.path[1] \notin OrderIds /\ ErrorHandler(400) /\ UNCHANGED id
  /\ UNCHANGED <<http, op, request, called, outcome, order>>

-----------------------------------------------------------------------------
decodeCreateOrderRequest(members) == Decode(CreateOrderRequest, members)

\* What is decoded is validated too.
decodePayOrderRequest(members) ==
  LET decoded == Decode(PayOrderRequest, members)
  IN  IF decoded # Nothing /\ ValidPayOrderRequest(decoded) THEN decoded ELSE Nothing

DecodeBody ==
  /\ At("body")
  /\ LET decoded == IF http.ctype # "json" \/ http.body # "object" THEN Nothing
                     ELSE IF op = "createOrder" THEN decodeCreateOrderRequest(http.members)
                     ELSE decodePayOrderRequest(http.members)
     IN  \/ /\ decoded = Nothing
            /\ ErrorHandler(IF http.ctype = "other" THEN 415 ELSE 400)
            /\ UNCHANGED request
         \/ decoded # Nothing /\ request' = decoded /\ Pass
  /\ UNCHANGED <<http, op, id, called, outcome, order>>

-----------------------------------------------------------------------------
\* What the handler passes to its service method.
Input ==
  CASE op = "createOrder" -> [name \in Required \cup Optional |-> FromOptNil(request[name])]
    [] op = "payOrder" -> request.payment_method
    [] OTHER -> Nothing

\* The handler calls its service method, which returns one of its outcomes.
CallService ==
  /\ At("service")
  /\ called' = [op |-> op, id |-> id, input |-> Input]
  /\ outcome' \in Outcomes(op)
  /\ IF outcome' = "ok" THEN order' \in Returned(called') ELSE order' = Nothing
  /\ Pass
  /\ UNCHANGED <<http, op, id, request>>

Result(type, value) == [type |-> type, value |-> value]
\* The text of the message is that of the error.
Problem(type, code) == Result(type, [code |-> code, message |-> outcome])
Failed == Result("error", Nothing)

\* Mutation: the transaction of a paid order is forgotten.
ToOrderDtoUnpaid ==
  [name \in DOMAIN order |->
     IF name = "transaction_uuid" THEN Unset
     ELSE IF name \in Optional \cup {"payment_method"} THEN ToOptNil(order[name])
     ELSE order[name]]

ToOrderDto ==
  [name \in DOMAIN order |->
     IF name \in OptNilNames(OrderDto) THEN ToOptNil(order[name]) ELSE order[name]]

\* What each method of Handler returns: a typed result, or nothing and the error.
GetOrder ==
  CASE outcome = "ok" -> Result("OrderDto", ToOrderDto)
    [] outcome = "ErrOrderNotFound" -> Problem("GetOrderNotFound", 404)
    [] OTHER -> Failed

CreateOrder ==
  CASE outcome = "ok" ->
         Result("CreateOrderResponse",
                [order_uuid |-> order.order_uuid, total_price |-> order.total_price])
    [] outcome = "ErrComponentNotFound" -> Problem("CreateOrderNotFound", 404)
    [] outcome = "ErrComponentOutOfStock" -> Problem("CreateOrderConflict", 409)
    [] OTHER -> Failed

PayOrder ==
  CASE outcome = "ok" ->
         Result("PayOrderResponse", [transaction_uuid |-> order.transaction_uuid])
    [] outcome = "ErrOrderNotFound" -> Problem("PayOrderNotFound", 404)
    [] outcome = "ErrOrderAlreadyFinal" -> Problem("PayOrderConflict", 409)
    [] OTHER -> Failed

\* Mutation: the handler knows no conflict.
CancelOrderNoConflict ==
  CASE outcome = "ok" -> Result("CancelOrderResponse", <<>>)
    [] outcome = "ErrOrderNotFound" -> Problem("CancelOrderNotFound", 404)
    [] OTHER -> Failed

CancelOrder ==
  CASE outcome = "ok" -> Result("CancelOrderResponse", <<>>)
    [] outcome = "ErrOrderNotFound" -> Problem("CancelOrderNotFound", 404)
    [] outcome = "ErrOrderAlreadyFinal" -> Problem("CancelOrderConflict", 409)
    [] OTHER -> Failed

\* The statuses the encoders write, by the type of the result.
encodeCancelOrderResponse ==
  [CancelOrderResponse |-> 200, CancelOrderBadRequest |-> 400, CancelOrderNotFound |-> 404,
   CancelOrderConflict |-> 409, CancelOrderInternalServerError |-> 500]

encodeCreateOrderResponse ==
  [CreateOrderResponse |-> 201, CreateOrderBadRequest |-> 400, CreateOrderNotFound |-> 404,
   CreateOrderConflict |-> 409, CreateOrderInternalServerError |-> 500]

encodeGetOrderResponse ==
  [OrderDto |-> 200, GetOrderBadRequest |-> 400, GetOrderNotFound |-> 404,
   GetOrderInternalServerError |-> 500]

encodePayOrderResponse ==
  [PayOrderResponse |-> 200, PayOrderBadRequest |-> 400, PayOrderNotFound |-> 404,
   PayOrderConflict |-> 409, PayOrderInternalServerError |-> 500]

\* What is left of a handle...Request when the service method has returned.
Finish(result, statuses, types) ==
  \/ result = Failed /\ ErrorHandler(500)
  \/ /\ result # Failed
     /\ Respond(statuses[result.type], "json", Encode(types[result.type], result.value))

HandlerResponse ==
  /\ At("respond")
  /\ \/ op = "createOrder" /\ Finish(CreateOrder, encodeCreateOrderResponse, CreateOrderRes)
     \/ op = "getOrder" /\ Finish(GetOrder, encodeGetOrderResponse, GetOrderRes)
     \/ op = "payOrder" /\ Finish(PayOrder, encodePayOrderResponse, PayOrderRes)
     \/ op = "cancelOrder" /\ Finish(CancelOrder, encodeCancelOrderResponse, CancelOrderRes)
  /\ UNCHANGED <<http, op, id, request, called, outcome, order>>

Answered == Done /\ UNCHANGED vars

Serve == Route \/ DecodeParams \/ DecodeBody \/ CallService \/ HandlerResponse

Next == Serve \/ Answered

Spec == Init /\ [][Next]_vars
=============================================================================
