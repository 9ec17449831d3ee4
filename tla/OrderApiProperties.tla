------------------------- MODULE OrderApiProperties ------------------------
(***************************************************************************)
(* What the transport must keep from the service methods and tell its      *)
(* clients, stated from the OpenAPI documents.                             *)
(***************************************************************************)
EXTENDS OrderApi

-----------------------------------------------------------------------------
\* What the documents call a valid request.
Places(members, name) == {i \in DOMAIN members : members[i][1] = name}

\* The value of a name is the one the text has last.
LastValue(members, name) == members[Max(Places(members, name))][2]

IsUuid(json) == json \in {Str(u) : u \in Uuids}

ValidShip(members) ==
  /\ \A name \in Required : Places(members, name) # {}
  /\ \A i \in DOMAIN members :
       /\ members[i][1] \in Required => IsUuid(members[i][2])
       /\ members[i][1] \in Optional => IsUuid(members[i][2]) \/ members[i][2] = JsonNull

ShipMeant(members) ==
  [name \in Required \cup Optional |->
     IF Places(members, name) = {} \/ LastValue(members, name) = JsonNull
       THEN Null ELSE LastValue(members, name)[2]]

ValidMethod(members) ==
  /\ Places(members, "payment_method") # {}
  /\ \A i \in Places(members, "payment_method") : members[i][2][1] = "string"
  /\ LastValue(members, "payment_method") \in {Str(m) : m \in PaymentMethods}

HasBody == http.ctype = "json" /\ http.body = "object"

\* The request is a valid one for operation o.
Valid(o) ==
  CASE o = "createOrder" ->
         http.verb = "POST" /\ http.path = <<>> /\ HasBody /\ ValidShip(http.members)
    [] o = "getOrder" -> http.verb = "GET" /\ \E i \in OrderIds : http.path = <<i>>
    [] o = "payOrder" ->
         /\ http.verb = "POST" /\ \E i \in OrderIds : http.path = <<i, "pay">>
         /\ HasBody /\ ValidMethod(http.members)
    [] o = "cancelOrder" ->
         http.verb = "POST" /\ \E i \in OrderIds : http.path = <<i, "cancel">>

\* The call of its service method that a valid request for o stands for.
Meant(o) ==
  [op |-> o,
   id |-> IF o = "createOrder" THEN Nothing ELSE http.path[1],
   input |-> CASE o = "createOrder" -> ShipMeant(http.members)
               [] o = "payOrder" -> LastValue(http.members, "payment_method")[2]
               [] OTHER -> Nothing]

\* A service method is called for exactly the requests that are valid, and with
\* what they mean: repeated and unknown names, null and omitted components,
\* paths that almost match included; and nothing is decoded that is not of its type
\* (oas_router_gen.go:37, handler.go:96).
CalledIffValid ==
  /\ TypeOK
  /\ called # Nothing => http.known /\ Valid(called.op) /\ called = Meant(called.op)
  /\ Done /\ http.known /\ (\E o \in Ops : Valid(o)) => called # Nothing

\* The error mapping of docs/architecture.md:171-177, in both directions.  The status
\* and the content type of an answer tell a client whether a method ran, and what came
\* of it: a 404 is the method's own when it is JSON, and the router's when it is text
\* (api/handler.go:78-185, oas_cfg_gen.go:86).
MappedAsDocumented ==
  Done =>
    /\ (resp.status \in {200, 201}) <=> (outcome = "ok")
    /\ (resp.status = 409) <=> (outcome \in {"ErrOrderAlreadyFinal", "ErrComponentOutOfStock"})
    /\ (resp.status = 500) <=> (outcome = "failed")
    /\ (resp.status = 404 /\ resp.ctype = "json") <=>
         (outcome \in {"ErrOrderNotFound", "ErrComponentNotFound"})
    /\ (resp.status \in {204, 400, 405, 415} \/ (resp.status = 404 /\ resp.ctype = "text")) <=>
         (called = Nothing)

\* "The error schema is the same everywhere (Error)": an operation that fails
\* answers with it (shared/api/order/v1/components/responses/bad_request.yaml:3).
OneErrorSchema ==
  Done /\ op # Nothing /\ resp.status >= 400 => Decode(Error, resp.body) # Nothing
=============================================================================
