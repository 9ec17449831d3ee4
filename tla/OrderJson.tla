----------------------------- MODULE OrderJson -----------------------------
(***************************************************************************)
(* The JSON codecs ogen generated for the types of the orders API: which   *)
(* members a type has, how it is written and what is accepted when it is   *)
(* read, and the validators behind the codecs.                             *)
(***************************************************************************)
EXTENDS Integers, Sequences, SequencesExt, OrderMethods

CONSTANTS PartIds,    \* UUIDs of parts, in any spelling that parses
          Unset,      \* an optional member that was left out; Null is JSON null
          Garbage,    \* a string that is no UUID, time, method, status or error
          Nothing,    \* no value: not decoded, not called, not returned
          Rfc3339     \* [Times -> Times]: a time as its text has it, in seconds

Statuses == {"PENDING_PAYMENT", "PAID", "CANCELLED"}
Uuids == PartIds \cup OrderIds \cup Txs

\* The texts of the named errors.
Messages ==
  {"ErrOrderNotFound", "ErrOrderAlreadyFinal", "ErrComponentNotFound", "ErrComponentOutOfStock"}

\* The strings the codecs tell apart; Garbage stands for every other.
Texts == Uuids \cup Times \cup PaymentMethods \cup Statuses \cup Messages \cup {Garbage}

\* A struct is a function from the JSON names of its fields to their values; an
\* object is the sequence of its <<name, value>> members, in the order of the
\* text.  A JSON value is one of
Str(s) == <<"string", s>>
Num(n) == <<"number", n>>
JsonNull == <<"null">>     \* or any other value of a type no member has
Jsons == {JsonNull} \cup {"string"} \X Texts \cup {"number"} \X Int

-----------------------------------------------------------------------------
\* The types, as their members and the type of each.
CreateOrderRequest == <<<<"hull_uuid", "uuid">>, <<"engine_uuid", "uuid">>,
                        <<"shield_uuid", "OptNilUUID">>, <<"weapon_uuid", "OptNilUUID">>>>

CreateOrderResponse == <<<<"order_uuid", "uuid">>, <<"total_price", "int">>>>

Error == <<<<"code", "int">>, <<"message", "string">>>>

OrderDto ==
  <<<<"order_uuid", "uuid">>, <<"hull_uuid", "uuid">>, <<"engine_uuid", "uuid">>,
    <<"shield_uuid", "OptNilUUID">>, <<"weapon_uuid", "OptNilUUID">>,
    <<"total_price", "int">>, <<"transaction_uuid", "OptNilUUID">>,
    <<"payment_method", "OptNilPaymentMethod">>, <<"status", "OrderStatus">>,
    <<"created_at", "time">>>>

PayOrderRequest == <<<<"payment_method", "PaymentMethod">>>>

PayOrderResponse == <<<<"transaction_uuid", "uuid">>>>

CancelOrderResponse == <<>>

\* The response types of each operation: its result, and Error under the name
\* of each status the operation documents.
CancelOrderRes ==
  [CancelOrderResponse |-> CancelOrderResponse,
   CancelOrderBadRequest |-> Error, CancelOrderNotFound |-> Error,
   CancelOrderConflict |-> Error, CancelOrderInternalServerError |-> Error]

CreateOrderRes ==
  [CreateOrderResponse |-> CreateOrderResponse,
   CreateOrderBadRequest |-> Error, CreateOrderNotFound |-> Error,
   CreateOrderConflict |-> Error, CreateOrderInternalServerError |-> Error]

GetOrderRes ==
  [OrderDto |-> OrderDto, GetOrderBadRequest |-> Error, GetOrderNotFound |-> Error,
   GetOrderInternalServerError |-> Error]

PayOrderRes ==
  [PayOrderResponse |-> PayOrderResponse,
   PayOrderBadRequest |-> Error, PayOrderNotFound |-> Error,
   PayOrderConflict |-> Error, PayOrderInternalServerError |-> Error]

-----------------------------------------------------------------------------
OptNil == {"OptNilUUID", "OptNilPaymentMethod"}

Types == {CreateOrderRequest, CreateOrderResponse, Error, OrderDto, PayOrderRequest,
          PayOrderResponse, CancelOrderResponse}

Names(type) == {type[i][1] : i \in DOMAIN type}
OptNilNames(type) == {type[i][1] : i \in {j \in DOMAIN type : type[j][2] \in OptNil}}
KindOf(type, name) == (CHOOSE member \in ToSet(type) : member[1] = name)[2]

\* The objects of the API: "other" stands for every name no type has.
Keys == {"error_message", "other"} \cup UNION {Names(type) : type \in Types}
Objects == Seq(Keys \X Jsons)

\* The values Decode of a member's type accepts.  An enumeration takes every
\* string: its Validate refuses those it does not know.
Accepts(kind, json) ==
  IF json = JsonNull THEN kind \in OptNil
  ELSE CASE kind = "int" -> json[1] = "number"
         [] kind \in {"uuid", "OptNilUUID"} -> json[1] = "string" /\ json[2] \in Uuids
         [] kind = "time" -> json[1] = "string" /\ json[2] \in Times
         [] OTHER -> json[1] = "string"

\* Encode of a member's type.
ToJson(kind, value) ==
  IF value = Null THEN JsonNull
  ELSE CASE kind = "int" -> Num(value)
         [] kind = "time" -> Str(Rfc3339[value])
         [] OTHER -> Str(value)

\* One field of a struct: nothing is written of one that is unset.
EncodeField(struct, object, member) ==
  IF struct[member[1]] = Unset THEN object
  ELSE Append(object, <<member[1], ToJson(member[2], struct[member[1]])>>)

\* Encode of a struct: its fields in their order.
Encode(type, struct) ==
  FoldLeft(LAMBDA object, member : EncodeField(struct, object, member), <<>>, type)

\* Mutation: a name that comes again is skipped.
DecodeMemberFirst(type, struct, member) ==
  IF struct = Nothing \/ member[1] \notin Names(type) THEN struct
  ELSE IF ~Accepts(KindOf(type, member[1]), member[2]) THEN Nothing
  ELSE IF member[1] \in DOMAIN struct /\ struct[member[1]] # Unset THEN struct
  ELSE [name \in DOMAIN struct \cup {member[1]} |->
          IF name # member[1] THEN struct[name]
          ELSE IF member[2] = JsonNull THEN Null ELSE member[2][2]]

\* One member of the object: an unknown name is skipped, a name that comes again
\* replaces the value it had.
DecodeMember(type, struct, member) ==
  IF struct = Nothing \/ member[1] \notin Names(type) THEN struct
  ELSE IF Accepts(KindOf(type, member[1]), member[2])
    THEN [name \in DOMAIN struct \cup {member[1]} |->
            IF name # member[1] THEN struct[name]
            ELSE IF member[2] = JsonNull THEN Null ELSE member[2][2]]
    ELSE Nothing

\* Decode of a struct: every member must be accepted, every required one be there.
Decode(type, object) ==
  LET struct == FoldLeft(LAMBDA s, member : DecodeMember(type, s, member),
                         [name \in OptNilNames(type) |-> Unset], object)
  IN  IF struct # Nothing /\ DOMAIN struct = Names(type) THEN struct ELSE Nothing

\* The values a field may have.
Values == Texts \cup Int \cup {Null, Unset}

\* Null, Unset and Nothing are no values of any other kind.
ASSUME JsonAssumption ==
  /\ Null # Unset /\ \A value \in {Null, Unset} : value \notin Texts \cup Int
  /\ Rfc3339 \in [Times -> Times] /\ \A t \in Times : Rfc3339[Rfc3339[t]] = Rfc3339[t]
  /\ \A type \in Types : \A names \in SUBSET Names(type) : Nothing \notin [names -> Values]

-----------------------------------------------------------------------------
\* Validate of PayOrderRequest and of OrderDto; the other types have none.
ValidPayOrderRequest(request) == request.payment_method \in PaymentMethods

ValidOrderDto(dto) ==
  /\ dto.payment_method \in PaymentMethods \cup {Null, Unset}
  /\ dto.status \in Statuses

\* OptNilUUID.Get and OptNilPaymentMethod.Get, and NewOptNilUUID and its like:
\* in the service's own types an optional value is there or is null.
FromOptNil(value) == IF value = Unset THEN Null ELSE value
ToOptNil(value) == IF value = Null THEN Unset ELSE value
=============================================================================
