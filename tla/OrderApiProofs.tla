--------------------------- MODULE OrderApiProofs --------------------------
(***************************************************************************)
(* What the transport promises, for every request and any sets of UUIDs.   *)
(* The decoder of a struct folds over the members of an object; by         *)
(* induction on their number it keeps, of every name, the value the text   *)
(* has last, and nothing once a member is not accepted.                    *)
(***************************************************************************)
EXTENDS OrderApiProperties, FoldLemmas, SequenceTheorems

-----------------------------------------------------------------------------
Structs(type) == UNION {[names -> Values] : names \in SUBSET Names(type)}

\* What the decoder makes of a value it accepts.
Read(json) == IF json = JsonNull THEN Null ELSE json[2]

\* Member i of the object is one the type does not allow.
Refused(type, object, i) ==
  object[i][1] \in Names(type) /\ ~Accepts(KindOf(type, object[i][1]), object[i][2])

Before(object, n, name) == {i \in 1 .. n : object[i][1] = name}

\* What the first n members of the object leave of a struct.
Partly(type, object, n) ==
  IF \E i \in 1 .. n : Refused(type, object, i) THEN Nothing
  ELSE [name \in OptNilNames(type) \cup {m \in Names(type) : Before(object, n, m) # {}} |->
          IF Before(object, n, name) = {} THEN Unset
          ELSE Read(object[Max(Before(object, n, name))][2])]

(* The members of each generated type, in struct order. *)
LEMMA TypeMembers ==
  /\ ToSet(CreateOrderRequest) =
       {<<"hull_uuid", "uuid">>, <<"engine_uuid", "uuid">>,
        <<"shield_uuid", "OptNilUUID">>, <<"weapon_uuid", "OptNilUUID">>}
  /\ ToSet(CreateOrderResponse) = {<<"order_uuid", "uuid">>, <<"total_price", "int">>}
  /\ ToSet(Error) = {<<"code", "int">>, <<"message", "string">>}
  /\ ToSet(OrderDto) =
       {<<"order_uuid", "uuid">>, <<"hull_uuid", "uuid">>, <<"engine_uuid", "uuid">>,
        <<"shield_uuid", "OptNilUUID">>, <<"weapon_uuid", "OptNilUUID">>,
        <<"total_price", "int">>, <<"transaction_uuid", "OptNilUUID">>,
        <<"payment_method", "OptNilPaymentMethod">>, <<"status", "OrderStatus">>,
        <<"created_at", "time">>}
  /\ ToSet(PayOrderRequest) = {<<"payment_method", "PaymentMethod">>}
  /\ ToSet(PayOrderResponse) = {<<"transaction_uuid", "uuid">>}
  /\ ToSet(CancelOrderResponse) = {}
<1>. USE DEF ToSet
<1>1. ToSet(CreateOrderRequest) = {CreateOrderRequest[i] : i \in 1 .. 4}
  BY DEF CreateOrderRequest
<1>2. ToSet(CreateOrderResponse) = {CreateOrderResponse[i] : i \in 1 .. 2}
  BY DEF CreateOrderResponse
<1>3. ToSet(Error) = {Error[i] : i \in 1 .. 2}
  BY DEF Error
<1>4. ToSet(OrderDto) = {OrderDto[i] : i \in 1 .. 10}
  BY DEF OrderDto
<1>5. ToSet(PayOrderRequest) = {PayOrderRequest[i] : i \in 1 .. 1}
  BY DEF PayOrderRequest
<1>6. ToSet(PayOrderResponse) = {PayOrderResponse[i] : i \in 1 .. 1}
  BY DEF PayOrderResponse
<1>7. ToSet(CancelOrderResponse) = {}
  BY DEF CancelOrderResponse
<1>8. /\ \A i : i \in 1 .. 1 <=> i = 1
      /\ \A i : i \in 1 .. 2 <=> i = 1 \/ i = 2
      /\ \A i : i \in 1 .. 4 <=> i = 1 \/ i = 2 \/ i = 3 \/ i = 4
      /\ \A i : i \in 1 .. 10 <=> i = 1 \/ i = 2 \/ i = 3 \/ i = 4 \/ i = 5
                               \/ i = 6 \/ i = 7 \/ i = 8 \/ i = 9 \/ i = 10
  OBVIOUS
<1>9. /\ CreateOrderRequest[1] = <<"hull_uuid", "uuid">>
      /\ CreateOrderRequest[2] = <<"engine_uuid", "uuid">>
      /\ CreateOrderRequest[3] = <<"shield_uuid", "OptNilUUID">>
      /\ CreateOrderRequest[4] = <<"weapon_uuid", "OptNilUUID">>
  BY DEF CreateOrderRequest
<1>10. /\ OrderDto[1] = <<"order_uuid", "uuid">> /\ OrderDto[2] = <<"hull_uuid", "uuid">>
       /\ OrderDto[3] = <<"engine_uuid", "uuid">> /\ OrderDto[4] = <<"shield_uuid", "OptNilUUID">>
       /\ OrderDto[5] = <<"weapon_uuid", "OptNilUUID">> /\ OrderDto[6] = <<"total_price", "int">>
       /\ OrderDto[7] = <<"transaction_uuid", "OptNilUUID">>
       /\ OrderDto[8] = <<"payment_method", "OptNilPaymentMethod">>
       /\ OrderDto[9] = <<"status", "OrderStatus">> /\ OrderDto[10] = <<"created_at", "time">>
  BY DEF OrderDto
<1>11. /\ CreateOrderResponse[1] = <<"order_uuid", "uuid">>
       /\ CreateOrderResponse[2] = <<"total_price", "int">>
       /\ Error[1] = <<"code", "int">> /\ Error[2] = <<"message", "string">>
       /\ PayOrderRequest[1] = <<"payment_method", "PaymentMethod">>
       /\ PayOrderResponse[1] = <<"transaction_uuid", "uuid">>
  BY DEF CreateOrderResponse, Error, PayOrderRequest, PayOrderResponse
<1>. HIDE DEF ToSet
<1>12. ToSet(CreateOrderRequest)
         = {CreateOrderRequest[1], CreateOrderRequest[2], CreateOrderRequest[3],
            CreateOrderRequest[4]}
  BY <1>1, <1>8
<1>13. ToSet(OrderDto)
         = {OrderDto[1], OrderDto[2], OrderDto[3], OrderDto[4], OrderDto[5], OrderDto[6],
            OrderDto[7], OrderDto[8], OrderDto[9], OrderDto[10]}
  BY <1>4, <1>8
<1>14. /\ ToSet(CreateOrderResponse) = {CreateOrderResponse[1], CreateOrderResponse[2]}
       /\ ToSet(Error) = {Error[1], Error[2]}
       /\ ToSet(PayOrderRequest) = {PayOrderRequest[1]}
       /\ ToSet(PayOrderResponse) = {PayOrderResponse[1]}
  BY <1>2, <1>3, <1>5, <1>6, <1>8
<1>. QED  BY <1>7, <1>9, <1>10, <1>11, <1>12, <1>13, <1>14

(* A type names each of its members once. *)
LEMMA OneKind ==
  ASSUME NEW type \in Types, NEW m \in ToSet(type)
  PROVE  /\ m = <<m[1], m[2]>> /\ m[1] \in Names(type) /\ KindOf(type, m[1]) = m[2]
         /\ m[1] \in OptNilNames(type) <=> m[2] \in OptNil
         /\ \A k \in ToSet(type) : k[1] = m[1] => k = m
<1>1. \A k \in ToSet(type) : k[1] = m[1] => k = m
  <2>1. CASE type = OrderDto
    BY <2>1, TypeMembers
  <2>2. CASE type # OrderDto
    BY <2>2, TypeMembers DEF Types
  <2>. QED  BY <2>1, <2>2
<1>2. m = <<m[1], m[2]>>
  BY TypeMembers DEF Types
<1>3. KindOf(type, m[1]) = m[2]
  BY <1>1 DEF KindOf
<1>4. \E i \in DOMAIN type : type[i] = m
  BY DEF ToSet
<1>5. \A i \in DOMAIN type : type[i] \in ToSet(type)
  BY DEF ToSet
<1>. QED  BY <1>1, <1>2, <1>3, <1>4, <1>5 DEF Names, OptNilNames

(* Every name of a type is that of a member. *)
LEMMA NameOfMember ==
  ASSUME NEW type, NEW name \in Names(type)
  PROVE  \E m \in ToSet(type) : m[1] = name
BY DEF Names, ToSet

(* The names of each type, and those that may be left out. *)
LEMMA TypeNames ==
  /\ Names(CreateOrderRequest) = Required \cup Optional
  /\ OptNilNames(CreateOrderRequest) = Optional
  /\ Names(PayOrderRequest) = {"payment_method"} /\ OptNilNames(PayOrderRequest) = {}
  /\ Names(CreateOrderResponse) = {"order_uuid", "total_price"}
  /\ Names(Error) = {"code", "message"} /\ OptNilNames(Error) = {}
  /\ Names(OrderDto) = {"order_uuid", "total_price", "transaction_uuid", "payment_method",
                        "status", "created_at"} \cup Required \cup Optional
  /\ OptNilNames(OrderDto) = Optional \cup {"transaction_uuid", "payment_method"}
  /\ Names(PayOrderResponse) = {"transaction_uuid"}
  /\ Names(CancelOrderResponse) = {}
<1>1. ASSUME NEW type PROVE Names(type) = {m[1] : m \in ToSet(type)}
  BY DEF Names, ToSet
<1>2. ASSUME NEW type
      PROVE  OptNilNames(type) = {m[1] : m \in {k \in ToSet(type) : k[2] \in OptNil}}
  BY DEF OptNilNames, ToSet
<1>. USE DEF OptNil, Required, Optional
<1>3. Names(CreateOrderRequest) = {m[1] : m \in ToSet(CreateOrderRequest)}
      /\ OptNilNames(CreateOrderRequest)
           = {m[1] : m \in {k \in ToSet(CreateOrderRequest) : k[2] \in OptNil}}
  BY <1>1, <1>2
<1>4. Names(CreateOrderRequest) = Required \cup Optional
      /\ OptNilNames(CreateOrderRequest) = Optional
  BY <1>3, TypeMembers
<1>5. Names(PayOrderRequest) = {m[1] : m \in ToSet(PayOrderRequest)}
      /\ OptNilNames(PayOrderRequest)
           = {m[1] : m \in {k \in ToSet(PayOrderRequest) : k[2] \in OptNil}}
  BY <1>1, <1>2
<1>6. Names(PayOrderRequest) = {"payment_method"} /\ OptNilNames(PayOrderRequest) = {}
  BY <1>5, TypeMembers
<1>7. Names(Error) = {m[1] : m \in ToSet(Error)}
      /\ OptNilNames(Error) = {m[1] : m \in {k \in ToSet(Error) : k[2] \in OptNil}}
  BY <1>1, <1>2
<1>8. Names(Error) = {"code", "message"} /\ OptNilNames(Error) = {}
  BY <1>7, TypeMembers
<1>9. Names(OrderDto) = {m[1] : m \in ToSet(OrderDto)}
      /\ OptNilNames(OrderDto) = {m[1] : m \in {k \in ToSet(OrderDto) : k[2] \in OptNil}}
  BY <1>1, <1>2
<1>10. Names(OrderDto) = {"order_uuid", "total_price", "transaction_uuid", "payment_method",
                          "status", "created_at"} \cup Required \cup Optional
  BY <1>9, TypeMembers
<1>11. OptNilNames(OrderDto) = Optional \cup {"transaction_uuid", "payment_method"}
  <2>. DEFINE members == {k \in ToSet(OrderDto) : k[2] \in OptNil}
  <2>1. members
          = {<<"shield_uuid", "OptNilUUID">>, <<"weapon_uuid", "OptNilUUID">>,
             <<"transaction_uuid", "OptNilUUID">>,
             <<"payment_method", "OptNilPaymentMethod">>}
    BY TypeMembers
  <2>2. OptNilNames(OrderDto) = {m[1] : m \in members}
    BY <1>9
  <2>. HIDE DEF members
  <2>. QED  BY <2>1, <2>2
<1>12. /\ Names(CreateOrderResponse) = {m[1] : m \in ToSet(CreateOrderResponse)}
       /\ Names(PayOrderResponse) = {m[1] : m \in ToSet(PayOrderResponse)}
       /\ Names(CancelOrderResponse) = {m[1] : m \in ToSet(CancelOrderResponse)}
  BY <1>1
<1>13. /\ Names(CreateOrderResponse) = {"order_uuid", "total_price"}
       /\ Names(PayOrderResponse) = {"transaction_uuid"}
       /\ Names(CancelOrderResponse) = {}
  BY <1>12, TypeMembers
<1>. QED  BY <1>4, <1>6, <1>8, <1>10, <1>11, <1>13

(* The kind each member of a request is decoded as. *)
LEMMA TypeKinds ==
  /\ \A name \in Required : KindOf(CreateOrderRequest, name) = "uuid"
  /\ \A name \in Optional : KindOf(CreateOrderRequest, name) = "OptNilUUID"
  /\ KindOf(PayOrderRequest, "payment_method") = "PaymentMethod"
<1>1. CreateOrderRequest \in Types /\ PayOrderRequest \in Types
  BY DEF Types
<1>2. ASSUME NEW type \in Types, NEW name, NEW kind, <<name, kind>> \in ToSet(type)
      PROVE  KindOf(type, name) = kind
  <2>1. <<name, kind>>[1] = name /\ <<name, kind>>[2] = kind
    OBVIOUS
  <2>2. KindOf(type, <<name, kind>>[1]) = <<name, kind>>[2]
    BY <1>2, OneKind
  <2>. QED  BY <2>1, <2>2
<1>3. /\ \A name \in Required : <<name, "uuid">> \in ToSet(CreateOrderRequest)
      /\ \A name \in Optional : <<name, "OptNilUUID">> \in ToSet(CreateOrderRequest)
      /\ <<"payment_method", "PaymentMethod">> \in ToSet(PayOrderRequest)
  BY TypeMembers DEF Required, Optional
<1>. QED  BY <1>1, <1>2, <1>3

\* A place of the object is one of a name and a JSON value.
LEMMA Member ==
  ASSUME NEW object \in Objects, NEW i \in DOMAIN object
  PROVE  /\ object[i] \in Keys \X Jsons
         /\ object[i][1] \in Keys /\ object[i][2] \in Jsons /\ Read(object[i][2]) \in Values
<1>1. object[i] \in Keys \X Jsons /\ object[i][1] \in Keys /\ object[i][2] \in Jsons
  BY DEF Objects
<1>2. ASSUME NEW json \in Jsons PROVE Read(json) \in Values
  BY DEF Jsons, Read, Values
<1>. QED  BY <1>1, <1>2

(* What is read of a body's first members is a struct of the type. *)
LEMMA PartlyTyped ==
  ASSUME NEW type \in Types, NEW object \in Objects,
         NEW n \in Nat, n <= Len(object), \A i \in 1 .. n : ~Refused(type, object, i)
  PROVE  /\ Partly(type, object, n) \in Structs(type)
         /\ Partly(type, object, n) # Nothing
<1>. DEFINE names == OptNilNames(type) \cup {m \in Names(type) : Before(object, n, m) # {}}
            value(name) == IF Before(object, n, name) = {} THEN Unset
                           ELSE Read(object[Max(Before(object, n, name))][2])
<1>1. names \in SUBSET Names(type)
  BY DEF OptNilNames, Names
<1>2. ASSUME NEW name PROVE value(name) \in Values
  <2>1. Unset \in Values
    BY DEF Values
  <2>2. ASSUME Before(object, n, name) # {}
        PROVE  Read(object[Max(Before(object, n, name))][2]) \in Values
    <3>1. Before(object, n, name) \in SUBSET (1 .. n)
      BY DEF Before
    <3>2. Max(Before(object, n, name)) \in 1 .. n
      BY <2>2, <3>1, MaxAmong
    <3>3. Max(Before(object, n, name)) \in DOMAIN object
      BY <3>2
    <3>. QED  BY <3>3, Member
  <2>. QED  BY <2>1, <2>2
<1>. HIDE DEF names, value
<1>3. [name \in names |-> value(name)] \in [names -> Values]
  BY <1>2
<1>4. Partly(type, object, n) = [name \in names |-> value(name)]
  BY DEF Partly, names, value
<1>5. Nothing \notin [names -> Values]
  BY <1>1, JsonAssumption
<1>. QED  BY <1>1, <1>3, <1>4, <1>5 DEF Structs

\* One more member.
LEMMA DecodeStep ==
  ASSUME NEW type \in Types, NEW object \in Objects, NEW n \in Nat,
         n + 1 \in DOMAIN object
  PROVE  DecodeMember(type, Partly(type, object, n), object[n + 1])
           = Partly(type, object, n + 1)
<1>. DEFINE struct == Partly(type, object, n)
            name == object[n + 1][1]
            json == object[n + 1][2]
<1>1. n <= Len(object) /\ n + 1 \in 1 .. Len(object)
  OBVIOUS
<1>2. \A i : i \in 1 .. n + 1 <=> i \in 1 .. n \/ i = n + 1
  OBVIOUS
<1>3. CASE \E i \in 1 .. n : Refused(type, object, i)
  <2>1. struct = Nothing /\ Partly(type, object, n + 1) = Nothing
    BY <1>2, <1>3 DEF Partly
  <2>. QED  BY <2>1 DEF DecodeMember
<1>4. CASE (\A i \in 1 .. n : ~Refused(type, object, i)) /\ Refused(type, object, n + 1)
  <2>1. Partly(type, object, n + 1) = Nothing
    BY <1>2, <1>4 DEF Partly
  <2>. QED  BY <1>4, <2>1 DEF DecodeMember, Refused
<1>5. CASE \A i \in 1 .. n + 1 : ~Refused(type, object, i)
  <2>1. struct # Nothing
    BY <1>1, <1>2, <1>5, PartlyTyped
  <2>2. \A m : m # name => Before(object, n + 1, m) = Before(object, n, m)
    BY <1>2 DEF Before
  <2>3. Max(Before(object, n + 1, name)) = n + 1 /\ Before(object, n + 1, name) # {}
    <3>1. n + 1 \in Before(object, n + 1, name)
      BY <1>2 DEF Before
    <3>2. Before(object, n + 1, name) \subseteq Int
          /\ \A i \in Before(object, n + 1, name) : i <= n + 1
      BY DEF Before
    <3>. QED  BY <3>1, <3>2, MaxOf
  <2>. DEFINE all == OptNilNames(type)
              names(k) == all \cup {m \in Names(type) : Before(object, k, m) # {}}
              value(k, m) == IF Before(object, k, m) = {} THEN Unset
                             ELSE Read(object[Max(Before(object, k, m))][2])
  <2>4. /\ struct = [m \in names(n) |-> value(n, m)]
        /\ Partly(type, object, n + 1) = [m \in names(n + 1) |-> value(n + 1, m)]
    BY <1>2, <1>5 DEF Partly
  <2>5. \A m : m # name => value(n + 1, m) = value(n, m)
    BY <2>2
  <2>6. value(n + 1, name) = Read(json)
    BY <2>3
  <2>7. CASE name \notin Names(type)
    <3>1. DecodeMember(type, struct, object[n + 1]) = struct
      BY <2>7 DEF DecodeMember
    <3>2. names(n + 1) = names(n) /\ name \notin names(n)
      BY <2>2, <2>7 DEF OptNilNames, Names
    <3>3. Partly(type, object, n + 1) = struct
      <4>. HIDE DEF names, value, struct, name
      <4>. QED  BY <2>4, <2>5, <3>2
    <3>. QED  BY <3>1, <3>3
  <2>8. CASE name \in Names(type)
    <3>1. Accepts(KindOf(type, name), json)
      BY <1>2, <1>5, <2>8 DEF Refused
    <3>2. names(n + 1) = names(n) \cup {name}
      BY <2>2, <2>3, <2>8
    <3>3. DOMAIN struct = names(n)
      BY <2>4
    <3>4. DecodeMember(type, struct, object[n + 1])
            = [m \in DOMAIN struct \cup {name} |-> IF m # name THEN struct[m] ELSE Read(json)]
      <4>. HIDE DEF struct
      <4>. QED  BY <2>1, <2>8, <3>1 DEF DecodeMember, Read
    <3>5. Partly(type, object, n + 1)
            = [m \in DOMAIN struct \cup {name} |-> IF m # name THEN struct[m] ELSE Read(json)]
      <4>. HIDE DEF names, value, struct, name, json
      <4>. QED  BY <2>4, <2>5, <2>6, <3>2, <3>3
    <3>. QED  BY <3>4, <3>5
  <2>. QED  BY <2>7, <2>8
<1>. QED  BY <1>2, <1>3, <1>4, <1>5

(* Decoding a member gives a struct of the type or a refusal. *)
LEMMA DecodeClosed ==
  ASSUME NEW type, NEW struct \in Structs(type) \cup {Nothing}, NEW member \in Keys \X Jsons
  PROVE  DecodeMember(type, struct, member) \in Structs(type) \cup {Nothing}
<1>1. CASE struct = Nothing \/ member[1] \notin Names(type)
  BY <1>1 DEF DecodeMember
<1>2. CASE ~Accepts(KindOf(type, member[1]), member[2])
  BY <1>2 DEF DecodeMember
<1>3. CASE struct # Nothing /\ member[1] \in Names(type)
           /\ Accepts(KindOf(type, member[1]), member[2])
  <2>1. PICK names \in SUBSET Names(type) : struct \in [names -> Values]
    BY <1>3 DEF Structs
  <2>2. Read(member[2]) \in Values
    BY DEF Read, Values, Jsons
  <2>. DEFINE new == [name \in names \cup {member[1]} |->
                        IF name # member[1] THEN struct[name] ELSE Read(member[2])]
  <2>3. new \in [names \cup {member[1]} -> Values]
    BY <2>1, <2>2
  <2>4. DecodeMember(type, struct, member) = new
    BY <1>3, <2>1 DEF DecodeMember, Read
  <2>5. names \cup {member[1]} \in SUBSET Names(type)
    BY <1>3, <2>1
  <2>. HIDE DEF new
  <2>. QED  BY <2>3, <2>4, <2>5 DEF Structs
<1>. QED  BY <1>1, <1>2, <1>3

\* The decoder keeps of each name the value the text has last, and is content with
\* an object whose members are all accepted and whose required names are all there.
LEMMA Decoded ==
  ASSUME NEW type \in Types, NEW object \in Objects
  PROVE  LET struct == Partly(type, object, Len(object))
         IN  Decode(type, object) =
               IF struct # Nothing /\ DOMAIN struct = Names(type) THEN struct ELSE Nothing
<1>. DEFINE N == Len(object)
            S == Structs(type) \cup {Nothing}
            base == [name \in OptNilNames(type) |-> Unset]
            Folds(g) == g = [T \in SUBSET (1 .. N) |->
                               IF T = {} THEN base
                               ELSE DecodeMember(type, g[T \ {Max(T)}], object[Max(T)])]
            f == CHOOSE g : Folds(g)
            step == [x \in (1 .. N) \X S |-> DecodeMember(type, x[2], object[x[1]])]
<1>1. N \in Nat /\ DOMAIN object = 1 .. N
  OBVIOUS
<1>2. FoldLeft(LAMBDA s, member : DecodeMember(type, s, member), base, object) = f[1 .. N]
  BY <1>1 DEF FoldLeft, MapThenFoldSet
<1>3. base \in S
  <2>1. base \in [OptNilNames(type) -> Values] /\ OptNilNames(type) \in SUBSET Names(type)
    BY DEF Values, OptNilNames, Names
  <2>. QED  BY <2>1 DEF Structs
<1>4. step \in [(1 .. N) \X S -> S]
      /\ \A i \in 1 .. N, t \in S : step[<<i, t>>] = DecodeMember(type, t, object[i])
  <2>1. \A i \in 1 .. N : object[i] \in Keys \X Jsons
    BY <1>1, Member
  <2>2. ASSUME NEW x \in (1 .. N) \X S PROVE DecodeMember(type, x[2], object[x[1]]) \in S
    <3>1. x[2] \in S /\ object[x[1]] \in Keys \X Jsons
      BY <2>1
    <3>. HIDE DEF N
    <3>. QED  BY <3>1, DecodeClosed
  <2>3. \A i \in 1 .. N, t \in S : <<i, t>> \in (1 .. N) \X S
    OBVIOUS
  <2>. HIDE DEF S, N
  <2>. QED  BY <2>2, <2>3
<1>. HIDE DEF step, S, base
<1>5. Folds(f)
  <2>1. PICK g \in [SUBSET (1 .. N) -> S] : IsFold(g, N, base, step)
    BY <1>1, <1>3, <1>4, FoldExists
  <2>2. Folds(g)
    <3>1. ASSUME NEW T \in SUBSET (1 .. N), T # {}
          PROVE  g[T] = DecodeMember(type, g[T \ {Max(T)}], object[Max(T)])
      <4>1. Max(T) \in 1 .. N /\ g[T \ {Max(T)}] \in S
        BY <1>1, <3>1, MaxAmong
      <4>2. g[T] = step[<<Max(T), g[T \ {Max(T)}]>>]
        BY <2>1, <3>1 DEF IsFold
      <4>. QED  BY <1>4, <4>1, <4>2
    <3>2. g[{}] = base
      BY <2>1 DEF IsFold
    <3>. HIDE DEF N
    <3>. QED  BY <3>1, <3>2
  <2>. HIDE DEF Folds
  <2>. QED  BY <2>2
<1>. HIDE DEF f
<1>6. FoldsIn(f, N, S, base, step)
  <2>1. ASSUME NEW T \in SUBSET (1 .. N), T # {}, f[T \ {Max(T)}] \in S
        PROVE  f[T] = step[<<Max(T), f[T \ {Max(T)}]>>]
    <3>1. Max(T) \in 1 .. N
      BY <1>1, <2>1, MaxAmong
    <3>2. f[T] = DecodeMember(type, f[T \ {Max(T)}], object[Max(T)])
      BY <1>5, <2>1
    <3>. QED  BY <1>4, <2>1, <3>1, <3>2
  <2>2. f[{}] = base
    BY <1>5
  <2>. QED  BY <2>1, <2>2 DEF FoldsIn
<1>. HIDE DEF Folds
<1>7. PICK run \in [0 .. N -> S] : IsRun(run, N, base, step, f[1 .. N])
  BY <1>1, <1>3, <1>4, <1>6, FoldRuns
<1>. DEFINE Good == {n \in Nat : n <= N => run[n] = Partly(type, object, n)}
<1>8. 0 \in Good
  <2>1. \A name : Before(object, 0, name) = {}
    BY DEF Before
  <2>2. Partly(type, object, 0) = base
    BY <2>1 DEF Partly, base
  <2>. QED  BY <1>7, <2>2 DEF IsRun
<1>9. ASSUME NEW n \in Nat, n \in Good PROVE n + 1 \in Good
  <2>. SUFFICES ASSUME n + 1 <= N PROVE run[n + 1] = Partly(type, object, n + 1)
    OBVIOUS
  <2>1. n + 1 \in 1 .. N /\ (n + 1) - 1 = n /\ n \in 0 .. N
    BY <1>1
  <2>2. run[n] = Partly(type, object, n) /\ run[n] \in S
    BY <1>9, <2>1
  <2>3. run[n + 1] = DecodeMember(type, run[n], object[n + 1])
    <3>1. run[n + 1] = step[<<n + 1, run[n]>>]
      BY <1>7, <2>1 DEF IsRun
    <3>. QED  BY <1>4, <2>1, <2>2, <3>1
  <2>4. n + 1 \in DOMAIN object
    BY <1>1, <2>1
  <2>. QED  BY <2>2, <2>3, <2>4, DecodeStep
<1>10. run[N] = Partly(type, object, N)
  <2>. HIDE DEF Good
  <2>1. Nat \subseteq Good
    BY <1>8, <1>9, SetInduction
  <2>. QED  BY <1>1, <2>1 DEF Good
<1>11. FoldLeft(LAMBDA s, member : DecodeMember(type, s, member),
                [name \in OptNilNames(type) |-> Unset], object) = Partly(type, object, N)
  BY <1>2, <1>7, <1>10 DEF IsRun, base
<1>. QED  BY <1>11 DEF Decode

-----------------------------------------------------------------------------
(* A JSON value is null, a string or a number, and never two of them. *)
LEMMA JsonShapes ==
  ASSUME NEW json \in Jsons
  PROVE  /\ json = JsonNull \/ json[1] \in {"string", "number"}
         /\ JsonNull[1] \notin {"string", "number"}
         /\ json[1] = "string" => json[2] \in Texts /\ json = Str(json[2]) /\ json # JsonNull
         /\ json[1] = "number" => json # JsonNull
         /\ \A s : Str(s) # JsonNull /\ Str(s)[1] = "string" /\ Str(s)[2] = s
<1>1. JsonNull[1] = "null"
  BY DEF JsonNull
<1>2. \A s : Str(s)[1] = "string" /\ Str(s)[2] = s
  BY DEF Str
<1>3. json = JsonNull \/ json \in {"string"} \X Texts \/ json \in {"number"} \X Int
  BY DEF Jsons
<1>4. ASSUME json \in {"string"} \X Texts
      PROVE  json[1] = "string" /\ json[2] \in Texts /\ json = Str(json[2])
  BY <1>4 DEF Str
<1>5. ASSUME json \in {"number"} \X Int
      PROVE  json[1] = "number"
  BY <1>5
<1>. QED  BY <1>1, <1>2, <1>3, <1>4, <1>5

\* What the members' decoders accept of a JSON value.
LEMMA Accepted ==
  ASSUME NEW json \in Jsons
  PROVE  /\ Accepts("uuid", json) <=> IsUuid(json)
         /\ Accepts("OptNilUUID", json) <=> IsUuid(json) \/ json = JsonNull
         /\ Accepts("PaymentMethod", json) <=> json[1] = "string"
         /\ IsUuid(json) => json # JsonNull /\ json[2] \in Uuids
<1>1. IsUuid(json) <=> json[1] = "string" /\ json[2] \in Uuids
  BY JsonShapes DEF IsUuid
<1>2. IsUuid(json) => json # JsonNull
  BY JsonShapes DEF IsUuid
<1>3. Accepts("uuid", json) <=> IsUuid(json)
  BY <1>1, <1>2 DEF Accepts, OptNil
<1>4. Accepts("OptNilUUID", json) <=> IsUuid(json) \/ json = JsonNull
  BY <1>1, <1>2 DEF Accepts, OptNil
<1>5. Accepts("PaymentMethod", json) <=> json[1] = "string"
  BY JsonShapes DEF Accepts, OptNil
<1>. QED  BY <1>1, <1>2, <1>3, <1>4, <1>5

\* The decoder of CreateOrderRequest takes the valid ships, and as they are meant.
LEMMA CreateDecoded ==
  ASSUME NEW members \in Objects, NEW decoded,
         decoded = decodeCreateOrderRequest(members)
  PROVE  /\ decoded # Nothing <=> ValidShip(members)
         /\ decoded # Nothing =>
              /\ DOMAIN decoded = Required \cup Optional
              /\ \A name \in Required : decoded[name] \in Uuids
              /\ \A name \in Optional : decoded[name] \in Uuids \cup {Null, Unset}
              /\ \A name \in Required \cup Optional :
                   ShipMeant(members)[name] = FromOptNil(decoded[name])
<1>. DEFINE N == Len(members)
            type == CreateOrderRequest
            struct == Partly(type, members, N)
<1>1. N \in Nat /\ DOMAIN members = 1 .. N /\ type \in Types
  BY DEF Types
<1>2. decoded = IF struct # Nothing /\ DOMAIN struct = Names(type) THEN struct ELSE Nothing
  BY <1>1, Decoded DEF decodeCreateOrderRequest
<1>3. \A name : Before(members, N, name) = Places(members, name)
  BY <1>1 DEF Before, Places
<1>4. ASSUME NEW i \in 1 .. N
      PROVE  Refused(type, members, i) <=>
               \/ members[i][1] \in Required /\ ~IsUuid(members[i][2])
               \/ members[i][1] \in Optional /\ ~(IsUuid(members[i][2]) \/ members[i][2] = JsonNull)
  <2>1. members[i][2] \in Jsons /\ Required \cap Optional = {}
    BY <1>1, Member DEF Required, Optional
  <2>. QED  BY <2>1, Accepted, TypeNames, TypeKinds DEF Refused
<1>. HIDE DEF N, struct, type
<1>5. CASE \E i \in 1 .. N : Refused(type, members, i)
  <2>1. struct = Nothing
    BY <1>5 DEF Partly, struct
  <2>2. ~ValidShip(members)
    BY <1>1, <1>4, <1>5 DEF ValidShip
  <2>. QED  BY <1>2, <2>1, <2>2
<1>6. CASE \A i \in 1 .. N : ~Refused(type, members, i)
  <2>1. struct # Nothing
    BY <1>1, <1>6, PartlyTyped DEF struct, N
  <2>. DEFINE names == Optional \cup {m \in Required \cup Optional : Places(members, m) # {}}
              value(name) == IF Places(members, name) = {} THEN Unset
                             ELSE Read(LastValue(members, name))
  <2>2. struct = [name \in names |-> value(name)]
    BY <1>3, <1>6, TypeNames DEF Partly, struct, type, LastValue
  <2>3. Names(type) = Required \cup Optional
    BY TypeNames DEF type
  <2>4. DOMAIN struct = Names(type) <=> \A name \in Required : Places(members, name) # {}
    <3>1. Required \cap Optional = {}
      BY DEF Required, Optional
    <3>. QED  BY <2>2, <2>3, <3>1
  <2>5. ValidShip(members) <=> \A name \in Required : Places(members, name) # {}
    BY <1>1, <1>4, <1>6 DEF ValidShip
  <2>6. decoded # Nothing <=> ValidShip(members)
    BY <1>2, <2>1, <2>4, <2>5
  <2>7. ASSUME NEW name \in Required \cup Optional, Places(members, name) # {}
        PROVE  LET json == LastValue(members, name)
               IN  /\ json \in Jsons
                   /\ name \in Required => IsUuid(json)
                   /\ name \in Optional => IsUuid(json) \/ json = JsonNull
    <3>1. Places(members, name) \in SUBSET (1 .. N)
      BY <1>1 DEF Places
    <3>2. Max(Places(members, name)) \in Places(members, name)
      BY <1>1, <2>7, <3>1, MaxAmong
    <3>3. /\ Max(Places(members, name)) \in 1 .. N
          /\ members[Max(Places(members, name))][1] = name
      BY <3>1, <3>2 DEF Places
    <3>4. LastValue(members, name) \in Jsons
      BY <1>1, <3>3, Member DEF LastValue
    <3>. QED  BY <1>4, <1>6, <3>3, <3>4 DEF LastValue
  <2>8. ASSUME decoded # Nothing
        PROVE  /\ DOMAIN decoded = Required \cup Optional
               /\ \A name \in Required : decoded[name] \in Uuids
               /\ \A name \in Optional : decoded[name] \in Uuids \cup {Null, Unset}
               /\ \A name \in Required \cup Optional :
                    ShipMeant(members)[name] = FromOptNil(decoded[name])
    <3>1. decoded = struct /\ DOMAIN decoded = Required \cup Optional
      BY <1>2, <2>3, <2>8
    <3>2. \A name \in Required : Places(members, name) # {}
      BY <2>5, <2>6, <2>8
    <3>3. ASSUME NEW name \in Required \cup Optional PROVE decoded[name] = value(name)
      BY <2>2, <3>1
    <3>4. ASSUME NEW name \in Required \cup Optional, Places(members, name) # {}
          PROVE  /\ decoded[name] \in Uuids \cup {Null}
                 /\ name \in Required => decoded[name] \in Uuids
                 /\ FromOptNil(decoded[name])
                      = IF LastValue(members, name) = JsonNull THEN Null
                        ELSE LastValue(members, name)[2]
      <4>1. decoded[name] = Read(LastValue(members, name))
        BY <3>3, <3>4
      <4>2. Unset \notin Uuids \cup {Null}
        BY JsonAssumption DEF Texts
      <4>. QED  BY <2>7, <3>4, <4>1, <4>2, Accepted DEF Read, FromOptNil
    <3>5. ASSUME NEW name \in Required \cup Optional, Places(members, name) = {}
          PROVE  decoded[name] = Unset /\ FromOptNil(decoded[name]) = Null
      BY <3>3, <3>5 DEF FromOptNil
    <3>6. \A name \in Required \cup Optional :
            ShipMeant(members)[name] = FromOptNil(decoded[name])
      BY <3>4, <3>5 DEF ShipMeant
    <3>. QED  BY <3>1, <3>2, <3>4, <3>5, <3>6
  <2>. QED  BY <2>6, <2>8
<1>. QED  BY <1>5, <1>6

\* The decoder of PayOrderRequest takes the valid methods, and as they are meant.
LEMMA PayDecoded ==
  ASSUME NEW members \in Objects, NEW decoded,
         decoded = decodePayOrderRequest(members)
  PROVE  /\ decoded # Nothing <=> ValidMethod(members)
         /\ decoded # Nothing =>
              /\ decoded \in [{"payment_method"} -> PaymentMethods]
              /\ decoded.payment_method = LastValue(members, "payment_method")[2]
<1>. DEFINE N == Len(members)
            type == PayOrderRequest
            struct == Partly(type, members, N)
            places == Places(members, "payment_method")
            last == LastValue(members, "payment_method")
            read == Decode(type, members)
<1>1. N \in Nat /\ DOMAIN members = 1 .. N /\ type \in Types
  BY DEF Types
<1>2. read = IF struct # Nothing /\ DOMAIN struct = Names(type) THEN struct ELSE Nothing
  BY <1>1, Decoded
<1>3. \A name : Before(members, N, name) = Places(members, name)
  BY <1>1 DEF Before, Places
<1>4. ASSUME NEW i \in 1 .. N
      PROVE  Refused(type, members, i) <=>
               members[i][1] = "payment_method" /\ members[i][2][1] # "string"
  <2>1. members[i][2] \in Jsons
    BY <1>1, Member
  <2>. QED  BY <2>1, Accepted, TypeNames, TypeKinds DEF Refused
<1>5. decoded = IF read # Nothing /\ read.payment_method \in PaymentMethods THEN read ELSE Nothing
  BY DEF decodePayOrderRequest, ValidPayOrderRequest
<1>6. ValidMethod(members) <=>
        /\ places # {} /\ \A i \in places : members[i][2][1] = "string"
        /\ \E m \in PaymentMethods : last = Str(m)
  BY DEF ValidMethod
<1>7. ASSUME places # {} PROVE last \in Jsons /\ Max(places) \in places
  <2>1. places \in SUBSET (1 .. N)
    BY <1>1 DEF Places
  <2>2. Max(places) \in places
    BY <1>1, <1>7, <2>1, MaxAmong
  <2>3. Max(places) \in 1 .. N
    BY <2>1, <2>2
  <2>. QED  BY <1>1, <2>2, <2>3, Member DEF LastValue
<1>8. \A i \in places : i \in 1 .. N /\ members[i][1] = "payment_method"
  BY <1>1 DEF Places
<1>9. Names(type) = {"payment_method"} /\ OptNilNames(type) = {}
  BY TypeNames
<1>10. places = Before(members, N, "payment_method")
       /\ last = members[Max(places)][2]
  BY <1>3 DEF LastValue
<1>11. \A i \in 1 .. N : members[i][1] = "payment_method" => i \in places
  BY <1>1 DEF Places
<1>. HIDE DEF N, struct, type, places, last, read
<1>12. CASE \E i \in 1 .. N : Refused(type, members, i)
  <2>1. struct = Nothing
    BY <1>12 DEF Partly, struct
  <2>2. ~ValidMethod(members)
    BY <1>4, <1>6, <1>11, <1>12
  <2>. QED  BY <1>2, <1>5, <2>1, <2>2
<1>13. CASE (\A i \in 1 .. N : ~Refused(type, members, i)) /\ places = {}
  <2>1. struct = [name \in {} |-> Unset]
    BY <1>9, <1>10, <1>13 DEF Partly, struct
  <2>2. read = Nothing
    BY <1>2, <1>9, <2>1
  <2>. QED  BY <1>5, <1>6, <1>13, <2>2
<1>14. CASE (\A i \in 1 .. N : ~Refused(type, members, i)) /\ places # {}
  <2>1. struct # Nothing
    BY <1>1, <1>14, PartlyTyped DEF struct, N
  <2>2. struct = [name \in {"payment_method"} |-> Read(last)]
    BY <1>9, <1>10, <1>14 DEF Partly, struct
  <2>3. read = struct /\ read = [name \in {"payment_method"} |-> last[2]]
    <3>1. last[1] = "string" /\ last # JsonNull
      BY <1>4, <1>7, <1>8, <1>10, <1>14, JsonShapes
    <3>. QED  BY <1>2, <1>9, <2>1, <2>2, <3>1 DEF Read
  <2>4. \A i \in places : members[i][2][1] = "string"
    BY <1>4, <1>8, <1>14
  <2>5. (\E m \in PaymentMethods : last = Str(m)) <=> last[2] \in PaymentMethods
    BY <1>7, <1>10, <1>14, <2>4, JsonShapes
  <2>6. read # Nothing /\ read.payment_method = last[2]
    BY <2>1, <2>3
  <2>7. decoded # Nothing <=> ValidMethod(members)
    BY <1>5, <1>6, <1>14, <2>4, <2>5, <2>6
  <2>. QED  BY <1>5, <2>3, <2>6, <2>7 DEF last
<1>. QED  BY <1>12, <1>13, <1>14

-----------------------------------------------------------------------------
\* What holds of a request at each stage.

\* The operation of a verb and a path: what Route finds in Routes, as one function.
OperationOf(verb, path) ==
  CASE path = <<>> -> IF verb = "POST" THEN "createOrder" ELSE Nothing
    [] Len(path) = 1 -> IF verb = "GET" THEN "getOrder" ELSE Nothing
    [] Len(path) = 2 /\ verb = "POST" /\ path[2] = "pay" -> "payOrder"
    [] Len(path) = 2 /\ verb = "POST" /\ path[2] = "cancel" -> "cancelOrder"
    [] OTHER -> Nothing

NotCalled == called = Nothing /\ outcome = Nothing /\ order = Nothing

Routed == op \in Ops /\ http.known /\ OperationOf(http.verb, http.path) = op

ParamsRead ==
  IF op = "createOrder" THEN id = Nothing ELSE id = http.path[1] /\ id \in OrderIds

BodyRead ==
  CASE op = "createOrder" ->
         HasBody /\ request # Nothing /\ request = decodeCreateOrderRequest(http.members)
    [] op = "payOrder" ->
         HasBody /\ request # Nothing /\ request = decodePayOrderRequest(http.members)
    [] OTHER -> request = Nothing

Called ==
  /\ Valid(op) /\ called = Meant(op) /\ called \in Calls
  /\ op = "createOrder" => called.input \in ShipInputs
  /\ op = "payOrder" => called.input \in PaymentMethods
  /\ outcome \in Outcomes(op)
  /\ (order # Nothing) <=> (outcome = "ok")
  /\ outcome = "ok" => order \in Returned(called)

AtRoute ==
  todo = <<"route">> /\ op = Nothing /\ id = Nothing /\ request = Nothing /\ NotCalled

AtParams ==
  /\ Routed /\ op # "createOrder" /\ todo = Handle[op]
  /\ id = Nothing /\ request = Nothing /\ NotCalled

AtBody ==
  /\ todo = <<"body", "service", "respond">> /\ op \in {"createOrder", "payOrder"}
  /\ Routed /\ ParamsRead /\ request = Nothing /\ NotCalled

AtService == todo = <<"service", "respond">> /\ Routed /\ ParamsRead /\ BodyRead /\ NotCalled

AtRespond == todo = <<"respond">> /\ Routed /\ ParamsRead /\ BodyRead /\ Called

\* What is sent of a request that is refused, or of an error without a name.
Refusal == <<<<"error_message", Str(Garbage)>>>>

WasRefused ==
  /\ todo = <<>> /\ NotCalled
  /\ resp.status \in {204, 400, 404, 405, 415}
  /\ resp.status = 400 => resp.ctype = "json" /\ resp.body = Refusal
  /\ resp.status = 404 => resp.ctype = "text"
  /\ \/ op = Nothing /\ id = Nothing /\ (http.known => OperationOf(http.verb, http.path) = Nothing)
     \/ Routed /\ (id = Nothing \/ ParamsRead)
  /\ request = Nothing
  /\ http.known => \A o \in Ops : ~Valid(o)

StatusOf(o) ==
  CASE o = "ok" -> IF op = "createOrder" THEN 201 ELSE 200
    [] o \in {"ErrOrderNotFound", "ErrComponentNotFound"} -> 404
    [] o \in {"ErrOrderAlreadyFinal", "ErrComponentOutOfStock"} -> 409
    [] OTHER -> 500

\* What the handler returned, the type it is encoded as, and the body.
ResultOf ==
  CASE op = "createOrder" -> CreateOrder
    [] op = "getOrder" -> GetOrder
    [] op = "payOrder" -> PayOrder
    [] op = "cancelOrder" -> CancelOrder

SchemaOf ==
  IF outcome # "ok" THEN Error
  ELSE CASE op = "createOrder" -> CreateOrderResponse
         [] op = "getOrder" -> OrderDto
         [] op = "payOrder" -> PayOrderResponse
         [] op = "cancelOrder" -> CancelOrderResponse

BodyOf == IF outcome = "failed" THEN Refusal ELSE Encode(SchemaOf, ResultOf.value)

WasServed ==
  /\ todo = <<>> /\ Routed /\ ParamsRead /\ BodyRead /\ Called
  /\ resp.status = StatusOf(outcome) /\ resp.ctype = "json" /\ resp.body = BodyOf

ApiInv ==
  /\ IsHttp(http)
  /\ todo # <<>> => resp.status = 0
  /\ resp.ctype \in {"none", "json", "text"}
  /\ AtRoute \/ AtParams \/ AtBody \/ AtService \/ AtRespond \/ WasRefused \/ WasServed

(* The fields of an HTTP request. *)
LEMMA HttpOK ==
  ASSUME NEW h, IsHttp(h)
  PROVE  /\ h.verb \in {"GET", "POST", "OPTIONS", "DELETE"} /\ h.known \in BOOLEAN
         /\ h.path \in Seq(OrderIds \cup {Garbage, "", "pay", "cancel"})
         /\ h.ctype \in {"json", "other", "unparsable"}
         /\ h.body \in {"missing", "not json", "object"}
         /\ h.members \in Objects
BY DEF IsHttp

\* Route finds the operation of the verb and the path, if they have one.
LEMMA RoutesTo ==
  ASSUME NEW h, IsHttp(h)
  PROVE  /\ DOMAIN Routes(h.path) = {} => OperationOf(h.verb, h.path) = Nothing
         /\ \A o \in DOMAIN Routes(h.path) :
              /\ o \in Ops
              /\ Routes(h.path)[o] = h.verb => OperationOf(h.verb, h.path) = o
              /\ Routes(h.path)[o] # h.verb => OperationOf(h.verb, h.path) = Nothing
<1>1. Len(h.path) \in Nat /\ (h.path = <<>> => Len(h.path) = 0)
  <2>1. h.path \in Seq(OrderIds \cup {Garbage, "", "pay", "cancel"})
    BY HttpOK
  <2>2. ASSUME h.path = <<>> PROVE Len(h.path) = 0
    BY <2>2
  <2>3. Len(h.path) \in Nat
    BY <2>1, LenProperties
  <2>. QED  BY <2>2, <2>3
<1>2. CASE h.path = <<>>
  <2>1. Routes(h.path) = [createOrder |-> "POST"]
    BY <1>2 DEF Routes
  <2>. QED  BY <1>2, <2>1 DEF OperationOf, Ops
<1>3. CASE Len(h.path) = 1
  <2>1. Routes(h.path) = [getOrder |-> "GET"]
    BY <1>1, <1>3 DEF Routes
  <2>. QED  BY <1>1, <1>3, <2>1 DEF OperationOf, Ops
<1>4. CASE Len(h.path) = 2 /\ h.path[2] = "pay"
  <2>1. Routes(h.path) = [payOrder |-> "POST"]
    BY <1>1, <1>4 DEF Routes
  <2>. QED  BY <1>1, <1>4, <2>1 DEF OperationOf, Ops
<1>5. CASE Len(h.path) = 2 /\ h.path[2] = "cancel"
  <2>1. Routes(h.path) = [cancelOrder |-> "POST"]
    BY <1>1, <1>5 DEF Routes
  <2>. QED  BY <1>1, <1>5, <2>1 DEF OperationOf, Ops
<1>6. CASE /\ h.path # <<>> /\ Len(h.path) # 1
           /\ ~(Len(h.path) = 2 /\ h.path[2] \in {"pay", "cancel"})
  <2>1. Routes(h.path) = <<>> /\ DOMAIN <<>> = {}
    BY <1>1, <1>6 DEF Routes
  <2>. QED  BY <1>1, <1>6, <2>1 DEF OperationOf
<1>. QED  BY <1>2, <1>3, <1>4, <1>5, <1>6

\* A request that is valid for an operation is routed to it, and its first segment
\* names an order.
LEMMA ValidIsRouted ==
  ASSUME IsHttp(http), NEW o \in Ops, Valid(o)
  PROVE  /\ OperationOf(http.verb, http.path) = o
         /\ o # "createOrder" => http.path[1] \in OrderIds
<1>1. CASE o = "createOrder"
  BY <1>1 DEF Valid, OperationOf
<1>2. CASE o = "getOrder"
  <2>1. PICK i \in OrderIds : http.path = <<i>> /\ http.verb = "GET"
    BY <1>2 DEF Valid
  <2>2. Len(<<i>>) = 1 /\ <<i>>[1] = i /\ <<i>> # <<>>
    OBVIOUS
  <2>. QED  BY <1>2, <2>1, <2>2 DEF OperationOf
<1>3. CASE o = "payOrder"
  <2>1. PICK i \in OrderIds : http.path = <<i, "pay">> /\ http.verb = "POST"
    BY <1>3 DEF Valid
  <2>2. Len(<<i, "pay">>) = 2 /\ <<i, "pay">>[1] = i /\ <<i, "pay">>[2] = "pay"
        /\ <<i, "pay">> # <<>>
    OBVIOUS
  <2>. QED  BY <1>3, <2>1, <2>2 DEF OperationOf
<1>4. CASE o = "cancelOrder"
  <2>1. PICK i \in OrderIds : http.path = <<i, "cancel">> /\ http.verb = "POST"
    BY <1>4 DEF Valid
  <2>2. Len(<<i, "cancel">>) = 2 /\ <<i, "cancel">>[1] = i /\ <<i, "cancel">>[2] = "cancel"
        /\ <<i, "cancel">> # <<>>
    OBVIOUS
  <2>. QED  BY <1>4, <2>1, <2>2 DEF OperationOf
<1>. QED  BY <1>1, <1>2, <1>3, <1>4 DEF Ops

(* A path of one segment is that segment. *)
LEMMA OneSegment ==
  ASSUME NEW S, NEW path \in Seq(S), Len(path) = 1
  PROVE  path = <<path[1]>>
<1>1. path[1] \in S
  OBVIOUS
<1>2. <<path[1]>> \in Seq(S) /\ Len(<<path[1]>>) = 1 /\ <<path[1]>>[1] = path[1]
  BY <1>1
<1>3. \A i \in 1 .. Len(path) : path[i] = <<path[1]>>[i]
  BY <1>2
<1>. QED  BY <1>2, <1>3, SeqEqual

(* A path of two segments is those two. *)
LEMMA TwoSegments ==
  ASSUME NEW S, NEW path \in Seq(S), Len(path) = 2
  PROVE  path = <<path[1], path[2]>>
<1>. DEFINE pair == <<path[1], path[2]>>
<1>1. path[1] \in S /\ path[2] \in S
  OBVIOUS
<1>2. pair \in Seq(S) /\ Len(pair) = 2 /\ pair[1] = path[1] /\ pair[2] = path[2]
  BY <1>1
<1>. HIDE DEF pair
<1>3. \A i \in 1 .. 2 : i = 1 \/ i = 2
  OBVIOUS
<1>4. \A i \in 1 .. Len(path) : path[i] = pair[i]
  BY <1>2, <1>3
<1>5. path = pair
  BY <1>2, <1>4, SeqEqual
<1>. QED  BY <1>5 DEF pair

\* A request routed to an operation, with its parameter and its body read, is a
\* valid one, and the handler passes on what it means.
LEMMA ReadIsValid ==
  ASSUME IsHttp(http), Routed, ParamsRead, BodyRead
  PROVE  /\ Valid(op) /\ [op |-> op, id |-> id, input |-> Input] = Meant(op)
         /\ [op |-> op, id |-> id, input |-> Input] \in Calls
         /\ op = "createOrder" => Input \in ShipInputs
         /\ op = "payOrder" => Input \in PaymentMethods
<1>1. /\ http.path \in Seq(OrderIds \cup {Garbage, "", "pay", "cancel"})
      /\ http.members \in Objects /\ Nothing \notin Ops
  BY HttpOK, NothingAssumption
<1>2. op \in Ops /\ OperationOf(http.verb, http.path) = op
  BY DEF Routed
<1>3. CASE op = "createOrder"
  <2>1. http.path = <<>> /\ http.verb = "POST"
    BY <1>1, <1>2, <1>3 DEF OperationOf
  <2>2. HasBody /\ request # Nothing /\ request = decodeCreateOrderRequest(http.members)
    BY <1>3 DEF BodyRead
  <2>3. /\ ValidShip(http.members) /\ Input = ShipMeant(http.members)
    <3>1. ValidShip(http.members)
      BY <1>1, <2>2, CreateDecoded
    <3>3. \A name \in Required \cup Optional :
            ShipMeant(http.members)[name] = FromOptNil(request[name])
      <4>. DEFINE members == http.members
      <4>1. members \in Objects /\ request # Nothing
            /\ request = decodeCreateOrderRequest(members)
        BY <1>1, <2>2
      <4>. HIDE DEF members
      <4>2. \A name \in Required \cup Optional :
              ShipMeant(members)[name] = FromOptNil(request[name])
        BY <4>1, CreateDecoded
      <4>. QED  BY <4>2 DEF members
    <3>2. Input = [name \in Required \cup Optional |-> FromOptNil(request[name])]
      BY <1>3 DEF Input
    <3>. QED  BY <3>1, <3>2, <3>3 DEF ShipMeant
  <2>4. Input \in ShipInputs
    <3>1. /\ DOMAIN request = Required \cup Optional
          /\ \A name \in Required : request[name] \in Uuids
          /\ \A name \in Optional : request[name] \in Uuids \cup {Null, Unset}
      BY <1>1, <2>2, CreateDecoded
    <3>2. Unset \notin Uuids
      BY JsonAssumption DEF Texts
    <3>3. /\ \A name \in Required : FromOptNil(request[name]) \in Uuids
          /\ \A name \in Optional : FromOptNil(request[name]) \in Uuids \cup {Null}
      BY <3>1, <3>2 DEF FromOptNil
    <3>4. Input = [name \in Required \cup Optional |-> FromOptNil(request[name])]
      BY <1>3 DEF Input
    <3>5. /\ DOMAIN Input = {"hull_uuid", "engine_uuid", "shield_uuid", "weapon_uuid"}
          /\ Input.hull_uuid \in Uuids /\ Input.engine_uuid \in Uuids
          /\ Input.shield_uuid \in Uuids \cup {Null} /\ Input.weapon_uuid \in Uuids \cup {Null}
          /\ Input = [hull_uuid |-> Input.hull_uuid, engine_uuid |-> Input.engine_uuid,
                      shield_uuid |-> Input.shield_uuid, weapon_uuid |-> Input.weapon_uuid]
      BY <3>3, <3>4 DEF Required, Optional
    <3>. QED  BY <3>5 DEF ShipInputs, ShipOf
  <2>5. id = Nothing
    BY <1>3 DEF ParamsRead
  <2>6. Valid(op)
    BY <1>3, <2>1, <2>2, <2>3 DEF Valid
  <2>7. [op |-> op, id |-> id, input |-> Input] = Meant(op)
    BY <1>3, <2>3, <2>5 DEF Meant
  <2>. QED  BY <1>2, <1>3, <2>4, <2>5, <2>6, <2>7 DEF Calls
<1>4. CASE op = "payOrder"
  <2>1. Len(http.path) = 2 /\ http.path[2] = "pay" /\ http.verb = "POST"
    BY <1>1, <1>2, <1>4 DEF OperationOf
  <2>2. id = http.path[1] /\ id \in OrderIds
    BY <1>4 DEF ParamsRead
  <2>3. http.path = <<id, "pay">>
    BY <1>1, <2>1, <2>2, TwoSegments
  <2>4. HasBody /\ request # Nothing /\ request = decodePayOrderRequest(http.members)
    BY <1>4 DEF BodyRead
  <2>5. /\ ValidMethod(http.members)
        /\ Input = LastValue(http.members, "payment_method")[2] /\ Input \in PaymentMethods
    BY <1>1, <1>4, <2>4, PayDecoded DEF Input
  <2>6. Valid(op)
    BY <1>4, <2>1, <2>2, <2>3, <2>4, <2>5 DEF Valid
  <2>7. [op |-> op, id |-> id, input |-> Input] = Meant(op)
    BY <1>4, <2>2, <2>5 DEF Meant
  <2>. QED  BY <1>2, <1>4, <2>2, <2>5, <2>6, <2>7 DEF Calls
<1>5. CASE op = "getOrder"
  <2>1. Len(http.path) = 1 /\ http.verb = "GET"
    BY <1>1, <1>2, <1>5 DEF OperationOf
  <2>2. id = http.path[1] /\ id \in OrderIds
    BY <1>5 DEF ParamsRead
  <2>3. http.path = <<id>> /\ Input = Nothing
    BY <1>1, <1>5, <2>1, <2>2, OneSegment DEF Input
  <2>4. Valid(op)
    BY <1>5, <2>1, <2>2, <2>3 DEF Valid
  <2>5. [op |-> op, id |-> id, input |-> Input] = Meant(op)
    BY <1>5, <2>2, <2>3 DEF Meant
  <2>. QED  BY <1>2, <1>5, <2>2, <2>3, <2>4, <2>5 DEF Calls
<1>6. CASE op = "cancelOrder"
  <2>1. Len(http.path) = 2 /\ http.path[2] = "cancel" /\ http.verb = "POST"
    BY <1>1, <1>2, <1>6 DEF OperationOf
  <2>2. id = http.path[1] /\ id \in OrderIds
    BY <1>6 DEF ParamsRead
  <2>3. http.path = <<id, "cancel">> /\ Input = Nothing
    BY <1>1, <1>6, <2>1, <2>2, TwoSegments DEF Input
  <2>4. Valid(op)
    BY <1>6, <2>1, <2>2, <2>3 DEF Valid
  <2>5. [op |-> op, id |-> id, input |-> Input] = Meant(op)
    BY <1>6, <2>2, <2>3 DEF Meant
  <2>. QED  BY <1>2, <1>6, <2>2, <2>3, <2>4, <2>5 DEF Calls
<1>. QED  BY <1>2, <1>3, <1>4, <1>5, <1>6 DEF Ops

\* A request is at the stage its invariant says.
LEMMA Stages6 ==
  /\ AtRoute => At("route") /\ ~Done /\ Head(todo) = "route"
  /\ AtParams => At("params") /\ ~Done /\ Head(todo) = "params"
  /\ AtBody => At("body") /\ ~Done /\ Head(todo) = "body"
                /\ Tail(todo) = <<"service", "respond">>
  /\ AtService => At("service") /\ ~Done /\ Head(todo) = "service"
                   /\ Tail(todo) = <<"respond">>
  /\ AtRespond => At("respond") /\ ~Done /\ Head(todo) = "respond"
  /\ WasRefused \/ WasServed => Done
<1>1. /\ <<"route">> # <<>> /\ Head(<<"route">>) = "route"
      /\ <<"body", "service", "respond">> # <<>> /\ Head(<<"body", "service", "respond">>) = "body"
      /\ Tail(<<"body", "service", "respond">>) = <<"service", "respond">>
      /\ <<"service", "respond">> # <<>> /\ Head(<<"service", "respond">>) = "service"
      /\ Tail(<<"service", "respond">>) = <<"respond">>
      /\ <<"respond">> # <<>> /\ Head(<<"respond">>) = "respond"
  OBVIOUS
<1>2. AtParams => todo # <<>> /\ Head(todo) = "params"
  BY DEF AtParams, Handle, handleGetOrderRequest, handlePayOrderRequest,
         handleCancelOrderRequest, Ops, Routed
<1>. QED  BY <1>1, <1>2 DEF AtRoute, AtBody, AtService, AtRespond, WasRefused, WasServed, At, Done

(* What the error handlers send. *)
LEMMA Answers ==
  ASSUME NEW status
  PROVE  /\ ErrorHandler(status) =>
              todo' = <<>> /\ resp'.status = status /\ resp'.ctype = "json" /\ resp'.body = Refusal
         /\ NotFound => todo' = <<>> /\ resp'.status = 404 /\ resp'.ctype = "text"
         /\ NotAllowed(status) =>
              todo' = <<>> /\ resp'.status \in {204, 405} /\ resp'.ctype = "none"
BY DEF ErrorHandler, NotFound, NotAllowed, Respond, Refusal

\* One lemma per stage of the server: when it is over the request is refused for
\* good, or the next stage's invariant holds.
LEMMA RouteKeeps ==
  ASSUME ApiInv, Route
  PROVE  ApiInv'
<1>1. AtRoute
  BY Stages6 DEF ApiInv, Route, At
<1>2. /\ http' = http /\ id' = id /\ request' = request /\ called' = called
      /\ outcome' = outcome /\ order' = order
  BY DEF Route
<1>. DEFINE routes == Routes(http.path)
<1>3. CASE (~http.known \/ DOMAIN routes = {}) /\ NotFound /\ UNCHANGED op
  <2>1. http.known => OperationOf(http.verb, http.path) = Nothing
    BY <1>3, RoutesTo DEF ApiInv
  <2>2. http.known => \A o \in Ops : ~Valid(o)
    BY <2>1, ValidIsRouted, NothingAssumption DEF ApiInv
  <2>3. WasRefused'
    <3>1. todo' = <<>> /\ resp'.status = 404 /\ resp'.ctype = "text"
      BY <1>3, Answers
    <3>2. (\A o \in Ops : ~Valid(o)) => (\A o \in Ops : ~Valid(o))'
      BY <1>2 DEF Valid, HasBody
    <3>. QED  BY <1>1, <1>2, <1>3, <2>1, <2>2, <3>1, <3>2 DEF WasRefused, AtRoute, NotCalled
  <2>. QED  BY <1>2, <1>3, <2>3, Answers DEF ApiInv, WasRefused
<1>4. ASSUME http.known, NEW o \in DOMAIN routes, routes[o] # http.verb,
             NotAllowed(http.verb), UNCHANGED op
      PROVE  ApiInv'
  <2>1. OperationOf(http.verb, http.path) = Nothing
    BY <1>4, RoutesTo DEF ApiInv
  <2>2. \A i \in Ops : ~Valid(i)
    BY <2>1, ValidIsRouted, NothingAssumption DEF ApiInv
  <2>3. WasRefused'
    <3>1. todo' = <<>> /\ resp'.status \in {204, 405}
      BY <1>4, Answers
    <3>2. (\A i \in Ops : ~Valid(i)) => (\A i \in Ops : ~Valid(i))'
      BY <1>2 DEF Valid, HasBody
    <3>. QED  BY <1>1, <1>2, <1>4, <2>1, <2>2, <3>1, <3>2 DEF WasRefused, AtRoute, NotCalled
  <2>. QED  BY <1>2, <1>4, <2>3, Answers DEF ApiInv, WasRefused
<1>5. ASSUME http.known, NEW o \in DOMAIN routes, routes[o] = http.verb,
             op' = o, todo' = Handle[o], UNCHANGED resp
      PROVE  ApiInv'
  <2>1. Routed' /\ op' = o /\ o \in Ops
    BY <1>2, <1>5, RoutesTo DEF ApiInv, Routed
  <2>2. NotCalled' /\ id' = Nothing /\ request' = Nothing
    BY <1>1, <1>2 DEF AtRoute, NotCalled
  <2>3. CASE o = "createOrder"
    <3>1. todo' = <<"body", "service", "respond">>
      BY <1>5, <2>3 DEF Handle, handleCreateOrderRequest
    <3>. QED  BY <1>1, <1>2, <1>5, <2>1, <2>2, <2>3, <3>1, Stages6
              DEF ApiInv, AtBody, ParamsRead, Done
  <2>4. CASE o # "createOrder"
    <3>1. AtParams'
      BY <1>5, <2>1, <2>2, <2>4 DEF AtParams
    <3>. QED  BY <1>1, <1>2, <1>5, <3>1, Stages6 DEF ApiInv, Done
  <2>. QED  BY <2>3, <2>4
<1>. QED  BY <1>3, <1>4, <1>5 DEF Route

LEMMA ParamsKeep ==
  ASSUME ApiInv, DecodeParams
  PROVE  ApiInv'
<1>1. AtParams
  BY Stages6 DEF ApiInv, DecodeParams, At
<1>2. /\ http' = http /\ op' = op /\ request' = request /\ called' = called
      /\ outcome' = outcome /\ order' = order
  BY DEF DecodeParams
<1>3. Routed' /\ NotCalled' /\ request' = Nothing /\ op \in Ops /\ op # "createOrder"
  BY <1>1, <1>2 DEF AtParams, Routed, NotCalled
<1>4. CASE http.path[1] \in OrderIds /\ id' = http.path[1] /\ Pass
  <2>1. ParamsRead' /\ resp' = resp /\ todo' = Tail(todo)
    BY <1>2, <1>3, <1>4 DEF ParamsRead, Pass
  <2>2. resp.status = 0 /\ resp.ctype \in {"none", "json", "text"} /\ IsHttp(http)
    BY <1>1, Stages6 DEF ApiInv, Done
  <2>3. CASE op = "payOrder"
    <3>1. todo' = <<"body", "service", "respond">>
      BY <1>1, <2>1, <2>3 DEF AtParams, Handle, handlePayOrderRequest
    <3>. QED  BY <1>2, <1>3, <2>1, <2>2, <2>3, <3>1 DEF ApiInv, AtBody
  <2>4. CASE op # "payOrder"
    <3>1. todo' = <<"service", "respond">>
      <4>1. op = "getOrder" \/ op = "cancelOrder"
        BY <1>3, <2>4 DEF Ops
      <4>2. todo = <<"params", "service", "respond">>
        BY <1>1, <4>1
        DEF AtParams, Handle, handleGetOrderRequest, handleCancelOrderRequest
      <4>. QED  BY <2>1, <4>2
    <3>2. BodyRead'
      BY <1>2, <1>3, <2>4 DEF BodyRead
    <3>. QED  BY <1>2, <1>3, <2>1, <2>2, <3>1, <3>2 DEF ApiInv, AtService
  <2>. QED  BY <2>3, <2>4
<1>5. CASE http.path[1] \notin OrderIds /\ ErrorHandler(400) /\ UNCHANGED id
  <2>1. \A o \in Ops : ~Valid(o)
    BY <1>1, <1>3, <1>5, ValidIsRouted DEF ApiInv, AtParams, Routed
  <2>2. WasRefused'
    <3>1. /\ todo' = <<>> /\ resp'.status = 400 /\ resp'.ctype = "json"
          /\ resp'.body = Refusal
      BY <1>5, Answers
    <3>2. \A o \in Ops : ~Valid(o)'
      BY <1>2, <2>1 DEF Valid, HasBody
    <3>3. request' = Nothing /\ id' = Nothing
      BY <1>1, <1>2, <1>5 DEF AtParams
    <3>. QED  BY <1>3, <3>1, <3>2, <3>3 DEF WasRefused, Routed
  <2>. QED  BY <1>2, <1>5, <2>2, Answers DEF ApiInv, WasRefused
<1>. QED  BY <1>4, <1>5 DEF DecodeParams

LEMMA BodyKeeps ==
  ASSUME ApiInv, DecodeBody
  PROVE  ApiInv'
<1>1. AtBody
  BY Stages6 DEF ApiInv, DecodeBody, At
<1>2. /\ http' = http /\ op' = op /\ id' = id /\ called' = called
      /\ outcome' = outcome /\ order' = order
  BY DEF DecodeBody
<1>3. Routed' /\ ParamsRead' /\ NotCalled' /\ op \in {"createOrder", "payOrder"} /\ op \in Ops
  BY <1>1, <1>2 DEF AtBody, Routed, ParamsRead, NotCalled, Ops
<1>. DEFINE decoded == IF http.ctype # "json" \/ http.body # "object" THEN Nothing
                       ELSE IF op = "createOrder" THEN decodeCreateOrderRequest(http.members)
                       ELSE decodePayOrderRequest(http.members)
<1>4. CASE decoded # Nothing /\ request' = decoded /\ Pass
  <2>1. todo' = <<"service", "respond">> /\ resp' = resp
    BY <1>1, <1>4, Stages6 DEF Pass
  <2>2. BodyRead'
    <3>1. HasBody' /\ request' # Nothing
      BY <1>2, <1>4 DEF HasBody
    <3>2. request' = IF op = "createOrder" THEN decodeCreateOrderRequest(http.members)
                     ELSE decodePayOrderRequest(http.members)
      BY <1>4
    <3>. QED  BY <1>2, <1>3, <3>1, <3>2 DEF BodyRead
  <2>. QED  BY <1>1, <1>2, <1>3, <2>1, <2>2, Stages6 DEF ApiInv, AtService, Done
<1>5. CASE /\ decoded = Nothing /\ ErrorHandler(IF http.ctype = "other" THEN 415 ELSE 400)
           /\ UNCHANGED request
  <2>1. http.members \in Objects
    BY HttpOK DEF ApiInv
  <2>2. ~Valid(op)
    <3>1. CASE op = "createOrder"
      BY <1>5, <2>1, <3>1, CreateDecoded DEF Valid, HasBody
    <3>2. CASE op = "payOrder"
      BY <1>5, <2>1, <3>2, PayDecoded DEF Valid, HasBody
    <3>. QED  BY <1>3, <3>1, <3>2
  <2>3. \A o \in Ops : ~Valid(o)
    BY <1>1, <2>2, ValidIsRouted DEF ApiInv, AtBody, Routed
  <2>4. WasRefused'
    <3>1. /\ todo' = <<>> /\ resp'.status \in {400, 415} /\ resp'.ctype = "json"
          /\ resp'.body = Refusal
      BY <1>5, Answers
    <3>2. \A o \in Ops : ~Valid(o)'
      BY <1>2, <2>3 DEF Valid, HasBody
    <3>3. request' = Nothing
      BY <1>1, <1>5 DEF AtBody
    <3>. QED  BY <1>3, <3>1, <3>2, <3>3 DEF WasRefused, Routed
  <2>. QED  BY <1>2, <1>5, <2>4, Answers DEF ApiInv, WasRefused
<1>. QED  BY <1>4, <1>5 DEF DecodeBody

\* What a successful call returns is an order.
LEMMA ReturnedOrders ==
  ASSUME NEW call \in Calls, NEW o \in Returned(call),
         call.op # "createOrder" => call.id \in OrderIds,
         call.op = "createOrder" => call.input \in ShipInputs,
         call.op = "payOrder" => call.input \in PaymentMethods
  PROVE  o \in Orders
<1>. DEFINE Components == Uuids \cup {Null}
<1>1. ASSUME NEW i \in OrderIds, NEW ship,
             ship.hull_uuid \in Uuids, ship.engine_uuid \in Uuids,
             ship.shield_uuid \in Components, ship.weapon_uuid \in Components,
             NEW status \in Statuses, NEW tx \in Txs \cup {Null},
             NEW method \in PaymentMethods \cup {Null}, NEW row \in Row(i, ship, status, tx, method)
      PROVE  row \in Orders
  BY <1>1 DEF Row, Orders
<1>2. \A ship \in Ships \cup ShipInputs :
        /\ ship.hull_uuid \in Uuids /\ ship.engine_uuid \in Uuids
        /\ ship.shield_uuid \in Components /\ ship.weapon_uuid \in Components
  BY ApiAssumption DEF ShipInputs, ShipOf, Uuids
<1>3. call.op \in Ops
  BY DEF Calls
<1>. HIDE DEF Components
<1>4. ASSUME NEW i \in OrderIds, NEW status \in Statuses, NEW ship \in Ships \cup ShipInputs,
             NEW tx \in Txs \cup {Null}, NEW method \in PaymentMethods \cup {Null}
      PROVE  Row(i, ship, status, tx, method) \subseteq Orders
  BY <1>1, <1>2
<1>5. ASSUME NEW i \in OrderIds, NEW status \in Statuses
      PROVE  UNION {Row(i, ship, status, Null, Null) : ship \in Ships} \subseteq Orders
  BY <1>4
<1>6. ASSUME NEW i \in OrderIds, NEW method \in PaymentMethods
      PROVE  UNION {Row(i, ship, "PAID", tx, method) : ship \in Ships, tx \in Txs}
               \subseteq Orders
  BY <1>4 DEF Statuses
<1>7. CASE call.op = "createOrder"
  <2>1. Returned(call)
          = UNION {Row(i, call.input, "PENDING_PAYMENT", Null, Null) : i \in OrderIds}
    BY <1>7 DEF Returned
  <2>. QED  BY <1>4, <1>7, <2>1 DEF Statuses
<1>8. CASE call.op = "getOrder"
  <2>1. o \in UNION {Row(call.id, ship, "PENDING_PAYMENT", Null, Null) : ship \in Ships}
        \/ o \in UNION {Row(call.id, ship, "CANCELLED", Null, Null) : ship \in Ships}
        \/ \E method \in PaymentMethods :
             o \in UNION {Row(call.id, ship, "PAID", tx, method) : ship \in Ships, tx \in Txs}
    BY <1>8 DEF Returned
  <2>2. /\ call.id \in OrderIds /\ "PENDING_PAYMENT" \in Statuses /\ "CANCELLED" \in Statuses
    BY <1>8 DEF Statuses
  <2>. QED  BY <1>5, <1>6, <2>1, <2>2
<1>9. CASE call.op = "payOrder"
  <2>1. o \in UNION {Row(call.id, ship, "PAID", tx, call.input) : ship \in Ships, tx \in Txs}
    BY <1>9 DEF Returned
  <2>. QED  BY <1>6, <1>9, <2>1
<1>10. CASE call.op = "cancelOrder"
  <2>1. o \in UNION {Row(call.id, ship, "CANCELLED", Null, Null) : ship \in Ships}
    BY <1>10 DEF Returned
  <2>. QED  BY <1>5, <1>10, <2>1 DEF Statuses
<1>. QED  BY <1>3, <1>7, <1>8, <1>9, <1>10 DEF Ops

LEMMA CallKeeps ==
  ASSUME ApiInv, CallService
  PROVE  ApiInv'
<1>1. AtService /\ todo' = <<"respond">>
  BY Stages6 DEF ApiInv, CallService, At, Pass
<1>2. /\ http' = http /\ op' = op /\ id' = id /\ request' = request /\ resp' = resp
      /\ called' = [op |-> op, id |-> id, input |-> Input]
      /\ outcome' \in Outcomes(op)
      /\ IF outcome' = "ok" THEN order' \in Returned(called') ELSE order' = Nothing
  BY DEF CallService, Pass
<1>3. IsHttp(http) /\ Routed /\ ParamsRead /\ BodyRead
  BY <1>1 DEF ApiInv, AtService
<1>4. /\ Valid(op) /\ called' = Meant(op) /\ called' \in Calls
      /\ op = "createOrder" => Input \in ShipInputs
      /\ op = "payOrder" => Input \in PaymentMethods
  BY <1>2, <1>3, ReadIsValid
<1>5. Valid(op)' /\ Meant(op)' = Meant(op)
  BY <1>2, <1>4 DEF Valid, Meant, HasBody
<1>6. called'.op = op /\ called'.id = id /\ called'.input = Input
  BY <1>2
<1>7. (order' # Nothing) <=> (outcome' = "ok")
  <2>1. ASSUME order' \in Returned(called') PROVE order' \in Orders
    <3>1. op # "createOrder" => id \in OrderIds
      BY <1>3 DEF ParamsRead
    <3>. QED  BY <1>4, <1>6, <2>1, <3>1, ReturnedOrders
  <2>. QED  BY <1>2, <2>1, NothingAssumption
<1>8. Called'
  BY <1>2, <1>4, <1>5, <1>6, <1>7 DEF Called
<1>9. Routed' /\ ParamsRead' /\ BodyRead'
  BY <1>2, <1>3 DEF Routed, ParamsRead, BodyRead, HasBody
<1>. QED  BY <1>1, <1>2, <1>8, <1>9, Stages6 DEF ApiInv, AtRespond, Done

\* The handler and the encoder between them answer each outcome with its status
\* and its body.
LEMMA FinishedWell ==
  ASSUME NEW result, NEW statuses, NEW types, Finish(result, statuses, types),
         NEW type, NEW value, result = Result(type, value), type # "error"
  PROVE  /\ todo' = <<>> /\ resp'.status = statuses[type] /\ resp'.ctype = "json"
         /\ resp'.body = Encode(types[type], result.value)
<1>1. result.type = type /\ Failed.type = "error"
  BY DEF Result, Failed
<1>2. Respond(statuses[type], "json", Encode(types[type], result.value))
  BY <1>1 DEF Finish
<1>. QED  BY <1>2 DEF Respond

LEMMA FinishedBadly ==
  ASSUME NEW result, NEW statuses, NEW types, Finish(result, statuses, types), result = Failed
  PROVE  todo' = <<>> /\ resp'.status = 500 /\ resp'.ctype = "json" /\ resp'.body = Refusal
BY DEF Finish, ErrorHandler, Respond, Refusal

(* What a request was answered with depends on these alone. *)
LEMMA BodyStays ==
  ASSUME UNCHANGED <<op, outcome, order>>
  PROVE  BodyOf' = BodyOf /\ StatusOf(outcome)' = StatusOf(outcome)
BY DEF BodyOf, StatusOf, SchemaOf, ResultOf, CreateOrder, GetOrder, PayOrder, CancelOrder,
       Problem, Failed, Result, ToOrderDto, Refusal

LEMMA RespondKeeps ==
  ASSUME ApiInv, HandlerResponse
  PROVE  ApiInv'
<1>1. AtRespond
  BY Stages6 DEF ApiInv, HandlerResponse, At
<1>2. /\ http' = http /\ op' = op /\ id' = id /\ request' = request /\ called' = called
      /\ outcome' = outcome /\ order' = order
  BY DEF HandlerResponse
<1>3. op \in Ops /\ outcome \in Outcomes(op)
  BY <1>1 DEF AtRespond, Routed, Called
<1>4. /\ todo' = <<>> /\ resp'.status = StatusOf(outcome) /\ resp'.ctype = "json"
      /\ resp'.body = BodyOf
  <2>1. CASE op = "createOrder"
    <3>1. Finish(CreateOrder, encodeCreateOrderResponse, CreateOrderRes) /\ ResultOf = CreateOrder
      BY <2>1 DEF HandlerResponse, ResultOf
    <3>2. outcome \in {"ok", "failed", "ErrComponentNotFound", "ErrComponentOutOfStock"}
      BY <1>3, <2>1 DEF Outcomes
    <3>3. CASE outcome = "failed"
      <4>1. CreateOrder = Failed /\ StatusOf(outcome) = 500 /\ BodyOf = Refusal
        BY <2>1, <3>3 DEF CreateOrder, StatusOf, BodyOf
      <4>. QED  BY <3>1, <4>1, FinishedBadly
    <3>4. CASE outcome # "failed"
      <4>1. \E type, value :
              /\ CreateOrder = Result(type, value) /\ type # "error"
              /\ encodeCreateOrderResponse[type] = StatusOf(outcome)
              /\ CreateOrderRes[type] = SchemaOf
        BY <2>1, <3>2, <3>4
        DEF CreateOrder, Problem, StatusOf, encodeCreateOrderResponse, CreateOrderRes, SchemaOf
      <4>2. BodyOf = Encode(SchemaOf, CreateOrder.value)
        BY <3>1, <3>4 DEF BodyOf
      <4>. QED  BY <3>1, <4>1, <4>2, FinishedWell
    <3>. QED  BY <3>3, <3>4
  <2>2. CASE op = "getOrder"
    <3>1. Finish(GetOrder, encodeGetOrderResponse, GetOrderRes) /\ ResultOf = GetOrder
      BY <2>2 DEF HandlerResponse, ResultOf
    <3>2. outcome \in {"ok", "failed", "ErrOrderNotFound"}
      BY <1>3, <2>2 DEF Outcomes
    <3>3. CASE outcome = "failed"
      <4>1. GetOrder = Failed /\ StatusOf(outcome) = 500 /\ BodyOf = Refusal
        BY <2>2, <3>3 DEF GetOrder, StatusOf, BodyOf
      <4>. QED  BY <3>1, <4>1, FinishedBadly
    <3>4. CASE outcome # "failed"
      <4>1. \E type, value :
              /\ GetOrder = Result(type, value) /\ type # "error"
              /\ encodeGetOrderResponse[type] = StatusOf(outcome)
              /\ GetOrderRes[type] = SchemaOf
        BY <2>2, <3>2, <3>4
        DEF GetOrder, Problem, StatusOf, encodeGetOrderResponse, GetOrderRes, SchemaOf
      <4>2. BodyOf = Encode(SchemaOf, GetOrder.value)
        BY <3>1, <3>4 DEF BodyOf
      <4>. QED  BY <3>1, <4>1, <4>2, FinishedWell
    <3>. QED  BY <3>3, <3>4
  <2>3. CASE op = "payOrder"
    <3>1. Finish(PayOrder, encodePayOrderResponse, PayOrderRes) /\ ResultOf = PayOrder
      BY <2>3 DEF HandlerResponse, ResultOf
    <3>2. outcome \in {"ok", "failed", "ErrOrderNotFound", "ErrOrderAlreadyFinal"}
      BY <1>3, <2>3 DEF Outcomes
    <3>3. CASE outcome = "failed"
      <4>1. PayOrder = Failed /\ StatusOf(outcome) = 500 /\ BodyOf = Refusal
        BY <2>3, <3>3 DEF PayOrder, StatusOf, BodyOf
      <4>. QED  BY <3>1, <4>1, FinishedBadly
    <3>4. CASE outcome # "failed"
      <4>1. \E type, value :
              /\ PayOrder = Result(type, value) /\ type # "error"
              /\ encodePayOrderResponse[type] = StatusOf(outcome)
              /\ PayOrderRes[type] = SchemaOf
        BY <2>3, <3>2, <3>4
        DEF PayOrder, Problem, StatusOf, encodePayOrderResponse, PayOrderRes, SchemaOf
      <4>2. BodyOf = Encode(SchemaOf, PayOrder.value)
        BY <3>1, <3>4 DEF BodyOf
      <4>. QED  BY <3>1, <4>1, <4>2, FinishedWell
    <3>. QED  BY <3>3, <3>4
  <2>4. CASE op = "cancelOrder"
    <3>1. Finish(CancelOrder, encodeCancelOrderResponse, CancelOrderRes) /\ ResultOf = CancelOrder
      BY <2>4 DEF HandlerResponse, ResultOf
    <3>2. outcome \in {"ok", "failed", "ErrOrderNotFound", "ErrOrderAlreadyFinal"}
      BY <1>3, <2>4 DEF Outcomes
    <3>3. CASE outcome = "failed"
      <4>1. CancelOrder = Failed /\ StatusOf(outcome) = 500 /\ BodyOf = Refusal
        BY <2>4, <3>3 DEF CancelOrder, StatusOf, BodyOf
      <4>. QED  BY <3>1, <4>1, FinishedBadly
    <3>4. CASE outcome # "failed"
      <4>1. \E type, value :
              /\ CancelOrder = Result(type, value) /\ type # "error"
              /\ encodeCancelOrderResponse[type] = StatusOf(outcome)
              /\ CancelOrderRes[type] = SchemaOf
        <5>1. CASE outcome = "ok"
          <6>1. /\ CancelOrder = Result("CancelOrderResponse", <<>>)
                /\ StatusOf(outcome) = 200 /\ SchemaOf = CancelOrderResponse
            BY <2>4, <5>1 DEF CancelOrder, StatusOf, SchemaOf
          <6>2. /\ encodeCancelOrderResponse["CancelOrderResponse"] = 200
                /\ CancelOrderRes["CancelOrderResponse"] = CancelOrderResponse
            BY DEF encodeCancelOrderResponse, CancelOrderRes
          <6>. QED  BY <6>1, <6>2
        <5>2. CASE outcome # "ok"
          BY <2>4, <3>2, <3>4, <5>2
          DEF CancelOrder, Problem, StatusOf, encodeCancelOrderResponse, CancelOrderRes, SchemaOf
        <5>. QED  BY <5>1, <5>2
      <4>2. BodyOf = Encode(SchemaOf, CancelOrder.value)
        BY <3>1, <3>4 DEF BodyOf
      <4>. QED  BY <3>1, <4>1, <4>2, FinishedWell
    <3>. QED  BY <3>3, <3>4
  <2>. QED  BY <1>3, <2>1, <2>2, <2>3, <2>4 DEF Ops
<1>5. StatusOf(outcome)' = StatusOf(outcome) /\ BodyOf' = BodyOf
  BY <1>2, BodyStays
<1>6. Routed' /\ ParamsRead' /\ BodyRead' /\ Called'
  BY <1>1, <1>2
  DEF AtRespond, Routed, ParamsRead, BodyRead, Called, HasBody, Valid, Meant
<1>7. WasServed'
  BY <1>2, <1>4, <1>5, <1>6 DEF WasServed
<1>. QED  BY <1>2, <1>4, <1>7 DEF ApiInv

(* No request has arrived. *)
LEMMA ApiInitial == Init => ApiInv
BY Stages6, ApiAssumption DEF Init, ApiInv, AtRoute, NotCalled

\* The invariant is kept by whatever the server does, and while it waits.
LEMMA ServeKeeps == ApiInv /\ Serve => ApiInv'
BY RouteKeeps, ParamsKeep, BodyKeeps, CallKeeps, RespondKeeps DEF Serve

LEMMA WaitKeeps ==
  ASSUME ApiInv, UNCHANGED vars
  PROVE  ApiInv'
<1>1. /\ http' = http /\ todo' = todo /\ op' = op /\ id' = id /\ request' = request
      /\ called' = called /\ outcome' = outcome /\ order' = order /\ resp' = resp
  BY DEF vars
<1>2. /\ NotCalled' = NotCalled /\ Routed' = Routed /\ ParamsRead' = ParamsRead
      /\ BodyRead' = BodyRead
  BY <1>1 DEF NotCalled, Routed, ParamsRead, BodyRead, HasBody
<1>3. \A o : Valid(o)' = Valid(o) /\ Meant(o)' = Meant(o)
  BY <1>1 DEF Valid, Meant, HasBody
<1>4. Called' = Called
  BY <1>1, <1>3 DEF Called, Valid, Meant, HasBody
<1>5. /\ AtRoute' = AtRoute /\ AtParams' = AtParams /\ AtBody' = AtBody
      /\ AtService' = AtService /\ AtRespond' = AtRespond
  BY <1>1, <1>2, <1>4 DEF AtRoute, AtParams, AtBody, AtService, AtRespond
<1>6. WasRefused' = WasRefused
  BY <1>1, <1>2 DEF WasRefused, Valid, HasBody, Refusal
<1>7. WasServed' = WasServed
  <2>1. BodyOf' = BodyOf /\ StatusOf(outcome)' = StatusOf(outcome)
    BY <1>1, BodyStays
  <2>. QED  BY <1>1, <1>2, <1>4, <2>1 DEF WasServed
<1>. QED  BY <1>1, <1>5, <1>6, <1>7 DEF ApiInv

\* A request passes its stages as their invariants say (oas_handlers_gen.go).
THEOREM ApiInvariance == Spec => []ApiInv
<1>1. ApiInv /\ [Next]_vars => ApiInv'
  BY ServeKeeps, WaitKeeps DEF Next, Answered
<1>. QED  BY <1>1, ApiInitial, PTL DEF Spec

\* The status and the content type of an answer tell whether the method was called and
\* what came of it (docs/architecture.md:171-177): a 404 is the router's if it is text,
\* and the method's if it is JSON.
THEOREM AnswerTellsOutcome == Spec => []MappedAsDocumented
<1>1. ApiInv => MappedAsDocumented
  <2>. SUFFICES ASSUME ApiInv, Done
                PROVE  /\ (resp.status \in {200, 201}) <=> (outcome = "ok")
                       /\ (resp.status = 409) <=>
                            (outcome \in {"ErrOrderAlreadyFinal", "ErrComponentOutOfStock"})
                       /\ (resp.status = 500) <=> (outcome = "failed")
                       /\ (resp.status = 404 /\ resp.ctype = "json") <=>
                            (outcome \in {"ErrOrderNotFound", "ErrComponentNotFound"})
                       /\ (\/ resp.status \in {204, 400, 405, 415}
                           \/ resp.status = 404 /\ resp.ctype = "text") <=> (called = Nothing)
    BY DEF MappedAsDocumented
  <2>1. CASE WasRefused
    <3>1. /\ called = Nothing /\ outcome = Nothing /\ resp.status \in {204, 400, 404, 405, 415}
          /\ resp.status = 404 => resp.ctype = "text"
      BY <2>1 DEF WasRefused, NotCalled
    <3>2. outcome \notin {"ok", "failed", "ErrOrderNotFound", "ErrOrderAlreadyFinal",
                          "ErrComponentNotFound", "ErrComponentOutOfStock"}
      BY <3>1, NothingAssumption DEF Outcomes, Ops
    <3>. QED  BY <3>1, <3>2
  <2>2. CASE WasServed
    <3>1. /\ called # Nothing /\ resp.status = StatusOf(outcome) /\ outcome \in Outcomes(op)
          /\ resp.status = 404 => resp.ctype = "json"
      BY <2>2, NothingAssumption DEF WasServed, Called
    <3>2. outcome \in {"ok", "failed", "ErrOrderNotFound", "ErrOrderAlreadyFinal",
                       "ErrComponentNotFound", "ErrComponentOutOfStock"}
      BY <3>1 DEF Outcomes
    <3>. QED  BY <3>1, <3>2 DEF StatusOf
  <2>. QED  BY <2>1, <2>2, Stages6 DEF ApiInv, Done
<1>. QED  BY <1>1, ApiInvariance, PTL

(* The inductive invariant contains the type invariant. *)
LEMMA ApiTyped == ApiInv => TypeOK
<1>. SUFFICES ASSUME ApiInv PROVE TypeOK
  OBVIOUS
<1>1. IsHttp(http) /\ http.members \in Objects
  BY HttpOK DEF ApiInv
<1>2. todo \in Seq(Stages)
  <2>1. /\ <<"route">> \in Seq(Stages) /\ <<>> \in Seq(Stages) /\ <<"respond">> \in Seq(Stages)
        /\ <<"body", "service", "respond">> \in Seq(Stages)
        /\ <<"service", "respond">> \in Seq(Stages)
        /\ <<"params", "service", "respond">> \in Seq(Stages)
        /\ <<"params", "body", "service", "respond">> \in Seq(Stages)
    BY DEF Stages
  <2>2. AtParams => todo \in {<<"params", "service", "respond">>,
                              <<"params", "body", "service", "respond">>}
    BY DEF AtParams, Routed, Ops, Handle, handleGetOrderRequest, handlePayOrderRequest,
           handleCancelOrderRequest
  <2>3. WasRefused \/ WasServed => todo = <<>>
    BY DEF WasRefused, WasServed
  <2>. QED  BY <2>1, <2>2, <2>3 DEF ApiInv, AtRoute, AtBody, AtService, AtRespond
<1>3. op \in Ops \cup {Nothing} /\ id \in OrderIds \cup {Nothing}
  BY DEF ApiInv, AtRoute, AtParams, AtBody, AtService, AtRespond, WasRefused, WasServed,
         Routed, ParamsRead
<1>4. /\ BodyRead \/ request = Nothing
      /\ (Called /\ Routed /\ ParamsRead) \/ NotCalled
  BY DEF ApiInv, AtRoute, AtParams, AtBody, AtService, AtRespond, WasRefused, WasServed
<1>5. \/ request = Nothing
      \/ op = "payOrder" /\ request \in [{"payment_method"} -> PaymentMethods]
      \/ /\ op = "createOrder"
         /\ DOMAIN request = Required \cup Optional
         /\ \A name \in Required : request[name] \in Uuids
         /\ \A name \in Optional : request[name] \in Uuids \cup {Null, Unset}
  <2>1. CASE BodyRead /\ op = "createOrder"
    <3>1. request # Nothing /\ request = decodeCreateOrderRequest(http.members)
      BY <2>1 DEF BodyRead
    <3>. QED  BY <1>1, <2>1, <3>1, CreateDecoded
  <2>2. CASE BodyRead /\ op = "payOrder"
    <3>1. request # Nothing /\ request = decodePayOrderRequest(http.members)
      BY <2>2 DEF BodyRead
    <3>. QED  BY <1>1, <2>2, <3>1, PayDecoded
  <2>3. CASE BodyRead /\ op \notin {"createOrder", "payOrder"}
    BY <2>3 DEF BodyRead
  <2>. QED  BY <1>4, <2>1, <2>2, <2>3
<1>6. CASE NotCalled
  <2>1. /\ called = Nothing /\ outcome = Nothing /\ order = Nothing /\ outcome # "ok"
    BY <1>6, NothingAssumption DEF NotCalled, Outcomes, Ops
  <2>2. resp.status \in {0, 200, 201, 204, 400, 404, 405, 409, 415, 500}
    <3>1. todo = <<>> => WasRefused \/ WasServed
      BY Stages6 DEF ApiInv, Done
    <3>2. StatusOf(outcome) \in {200, 201, 404, 409, 500}
      BY DEF StatusOf
    <3>. QED  BY <3>1, <3>2 DEF ApiInv, WasRefused, WasServed
  <2>. QED  BY <1>1, <1>2, <1>3, <1>5, <2>1, <2>2 DEF TypeOK, ApiInv
<1>7. CASE Called /\ Routed /\ ParamsRead
  <2>1. /\ called.op = op /\ called.id = id /\ outcome \in Outcomes(op) /\ op \in Ops
        /\ (order # Nothing) <=> (outcome = "ok")
    BY <1>7 DEF Called, Routed, Meant, ParamsRead
  <2>2. called.input \in {Nothing} \cup IF op = "createOrder" THEN ShipInputs ELSE PaymentMethods
    <3>1. op \in {"getOrder", "cancelOrder"} => called.input = Nothing
      BY <1>7 DEF Called, Meant
    <3>. QED  BY <1>7, <2>1, <3>1 DEF Called, Ops
  <2>3. resp.status \in {0, 200, 201, 204, 400, 404, 405, 409, 415, 500}
    <3>1. todo = <<>> => WasRefused \/ WasServed
      BY Stages6 DEF ApiInv, Done
    <3>2. StatusOf(outcome) \in {200, 201, 404, 409, 500}
      BY DEF StatusOf
    <3>. QED  BY <3>1, <3>2 DEF ApiInv, WasRefused, WasServed
  <2>. QED  BY <1>1, <1>2, <1>3, <1>5, <2>1, <2>2, <2>3 DEF TypeOK, ApiInv
<1>. QED  BY <1>4, <1>6, <1>7

\* A service method is called for exactly the valid requests, and with what they
\* mean (oas_router_gen.go:37, handler.go:96).
THEOREM CalledForValid == Spec => []CalledIffValid
<1>1. ApiInv => CalledIffValid
  <2>. SUFFICES ASSUME ApiInv PROVE CalledIffValid
    OBVIOUS
  <2>1. ASSUME called # Nothing
        PROVE  http.known /\ Valid(called.op) /\ called = Meant(called.op)
    <3>1. Called /\ Routed
      BY <2>1 DEF ApiInv, AtRoute, AtParams, AtBody, AtService, AtRespond, WasRefused,
                  WasServed, NotCalled
    <3>2. called.op = op
      BY <3>1 DEF Called, Meant
    <3>. QED  BY <3>1, <3>2 DEF Called, Routed
  <2>2. ASSUME Done, http.known, NEW o \in Ops, Valid(o)
        PROVE  called # Nothing
    <3>1. WasServed
      BY <2>2, Stages6 DEF ApiInv, WasRefused
    <3>. QED  BY <3>1, NothingAssumption DEF WasServed, Called
  <2>. QED  BY <2>1, <2>2, ApiTyped DEF CalledIffValid
<1>. QED  BY <1>1, ApiInvariance, PTL
=============================================================================
