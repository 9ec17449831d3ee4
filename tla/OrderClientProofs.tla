------------------------- MODULE OrderClientProofs -------------------------
(***************************************************************************)
(* What the caller of the generated client is told is what happened, for   *)
(* every call and any sets of UUIDs.  The encoder of a struct folds over   *)
(* the members of its type; by induction on their number it writes each    *)
(* that is set once, so decoding gives the struct back.  The invariant of  *)
(* the server holds under the client too: between them they say what the   *)
(* service method was called with and what is read of its answer.          *)
(***************************************************************************)
EXTENDS OrderApiProofs, OrderClientProperties

-----------------------------------------------------------------------------
\* A value that a field of this kind has in its Go type.
Fits(kind, value) ==
  IF value \in {Null, Unset} THEN kind \in OptNil
  ELSE CASE kind = "int" -> value \in Int
         [] kind \in {"uuid", "OptNilUUID"} -> value \in Uuids
         [] kind = "time" -> value \in Times
         [] OTHER -> value \in Texts

FitsAll(type, struct) == \A m \in ToSet(type) : Fits(m[2], struct[m[1]])

\* What is written of a field, and what is left of it at the other end.
Written(struct, m) == <<m[1], ToJson(m[2], struct[m[1]])>>
Kept(kind, value) == IF kind = "time" THEN Rfc3339[value] ELSE value

SetMembers(type, struct) == {m \in ToSet(type) : struct[m[1]] # Unset}

(* What is written of a value is accepted and read as that value. *)
LEMMA FieldKept ==
  ASSUME NEW kind, NEW value, Fits(kind, value), value # Unset
  PROVE  /\ ToJson(kind, value) \in Jsons
         /\ Accepts(kind, ToJson(kind, value))
         /\ Read(ToJson(kind, value)) = Kept(kind, value)
<1>1. /\ \A s : Str(s) # JsonNull /\ Str(s)[1] = "string" /\ Str(s)[2] = s
      /\ \A n : Num(n) # JsonNull /\ Num(n)[1] = "number" /\ Num(n)[2] = n
  BY DEF Str, Num, JsonNull
<1>2. /\ \A s \in Texts : Str(s) \in Jsons
      /\ \A n \in Int : Num(n) \in Jsons
      /\ JsonNull \in Jsons
  BY DEF Jsons, Str, Num
<1>3. /\ "time" \notin OptNil /\ "int" \notin OptNil /\ "uuid" \notin OptNil
      /\ Uuids \subseteq Texts /\ Times \subseteq Texts
  BY DEF OptNil, Texts
<1>4. CASE value = Null
  <2>1. kind \in OptNil /\ ToJson(kind, value) = JsonNull
    BY <1>4 DEF Fits, ToJson
  <2>. QED  BY <1>2, <1>3, <1>4, <2>1 DEF Accepts, Read, Kept
<1>5. CASE value # Null /\ kind = "int"
  <2>1. value \in Int /\ ToJson(kind, value) = Num(value)
    BY <1>5 DEF Fits, ToJson
  <2>. QED  BY <1>1, <1>2, <1>5, <2>1 DEF Accepts, Read, Kept
<1>6. CASE value # Null /\ kind = "time"
  <2>1. value \in Times /\ Rfc3339[value] \in Times /\ ToJson(kind, value) = Str(Rfc3339[value])
    BY <1>6, JsonAssumption DEF Fits, ToJson
  <2>. QED  BY <1>1, <1>2, <1>3, <1>6, <2>1 DEF Accepts, Read, Kept
<1>7. CASE value # Null /\ kind \in {"uuid", "OptNilUUID"}
  <2>1. value \in Uuids /\ ToJson(kind, value) = Str(value)
    BY <1>7 DEF Fits, ToJson
  <2>2. Accepts(kind, Str(value)) /\ Read(Str(value)) = value
    BY <1>1, <1>7, <2>1 DEF Accepts, Read
  <2>. QED  BY <1>2, <1>3, <1>7, <2>1, <2>2 DEF Kept
<1>8. CASE value # Null /\ kind \notin {"int", "time", "uuid", "OptNilUUID"}
  <2>1. value \in Texts /\ ToJson(kind, value) = Str(value)
    BY <1>8 DEF Fits, ToJson
  <2>. QED  BY <1>1, <1>2, <1>8, <2>1 DEF Accepts, Read, Kept
<1>. QED  BY <1>4, <1>5, <1>6, <1>7, <1>8

(* A type is a sequence of its members. *)
LEMMA TypeSeq ==
  ASSUME NEW type \in Types
  PROVE  /\ Len(type) \in Nat /\ DOMAIN type = 1 .. Len(type)
         /\ \A i \in 1 .. Len(type) : type[i] \in ToSet(type)
<1>1. Len(type) \in Nat /\ DOMAIN type = 1 .. Len(type)
  BY DEF Types, CreateOrderRequest, CreateOrderResponse, Error, OrderDto, PayOrderRequest,
         PayOrderResponse, CancelOrderResponse
<1>. QED  BY <1>1 DEF ToSet

(* The elements of a sequence with one more at its end. *)
LEMMA AppendSet ==
  ASSUME NEW S, NEW s \in Seq(S), NEW e
  PROVE  ToSet(Append(s, e)) = ToSet(s) \cup {e}
<1>1. Len(s) \in Nat /\ DOMAIN s = 1 .. Len(s)
  OBVIOUS
<1>2. /\ DOMAIN Append(s, e) = 1 .. Len(s) + 1
      /\ \A i \in 1 .. Len(s) : Append(s, e)[i] = s[i]
      /\ Append(s, e)[Len(s) + 1] = e
  OBVIOUS
<1>3. \A i : i \in 1 .. Len(s) + 1 <=> i \in 1 .. Len(s) \/ i = Len(s) + 1
  BY <1>1
<1>. QED  BY <1>1, <1>2, <1>3 DEF ToSet

(* What a field adds to an object. *)
LEMMA FieldEncoded ==
  ASSUME NEW type \in Types, NEW struct, FitsAll(type, struct), NEW object \in Objects,
         NEW m \in ToSet(type)
  PROVE  /\ EncodeField(struct, object, m) \in Objects
         /\ ToSet(EncodeField(struct, object, m))
              = ToSet(object) \cup IF struct[m[1]] = Unset THEN {} ELSE {Written(struct, m)}
<1>1. CASE struct[m[1]] = Unset
  BY <1>1 DEF EncodeField
<1>2. CASE struct[m[1]] # Unset
  <2>1. EncodeField(struct, object, m) = Append(object, Written(struct, m))
    BY <1>2 DEF EncodeField, Written
  <2>2. m[1] \in Keys
    BY OneKind DEF Keys
  <2>3. ToJson(m[2], struct[m[1]]) \in Jsons
    BY <1>2, FieldKept DEF FitsAll
  <2>4. Written(struct, m) \in Keys \X Jsons
    BY <2>2, <2>3 DEF Written
  <2>5. Append(object, Written(struct, m)) \in Objects
    BY <2>4 DEF Objects
  <2>. QED  BY <1>2, <2>1, <2>5, AppendSet DEF Objects
<1>. QED  BY <1>1, <1>2

\* The encoder writes each member of a type that is set, and nothing else.
LEMMA Encoded ==
  ASSUME NEW type \in Types, NEW struct, FitsAll(type, struct)
  PROVE  /\ Encode(type, struct) \in Objects
         /\ ToSet(Encode(type, struct)) = {Written(struct, m) : m \in SetMembers(type, struct)}
<1>. DEFINE N == Len(type)
            S == Objects
            base == <<>>
            Folds(g) == g = [T \in SUBSET (1 .. N) |->
                               IF T = {} THEN base
                               ELSE EncodeField(struct, g[T \ {Max(T)}], type[Max(T)])]
            f == CHOOSE g : Folds(g)
            step == [x \in (1 .. N) \X S |-> EncodeField(struct, x[2], type[x[1]])]
<1>1. N \in Nat /\ DOMAIN type = 1 .. N /\ \A i \in 1 .. N : type[i] \in ToSet(type)
  BY TypeSeq
<1>2. FoldLeft(LAMBDA object, member : EncodeField(struct, object, member), base, type) = f[1 .. N]
  BY <1>1 DEF FoldLeft, MapThenFoldSet
<1>3. base \in S
  BY DEF Objects
<1>4. step \in [(1 .. N) \X S -> S]
      /\ \A i \in 1 .. N, t \in S : step[<<i, t>>] = EncodeField(struct, t, type[i])
  <2>1. ASSUME NEW x \in (1 .. N) \X S PROVE EncodeField(struct, x[2], type[x[1]]) \in S
    <3>1. x[2] \in S /\ type[x[1]] \in ToSet(type)
      BY <1>1
    <3>. HIDE DEF N
    <3>. QED  BY <3>1, FieldEncoded
  <2>2. \A i \in 1 .. N, t \in S : <<i, t>> \in (1 .. N) \X S
    OBVIOUS
  <2>. HIDE DEF S, N
  <2>. QED  BY <2>1, <2>2
<1>. HIDE DEF step, S, base
<1>5. Folds(f)
  <2>1. PICK g \in [SUBSET (1 .. N) -> S] : IsFold(g, N, base, step)
    BY <1>1, <1>3, <1>4, FoldExists
  <2>2. Folds(g)
    <3>1. ASSUME NEW T \in SUBSET (1 .. N), T # {}
          PROVE  g[T] = EncodeField(struct, g[T \ {Max(T)}], type[Max(T)])
      <4>1. Max(T) \in 1 .. N /\ g[T \ {Max(T)}] \in S
        BY <1>1, <3>1, MaxAmong
      <4>2. g[T] = step[<<Max(T), g[T \ {Max(T)}]>>]
        BY <2>1, <3>1 DEF IsFold
      <4>. QED  BY <1>4, <4>1, <4>2
    <3>2. g[{}] = base
      BY <2>1 DEF IsFold
    <3>. HIDE DEF N
    <3>. QED  BY <3>1, <3>2
  <2>. HIDE DEF Folds
  <2>. QED  BY <2>2
<1>. HIDE DEF f
<1>6. FoldsIn(f, N, S, base, step)
  <2>1. ASSUME NEW T \in SUBSET (1 .. N), T # {}, f[T \ {Max(T)}] \in S
        PROVE  f[T] = step[<<Max(T), f[T \ {Max(T)}]>>]
    <3>1. Max(T) \in 1 .. N
      BY <1>1, <2>1, MaxAmong
    <3>2. f[T] = EncodeField(struct, f[T \ {Max(T)}], type[Max(T)])
      BY <1>5, <2>1
    <3>. QED  BY <1>4, <2>1, <3>1, <3>2
  <2>2. f[{}] = base
    BY <1>5
  <2>. QED  BY <2>1, <2>2 DEF FoldsIn
<1>. HIDE DEF Folds
<1>7. PICK run \in [0 .. N -> S] : IsRun(run, N, base, step, f[1 .. N])
  BY <1>1, <1>3, <1>4, <1>6, FoldRuns
<1>. DEFINE All(n) == {Written(struct, type[i]) : i \in {j \in 1 .. n : struct[type[j][1]] # Unset}}
            Good == {n \in Nat : n <= N => ToSet(run[n]) = All(n)}
<1>8. 0 \in Good
  <2>1. ToSet(<<>>) = {} /\ All(0) = {}
    BY DEF ToSet
  <2>. QED  BY <1>7, <2>1 DEF IsRun, base
<1>9. ASSUME NEW n \in Nat, n \in Good PROVE n + 1 \in Good
  <2>. SUFFICES ASSUME n + 1 <= N PROVE ToSet(run[n + 1]) = All(n + 1)
    OBVIOUS
  <2>1. n + 1 \in 1 .. N /\ (n + 1) - 1 = n /\ n \in 0 .. N
    BY <1>1
  <2>2. ToSet(run[n]) = All(n) /\ run[n] \in S
    BY <1>9, <2>1
  <2>. DEFINE m == type[n + 1]
              new == IF struct[m[1]] = Unset THEN {} ELSE {Written(struct, m)}
  <2>3. run[n + 1] = EncodeField(struct, run[n], m)
    <3>1. run[n + 1] = step[<<n + 1, run[n]>>]
      BY <1>7, <2>1 DEF IsRun
    <3>. QED  BY <1>4, <2>1, <2>2, <3>1
  <2>4. ToSet(run[n + 1]) = All(n) \cup new
    <3>1. m \in ToSet(type) /\ run[n] \in Objects
      BY <1>1, <2>1, <2>2 DEF S
    <3>. HIDE DEF m
    <3>. QED  BY <2>2, <2>3, <3>1, FieldEncoded
  <2>5. All(n + 1) = All(n) \cup new
    <3>1. \A i : i \in 1 .. n + 1 <=> i \in 1 .. n \/ i = n + 1
      OBVIOUS
    <3>. QED  BY <3>1
  <2>. QED  BY <2>4, <2>5
<1>10. ToSet(run[N]) = All(N)
  <2>. HIDE DEF Good
  <2>1. Nat \subseteq Good
    BY <1>8, <1>9, SetInduction
  <2>. QED  BY <1>1, <2>1 DEF Good
<1>11. All(N) = {Written(struct, m) : m \in SetMembers(type, struct)}
  <2>1. ToSet(type) = {type[i] : i \in 1 .. N}
    BY <1>1 DEF ToSet
  <2>2. SetMembers(type, struct) = {type[i] : i \in {j \in 1 .. N : struct[type[j][1]] # Unset}}
    BY <2>1 DEF SetMembers
  <2>. QED  BY <2>2
<1>12. Encode(type, struct) = run[N] /\ run[N] \in S
  <2>1. f[1 .. N] = run[N] /\ N \in 0 .. N
    BY <1>1, <1>7 DEF IsRun
  <2>. QED  BY <1>2, <1>7, <2>1 DEF Encode, base
<1>. QED  BY <1>10, <1>11, <1>12 DEF S

\* What one end encodes the other decodes as the same struct, each time cut to the
\* second: no set member is lost, none that is unset is made up.
THEOREM RoundTrip ==
  ASSUME NEW type \in Types, NEW struct, FitsAll(type, struct)
  PROVE  /\ Decode(type, Encode(type, struct)) # Nothing
         /\ Decode(type, Encode(type, struct))
              = [name \in Names(type) |-> Kept(KindOf(type, name), struct[name])]
<1>. DEFINE object == Encode(type, struct)
            N == Len(object)
            read == Partly(type, object, N)
            all == {m \in Names(type) : Before(object, N, m) # {}}
            value(name) == IF Before(object, N, name) = {} THEN Unset
                           ELSE Read(object[Max(Before(object, N, name))][2])
<1>1. /\ object \in Objects /\ N \in Nat /\ DOMAIN object = 1 .. N
      /\ ToSet(object) = {Written(struct, m) : m \in SetMembers(type, struct)}
  BY Encoded DEF Objects
<1>. HIDE DEF object, N
<1>2. ASSUME NEW i \in 1 .. N
      PROVE  \E m \in SetMembers(type, struct) : object[i] = Written(struct, m)
  <2>1. object[i] \in ToSet(object)
    BY <1>1 DEF ToSet
  <2>. QED  BY <1>1, <2>1
<1>3. ASSUME NEW m \in SetMembers(type, struct)
      PROVE  \E i \in 1 .. N : object[i] = Written(struct, m)
  <2>1. Written(struct, m) \in ToSet(object)
    BY <1>1
  <2>. QED  BY <1>1, <2>1 DEF ToSet
<1>4. ASSUME NEW m \in SetMembers(type, struct)
      PROVE  /\ m \in ToSet(type) /\ m[1] \in Names(type) /\ KindOf(type, m[1]) = m[2]
             /\ struct[m[1]] # Unset
             /\ Written(struct, m)[1] = m[1]
             /\ Accepts(m[2], Written(struct, m)[2])
             /\ Read(Written(struct, m)[2]) = Kept(m[2], struct[m[1]])
  <2>1. m \in ToSet(type) /\ struct[m[1]] # Unset /\ Fits(m[2], struct[m[1]])
    BY DEF SetMembers, FitsAll
  <2>2. /\ Written(struct, m)[1] = m[1]
        /\ Written(struct, m)[2] = ToJson(m[2], struct[m[1]])
    BY DEF Written
  <2>. QED  BY <2>1, <2>2, OneKind, FieldKept
<1>5. \A i \in 1 .. N : ~Refused(type, object, i)
  <2>. SUFFICES ASSUME NEW i \in 1 .. N PROVE ~Refused(type, object, i)
    OBVIOUS
  <2>1. PICK m \in SetMembers(type, struct) : object[i] = Written(struct, m)
    BY <1>2
  <2>. QED  BY <1>4, <2>1 DEF Refused
<1>6. read # Nothing /\ read = [name \in OptNilNames(type) \cup all |-> value(name)]
  <2>1. read # Nothing
    BY <1>1, <1>5, PartlyTyped
  <2>. QED  BY <1>5, <2>1 DEF Partly
<1>7. ASSUME NEW name \in Names(type)
      PROVE  /\ name \in OptNilNames(type) \cup all
             /\ value(name) = Kept(KindOf(type, name), struct[name])
  <2>1. PICK m \in ToSet(type) : m[1] = name
    BY NameOfMember
  <2>2. /\ KindOf(type, name) = m[2] /\ Fits(m[2], struct[name])
        /\ name \in OptNilNames(type) <=> m[2] \in OptNil
    BY <2>1, OneKind DEF FitsAll
  <2>3. CASE struct[name] = Unset
    <3>1. m[2] \in OptNil
      BY <2>2, <2>3 DEF Fits
    <3>2. ASSUME NEW i \in Before(object, N, name) PROVE FALSE
      <4>1. i \in 1 .. N /\ object[i][1] = name
        BY DEF Before
      <4>2. PICK k \in SetMembers(type, struct) : object[i] = Written(struct, k)
        BY <1>2, <4>1
      <4>. QED  BY <1>4, <2>3, <4>1, <4>2
    <3>3. value(name) = Unset
      BY <3>2
    <3>4. Kept(m[2], Unset) = Unset
      BY <3>1 DEF Kept, OptNil
    <3>. QED  BY <2>2, <2>3, <3>1, <3>3, <3>4
  <2>4. CASE struct[name] # Unset
    <3>1. m \in SetMembers(type, struct)
      BY <2>1, <2>4 DEF SetMembers
    <3>2. PICK i \in 1 .. N : object[i] = Written(struct, m)
      BY <1>3, <3>1
    <3>3. i \in Before(object, N, name) /\ Before(object, N, name) \in SUBSET (1 .. N)
      BY <1>4, <2>1, <3>1, <3>2 DEF Before
    <3>. DEFINE last == Max(Before(object, N, name))
    <3>4. last \in 1 .. N /\ object[last][1] = name
      <4>1. last \in Before(object, N, name)
        BY <1>1, <3>3, MaxAmong
      <4>. QED  BY <4>1 DEF Before
    <3>. HIDE DEF last
    <3>5. PICK k \in SetMembers(type, struct) : object[last] = Written(struct, k)
      BY <1>2, <3>4
    <3>6. k = m
      <4>1. k \in ToSet(type) /\ k[1] = m[1]
        BY <1>4, <2>1, <3>4, <3>5
      <4>. QED  BY <4>1, OneKind
    <3>7. Read(object[last][2]) = Kept(m[2], struct[name])
      BY <1>4, <2>1, <3>1, <3>5, <3>6
    <3>8. value(name) = Read(object[last][2]) /\ name \in all
      BY <3>3 DEF last
    <3>. QED  BY <2>2, <3>7, <3>8
  <2>. QED  BY <2>3, <2>4
<1>8. OptNilNames(type) \cup all = Names(type)
  BY <1>7 DEF OptNilNames, Names
<1>9. Decode(type, object) = IF read # Nothing /\ DOMAIN read = Names(type) THEN read ELSE Nothing
  BY <1>1, Decoded DEF N
<1>. HIDE DEF all, value, read
<1>10. read = [name \in Names(type) |-> Kept(KindOf(type, name), struct[name])]
  BY <1>6, <1>7, <1>8
<1>11. Decode(type, object) = read
  BY <1>6, <1>8, <1>9
<1>. QED  BY <1>6, <1>10, <1>11 DEF object

-----------------------------------------------------------------------------
\* The request of the call.
Sending ==
  CASE call.op = "cancelOrder" -> sendCancelOrder
    [] call.op = "createOrder" -> sendCreateOrder
    [] call.op = "getOrder" -> sendGetOrder
    [] call.op = "payOrder" -> sendPayOrder

(* The fields of a call's request are of their types. *)
LEMMA RequestFits ==
  ASSUME NEW c \in ClientCalls
  PROVE  /\ c.op = "createOrder" => FitsAll(CreateOrderRequest, c.request)
         /\ c.op = "payOrder" => FitsAll(PayOrderRequest, c.request)
<1>1. Null \notin Texts /\ Unset \notin Texts /\ Uuids \subseteq Texts
  BY JsonAssumption DEF Texts
<1>2. CASE c.op = "createOrder"
  <2>1. /\ \A name \in Required : c.request[name] \in Uuids
        /\ \A name \in Optional : c.request[name] \in Uuids \cup {Null, Unset}
    BY <1>2, ClientAssumption
  <2>2. ASSUME NEW m \in ToSet(CreateOrderRequest) PROVE Fits(m[2], c.request[m[1]])
    <3>1. \/ m[1] \in Required /\ m[2] = "uuid"
          \/ m[1] \in Optional /\ m[2] = "OptNilUUID"
      BY TypeMembers DEF Required, Optional
    <3>2. CASE m[1] \in Required /\ m[2] = "uuid"
      BY <1>1, <2>1, <3>2 DEF Fits
    <3>3. CASE m[1] \in Optional /\ m[2] = "OptNilUUID"
      BY <1>1, <2>1, <3>3 DEF Fits, OptNil
    <3>. QED  BY <3>1, <3>2, <3>3
  <2>. QED  BY <1>2, <2>2 DEF FitsAll
<1>3. CASE c.op = "payOrder"
  <2>1. c.request["payment_method"] \in Texts
    BY <1>3, ClientAssumption
  <2>2. ASSUME NEW m \in ToSet(PayOrderRequest)
        PROVE  m[1] = "payment_method" /\ m[2] = "PaymentMethod"
    BY TypeMembers
  <2>3. Fits("PaymentMethod", c.request["payment_method"])
    BY <1>1, <2>1 DEF Fits
  <2>. QED  BY <1>3, <2>2, <2>3 DEF FitsAll
<1>. QED  BY <1>2, <1>3

(* A path of two given segments. *)
LEMMA TwoSegmentsIn ==
  ASSUME NEW S, NEW a \in S, NEW b \in S
  PROVE  /\ <<a, b>> \in Seq(S) /\ Len(<<a, b>>) = 2
         /\ <<a, b>>[1] = a /\ <<a, b>>[2] = b /\ <<a, b>> # <<>>
OBVIOUS

(* What the client sends is an HTTP request for its operation. *)
LEMMA Sends ==
  ASSUME call \in ClientCalls
  PROVE  /\ IsHttp(Sending) /\ OperationOf(Sending.verb, Sending.path) = call.op
         /\ call.op # "createOrder" => Sending.path[1] = call.id
         /\ call.op = "createOrder" =>
              Sending.members = Encode(CreateOrderRequest, call.request)
         /\ call.op = "payOrder" => Sending.members = Encode(PayOrderRequest, call.request)
<1>. DEFINE Segments == OrderIds \cup {Garbage, "", "pay", "cancel"}
<1>1. /\ call.op \in Ops /\ call.urlOk \in BOOLEAN
      /\ call.op # "createOrder" => call.id \in Segments
      /\ "pay" \in Segments /\ "cancel" \in Segments
  BY ClientAssumption
<1>2. <<>> \in Objects
  BY DEF Objects
<1>3. CASE call.op = "createOrder"
  <2>1. Sending = WithBody(<<>>, CreateOrderRequest)
    BY <1>3 DEF Sending, sendCreateOrder
  <2>2. Encode(CreateOrderRequest, call.request) \in Objects
    BY <1>3, RequestFits, Encoded DEF Types
  <2>3. <<>> \in Seq(Segments)
    OBVIOUS
  <2>. HIDE DEF Segments
  <2>4. IsHttp(Sending)
    BY <1>1, <2>1, <2>2, <2>3 DEF WithBody, IsHttp, Segments
  <2>. QED  BY <1>3, <2>1, <2>4 DEF WithBody, OperationOf
<1>4. CASE call.op = "payOrder"
  <2>1. Sending = WithBody(<<call.id, "pay">>, PayOrderRequest)
    BY <1>4 DEF Sending, sendPayOrder
  <2>2. Encode(PayOrderRequest, call.request) \in Objects
    BY <1>4, RequestFits, Encoded DEF Types
  <2>. HIDE DEF Segments
  <2>3. /\ <<call.id, "pay">> \in Seq(Segments) /\ Len(<<call.id, "pay">>) = 2
        /\ <<call.id, "pay">>[1] = call.id /\ <<call.id, "pay">>[2] = "pay"
        /\ <<call.id, "pay">> # <<>>
    <3>1. call.id \in Segments /\ "pay" \in Segments
      BY <1>1, <1>4
    <3>. QED  BY <3>1, TwoSegmentsIn
  <2>4. IsHttp(Sending)
    BY <1>1, <2>1, <2>2, <2>3 DEF WithBody, IsHttp, Segments
  <2>. QED  BY <1>4, <2>1, <2>3, <2>4 DEF WithBody, OperationOf
<1>5. CASE call.op = "getOrder"
  <2>1. Sending = Bodiless("GET", <<call.id>>)
    BY <1>5 DEF Sending, sendGetOrder
  <2>. HIDE DEF Segments
  <2>2. /\ <<call.id>> \in Seq(Segments) /\ Len(<<call.id>>) = 1
        /\ <<call.id>>[1] = call.id /\ <<call.id>> # <<>>
    <3>1. call.id \in Segments
      BY <1>1, <1>5
    <3>. QED  BY <3>1
  <2>3. IsHttp(Sending)
    BY <1>1, <1>2, <2>1, <2>2 DEF Bodiless, IsHttp, Segments
  <2>. QED  BY <1>5, <2>1, <2>2, <2>3 DEF Bodiless, OperationOf
<1>6. CASE call.op = "cancelOrder"
  <2>1. Sending = Bodiless("POST", <<call.id, "cancel">>)
    BY <1>6 DEF Sending, sendCancelOrder
  <2>. HIDE DEF Segments
  <2>2. /\ <<call.id, "cancel">> \in Seq(Segments) /\ Len(<<call.id, "cancel">>) = 2
        /\ <<call.id, "cancel">>[1] = call.id /\ <<call.id, "cancel">>[2] = "cancel"
        /\ <<call.id, "cancel">> # <<>>
    <3>1. call.id \in Segments /\ "cancel" \in Segments
      BY <1>1, <1>6
    <3>. QED  BY <3>1, TwoSegmentsIn
  <2>3. IsHttp(Sending)
    BY <1>1, <1>2, <2>1, <2>2 DEF Bodiless, IsHttp, Segments
  <2>. QED  BY <1>6, <2>1, <2>2, <2>3 DEF Bodiless, OperationOf
<1>. QED  BY <1>1, <1>3, <1>4, <1>5, <1>6 DEF Ops

\* A service method that runs for the call's request runs for the call: the body
\* it was given is the caller's own (handler.go:41, oas_client_gen.go:105).
LEMMA CalledAsMeant ==
  ASSUME call \in ClientCalls, http = Sending, Routed, Called
  PROVE  op = call.op /\ called = CallMeant
<1>1. op = call.op /\ op \in Ops /\ called = Meant(op) /\ Valid(op)
  BY Sends DEF Routed, Called
<1>2. http.members \in Objects
  BY Sends, HttpOK
<1>3. IF op = "createOrder" THEN call.id = Nothing ELSE http.path[1] = call.id
  BY <1>1, Sends, ClientAssumption
<1>4. CASE op = "createOrder"
  <2>. DEFINE decoded == decodeCreateOrderRequest(http.members)
  <2>1. ASSUME NEW name \in Required \cup Optional PROVE decoded[name] = call.request[name]
    <3>1. decoded = [n \in Names(CreateOrderRequest) |->
                       Kept(KindOf(CreateOrderRequest, n), call.request[n])]
      <4>1. /\ http.members = Encode(CreateOrderRequest, call.request)
            /\ FitsAll(CreateOrderRequest, call.request)
        BY <1>1, <1>4, Sends, RequestFits
      <4>2. CreateOrderRequest \in Types
        BY DEF Types
      <4>. QED  BY <4>1, <4>2, RoundTrip DEF decodeCreateOrderRequest
    <3>. QED  BY <3>1, TypeNames, TypeKinds DEF Kept
  <2>2. decoded # Nothing
    BY <1>2, <1>1, <1>4, CreateDecoded DEF Valid
  <2>3. \A name \in Required \cup Optional :
          ShipMeant(http.members)[name] = FromOptNil(decoded[name])
    <3>. DEFINE members == http.members
    <3>1. members \in Objects /\ decoded # Nothing
          /\ decoded = decodeCreateOrderRequest(members)
      BY <1>2, <2>2
    <3>. HIDE DEF members, decoded
    <3>2. \A name \in Required \cup Optional :
            ShipMeant(members)[name] = FromOptNil(decoded[name])
      BY <3>1, CreateDecoded
    <3>. QED  BY <3>2 DEF members
  <2>. HIDE DEF decoded
  <2>4. ShipMeant(http.members)
          = [name \in Required \cup Optional |-> FromOptNil(call.request[name])]
    BY <2>1, <2>3 DEF ShipMeant
  <2>. QED  BY <1>1, <1>3, <1>4, <2>4 DEF Meant, CallMeant
<1>5. CASE op = "payOrder"
  <2>. DEFINE decoded == decodePayOrderRequest(http.members)
  <2>1. decoded # Nothing
    BY <1>1, <1>2, <1>5, PayDecoded DEF Valid
  <2>2. decoded.payment_method = LastValue(http.members, "payment_method")[2]
    <3>. DEFINE members == http.members
    <3>1. members \in Objects /\ decoded # Nothing
          /\ decoded = decodePayOrderRequest(members)
      BY <1>2, <2>1
    <3>. HIDE DEF members, decoded
    <3>2. decoded.payment_method = LastValue(members, "payment_method")[2]
      BY <3>1, PayDecoded
    <3>. QED  BY <3>2 DEF members
  <2>3. decoded["payment_method"] = call.request["payment_method"]
    <3>1. decoded = Decode(PayOrderRequest, http.members)
      BY <2>1 DEF decodePayOrderRequest
    <3>2. decoded = [n \in Names(PayOrderRequest) |->
                       Kept(KindOf(PayOrderRequest, n), call.request[n])]
      <4>. HIDE DEF decoded
      <4>1. http.members = Encode(PayOrderRequest, call.request)
        BY <1>1, <1>5, Sends
      <4>2. FitsAll(PayOrderRequest, call.request)
        BY <1>1, <1>5, RequestFits
      <4>3. PayOrderRequest \in Types
        BY DEF Types
      <4>. QED  BY <3>1, <4>1, <4>2, <4>3, RoundTrip
    <3>. HIDE DEF decoded
    <3>3. "payment_method" \in Names(PayOrderRequest)
          /\ KindOf(PayOrderRequest, "payment_method") = "PaymentMethod"
      BY TypeNames, TypeKinds
    <3>4. decoded["payment_method"]
            = Kept(KindOf(PayOrderRequest, "payment_method"), call.request["payment_method"])
      BY <3>2, <3>3
    <3>. QED  BY <3>3, <3>4 DEF Kept
  <2>. HIDE DEF decoded
  <2>. QED  BY <1>1, <1>3, <1>5, <2>2, <2>3 DEF Meant, CallMeant
<1>6. CASE op \notin {"createOrder", "payOrder"}
  BY <1>1, <1>3, <1>6 DEF Meant, CallMeant
<1>. QED  BY <1>4, <1>5, <1>6

-----------------------------------------------------------------------------
(* What a successful call returned. *)
LEMMA ReturnedDetails ==
  ASSUME Routed, ParamsRead, Called, outcome = "ok"
  PROVE  /\ order \in Orders
         /\ op = "payOrder" => order.status = "PAID" /\ order.transaction_uuid \in Txs
         /\ op = "createOrder" =>
              \A name \in Required \cup Optional : order[name] = called.input[name]
<1>1. /\ called \in Calls /\ order \in Returned(called) /\ called.op = op /\ called.id = id
      /\ op \in Ops
  BY DEF Called, Routed, ParamsRead, Meant
<1>2. order \in Orders
  BY <1>1, ReturnedOrders DEF Called, ParamsRead
<1>3. CASE op = "payOrder"
  <2>1. order \in UNION {Row(called.id, ship, "PAID", tx, called.input) : ship \in Ships, tx \in Txs}
    BY <1>1, <1>3 DEF Returned
  <2>2. PICK ship \in Ships, tx \in Txs : order \in Row(called.id, ship, "PAID", tx, called.input)
    BY <2>1
  <2>. QED  BY <1>2, <1>3, <2>2 DEF Row
<1>4. CASE op = "createOrder"
  <2>1. order \in UNION {Row(i, called.input, "PENDING_PAYMENT", Null, Null) : i \in OrderIds}
    BY <1>1, <1>4 DEF Returned
  <2>2. PICK i \in OrderIds : order \in Row(i, called.input, "PENDING_PAYMENT", Null, Null)
    BY <2>1
  <2>3. /\ order.hull_uuid = called.input.hull_uuid
        /\ order.engine_uuid = called.input.engine_uuid
        /\ order.shield_uuid = called.input.shield_uuid
        /\ order.weapon_uuid = called.input.weapon_uuid
    BY <2>2 DEF Row
  <2>. QED  BY <1>2, <1>4, <2>3 DEF Required, Optional
<1>. QED  BY <1>2, <1>3, <1>4

(* The fields of an order as the handler writes them. *)
LEMMA DtoFits ==
  ASSUME order \in Orders
  PROVE  /\ FitsAll(OrderDto, ToOrderDto)
         /\ \A name \in Names(OrderDto) :
              ToOrderDto[name] = IF order[name] = Null THEN Unset ELSE order[name]
<1>1. /\ Null \notin Texts /\ Unset \notin Texts /\ Null \notin Int /\ Unset \notin Int
      /\ Uuids \subseteq Texts /\ Times \subseteq Texts /\ PaymentMethods \subseteq Texts
      /\ Statuses \subseteq Texts /\ OrderIds \subseteq Uuids /\ Txs \subseteq Uuids
      /\ Prices \subseteq Int /\ Null # Unset
  BY JsonAssumption, ApiAssumption DEF Texts, Uuids
<1>2. /\ order.order_uuid \in OrderIds /\ order.hull_uuid \in Uuids /\ order.engine_uuid \in Uuids
      /\ order.shield_uuid \in Uuids \cup {Null} /\ order.weapon_uuid \in Uuids \cup {Null}
      /\ order.total_price \in Prices /\ order.transaction_uuid \in Txs \cup {Null}
      /\ order.payment_method \in PaymentMethods \cup {Null} /\ order.status \in Statuses
      /\ order.created_at \in Times
  BY DEF Orders
<1>3. DOMAIN order = Names(OrderDto)
  BY TypeNames DEF Orders, Required, Optional
<1>4. ASSUME NEW m \in ToSet(OrderDto)
      PROVE  \/ m[2] = "uuid" /\ order[m[1]] \in Uuids
             \/ m[2] = "OptNilUUID" /\ order[m[1]] \in Uuids \cup {Null}
             \/ m[2] = "int" /\ order[m[1]] \in Int
             \/ m[2] = "OptNilPaymentMethod" /\ order[m[1]] \in PaymentMethods \cup {Null}
             \/ m[2] = "OrderStatus" /\ order[m[1]] \in Statuses
             \/ m[2] = "time" /\ order[m[1]] \in Times
  <2>1. \/ m \in {<<"order_uuid", "uuid">>, <<"hull_uuid", "uuid">>, <<"engine_uuid", "uuid">>}
        \/ m \in {<<"shield_uuid", "OptNilUUID">>, <<"weapon_uuid", "OptNilUUID">>,
                  <<"transaction_uuid", "OptNilUUID">>}
        \/ m = <<"total_price", "int">> \/ m = <<"payment_method", "OptNilPaymentMethod">>
        \/ m = <<"status", "OrderStatus">> \/ m = <<"created_at", "time">>
    BY TypeMembers
  <2>2. CASE m \in {<<"order_uuid", "uuid">>, <<"hull_uuid", "uuid">>, <<"engine_uuid", "uuid">>}
    <3>1. m[2] = "uuid" /\ m[1] \in {"order_uuid", "hull_uuid", "engine_uuid"}
      BY <2>2
    <3>. QED  BY <1>1, <1>2, <3>1
  <2>3. CASE m \in {<<"shield_uuid", "OptNilUUID">>, <<"weapon_uuid", "OptNilUUID">>,
                    <<"transaction_uuid", "OptNilUUID">>}
    <3>1. m[2] = "OptNilUUID" /\ m[1] \in {"shield_uuid", "weapon_uuid", "transaction_uuid"}
      BY <2>3
    <3>. QED  BY <1>1, <1>2, <3>1
  <2>4. CASE m = <<"total_price", "int">>
    BY <1>1, <1>2, <2>4
  <2>5. CASE m = <<"payment_method", "OptNilPaymentMethod">>
    BY <1>2, <2>5
  <2>6. CASE m = <<"status", "OrderStatus">>
    BY <1>2, <2>6
  <2>7. CASE m = <<"created_at", "time">>
    BY <1>2, <2>7
  <2>. QED  BY <2>1, <2>2, <2>3, <2>4, <2>5, <2>6, <2>7
<1>5. ASSUME NEW name \in Names(OrderDto)
      PROVE  ToOrderDto[name] = IF order[name] = Null THEN Unset ELSE order[name]
  <2>1. PICK m \in ToSet(OrderDto) : m[1] = name
    BY NameOfMember
  <2>2. name \in OptNilNames(OrderDto) <=> m[2] \in OptNil
    BY <2>1, OneKind DEF Types
  <2>3. order[name] = Null => m[2] \in OptNil
    BY <1>1, <1>4, <2>1 DEF OptNil
  <2>. QED  BY <1>3, <2>2, <2>3 DEF ToOrderDto, ToOptNil
<1>6. ASSUME NEW m \in ToSet(OrderDto) PROVE Fits(m[2], ToOrderDto[m[1]])
  <2>1. m[1] \in Names(OrderDto)
    BY OneKind DEF Types
  <2>2. CASE order[m[1]] = Null
    <3>1. ToOrderDto[m[1]] = Unset /\ m[2] \in OptNil
      BY <1>1, <1>4, <1>5, <2>1, <2>2 DEF OptNil
    <3>. QED  BY <3>1 DEF Fits
  <2>3. CASE order[m[1]] # Null
    <3>1. ToOrderDto[m[1]] = order[m[1]]
      BY <1>5, <2>1, <2>3
    <3>. QED  BY <1>1, <1>4, <2>3, <3>1 DEF Fits
  <2>. QED  BY <2>2, <2>3
<1>. QED  BY <1>5, <1>6 DEF FitsAll

(* The outcomes with a name of their own. *)
LEMMA NamedOutcomes ==
  ASSUME NEW o \in Ops, NEW out \in Outcomes(o), out \notin {"ok", "failed"}
  PROVE  out \in Messages /\ out \in Texts
BY DEF Outcomes, Messages, Texts

\* The handler's results fit the types they are encoded as (handler.go:41).
LEMMA ResultFits ==
  ASSUME Routed, ParamsRead, Called, outcome # "failed"
  PROVE  /\ SchemaOf \in Types /\ FitsAll(SchemaOf, ResultOf.value)
         /\ outcome # "ok" =>
              ResultOf.value = [code |-> StatusOf(outcome), message |-> outcome]
<1>1. op \in Ops /\ outcome \in Outcomes(op)
  BY DEF Routed, Called
<1>2. SchemaOf \in Types
  BY <1>1 DEF SchemaOf, Types, Ops
<1>3. /\ Null \notin Texts /\ Unset \notin Texts /\ Null \notin Int /\ Unset \notin Int
      /\ OrderIds \subseteq Uuids /\ Txs \subseteq Uuids /\ Uuids \subseteq Texts
      /\ Prices \subseteq Int
  BY JsonAssumption, ApiAssumption DEF Texts, Uuids
<1>4. CASE outcome # "ok"
  <2>1. /\ ResultOf.value = [code |-> StatusOf(outcome), message |-> outcome]
        /\ StatusOf(outcome) \in Int
    <3>1. \A type, code : Problem(type, code).value = [code |-> code, message |-> outcome]
      BY DEF Problem, Result
    <3>2. CASE op = "createOrder"
      <4>1. outcome \in {"ErrComponentNotFound", "ErrComponentOutOfStock"}
        BY <1>1, <1>4, <3>2 DEF Outcomes
      <4>. QED  BY <3>1, <3>2, <4>1 DEF ResultOf, CreateOrder, StatusOf
    <3>3. CASE op = "getOrder"
      <4>1. outcome = "ErrOrderNotFound"
        BY <1>1, <1>4, <3>3 DEF Outcomes
      <4>. QED  BY <3>1, <3>3, <4>1 DEF ResultOf, GetOrder, StatusOf
    <3>4. CASE op = "payOrder"
      <4>1. outcome \in {"ErrOrderNotFound", "ErrOrderAlreadyFinal"}
        BY <1>1, <1>4, <3>4 DEF Outcomes
      <4>. QED  BY <3>1, <3>4, <4>1 DEF ResultOf, PayOrder, StatusOf
    <3>5. CASE op = "cancelOrder"
      <4>1. outcome \in {"ErrOrderNotFound", "ErrOrderAlreadyFinal"}
        BY <1>1, <1>4, <3>5 DEF Outcomes
      <4>. QED  BY <3>1, <3>5, <4>1 DEF ResultOf, CancelOrder, StatusOf
    <3>. QED  BY <1>1, <3>2, <3>3, <3>4, <3>5 DEF Ops
  <2>2. SchemaOf = Error /\ outcome \in Texts
    BY <1>1, <1>4, NamedOutcomes DEF SchemaOf
  <2>3. ASSUME NEW m \in ToSet(Error) PROVE Fits(m[2], ResultOf.value[m[1]])
    <3>1. m = <<"code", "int">> \/ m = <<"message", "string">>
      BY TypeMembers
    <3>2. CASE m = <<"code", "int">>
      <4>1. m[2] = "int" /\ ResultOf.value[m[1]] = StatusOf(outcome)
        BY <2>1, <3>2
      <4>. QED  BY <1>3, <2>1, <4>1 DEF Fits
    <3>3. CASE m = <<"message", "string">>
      <4>1. m[2] = "string" /\ ResultOf.value[m[1]] = outcome
        BY <2>1, <3>3
      <4>. QED  BY <1>3, <2>2, <4>1 DEF Fits
    <3>. QED  BY <3>1, <3>2, <3>3
  <2>. QED  BY <1>2, <1>4, <2>1, <2>2, <2>3 DEF FitsAll
<1>5. CASE outcome = "ok" /\ op = "createOrder"
  <2>1. /\ SchemaOf = CreateOrderResponse
        /\ ResultOf.value = [order_uuid |-> order.order_uuid, total_price |-> order.total_price]
    BY <1>5 DEF SchemaOf, ResultOf, CreateOrder, Result
  <2>2. order.order_uuid \in Uuids /\ order.total_price \in Int
    BY <1>3, <1>5, ReturnedDetails DEF Orders
  <2>3. ASSUME NEW m \in ToSet(CreateOrderResponse) PROVE Fits(m[2], ResultOf.value[m[1]])
    <3>1. \/ m[2] = "uuid" /\ ResultOf.value[m[1]] = order.order_uuid
          \/ m[2] = "int" /\ ResultOf.value[m[1]] = order.total_price
      BY <2>1, TypeMembers
    <3>. QED  BY <1>3, <2>2, <3>1 DEF Fits
  <2>. QED  BY <1>2, <1>5, <2>1, <2>3 DEF FitsAll
<1>6. CASE outcome = "ok" /\ op = "getOrder"
  <2>1. SchemaOf = OrderDto /\ ResultOf.value = ToOrderDto
    BY <1>6 DEF SchemaOf, ResultOf, GetOrder, Result
  <2>. QED  BY <1>2, <1>6, <2>1, ReturnedDetails, DtoFits
<1>7. CASE outcome = "ok" /\ op = "payOrder"
  <2>1. /\ SchemaOf = PayOrderResponse
        /\ ResultOf.value = [transaction_uuid |-> order.transaction_uuid]
    BY <1>7 DEF SchemaOf, ResultOf, PayOrder, Result
  <2>2. order.transaction_uuid \in Uuids
    BY <1>3, <1>7, ReturnedDetails
  <2>3. ASSUME NEW m \in ToSet(PayOrderResponse) PROVE Fits(m[2], ResultOf.value[m[1]])
    <3>1. m[2] = "uuid" /\ ResultOf.value[m[1]] = order.transaction_uuid
      BY <2>1, TypeMembers
    <3>. QED  BY <1>3, <2>2, <3>1 DEF Fits
  <2>. QED  BY <1>2, <1>7, <2>1, <2>3 DEF FitsAll
<1>8. CASE outcome = "ok" /\ op = "cancelOrder"
  <2>1. SchemaOf = CancelOrderResponse
    BY <1>8 DEF SchemaOf
  <2>. QED  BY <1>2, <1>8, <2>1, TypeMembers DEF FitsAll
<1>. QED  BY <1>1, <1>4, <1>5, <1>6, <1>7, <1>8 DEF Ops

\* What the other end reads of an answer is what the handler wrote: the named error,
\* the order as the API shows it, the new order or the transaction.
LEMMA AnswerKept ==
  ASSUME Routed, ParamsRead, Called, outcome # "failed"
  PROVE  /\ Decode(SchemaOf, BodyOf) # Nothing
         /\ outcome # "ok" =>
              Decode(SchemaOf, BodyOf) = [code |-> StatusOf(outcome), message |-> outcome]
         /\ outcome = "ok" /\ op = "getOrder" =>
              Decode(SchemaOf, BodyOf) = Shown /\ ValidOrderDto(Decode(SchemaOf, BodyOf))
         /\ outcome = "ok" /\ op = "createOrder" =>
              /\ Decode(SchemaOf, BodyOf).order_uuid = order.order_uuid
              /\ Decode(SchemaOf, BodyOf).total_price = order.total_price
         /\ outcome = "ok" /\ op = "payOrder" =>
              Decode(SchemaOf, BodyOf).transaction_uuid = order.transaction_uuid
<1>. DEFINE value == Decode(SchemaOf, BodyOf)
<1>1. /\ SchemaOf \in Types /\ FitsAll(SchemaOf, ResultOf.value)
      /\ outcome # "ok" => ResultOf.value = [code |-> StatusOf(outcome), message |-> outcome]
  BY ResultFits
<1>2. /\ value # Nothing
      /\ value = [name \in Names(SchemaOf) |->
                    Kept(KindOf(SchemaOf, name), ResultOf.value[name])]
  BY <1>1, RoundTrip DEF BodyOf
<1>. HIDE DEF value
<1>3. ASSUME NEW m \in ToSet(SchemaOf)
      PROVE  value[m[1]] = Kept(m[2], ResultOf.value[m[1]])
  <2>1. m[1] \in Names(SchemaOf) /\ KindOf(SchemaOf, m[1]) = m[2]
    BY <1>1, OneKind
  <2>. QED  BY <1>2, <2>1
<1>4. ASSUME outcome # "ok"
      PROVE  value = [code |-> StatusOf(outcome), message |-> outcome]
  <2>1. SchemaOf = Error
    BY <1>4 DEF SchemaOf
  <2>2. value["code"] = StatusOf(outcome) /\ value["message"] = outcome
    <3>1. <<"code", "int">> \in ToSet(SchemaOf) /\ <<"message", "string">> \in ToSet(SchemaOf)
      BY <2>1, TypeMembers
    <3>2. value["code"] = Kept("int", ResultOf.value["code"])
      BY <1>3, <3>1
    <3>3. value["message"] = Kept("string", ResultOf.value["message"])
      BY <1>3, <3>1
    <3>. QED  BY <1>1, <1>4, <3>2, <3>3 DEF Kept
  <2>3. value = [name \in {"code", "message"} |->
                   Kept(KindOf(SchemaOf, name), ResultOf.value[name])]
    BY <1>2, <2>1, TypeNames
  <2>4. value = [name \in {"code", "message"} |-> value[name]]
    BY <2>3
  <2>. QED  BY <2>2, <2>4
<1>5. ASSUME outcome = "ok", op = "getOrder"
      PROVE  value = Shown /\ ValidOrderDto(value)
  <2>1. SchemaOf = OrderDto /\ ResultOf.value = ToOrderDto /\ order \in Orders
    BY <1>5, ReturnedDetails DEF SchemaOf, ResultOf, GetOrder, Result
  <2>2. ASSUME NEW name \in Names(OrderDto) PROVE value[name] = Shown[name]
    <3>1. PICK m \in ToSet(OrderDto) : m[1] = name
      BY NameOfMember
    <3>2. value[name] = Kept(m[2], ToOrderDto[name])
      BY <1>3, <2>1, <3>1
    <3>3. m[2] = "time" <=> name = "created_at"
      BY <3>1, TypeMembers
    <3>4. name = "created_at" => order[name] # Null
      BY <2>1, JsonAssumption DEF Orders, Texts
    <3>5. ToOrderDto[name] = IF order[name] = Null THEN Unset ELSE order[name]
      BY <2>1, DtoFits
    <3>. QED  BY <3>2, <3>3, <3>4, <3>5 DEF Shown, Kept
  <2>3. value = Shown
    <3>1. value = [name \in Names(OrderDto) |-> value[name]]
      BY <1>2, <2>1
    <3>2. Shown = [name \in Names(OrderDto) |-> Shown[name]]
      BY DEF Shown
    <3>. QED  BY <2>2, <3>1, <3>2
  <2>4. /\ Shown["payment_method"] \in PaymentMethods \cup {Unset}
        /\ Shown["status"] \in Statuses
    <3>1. "payment_method" \in Names(OrderDto) /\ "status" \in Names(OrderDto)
      BY TypeNames
    <3>2. order["payment_method"] \in PaymentMethods \cup {Null} /\ order["status"] \in Statuses
          /\ order["status"] # Null
      BY <2>1, JsonAssumption DEF Orders, Texts
    <3>. QED  BY <3>1, <3>2 DEF Shown
  <2>. QED  BY <2>3, <2>4 DEF ValidOrderDto
<1>6. ASSUME outcome = "ok", op = "createOrder"
      PROVE  value.order_uuid = order.order_uuid /\ value.total_price = order.total_price
  <2>1. /\ SchemaOf = CreateOrderResponse
        /\ ResultOf.value = [order_uuid |-> order.order_uuid, total_price |-> order.total_price]
    BY <1>6 DEF SchemaOf, ResultOf, CreateOrder, Result
  <2>2. /\ <<"order_uuid", "uuid">> \in ToSet(SchemaOf)
        /\ <<"total_price", "int">> \in ToSet(SchemaOf)
    BY <2>1, TypeMembers
  <2>3. value["order_uuid"] = Kept("uuid", ResultOf.value["order_uuid"])
    BY <1>3, <2>2
  <2>4. value["total_price"] = Kept("int", ResultOf.value["total_price"])
    BY <1>3, <2>2
  <2>. QED  BY <2>1, <2>3, <2>4 DEF Kept
<1>7. ASSUME outcome = "ok", op = "payOrder"
      PROVE  value.transaction_uuid = order.transaction_uuid
  <2>1. /\ SchemaOf = PayOrderResponse
        /\ ResultOf.value = [transaction_uuid |-> order.transaction_uuid]
    BY <1>7 DEF SchemaOf, ResultOf, PayOrder, Result
  <2>2. <<"transaction_uuid", "uuid">> \in ToSet(SchemaOf)
    BY <2>1, TypeMembers
  <2>3. value["transaction_uuid"] = Kept("uuid", ResultOf.value["transaction_uuid"])
    BY <1>3, <2>2
  <2>. QED  BY <2>1, <2>3 DEF Kept
<1>. QED  BY <1>2, <1>4, <1>5, <1>6, <1>7 DEF value

\* What ogen sends of a failure without a name is no Error of the API
\* (oas_handlers_gen.go:59).
LEMMA RefusalUnread == Decode(Error, Refusal) = Nothing
<1>1. "error_message" \in Keys /\ Str(Garbage) \in Jsons
  <2>1. "error_message" \in Keys
    BY DEF Keys
  <2>2. Garbage \in Texts
    BY DEF Texts
  <2>3. \A s \in Texts : Str(s) \in Jsons
    BY DEF Jsons, Str
  <2>. QED  BY <2>1, <2>2, <2>3
<1>2. <<"error_message", Str(Garbage)>> \in Keys \X Jsons
  BY <1>1
<1>3. Refusal \in Objects /\ Len(Refusal) = 1 /\ Refusal[1][1] = "error_message"
  BY <1>2 DEF Refusal, Objects
<1>4. \A name \in Names(Error) : Before(Refusal, 1, name) = {}
  BY <1>3, TypeNames DEF Before
<1>5. DOMAIN Partly(Error, Refusal, 1) # Names(Error) \/ Partly(Error, Refusal, 1) = Nothing
  <2>. DEFINE names == OptNilNames(Error) \cup {m \in Names(Error) : Before(Refusal, 1, m) # {}}
  <2>1. names = {} /\ Names(Error) # {}
    BY <1>4, TypeNames
  <2>2. Partly(Error, Refusal, 1) # Nothing => DOMAIN Partly(Error, Refusal, 1) = names
    BY DEF Partly
  <2>. QED  BY <2>1, <2>2
<1>6. Error \in Types
  BY DEF Types
<1>. QED  BY <1>3, <1>5, <1>6, Decoded

-----------------------------------------------------------------------------
\* What the client reads an answer of each operation with.
TypeNamed(o) ==
  CASE o = "cancelOrder" -> decodeCancelOrderResponse
    [] o = "createOrder" -> decodeCreateOrderResponse
    [] o = "getOrder" -> decodeGetOrderResponse
    [] o = "payOrder" -> decodePayOrderResponse

SchemaNamed(o) ==
  CASE o = "cancelOrder" -> CancelOrderRes
    [] o = "createOrder" -> CreateOrderRes
    [] o = "getOrder" -> GetOrderRes
    [] o = "payOrder" -> PayOrderRes

TypedNames == DOMAIN CancelOrderRes \cup DOMAIN CreateOrderRes \cup DOMAIN GetOrderRes
                \cup DOMAIN PayOrderRes

Untyped == {"do request", "read body", "unexpected status", "content type", "decode body",
            "validate"}

(* The names of a typed result are none of the stages. *)
LEMMA NamesApart ==
  /\ TypedNames =
       {"CancelOrderResponse", "CancelOrderBadRequest", "CancelOrderNotFound",
        "CancelOrderConflict", "CancelOrderInternalServerError",
        "CreateOrderResponse", "CreateOrderBadRequest", "CreateOrderNotFound",
        "CreateOrderConflict", "CreateOrderInternalServerError",
        "OrderDto", "GetOrderBadRequest", "GetOrderNotFound", "GetOrderInternalServerError",
        "PayOrderResponse", "PayOrderBadRequest", "PayOrderNotFound", "PayOrderConflict",
        "PayOrderInternalServerError"}
  /\ Success \subseteq TypedNames /\ TypedNames \cap Untyped = {}
<1>1. /\ DOMAIN CancelOrderRes = {"CancelOrderResponse", "CancelOrderBadRequest",
                                  "CancelOrderNotFound", "CancelOrderConflict",
                                  "CancelOrderInternalServerError"}
      /\ DOMAIN CreateOrderRes = {"CreateOrderResponse", "CreateOrderBadRequest",
                                  "CreateOrderNotFound", "CreateOrderConflict",
                                  "CreateOrderInternalServerError"}
      /\ DOMAIN GetOrderRes = {"OrderDto", "GetOrderBadRequest", "GetOrderNotFound",
                               "GetOrderInternalServerError"}
      /\ DOMAIN PayOrderRes = {"PayOrderResponse", "PayOrderBadRequest", "PayOrderNotFound",
                               "PayOrderConflict", "PayOrderInternalServerError"}
  BY DEF CancelOrderRes, CreateOrderRes, GetOrderRes, PayOrderRes
<1>2. TypedNames =
       {"CancelOrderResponse", "CancelOrderBadRequest", "CancelOrderNotFound",
        "CancelOrderConflict", "CancelOrderInternalServerError",
        "CreateOrderResponse", "CreateOrderBadRequest", "CreateOrderNotFound",
        "CreateOrderConflict", "CreateOrderInternalServerError",
        "OrderDto", "GetOrderBadRequest", "GetOrderNotFound", "GetOrderInternalServerError",
        "PayOrderResponse", "PayOrderBadRequest", "PayOrderNotFound", "PayOrderConflict",
        "PayOrderInternalServerError"}
  BY <1>1 DEF TypedNames
<1>. QED  BY <1>2 DEF Success, Untyped

\* Each status the server gives an outcome is one the client knows for the operation,
\* and decodes as what the server encoded it as (oas_response_decoders_gen.go:15).
LEMMA StatusKnown ==
  ASSUME op \in Ops, outcome \in Outcomes(op)
  PROVE  /\ StatusOf(outcome) \in DOMAIN TypeNamed(op)
         /\ SchemaNamed(op)[TypeNamed(op)[StatusOf(outcome)]]
              = IF outcome = "failed" THEN Error ELSE SchemaOf
         /\ TypeNamed(op)[StatusOf(outcome)] \in TypedNames
         /\ TypeNamed(op)[StatusOf(outcome)] \in Success <=> outcome = "ok"
         /\ outcome = "ok" =>
              TypeNamed(op)[StatusOf(outcome)] =
                CASE op = "cancelOrder" -> "CancelOrderResponse"
                  [] op = "createOrder" -> "CreateOrderResponse"
                  [] op = "getOrder" -> "OrderDto"
                  [] op = "payOrder" -> "PayOrderResponse"
<1>1. CASE op = "cancelOrder"
  <2>1. outcome \in {"ok", "failed", "ErrOrderNotFound", "ErrOrderAlreadyFinal"}
    BY <1>1 DEF Outcomes
  <2>2. TypeNamed(op) = decodeCancelOrderResponse /\ SchemaNamed(op) = CancelOrderRes
    BY <1>1 DEF TypeNamed, SchemaNamed
  <2>3. CASE outcome = "ok"
    BY <1>1, <2>2, <2>3, NamesApart
    DEF StatusOf, SchemaOf, Success, decodeCancelOrderResponse, CancelOrderRes
  <2>4. CASE outcome = "failed"
    BY <1>1, <2>2, <2>4, NamesApart
    DEF StatusOf, SchemaOf, Success, decodeCancelOrderResponse, CancelOrderRes
  <2>5. CASE outcome = "ErrOrderNotFound"
    BY <1>1, <2>2, <2>5, NamesApart
    DEF StatusOf, SchemaOf, Success, decodeCancelOrderResponse, CancelOrderRes
  <2>6. CASE outcome = "ErrOrderAlreadyFinal"
    BY <1>1, <2>2, <2>6, NamesApart
    DEF StatusOf, SchemaOf, Success, decodeCancelOrderResponse, CancelOrderRes
  <2>. QED  BY <2>1, <2>3, <2>4, <2>5, <2>6
<1>2. CASE op = "createOrder"
  <2>1. outcome \in {"ok", "failed", "ErrComponentNotFound", "ErrComponentOutOfStock"}
    BY <1>2 DEF Outcomes
  <2>2. TypeNamed(op) = decodeCreateOrderResponse /\ SchemaNamed(op) = CreateOrderRes
    BY <1>2 DEF TypeNamed, SchemaNamed
  <2>3. CASE outcome = "ok"
    BY <1>2, <2>2, <2>3, NamesApart
    DEF StatusOf, SchemaOf, Success, decodeCreateOrderResponse, CreateOrderRes
  <2>4. CASE outcome = "failed"
    BY <1>2, <2>2, <2>4, NamesApart
    DEF StatusOf, SchemaOf, Success, decodeCreateOrderResponse, CreateOrderRes
  <2>5. CASE outcome = "ErrComponentNotFound"
    BY <1>2, <2>2, <2>5, NamesApart
    DEF StatusOf, SchemaOf, Success, decodeCreateOrderResponse, CreateOrderRes
  <2>6. CASE outcome = "ErrComponentOutOfStock"
    BY <1>2, <2>2, <2>6, NamesApart
    DEF StatusOf, SchemaOf, Success, decodeCreateOrderResponse, CreateOrderRes
  <2>. QED  BY <2>1, <2>3, <2>4, <2>5, <2>6
<1>3. CASE op = "getOrder"
  <2>1. outcome \in {"ok", "failed", "ErrOrderNotFound"}
    BY <1>3 DEF Outcomes
  <2>2. TypeNamed(op) = decodeGetOrderResponse /\ SchemaNamed(op) = GetOrderRes
    BY <1>3 DEF TypeNamed, SchemaNamed
  <2>3. CASE outcome = "ok"
    BY <1>3, <2>2, <2>3, NamesApart
    DEF StatusOf, SchemaOf, Success, decodeGetOrderResponse, GetOrderRes
  <2>4. CASE outcome = "failed"
    BY <1>3, <2>2, <2>4, NamesApart
    DEF StatusOf, SchemaOf, Success, decodeGetOrderResponse, GetOrderRes
  <2>5. CASE outcome = "ErrOrderNotFound"
    BY <1>3, <2>2, <2>5, NamesApart
    DEF StatusOf, SchemaOf, Success, decodeGetOrderResponse, GetOrderRes
  <2>. QED  BY <2>1, <2>3, <2>4, <2>5
<1>4. CASE op = "payOrder"
  <2>1. outcome \in {"ok", "failed", "ErrOrderNotFound", "ErrOrderAlreadyFinal"}
    BY <1>4 DEF Outcomes
  <2>2. TypeNamed(op) = decodePayOrderResponse /\ SchemaNamed(op) = PayOrderRes
    BY <1>4 DEF TypeNamed, SchemaNamed
  <2>3. CASE outcome = "ok"
    BY <1>4, <2>2, <2>3, NamesApart
    DEF StatusOf, SchemaOf, Success, decodePayOrderResponse, PayOrderRes
  <2>4. CASE outcome = "failed"
    BY <1>4, <2>2, <2>4, NamesApart
    DEF StatusOf, SchemaOf, Success, decodePayOrderResponse, PayOrderRes
  <2>5. CASE outcome = "ErrOrderNotFound"
    BY <1>4, <2>2, <2>5, NamesApart
    DEF StatusOf, SchemaOf, Success, decodePayOrderResponse, PayOrderRes
  <2>6. CASE outcome = "ErrOrderAlreadyFinal"
    BY <1>4, <2>2, <2>6, NamesApart
    DEF StatusOf, SchemaOf, Success, decodePayOrderResponse, PayOrderRes
  <2>. QED  BY <2>1, <2>3, <2>4, <2>5, <2>6
<1>. QED  BY <1>1, <1>2, <1>3, <1>4 DEF Ops

-----------------------------------------------------------------------------
Unsent == http = Nothing /\ AtRoute /\ resp.status = 0 /\ resp.ctype = "none"
Sent == http = Sending /\ ApiInv

\* What is read of a whole response is what happened.
Told == ToldWhatHappened /\ FailuresTellStage

\* A call that has returned was not sent, or the server goes on with it, until the
\* response is there.
ClientInv ==
  /\ call \in ClientCalls
  /\ \/ phase = "build" /\ Unsent
     \/ phase = "wait" /\ Sent
     \/ phase = "return" /\ res.type = "do request" /\ (Unsent \/ Sent)
     \/ phase = "return" /\ Sent /\ Done /\ (res.type = "read body" \/ Told)

\* What the client makes of a response, by what there is of it.
LEMMA ReadAs ==
  ASSUME NEW typeOf, NEW types, DecodedAs(typeOf, types)
  PROVE  LET type == typeOf[resp.status]
             value == Decode(types[type], resp.body)
         IN  /\ phase' = "return"
             /\ resp.status \notin DOMAIN typeOf => res'.type = "unexpected status"
             /\ resp.status \in DOMAIN typeOf /\ resp.ctype # "json" =>
                  res'.type = "content type"
             /\ resp.status \in DOMAIN typeOf /\ resp.ctype = "json" =>
                  /\ value = Nothing => res'.type = "decode body"
                  /\ value # Nothing /\ (type = "OrderDto" => ValidOrderDto(value)) =>
                       res'.type = type /\ res'.value = value
<1>. DEFINE type == typeOf[resp.status]
            value == Decode(types[type], resp.body)
            ok == ValidOrderDto(value)
<1>1. /\ \A stage : Failure(stage) => phase' = "return" /\ res'.type = stage
      /\ \A t, v : Return(Result(t, v)) => phase' = "return" /\ res'.type = t /\ res'.value = v
  BY DEF Failure, Return, Result
<1>2. CASE resp.status \notin DOMAIN typeOf
  BY <1>1, <1>2 DEF DecodedAs
<1>3. CASE resp.status \in DOMAIN typeOf /\ resp.ctype # "json"
  BY <1>1, <1>3 DEF DecodedAs
<1>4. CASE resp.status \in DOMAIN typeOf /\ resp.ctype = "json"
  <2>1. IF value = Nothing THEN Failure("decode body")
        ELSE IF type = "OrderDto" /\ ~ok THEN Failure("validate")
        ELSE Return(Result(type, value))
    BY <1>4 DEF DecodedAs
  <2>. HIDE DEF value, type, ok
  <2>2. /\ phase' = "return"
        /\ value = Nothing => res'.type = "decode body"
        /\ value # Nothing /\ (type = "OrderDto" => ok) => res'.type = type /\ res'.value = value
    BY <1>1, <2>1
  <2>. QED  BY <1>4, <2>2 DEF value, type, ok
<1>. QED  BY <1>2, <1>3, <1>4

\* A whole response says what happened: the client reads the status, the type and
\* the fields that the server made of the outcome (oas_client_gen.go:105,
\* oas_response_decoders_gen.go:378).
LEMMA ReceivedIsTold ==
  ASSUME call \in ClientCalls, phase = "wait", Sent, Receive
  PROVE  Told' /\ phase' = "return"
<1>1. /\ call' = call /\ http' = http /\ todo' = todo /\ op' = op /\ called' = called
      /\ outcome' = outcome /\ order' = order /\ resp' = resp
  BY DEF Receive, vars
<1>2. CallMeant' = CallMeant /\ Shown' = Shown
  BY <1>1 DEF CallMeant, Shown
<1>. DEFINE typeOf == TypeNamed(call.op)
            types == SchemaNamed(call.op)
<1>3. DecodedAs(typeOf, types) /\ call.op \in Ops
  BY ClientAssumption DEF Receive, TypeNamed, SchemaNamed, Ops
<1>. HIDE DEF typeOf, types
<1>. DEFINE type == typeOf[resp.status]
            value == Decode(types[type], resp.body)
            good == type = "OrderDto" => ValidOrderDto(value)
<1>4. /\ phase' = "return"
      /\ resp.status \notin DOMAIN typeOf => res'.type = "unexpected status"
      /\ resp.status \in DOMAIN typeOf /\ resp.ctype # "json" => res'.type = "content type"
      /\ resp.status \in DOMAIN typeOf /\ resp.ctype = "json" =>
           /\ value = Nothing => res'.type = "decode body"
           /\ value # Nothing /\ good => res'.type = type /\ res'.value = value
  BY <1>3, ReadAs
<1>5. WasRefused \/ WasServed
  BY Stages6 DEF Receive, Sent, ApiInv, Done
<1>. HIDE DEF type, value, good
<1>6. (Typed <=> res.type \in TypedNames)'
  BY <1>4 DEF Typed, TypedNames
<1>7. CASE WasRefused
  <2>1. /\ called = Nothing /\ outcome = Nothing /\ outcome # "ok"
        /\ resp.status \in {204, 400, 404, 405, 415}
    BY <1>7, NothingAssumption DEF WasRefused, NotCalled, Outcomes, Ops
  <2>2. /\ 400 \in DOMAIN typeOf /\ 404 \in DOMAIN typeOf
        /\ 204 \notin DOMAIN typeOf /\ 405 \notin DOMAIN typeOf /\ 415 \notin DOMAIN typeOf
        /\ types[typeOf[400]] = Error
    <3>1. CASE call.op = "cancelOrder"
      BY <3>1 DEF typeOf, types, TypeNamed, SchemaNamed, decodeCancelOrderResponse, CancelOrderRes
    <3>2. CASE call.op = "createOrder"
      BY <3>2 DEF typeOf, types, TypeNamed, SchemaNamed, decodeCreateOrderResponse, CreateOrderRes
    <3>3. CASE call.op = "getOrder"
      BY <3>3 DEF typeOf, types, TypeNamed, SchemaNamed, decodeGetOrderResponse, GetOrderRes
    <3>4. CASE call.op = "payOrder"
      BY <3>4 DEF typeOf, types, TypeNamed, SchemaNamed, decodePayOrderResponse, PayOrderRes
    <3>. QED  BY <1>3, <3>1, <3>2, <3>3, <3>4 DEF Ops
  <2>3. res'.type \in {"unexpected status", "content type", "decode body"}
    <3>1. CASE resp.status = 400
      <4>1. resp.ctype = "json" /\ resp.body = Refusal
        BY <1>7, <3>1 DEF WasRefused
      <4>2. value = Nothing
        BY <2>2, <3>1, <4>1, RefusalUnread DEF value, type
      <4>. QED  BY <1>4, <2>2, <3>1, <4>1, <4>2
    <3>2. CASE resp.status = 404
      <4>1. resp.ctype # "json"
        BY <1>7, <3>2 DEF WasRefused
      <4>. QED  BY <1>4, <2>2, <3>2, <4>1
    <3>3. CASE resp.status \in {204, 405, 415}
      <4>1. resp.status \notin DOMAIN typeOf
        BY <2>2, <3>3
      <4>. QED  BY <1>4, <4>1
    <3>4. resp.status = 400 \/ resp.status = 404 \/ resp.status \in {204, 405, 415}
      BY <2>1
    <3>. QED  BY <3>1, <3>2, <3>3, <3>4
  <2>4. res'.type \notin TypedNames /\ res'.type # "validate"
    BY <2>3, NamesApart DEF Untyped
  <2>. QED  BY <1>1, <1>4, <1>6, <2>1, <2>4
            DEF Told, ToldWhatHappened, FailuresTellStage
<1>8. CASE WasServed
  <2>1. /\ Routed /\ ParamsRead /\ Called /\ op \in Ops /\ outcome \in Outcomes(op)
        /\ resp.status = StatusOf(outcome) /\ resp.ctype = "json" /\ resp.body = BodyOf
    BY <1>8 DEF WasServed, Routed, Called
  <2>2. op = call.op /\ called = CallMeant
    BY <2>1, CalledAsMeant DEF Sent
  <2>3. /\ resp.status \in DOMAIN typeOf
        /\ types[type] = IF outcome = "failed" THEN Error ELSE SchemaOf
        /\ type \in TypedNames /\ (type \in Success <=> outcome = "ok")
        /\ outcome = "ok" =>
             type = CASE op = "cancelOrder" -> "CancelOrderResponse"
                      [] op = "createOrder" -> "CreateOrderResponse"
                      [] op = "getOrder" -> "OrderDto"
                      [] op = "payOrder" -> "PayOrderResponse"
    BY <2>1, <2>2, StatusKnown DEF type, typeOf, types
  <2>4. CASE outcome = "failed"
    <3>1. value = Nothing
      BY <2>1, <2>3, <2>4, RefusalUnread DEF value, BodyOf
    <3>2. res'.type = "decode body"
      BY <1>4, <2>1, <2>3, <3>1
    <3>3. res'.type \notin TypedNames /\ res'.type # "validate"
      BY <3>2, NamesApart DEF Untyped
    <3>. QED  BY <1>1, <1>4, <1>6, <2>4, <3>2, <3>3
              DEF Told, ToldWhatHappened, FailuresTellStage
  <2>5. CASE outcome # "failed"
    <3>1. value = Decode(SchemaOf, BodyOf)
      BY <2>1, <2>3, <2>5 DEF value
    <3>2. type = "OrderDto" <=> outcome = "ok" /\ op = "getOrder"
      BY <2>1, <2>3 DEF Ops, Success
    <3>3. res'.type = type /\ res'.value = value
      <4>1. value # Nothing /\ good
        BY <2>1, <2>5, <3>1, <3>2, AnswerKept DEF good
      <4>. QED  BY <1>4, <2>1, <2>3, <4>1
    <3>4. /\ type \notin Success => res'.value = [code |-> resp.status, message |-> outcome]
          /\ type = "OrderDto" => res'.value = Shown
      BY <2>1, <2>3, <2>5, <3>1, <3>2, <3>3, AnswerKept
    <3>5. type = "CreateOrderResponse" =>
            /\ res'.value.order_uuid = order.order_uuid
            /\ res'.value.total_price = order.total_price
            /\ \A name \in Required \cup Optional : order[name] = CallMeant.input[name]
      <4>. SUFFICES ASSUME type = "CreateOrderResponse"
                    PROVE  /\ res'.value.order_uuid = order.order_uuid
                           /\ res'.value.total_price = order.total_price
                           /\ \A name \in Required \cup Optional :
                                order[name] = CallMeant.input[name]
        OBVIOUS
      <4>1. outcome = "ok" /\ op = "createOrder"
        BY <2>1, <2>3 DEF Ops, Success
      <4>. QED  BY <2>1, <2>2, <3>1, <3>3, <4>1, AnswerKept, ReturnedDetails
    <3>6. type = "PayOrderResponse" =>
            order.status = "PAID" /\ res'.value.transaction_uuid = order.transaction_uuid
      <4>. SUFFICES ASSUME type = "PayOrderResponse"
                    PROVE  /\ order.status = "PAID"
                           /\ res'.value.transaction_uuid = order.transaction_uuid
        OBVIOUS
      <4>1. outcome = "ok" /\ op = "payOrder"
        BY <2>1, <2>3 DEF Ops, Success
      <4>. QED  BY <2>1, <3>1, <3>3, <4>1, AnswerKept, ReturnedDetails
    <3>7. ToldWhatHappened'
      BY <1>1, <1>2, <2>2, <2>3, <3>3, <3>4, <3>5, <3>6 DEF ToldWhatHappened, Success
    <3>8. res'.type \in TypedNames /\ res'.type \notin Untyped
      BY <2>3, <3>3, NamesApart
    <3>. QED  BY <1>1, <1>4, <1>6, <2>3, <3>3, <3>7, <3>8
              DEF Told, FailuresTellStage, Untyped
  <2>. QED  BY <2>4, <2>5
<1>. QED  BY <1>4, <1>5, <1>7, <1>8

\* What the client learnt is unchanged while nothing else is.
LEMMA ToldStays ==
  ASSUME UNCHANGED <<vars, clientVars>>
  PROVE  Told' <=> Told
<1>1. /\ http' = http /\ todo' = todo /\ op' = op /\ called' = called
      /\ outcome' = outcome /\ order' = order /\ resp' = resp
      /\ call' = call /\ phase' = phase /\ res' = res
  BY DEF vars, clientVars
<1>2. CallMeant' = CallMeant /\ Shown' = Shown /\ (Typed' <=> Typed)
  BY <1>1 DEF CallMeant, Shown, Typed
<1>. QED  BY <1>1, <1>2
          DEF Told, ToldWhatHappened, FailuresTellStage

\* A request stays that of the call as long as both are unchanged.
LEMMA SendingStays == call' = call => Sending' = Sending
BY DEF Sending, sendCancelOrder, sendCreateOrder, sendGetOrder, sendPayOrder, Bodiless, WithBody

\* The server is as it was before the request.
LEMMA UnsentStays == Unsent /\ UNCHANGED vars => Unsent'
BY DEF Unsent, AtRoute, NotCalled, vars

\* The answer of a request is never changed: a server that is done stays so.
LEMMA DoneIsFinal == Done => ~Serve
BY DEF Serve, Route, DecodeParams, DecodeBody, CallService, HandlerResponse, At

LEMMA ClientInitial == ClientInit => ClientInv
BY DEF ClientInit, ClientInv, Unsent, AtRoute, NotCalled

\* The call, the server and the network keep the invariant, one step of each.
LEMMA ClientKeeps == ClientInv /\ [ClientNext]_<<vars, clientVars>> => ClientInv'
<1>. SUFFICES ASSUME ClientInv, [ClientNext]_<<vars, clientVars>> PROVE ClientInv'
  OBVIOUS
<1>1. CASE Send
  <2>1. /\ phase = "build" /\ Unsent /\ call \in ClientCalls /\ phase' = "wait" /\ call' = call
        /\ todo' = todo /\ op' = op /\ id' = id /\ request' = request /\ called' = called
        /\ outcome' = outcome /\ order' = order /\ resp' = resp
    BY <1>1 DEF Send, ClientInv
  <2>2. http' = Sending
    BY <1>1 DEF Send, Sending
  <2>3. IsHttp(Sending)
    BY <2>1, Sends
  <2>4. ApiInv'
    BY <2>1, <2>2, <2>3 DEF Unsent, ApiInv, AtRoute, NotCalled, IsHttp
  <2>. QED  BY <2>1, <2>2, <2>4, SendingStays DEF ClientInv, Sent
<1>2. CASE DoFails
  <2>1. /\ phase \in {"build", "wait"} /\ phase' = "return" /\ res'.type = "do request"
        /\ UNCHANGED vars /\ call' = call
    BY <1>2 DEF DoFails, Failure, Return
  <2>2. Unsent => Unsent'
    BY <2>1, UnsentStays
  <2>3. Sent => Sent'
    BY <2>1, SendingStays, WaitKeeps DEF Sent, vars
  <2>. QED  BY <2>1, <2>2, <2>3 DEF ClientInv
<1>3. CASE BodyCut
  <2>1. /\ phase = "wait" /\ Done /\ phase' = "return" /\ res'.type = "read body"
        /\ UNCHANGED vars /\ call' = call
    BY <1>3 DEF BodyCut, Failure, Return
  <2>2. Sent' /\ Done'
    BY <2>1, SendingStays, WaitKeeps DEF ClientInv, Sent, Done, vars
  <2>. QED  BY <2>1, <2>2 DEF ClientInv
<1>4. CASE ServerStep
  <2>1. http # Nothing /\ Serve /\ ~Done /\ call' = call /\ phase' = phase /\ res' = res
    BY <1>4, DoneIsFinal DEF ServerStep, clientVars
  <2>2. http' = http
    BY <2>1 DEF Serve, Route, DecodeParams, DecodeBody, CallService, HandlerResponse
  <2>3. Sent'
    BY <2>1, <2>2, SendingStays, ServeKeeps DEF ClientInv, Sent, Unsent
  <2>. QED  BY <2>1, <2>3 DEF ClientInv, Unsent
<1>5. CASE Receive
  <2>1. /\ phase = "wait" /\ Done /\ UNCHANGED vars /\ call' = call
        /\ Sent /\ call \in ClientCalls
    BY <1>5 DEF Receive, ClientInv
  <2>2. Told' /\ phase' = "return"
    BY <1>5, <2>1, ReceivedIsTold
  <2>3. Sent' /\ Done'
    BY <2>1, SendingStays, WaitKeeps DEF Sent, Done, vars
  <2>. QED  BY <2>1, <2>2, <2>3 DEF ClientInv
<1>6. CASE UNCHANGED <<vars, clientVars>>
  <2>1. UNCHANGED vars /\ call' = call /\ phase' = phase /\ res' = res /\ (Told' <=> Told)
    BY <1>6, ToldStays DEF clientVars
  <2>2. Unsent => Unsent'
    BY <2>1, UnsentStays
  <2>3. /\ Sent => Sent'
        /\ Done => Done'
    BY <2>1, SendingStays, WaitKeeps DEF Sent, Done, vars
  <2>. QED  BY <2>1, <2>2, <2>3 DEF ClientInv
<1>. QED  BY <1>1, <1>2, <1>3, <1>4, <1>5, <1>6 DEF ClientNext, Finished

\* A lost answer leaves the caller with nothing it was told.
LEMMA LostTellsNothing ==
  ASSUME res.type \in {"do request", "read body"}
  PROVE  Told
<1>1. ~Typed /\ res.type \notin {"unexpected status", "content type", "decode body", "validate"}
  BY NamesApart DEF Typed, TypedNames, Untyped
<1>. QED  BY <1>1 DEF Told, ToldWhatHappened, FailuresTellStage

(* The invariant says what a returned call was told. *)
LEMMA InvariantTells == ClientInv => Told
<1>1. CASE ClientInv /\ phase # "return"
  BY <1>1 DEF Told, ToldWhatHappened, FailuresTellStage, Typed
<1>2. CASE ClientInv /\ phase = "return"
  BY <1>2, LostTellsNothing DEF ClientInv
<1>. QED  BY <1>1, <1>2

\* The client, the network and the server as one: a returned call was not sent, or
\* the server's invariant holds of its request and it knows no more than that
\* (oas_client_gen.go:105-196).
THEOREM ClientInvariance == ClientSpec => []ClientInv
BY ClientInitial, ClientKeeps, PTL DEF ClientSpec

\* A typed answer is the truth about the one call of the service method, whatever
\* the sets of UUIDs, the requests and the losses (oas_client_gen.go:105,
\* oas_response_decoders_gen.go:378, handler.go:41).
THEOREM AnswersAreTrue == ClientSpec => []ToldWhatHappened
<1>1. ClientInv => ToldWhatHappened
  BY InvariantTells DEF Told
<1>. QED  BY <1>1, ClientInvariance, PTL

\* The stage a call failed at tells how far it got at the server
\* (oas_response_decoders_gen.go:15).
THEOREM StageTellsProgress == ClientSpec => []FailuresTellStage
<1>1. ClientInv => FailuresTellStage
  BY InvariantTells DEF Told
<1>. QED  BY <1>1, ClientInvariance, PTL
=============================================================================
