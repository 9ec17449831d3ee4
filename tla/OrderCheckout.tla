---------------------------- MODULE OrderCheckout --------------------------
(***************************************************************************)
(* OrderService's CreateOrder against an InventoryService whose catalogue  *)
(* changes: the ListParts call it makes is a call of InventoryService, read *)
(* part by part, and what it answers is priced and saved some time later.  *)
(* OrderService is modelled elsewhere against a catalogue that stands      *)
(* still.                                                                  *)
(***************************************************************************)
EXTENDS InventoryService, Pricing

CONSTANT Ships          \* component choices a client may post

ASSUME CheckoutAssumption ==
  /\ Ships \subseteq [hull : PartIds, engine : PartIds,
                      shield : PartIds \cup {None}, weapon : PartIds \cup {None}]
  /\ None \notin PartIds
  /\ PartIds \subseteq Raws /\ \A id \in PartIds : Parse[id] = id
  /\ {Uuids(choice) : choice \in Ships} \subseteq RawLists /\ PART_TYPE_UNSPECIFIED \in PartTypes

VARIABLES ship,         \* what the client of the call posted
          answer        \* HTTP status and total_price of CreateOrder's answer

checkoutVars == <<ship, answer>>

NoAnswer == [code |-> 0, price |-> 0]
Refusal(status) == [code |-> status, price |-> 0]

CheckoutInit ==
  /\ Init
  /\ ship = [c \in Calls |-> None]
  /\ answer = [c \in Calls |-> NoAnswer]

\* CreateOrder up to its call: the UUIDs are formatted as String() does, which
\* parses, and part_type keeps its zero value.
CreateOrder(c, choice) ==
  /\ Receive(c, [uuids |-> Uuids(choice), part_type |-> PART_TYPE_UNSPECIFIED])
  /\ ship' = [ship EXCEPT ![c] = choice]
  /\ UNCHANGED answer

Say(c, reply) ==
  /\ answer' = [answer EXCEPT ![c] = reply]
  /\ UNCHANGED <<vars, ship>>

\* ListParts has answered, and its caller has not yet.
Listed(c) == pc[c] = "done" /\ answer[c] = NoAnswer

\* Mutation: whatever ListParts fails with is a component that is not there.
ListFailedAsNotFound(c) ==
  /\ Listed(c) /\ code[c] # "OK"
  /\ Say(c, Refusal(404))

\* ErrComponentNotFound, or an error that has no code of its own.
ListFailed(c) ==
  /\ Listed(c) /\ code[c] # "OK"
  /\ Say(c, Refusal(IF code[c] = "NOT_FOUND" THEN 404 ELSE 500))

\* ErrComponentOutOfStock.
OutOfStock(c) ==
  /\ Listed(c) /\ code[c] = "OK" /\ ~InStock(parts[c])
  /\ Say(c, Refusal(409))

\* The order is saved and its price is told, or the transaction fails.
SaveOrder(c) ==
  /\ Listed(c) /\ code[c] = "OK" /\ InStock(parts[c])
  /\ \/ Say(c, [code |-> 201, price |-> TotalPrice(parts[c])])
     \/ Say(c, Refusal(500))

\* The connection to InventoryService is lost, or the client's is and its context
\* is cancelled: the call goes on without its caller.
CallLost(c) ==
  /\ pc[c] # "idle" /\ answer[c] = NoAnswer
  /\ Say(c, Refusal(500))

InventoryStep ==
  /\ \/ \E c \in Calls : ServeStep(c) \/ Fail(c)
     \/ Edit
  /\ UNCHANGED checkoutVars

CheckoutNext ==
  \/ \E c \in Calls : \/ \E choice \in Ships : CreateOrder(c, choice)
                      \/ ListFailed(c) \/ OutOfStock(c) \/ SaveOrder(c) \/ CallLost(c)
  \/ InventoryStep

CheckoutSpec == CheckoutInit /\ [][CheckoutNext]_<<vars, checkoutVars>>
=============================================================================
