---------------------- MODULE OrderCheckoutProperties ----------------------
(***************************************************************************)
(* What the price and the refusals of CreateOrder stand for, although the  *)
(* catalogue changes under the call and nothing is reserved.               *)
(***************************************************************************)
EXTENDS OrderCheckout, InventoryProperties

\* What the client chose, in the order it is asked for.
Component(c, i) == Uuids(ship[c])[i]

ExactTotal(prices) == FoldLeft(LAMBDA total, price : total + price, 0, prices)

\* A created order costs what its components cost one after the other: each was
\* in the table, in stock, at the price it counts with, at a moment of the call,
\* and the moments do not go back.  No single moment need have had them all
\* (order/pkg/service/service.go:103-119, inventory/pkg/service/service.go:73-92).
PricedLive ==
  \A c \in Calls : answer[c].code = 201 =>
    \E at \in [DOMAIN Uuids(ship[c]) -> Span(c)] :
      /\ \A i, j \in DOMAIN at : i <= j => at[i] <= at[j]
      /\ \A i \in DOMAIN at : /\ versions[at[i]][Component(c, i)] # NoPart
                              /\ versions[at[i]][Component(c, i)].stock > 0
      /\ answer[c].price = TotalPrice([i \in DOMAIN at |-> versions[at[i]][Component(c, i)]])

\* A client is told that a component is missing, or out of stock, only if one
\* was while its call lasted (service.go:104-116).
RefusedJustly ==
  \A c \in Calls :
    LET Seen(v, i) == versions[v][Component(c, i)]
    IN  /\ answer[c].code = 404 =>
             \E v \in Span(c), i \in DOMAIN Uuids(ship[c]) : Seen(v, i) = NoPart
        /\ answer[c].code = 409 =>
             \E v \in Span(c), i \in DOMAIN Uuids(ship[c]) :
               Seen(v, i) # NoPart /\ Seen(v, i).stock <= 0

\* price is an int64 and the sum of the prices in the list, or off it by a multiple
\* of 2^64.
SumsTo(list, price) ==
  LET sum == ExactTotal([i \in DOMAIN list |-> list[i].price])
  IN  /\ price \in -Int64Bound .. Int64Bound - 1
      /\ (price - sum) % (2 * Int64Bound) = 0

\* The total is the sum whenever that fits an int64, even if it leaves it on the way,
\* and otherwise it can be a small positive number, so that nothing in the order
\* shows it (service.go:118).
TotalExact ==
  \A c \in Calls : answer[c].code = 201 => SumsTo(parts[c], answer[c].price)
=============================================================================
