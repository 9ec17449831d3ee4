# ms-ex in TLA+

A model of the three services of this repository that sell ship components:
an order service in front of an inventory and a payment service. The modules
here are checked by TLC on small instances and, where said so, proved by TLAPS
for every instance. File names below are relative to the repository root
(`src/` in `PROJECT.json`); `PROJECT.json` maps each definition to its lines.

## 1. The system

| Part | State it keeps | Operations |
|---|---|---|
| **OrderService** (`order/pkg/service`, `order/pkg/api`) | none of its own; per request, the copy of an order its goroutine holds | CreateOrder, GetOrder, PayOrder, CancelOrder |
| **Order repository** (`order/pkg/repository/postgres.go`, `service/tx_manager.go`, `migrations`) | table `orders`, one row per order | `Get` (SELECT, outside any transaction), `Save` (INSERT ... ON CONFLICT DO UPDATE of all columns, inside `trManager.Do`) |
| **InventoryService** (`inventory/pkg`) | table `parts`, which the service only reads | GetPart, ListParts (by UUIDs, or all with a type filter) |
| **PaymentService** (`payment/pkg`) | none; each payment is a line in its log | PayOrder |
| **HTTP transport** (`shared/pkg/openapi`, generated by ogen) | none | routing, decoding, validation, encoding; a client with the same codecs |
| **Processes** (`*/cmd/main.go`) | listeners, the connection pool, gRPC connections | start, signal, Shutdown / GracefulStop, deferred closes, exit |
| **In-memory doubles** (`*/pkg/repository/memory.go`, the no-op `TrManager`) | a map under an RWMutex | `Get`, `Save`; used by the tests |

Interactions: each HTTP request runs in a goroutine of its own in
OrderService. CreateOrder calls InventoryService (gRPC, synchronous), then
saves. PayOrder reads the order, calls PaymentService, then saves. CancelOrder
reads and saves. Goroutines share nothing in memory but the connection pool;
they meet in the rows of table `orders`.

What makes it hard:

* **Check, then act.** PayOrder and CancelOrder look at the status they read
  before they call PaymentService and before their transaction begins
  (`service.go:157-168, 198-209`). `Save` looks at nothing and replaces the
  whole row (`postgres.go:34-49`).
* **Two systems, no common transaction.** A charge can be made and the row not
  saved: an error, a cancelled context, a crash.
* **Unknown outcomes.** A call or a COMMIT that returns an error may have taken
  effect, or take effect later. PaymentService ignores its context and has no
  idempotency key.
* **No deadlines.** Calls end by an answer, by keepalive or with the client.
* **Shutdown.** `main` returns when `ListenAndServe` does, which is when
  `Shutdown` begins rather than when it has drained the handlers: its deferred
  calls close the gRPC connections and the pool under those that still run.
* **One pool.** All handlers share the connections of one pool, and `pool.Close`
  waits for them without a limit.
* **Catalogue reads.** ListParts reads part after part in queries of their own,
  and OrderService reserves nothing.
* **Numbers.** Nothing bounds a price, and `totalPrice` is an int64.
* **Two ends of one API.** Client and server are generated apart.

What makes each part correct:

* orders: a row says PAID only with one real charge made for it; every charge
  is accounted for; what a client was told stays true; a settled order is
  never pending again; the price is the catalogue's; each request ends;
* repository: rows are only written by a COMMIT, whole, under the row lock;
* payment: one fresh transaction per call served, none for a call refused, and
  a caller that did not lose its connection knows which;
* inventory: answers list exactly the parts asked for, in order, or fail;
* transport: a method is called for exactly the valid requests, and the client
  tells its caller what happened;
* processes: the pool is never short for good, a stop ends, and it leaves
  nothing behind that the handlers' own failures would not leave too.

## 2. Modules

| Module | Models | Kind |
|---|---|---|
| `Pricing` | what CreateOrder asks the inventory for and how it checks and adds up the answer | pure operators |
| `Inventory` | `ListParts` as OrderService sees it, over a fixed catalogue | pure operators |
| `OrderData` | orders, charges, the mapping of payment methods | pure operators |
| `OrderStore` | table `orders`, transactions, the row lock | actions |
| `Payment` | the gRPC call of PaymentService and what it charges, as OrderService sees it | actions |
| `OrderService` | the handlers, composed with store and payment; crashes | specification |
| `OrderProperties` | what must hold of OrderService | properties |
| `OrderBook` | the abstract table of orders and charges | abstract specification |
| `OrderSerial` | OrderService driven one request at a time per order | specification, properties |
| `OrderMethods` | the service methods as the HTTP handlers see them: their errors and what they return | pure operators |
| `OrderContract` | that `OrderService` keeps to `OrderMethods` | property, invariant |
| `OrderInvariant` | the inductive invariants: of rows and copies, of charges, of serial requests | invariant |
| `OrderProcess` | `OrderService` in its process: pool, signal, deferred closes, exit, restart | specification |
| `OrderProcessProperties` | what pool and exit must not take from it, `ImplementsService` among them | properties, refinement |
| `OrderMemory` | `OrderService` on the in-memory repository; `MemoryImplementsService` | specification, refinement |
| `PaymentServer` | PaymentService's process and the calls that reach it | specification |
| `PaymentContract` | what its callers know; that it does what `Payment` says | properties, refinement |
| `InventoryService` | GetPart and ListParts while the catalogue is edited | specification |
| `InventoryProperties` | what their answers mean | properties |
| `InventoryContract` | that `InventoryService` answers as `Inventory` says when nobody edits | refinement |
| `OrderCheckout` | CreateOrder composed with `InventoryService` and a changing catalogue | specification |
| `OrderCheckoutProperties` | what a price, a refusal and a total are worth | properties |
| `OrderJson` | the JSON codecs and validators of the API's types | pure operators |
| `OrderApi` | one HTTP request on its way to a service method and back | specification |
| `OrderApiProperties` | what the OpenAPI documents promise of it | properties |
| `OrderClient` | the generated client at the other end of `OrderApi`, and the network | specification |
| `OrderClientProperties` | what its caller may conclude | properties |
| `FoldLemmas` | what a fold computes: the last of its partial results; sums that wrap | lemmas |
| `OrderServiceProofs` | theorems about `Spec` of OrderService | proofs |
| `OrderBookProofs` | `OrderBook`, `OrderSerial`, `OrderMemory` and `OrderContract`: the refinements, what serial requests add, what the methods return | proofs |
| `OrderProcessProofs`, `PaymentServerProofs`, `OrderApiProofs`, `OrderClientProofs` | theorems about the module of that name | proofs |
| `InventoryServiceProofs` | theorems about `InventoryService` and about `OrderCheckout` on top of it | proofs |
| `MC...` | the constants of TLC's instances | model checking |

How they hang together: `OrderService` extends `OrderStore` and `Payment`;
`OrderProcess` and `OrderMemory` extend it and are shown to implement it;
`PaymentServer` is shown to implement `Payment`, and `InventoryService`
`Inventory`; `OrderCheckout` puts CreateOrder on top of `InventoryService`
itself; `OrderClient` runs `OrderApi` at the other end of a network; `OrderApi` and
`OrderService` meet in `OrderMethods`, which the one supposes and the other is shown
to keep to. Definitions
whose comment begins with "Mutation:" are deliberately wrong variants of the
definition that follows them: they are used by nothing and show that a property
notices the error.

### How `OrderService` corresponds to the code

`pc[r]` is where the goroutine of request `r` waits, `call[r]` its decoded
request, `local[r]` its copy of an order (`order` in each method), `code[r]`
the HTTP status of its answer. A handler is cut where it waits:

| `pc` | The goroutine is | It leaves by |
|---|---|---|
| `listing` | in `inventoryClient.ListParts` | `RejectCreate`, `CreateOrder` |
| `reading` | in `repo.Get` | `OrderNotFound`, `GetOrder`, `AlreadyFinal`, `PayOrder`, `CancelOrder` |
| `paying` | in `paymentClient.PayOrder` | `SavePaid`, `CallFailed` |
| `saving` | in `trManager.Do` | `Saved`, `CallFailed` |

From each of them also by `GiveUp` (an error that says nothing of the other
side's outcome) and by `Crash` (every handler is gone; the table, the open
transactions and the calls under way stay). After a crash other requests are
received, by the restarted process, on the same table.

* `orders` is the committed content of the table. `Get` reads it: the SELECT
  runs outside a transaction.
* `tx[r]` is the transaction of the request's `Save`. `Upsert` waits for the
  row lock; `Commit` replaces the whole row by `local[r]`; `Rollback` may come
  at any time before. Whether the handler still waits does not matter to
  `Commit`: a COMMIT on its way when the connection breaks or the context is
  cancelled can still take effect, after the client was told 500. What an
  abandoned handler can no longer do is follow its upsert by a COMMIT, hence
  the condition in `StoreStep`: an orphan that has not got the lock is only
  rolled back.
* `rpc[r]`, `reply[r]` are the request's call of PaymentService, `ledger` the
  history of all charges. `Serve` does not look at whether the client waits.
* `Unused`: `uuid.New()` does not repeat itself, also when an order was never
  saved.
* `Int64` is two's complement addition; `Int64Bound` is 2^63 in the code.

`OrderBook` has the table and the ledger and nothing else: place an order at
the catalogue's price, charge for a stored order, pay (with a charge of that
order), cancel. `BookSpec` lets an order be paid or cancelled from any status,
the last writer winning; `LifecycleSpec` only from PENDING_PAYMENT, or from any
once the order is in `doubt`: a pay or cancel of it has ended in a 500 or died with
the process, so that its COMMIT may still come (`Unclear`, `Doubted` in
`OrderProperties`).

`OrderSerial` is `OrderService` with clients that send a request for an order only
when every earlier one was answered or died with the process. That is all a client
can know; it cannot know what PostgreSQL still does. So a pay that is repeated after a
500 can read PENDING while the first COMMIT is on its way, be charged again, and
replace the PAID row: the service gives no more than `LifecycleSpec` says.

### How `InventoryService` corresponds to the code

`versions` is the history of table `parts`; every read sees its last element.
GetPart is a ListParts of one UUID: both parse a UUID, read its row and stop at
the first that fails, with `InvalidArgument` or `NotFound`. `ReadPart` and
`RefusePart` are one turn of that loop, one query each, `ListAll` is the query
without UUIDs with its filter and sort. `Edit`, by whoever maintains the table,
falls between them: the service never writes, and uses no transaction. `since`
is the version a call found when it arrived; properties speak of the versions
from there on. `sort.Slice` is not stable, so rows of one name may come in any
order. PostgreSQL gives each query one snapshot.

`InventoryContract` connects the two views: OrderService is modelled with
`Inventory!ListParts`, an operator on a fixed catalogue, and `MeetsContract` says
that `InventoryService` answers just that if no edit falls into the call: the same
code, and the parts asked for, in order, with the price and stock of the table.

### How `OrderApi` and `OrderClient` correspond to the code

One request passes `Route` (`ServeHTTP`), `DecodeParams`, `DecodeBody` (media
type, decoding, validation), `CallService` (the handler in `api/handler.go` up to
its service method) and `HandlerResponse` (the handler from there on, and the
encoder of its response type), each of which may answer and end it. `todo` is the
stages that lie ahead; each `handle...Request` is its list. Requests share nothing
on this way, so one is enough.

The service method is replaced by the set of what it may return, `Outcomes` and
`Returned` of `OrderMethods`. `OrderContract` connects the two views: a request of
`OrderService` is a call of such a method (`MethodCall`), the order it holds when it
is answered is what the method returns (`MethodOrder`), and `ReturnsAsSupposed` says
that this order and the status of the answer are among those. `OrderService` never
looks at `created_at`, so one time stands for all there; it answers 500 for every
error without a name, as the generated server does.

`OrderJson` has each type of the API as the list of its members and their types,
and one `Encode` and one `Decode` for all of them, where the generated code has a
copy per type. An object is the sequence of its members, so that repeated,
unknown, null and missing ones can be told apart. `Rfc3339` is what a time loses
when it is written: its fraction of a second. A value of a JSON type that no
member has counts as null; member names are those of the code.

`OrderClient` adds the client's `send...` (which builds the request with the same
codecs) and `decode...Response`, and a network: `DoFails` takes the request or the
whole answer away, `BodyCut` the end of the answer; the server goes on. The
server's `WriteTimeout` is one way to `DoFails`. Typed errors of the API keep
their message; the client can read neither ogen's own error body nor a status
that an operation does not document, and `FailuresTellStage` says what that tells
the caller.

### How `OrderProcess` corresponds to the code

It takes the actions of `OrderService` apart again by what they need: `repo.Get`
a free connection for the length of its SELECT, `trManager.Do` one for as long
as its transaction lasts (`conns`), the gRPC calls a client that is open. `phase`
is where `main` is. The signal makes `ListenAndServe` return, and `main`'s
deferred calls run last to first: payment connection, inventory connection,
`pool.Close`, which waits for `conns` to be empty; then the process is gone.
Nothing waits for a handler: `Shutdown` runs in a goroutine that ends with
`main`, so its 10 s limit never counts. A handler that finds its client or pool
closed gives up (`Refused`). `Kill` is an exit at any point without deferred
calls. A connection whose handler has given up is closed at once, while PostgreSQL
may still carry out a COMMIT that reached it.

### How `PaymentServer` corresponds to the code

`stream[c]` is the call at the server, `link[c]` whether the connection has
carried its caller through, `told[c]` what the caller's `PayOrder` returned.
`Rejected` is the three checks of `Service.PayOrder`, which all map to
`InvalidArgument`; `ledger` is its log. A call whose caller has lost the
connection runs on, and one that was on its way may still arrive (`InFlight`).
`Stopped` is the end of `GracefulStop`: every call on a connection that is up
has been answered. `PaymentContract` shows each step to be a step of `Payment`
or none: a call is `served` there when it is charged, `lost` when it no longer
can be.

### How `OrderCheckout` corresponds to the code

The ListParts call that CreateOrder makes is a call of `InventoryService`, with
its reads and the edits between them; when it has answered, CreateOrder checks
stock, adds up the price and saves, and by then the catalogue may have moved on.
Stock is never reserved or decremented and no document says it is, so the
properties speak of moments during the call. `ship` and `answer` are the two
ends of the request.

### How `OrderMemory` corresponds to the code

The same handlers on `memoryRepository`: `Lock` is `r.mu.Lock()` of `Save`
(the upsert of `OrderService`, for any row), `Write` the assignment and the
unlock (its commit), `MemoryGet` needs that nobody writes. Nothing ever rolls
back, and the test process does not crash.

## 3. Runs

| Run | Specification | Shows | Distinct states |
|---|---|---|---|
| `order_core` | `Spec`, 3 requests | every interleaving, failed call, late commit and crash keeps the safety properties; refines `BookSpec` | 256,481 |
| `order_serial` | `SerialSpec`, 3 requests | if requests for an order are sent one after another, answers of pay and cancel hold for good, and only pending orders are paid or cancelled until one of them ends without an outcome | 216,132 |
| `order_process` | `FairProcessSpec`, 2 requests, 1 connection | the process does what `FairSpec` says however short the pool and however `main` ends; each request ends, a payment settles its order or fails visibly; a stop ends and abandons no transaction | 115,358 |
| `order_memory` | `FairMemorySpec`, 3 requests | the double does what `FairSpec` says | 31,308 |
| `payment` | `FairSpec`, 2 calls | what a caller knows of its charge; a stop ends and drops nothing; refines `Payment` | 29,185 |
| `inventory` | `Spec`, 1 call, 4 versions | what an answer says of an edited catalogue; the contract with OrderService | 304,815 |
| `order_checkout` | `CheckoutSpec`, 1 call, 4 versions | what the price, the stock check and the sum of an order are worth | 592,868 |
| `order_api` | `Spec`, every short body, path and verb | methods are called for exactly the valid requests; status and content type tell whether one was and what came of it | 125,268 |
| `order_client` | `ClientSpec`, one call of any operation | the client tells its caller what happened | 7,284 |
| `cancels_paid` | `Spec`, 2 requests | a cancel that overlaps a payment erases it | violation |
| `pays_twice` | `Spec`, 2 requests | two overlapping payments are both charged and both succeed | violation |
| `error_schema` | `Spec` of `OrderApi` | a rejected request is answered in another format than documented | violation |

What the properties say, in short (each has its full text in its module):

* `PaidIsBacked`: PAID if and only if the row's transaction and method are
  those of one charge made for that order; never a mix of two payments.
* `ChargeAccounted`: each charge was made for one pay request, which is under
  way, failed visibly, or is in the row unless another request has replaced it.
* `AcknowledgedIsStored`, `FinalSeenStaysFinal`: what a client was told of an
  order stays true of the table.
* `ReturnsAsSupposed`: each method returns an order that `OrderApi` and the client
  expect of it, or one of the errors it names, and then it has asked for no charge
  and begun no transaction: a 404 or 409 changed nothing and never will.
* `PricedFromCatalog`: components exist, were in stock, and the price is the sum of
  their catalogue prices in int64, an omitted one costing nothing.
* `NeverBackToPending`: no step deletes, reprices or reopens a row.
* `ImplementsBook`, `ImplementsLifecycle`: the refinements.
* `PaysOnce`, `AnswersStand`, `UnrecordedChargeFailed`, `ChargedTwiceOnlyInDoubt`:
  what holds as long as requests for an order are sent one after another. What a 200
  said stays so and is not charged again; two requests are both charged only if one
  of them ended without an outcome.
* `Answered`, `PaymentTakesEffect`: each request received is answered or dies
  with the process; a payment under way settles its order or fails visibly.
  They are checked of the process, pool and closed clients included.
* `PartsWereLive`: an answer by UUID is all the parts asked for, in order, each as
  the table had it at some moment of the call, the moments not going back. It does
  not say one moment: no transaction spans the reads, and prices of two catalogues
  can meet in one order.
* `RefusalJustified`: a refusal is about the first bad UUID and tells the truth.
* `ListingIsSnapshot`: a listing is the table of one moment, filtered and sorted.
* `CalledIffValid`, `MappedAsDocumented`: the transport neither lets through nor
  withholds a call; the status of its answer and, for a 404, the content type tell
  whether a method ran and what came of it.
* `ToldWhatHappened`, `FailuresTellStage`: a typed answer is what the service method
  did for this very call; each failure tells how far the request came. A named
  refusal changed nothing (`ReturnsAsSupposed`). A lost answer, and a body that is not
  what the status promises, leave the order in doubt: the second can be a 500 of a
  request that has charged, and repeating a pay may charge again.
* `ImplementsService`, `MemoryImplementsService`: the refinements of `FairSpec`,
  fairness included.
* `PoolAccounted`: no more connections lent than there are, one for each open
  transaction, none left behind by an exit.
* `ExitAbandonsNoTransaction`, `StopEnds` of `OrderProcess`: `main`'s orderly
  exit waits for every transaction, and for nobody who waits for what it closed.
* `ChargeIsKnown`: OK means the one charge of the call, an error none, now or
  later, unless the connection failed. `ChargedOnce`: even then at most one.
* `StopDropsNothing`, `CallEnds`, `StopEnds` of `PaymentServer`.
* `ImplementsPayment`: `PaymentServer` does what `Payment` says.
* `PricedLive`, `RefusedJustly`: each part an order was priced with, or refused
  for, was like that at a moment of the call.
* `TotalExact`: the total is the sum whenever that fits an int64, also if it
  leaves it on the way, and off by a multiple of 2^64 when it does not: no
  check would notice a small positive total.

Type invariants: `TypeOK` of `OrderService` is an invariant of its own; those of the
other modules are conjuncts of `PoolAccounted`, `ChargeIsKnown`, `MeetsContract` and
`CalledIffValid`.

**Bounds.** Three requests are a pay, a second pay and a cancel of one order, or
a create followed by two operations on what it created: every hazard listed in
`PROJECT.json` involves at most two writers of a row and one reader of it. There
is one transaction UUID per request, so no payment waits for one. Two order
UUIDs: one stored at the start, one that can be created (a second concurrent
create has none left in `order_core` and can only be rejected or give up; with
three UUIDs in `order_process` nobody runs out, which liveness needs). The
catalogue has a part in stock, another one in stock, one sold out and the UUID
of none; the choices are one that is orderable and uses a part twice, one with a
missing and one with a sold out component. `Int64Bound` is above every price of
these instances; in `order_checkout` it is 8, so that sums of prices from -3 to 7
leave it in both directions.
Requests and transactions are symmetric; the runs with liveness use no symmetry.

Calls of InventoryService do not interact, since none writes, so one is checked
(the theorems hold for any number); its lists have up to three UUIDs, repeated,
malformed or unknown ones among them, and up to three edits fall into it. Two parts
can have one name, for the sort, and a part another price or name after an edit,
for torn reads. `order_checkout` has three parts with two versions of two of them,
sold out or not, and choices of two to four components, one of them the same
engine three times. `OrderApi` is tried with every body of up to three fields
out of 21, which covers each pair of required fields together with any third one
or a repetition, a UUID that is no part's and a number where a string belongs, and
with every verb, content type and path of up to three
segments. `weapon_uuid` is treated as `shield_uuid` is and left out of the bodies
there; `order_client` sends it, with every operation, two orders (so that an answer
about the wrong one is told), optional parts set, omitted and null, an unknown
method, and a server URL that leads nowhere.

`order_process` has one connection and two requests, the smallest pool that one
request can keep from another; the theorems hold for any pool. `payment` has two
calls for one order, so that two charges of one order, and one transaction for
two calls, could be told, over any number of stops, kills and restarts; methods
are a known one, none, and a number the open enum does not name, which the
service charges. `order_memory` starts empty: one request creates what two
others pay and cancel.

**Fairness.** Weak fairness of each request's own steps (`HandlerStep`: the Go
scheduler runs a goroutine whose call has returned), of PostgreSQL for its
transaction (`StoreStep`: commits it, or rolls it back when the session ends),
and of PaymentService for its call (`PaymentStep`: answers, or keepalive - ping
every 30 s, 10 s to answer, `order/cmd/main.go:41-45` - finds the connection
dead). `OrderProcess` splits these and adds `main`'s own deferred calls (`Close`,
`Exit`) and that a call on a closed client or pool returns (`Refused`); its
fairness is then shown to imply that of `OrderService`. `PaymentServer` has that
of each call's own steps (`CallStep`: gRPC and a handler that waits for nothing)
and of `GracefulStop` returning when it may. `OrderMemory` has that of the
goroutines, the mutex, which Go's `RWMutex` gives to a writer that waits, and
of PaymentService. There is no fairness on arrivals, on giving up, on signals or on
crashes: liveness may not rest on a failure.

**Deadlock** is checked in all runs but `order_checkout`, whose calls are a finite
set and simply run out, as the service does when nobody calls it. Elsewhere
`Quiesced` (`Answered` in `OrderApi`, `Finished` in `OrderClient`) is the only way
to stop and needs every request ended and nothing it started under way;
`OrderProcess` and `PaymentServer` can always be killed and started again, and
their liveness properties are what excludes a deadlock there.

## 4. Findings

1. `cancels_paid`: "Cancels an order that has not yet been paid"
   (`shared/api/order/v1/paths/order_cancel.yaml:3`). A cancel reads PENDING, a
   payment is charged and committed, the cancel commits its copy: the row is
   CANCELLED and its transaction is erased.
2. `pays_twice`: "Try to pay again (should be a conflict error)"
   (`order/tests/api_test.go:838`). Two pays read PENDING; both are charged
   and answered 200, and the row shows the later one only.

3. `error_schema`: "The error schema is the same everywhere (Error)"
   (`shared/api/order/v1/components/responses/bad_request.yaml:3`). `SetupServer`
   (`order/pkg/api/handler.go:36-38`) leaves ogen's DefaultErrorHandler in place,
   which writes an object with `error_message`; no code makes any of the 400 or 500
   responses the documents describe.

The first two have one cause, the status check outside the saving transaction. With a
condition on the status in the upsert only a pending order would ever be paid or
cancelled, whatever its clients do; that it is not charged twice would still take an
idempotency key.

## 5. Proofs

Every safety property the passing runs check is also a theorem, for all values of
the constants, under the named assumptions; what is left to TLC alone is liveness
and fairness. The assumptions are:

* of `OrderService`: `CatalogAssumption` (the catalogue maps part UUIDs to parts),
  `DataAssumption` (choices are records of part UUIDs, methods are among the four
  of the API, NULL is no UUID), `StoredAssumption`, `PricingAssumption` (the bound
  of an int64 is positive) and `CallAssumption` (no request is the mark for none);
* of the others: `PoolAssumption` (the pool has a connection), `ServerAssumption`,
  `InventoryAssumption` (UUIDs parse to part UUIDs or not at all, rows are parts,
  the table is finite), `CheckoutAssumption` (choices are made of parts);
* of the API: `JsonAssumption` and `NothingAssumption` (null, a field not set and "no
  value" are no values of a type; a time that was written and read back once no
  longer changes), `ApiAssumption` (what an HTTP request and an order of the service
  consist of) and `ClientAssumption` (the parameters of a generated method have their
  Go types: a UUID, a request struct).

TLC evaluates each of them for the constants of the runs.

| Theorem | Module | Says |
|---|---|---|
| `TypeCorrect` | `OrderServiceProofs` | `[]TypeOK` |
| `PaymentsBacked` | `OrderServiceProofs` | `[]PaidIsBacked` |
| `AcknowledgedOrders` | `OrderServiceProofs` | `[]AcknowledgedIsStored` |
| `FinalForGood` | `OrderServiceProofs` | `[]FinalSeenStaysFinal` |
| `NoWayBack` | `OrderServiceProofs` | `NeverBackToPending` |
| `ChargesAccounted` | `OrderServiceProofs` | `[]ChargeAccounted` |
| `PricesFromCatalog` | `OrderServiceProofs` | `[]PricedFromCatalog` |
| `BookRefinement` | `OrderBookProofs` | `Spec => BookSpec` |
| `LifecycleRefinement` | `OrderBookProofs` | `SerialSpec => LifecycleSpec` |
| `OnePayment` | `OrderBookProofs` | `SerialSpec => []PaysOnce` |
| `AnswersHold` | `OrderBookProofs` | `SerialSpec => []AnswersStand` |
| `ChargesShown` | `OrderBookProofs` | `SerialSpec => []UnrecordedChargeFailed` |
| `NoSecondCharge` | `OrderBookProofs` | `SerialSpec => []ChargedTwiceOnlyInDoubt` |
| `MethodsAsSupposed` | `OrderBookProofs` | `[]ReturnsAsSupposed` |
| `MemoryRefinement` | `OrderBookProofs` | `MemorySpec => Spec` |
| `MemoryPaymentsBacked` | `OrderBookProofs` | `MemorySpec => []PaidIsBacked` |
| `ProcessRefinement` | `OrderProcessProofs` | `ProcessSpec => Spec` |
| `PoolBounded` | `OrderProcessProofs` | `[]PoolAccounted` |
| `OrderlyExit` | `OrderProcessProofs` | `ExitAbandonsNoTransaction` |
| `KnownCharges` | `PaymentServerProofs` | `[]ChargeIsKnown` |
| `OneCharge` | `PaymentServerProofs` | `[]ChargedOnce` |
| `GracefulStop` | `PaymentServerProofs` | `[]StopDropsNothing` |
| `PaymentRefinement` | `PaymentServerProofs` | `Spec` of `PaymentServer` implements `Payment` |
| `InventoryTypeCorrect` | `InventoryServiceProofs` | `[]TypeOK` of `InventoryService` |
| `LiveParts` | `InventoryServiceProofs` | `[]PartsWereLive` |
| `RefusalsJustified` | `InventoryServiceProofs` | `[]RefusalJustified` |
| `ListingsAreSnapshots` | `InventoryServiceProofs` | `[]ListingIsSnapshot` |
| `InventoryContractMet` | `InventoryServiceProofs` | `[]MeetsContract` |
| `InventoryUnderneath` | `InventoryServiceProofs` | `CheckoutSpec => Spec` of `InventoryService` |
| `LivePrices` | `InventoryServiceProofs` | `[]PricedLive` |
| `JustRefusals` | `InventoryServiceProofs` | `[]RefusedJustly` |
| `TotalsExact` | `InventoryServiceProofs` | `[]TotalExact` |
| `AnswerTellsOutcome` | `OrderApiProofs` | `[]MappedAsDocumented` |
| `CalledForValid` | `OrderApiProofs` | `[]CalledIffValid` |
| `RoundTrip` | `OrderClientProofs` | `Decode(type, Encode(type, v))` is `v`, its times without their fractions, for every type of the API |
| `AnswersAreTrue` | `OrderClientProofs` | `[]ToldWhatHappened` |
| `StageTellsProgress` | `OrderClientProofs` | `[]FailuresTellStage` |

None of the properties of `OrderService` is inductive: they speak of the table
and the answers, and a COMMIT writes what a handler has carried since it read.
`IInv` (`OrderInvariant`) adds what is carried. `RowOK` is what a good row is, in the
table or not. `PayingInv` and `WriteInv` say of each copy that it is a good row
which agrees with the stored one except in status and payment (`CopyOf`), that
one about to be written is not pending unless it is new, and that a new order is
in nobody else's hands. `CommittedInv` and `AnswerInv` say what a committed
transaction and an answer have established for good. `Invariance` proves
`Init => IInv` and one lemma per action; `CommitRow` is the centre: a commit
places a new row or replaces one by a copy that keeps its identity, components
and price and is settled. The action property and the refinement follow from
`IInv` and from `OnlyCommitWrites`: all other steps leave the table alone.

`ChargeInv` is about whose a charge is. `LedgerInv`: each charge is that of one
request which PaymentService has served, for its order and method. `RecordInv`
follows that request: it has not begun to save before it is served, it saves that
transaction, it cannot end well before its commit, and once it has committed only
another commit for that order takes the transaction out of the row.
`ChargeAccounted` is the two together. Only the last part speaks of two requests,
and it needs of `IInv` that a commit is for an order its request was given.

With requests for an order sent one after another, `SerialInv` says what that buys.
One of them at most is in flight. One that may still commit (`Committing`: it waits for
its charge, has a transaction open, or left one that holds the row) finds the row
pending or its order in doubt. And once one `Holds` an order (it has committed and its
client was not left in doubt) the row is what it wrote and no other is `Writing`. The
centre is that a request which passes the check of the status has found nobody who
holds the order, and that the row lock (`LockInv`) lets its own COMMIT come only after
one that is late: the late one may settle the order first, and then it is in doubt.
`LifecycleRefinement` and the properties of `OrderSerial` are read off `SerialInv`,
`ChargeInv` and `WrittenInv` (what a pay or a cancel writes).

What a method returns needs `ReturnInv`: from the moment an order is handed to
PostgreSQL the request holds a good row (`RowOK`), and one with the components,
method or status it was asked for (`HandsOver`); one refused
by name has no transaction and no call (`AnsweredHow`). A good row, in the terms of the
API, is then one the method may return (`HeldIsReturned`). `SuppliesAsAssumed` shows
that the ships and prices `OrderApi` is given in this instance are such as
`ApiAssumption` has them, so that what is proved of `OrderApi` for any of them is
proved for those.

Prices need `FoldLemmas`, since the code adds in a loop and the model folds: a fold
over a sequence or a set of positions ends in the last of its partial results
(`IsRun`, `IsFold`, `IsSum` say what those are). The induction is over sets of
numbers by their least element (`WFMin`), on a formula written out, because the
library's induction rules take an operator. A sum that wraps at each step differs
from the exact one by a multiple of 2^64 at each step (`WrapIs`), hence at the end:
`TotalsExact` for any number of parts, `PricesFromCatalog` for the two to four
components of an order.

For InventoryService types and the two properties of calls by UUID need one more
part, `PhaseInv`: what a call of each phase holds, in particular that one still
serving has read fewer parts than it was asked for and all of their UUIDs parse.
The moments of the reads are a witness the proof builds step by step: a read
adds the present version, an edit only makes the span of a call longer.

For the process and the double the refinement is proved step by step: each of
their actions is a step of `OrderService` or leaves its variables alone.
`OrderProcess` needs no invariant for that, since it only takes opportunities
away. `PoolAccounted` is inductive once it is known that the requests that hold
connections are a finite set (`Acquire` adds one to a set that is not full), and
`OrderlyExit` follows from it: a request whose upsert has the row holds a
connection as long as it waits, and `Exit` needs that nobody holds one. With
`MemoryRefinement` every theorem about `OrderService` is one about the double;
`MemoryPaymentsBacked` is the example.

For PaymentService `ServerInv` says for each call what its stage at the server,
its answer, the ledger and what its caller was told have to do with each other:
no charge before it is answered, the very charge of the answer after, a death
only with a broken connection, and a caller told of an error on a sound
connection only if no handler will ever run for it. `ChargeIsKnown`,
`ChargedOnce` and `StopDropsNothing` are read off it.

`OrderCheckout` only watches InventoryService (`InventoryUnderneath`), so
`LiveParts` and `RefusalsJustified` hold in it; `CheckoutInv` adds what is left:
the call asks for the UUIDs of the posted components, and an answer with a price
or a refusal was given when the call had ended with such an answer. The moments
of the properties are those of the two theorems.

That its process does what `Payment` says follows from `ServerInv` too: a step of a
call is its `Send`, `Serve` or `Lose` there, or none. A call's reply there is the
transaction of its charge, if it has one (`ReplyOf`); a step of one call leaves that of
the others alone (`OtherCalls`), because the ledger names the call of each charge.

For `OrderApi` the invariant `ApiInv` is a disjunction, one part for each stage of
the request: what has been found of operation, parameter and body by then. Its core
is what the codecs compute. `Decode` folds `DecodeMember` over the members of an
object; `Partly` states, without a fold, what the first n members leave (the last of
each name, unless one was refused), and an induction on n shows the two equal
(`Decoded`). `CreateDecoded` and `PayDecoded` turn that into the words of
`CalledIffValid`. `RoutesTo` goes through the route table once.

For `OrderClient` the two codecs meet. `Encode` is a fold too, and `Encoded` says
without it what it leaves: the members that are set, each once, in the order of the
type. `Decoded` reads that back: `RoundTrip`, for all seven types, with members
omitted, null or set. It is used in both directions. `CalledAsMeant`: the service
method is called with just what the client's method was given (the path is routed
to the operation meant, the parameter parses, the body is valid). `AnswerKept`:
every value the method may return is one its type can carry (`ResultFits`), hence
read back as it was; the order of an answer also passes the client's validation.
`StatusKnown` is about the table of statuses on each side: the server uses no
status for an answer of the service that the client's decoder of that operation
lacks, or takes for another type. `RefusalUnread` is the other case: ogen's own error
body, which has no `error`, decodes as no type of the API.
`ClientInv` then is small: what was sent is what the call says, `ApiInv` holds of it
at the other end, and a caller who has read a whole response was told what happened.
A lost request or answer returns before; the server goes on, and `ClientKeeps`
shows that nothing the properties speak of depends on what it does then.

The proofs changed the model where it could not be reasoned about or where TLC's
instance had hidden something:

* two `CASE` expressions of the codec had arms that overlap (null is also "some
  other JSON value"), for which TLC takes the first and the logic any: now `IF`;
* `CalledIffValid` asked a UUID in a body to be one of a part. The server accepts
  any UUID, and the instance had no others; it says `IsUuid` now, and the instance
  has one that is no part's. It also took a number for a payment method that the
  server refuses; both are among the bodies TLC tries;
* that the marks for "no request" and "no value" are not themselves requests or
  values was never said: `CallAssumption`, `NothingAssumption`, `JsonAssumption`;
* strings of the API were the set `STRING`, of which the provers know no element:
  they are the finite set `Texts` of those the code tells apart, and a message that no
  code looks at is one of `Messages`;
* `Encode` selected the members that are set with `SelectSeq`, whose facts take an
  operator: it appends them one by one now, as the generated `encodeFields` does;
* that what a client's method is given has its Go type was left to the instance:
  `ClientAssumption`;
* `PricedFromCatalog` compared the price with the fold the code is modelled with; it
  now says the sum of the four prices in int64.

Only model-checked:

* liveness: `Answered`, `PaymentTakesEffect`, `StopEnds`, `CallEnds`, and the halves of
  `ImplementsService` and `MemoryImplementsService` that speak of fairness. Their
  safety halves are `ProcessRefinement` and `MemoryRefinement`;
* the three `violation` runs are counterexamples, for which one instance is enough.

## 6. Not modelled

* Wording, logging and tracing; the fields of a log line.
* Of the HTTP transport: escapes in a path, `FindPath` and `FindRoute` (a second copy of
  the router that nothing in the repository calls), headers beyond the content type,
  middleware and interceptors (`SetupServer` installs none), the numbers and
  escapes of JSON (jx). Of the client: `net/http` may send a GET a second time by
  itself on a connection that was reused; GetOrder changes nothing.
* The protobuf messages' wire format and reflection, which belong to the protobuf
  library; the stubs of InventoryService beyond the call they make.
* The process of InventoryService (`inventory/cmd/main.go`): the lifecycle
  `PaymentServer` models, for calls that change nothing. The in-memory part
  repository is a fixed map: `InventoryService` with `MaxVersions` 1.
* Keepalive timers. The order service pings each 30 s and the servers allow a
  ping a minute, so an idle connection is told `too_many_pings`; what a handler sees
  is a call that fails (`Lose`, `GiveUp`, `Break`).
* Deployment and migrations as a process; tests and mocks.

## 7. What is left

A larger `order_process` (two connections, three requests) when the run's time
allows; the theorems cover the safety part already. `Answered` and
`PaymentTakesEffect` are checked for two requests only.
