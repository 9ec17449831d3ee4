---------------------------- MODULE OrderProcess ---------------------------
(***************************************************************************)
(* The process OrderService runs in: the pool of database connections its  *)
(* handlers share, and how main ends.  On SIGTERM the HTTP server is shut  *)
(* down in a goroutine that main does not wait for: ListenAndServe returns *)
(* at once and main's deferred calls close the clients and the pool under  *)
(* the handlers that still run.  Nothing else waits for a handler.         *)
(***************************************************************************)
EXTENDS OrderService

CONSTANT PoolSize       \* pgxpool's MaxConns

ASSUME PoolAssumption == PoolSize \in Nat \ {0}

VARIABLES phase,        \* how far main has come
          conns         \* requests whose transaction holds a connection

procVars == <<phase, conns>>
allVars == <<vars, procVars>>

\* main's deferred calls run last to first; `killed' is an exit without them.
Closing == {"stopping", "payment closed", "inventory closed", "pool closed"}
Phases == {"serving", "down", "killed"} \cup Closing

PaymentOpen == phase \in {"serving", "stopping"}
InventoryOpen == PaymentOpen \/ phase = "payment closed"
PoolOpen == InventoryOpen \/ phase = "inventory closed"
Running == phase \in {"serving"} \cup Closing

ProcessTypeOK == phase \in Phases /\ conns \subseteq Requests

ProcessInit == Init /\ phase = "serving" /\ conns = {}

-----------------------------------------------------------------------------
\* Mutation: the limit is tested with <=.
FreeOffByOne == PoolOpen /\ Cardinality(conns) <= PoolSize

\* A connection is free: there are PoolSize, each held by one transaction.
Free == PoolOpen /\ Cardinality(conns) < PoolSize

\* repo.Get borrows a connection for its SELECT and gives it back.
ReadStep(r) ==
  /\ Free
  /\ \/ OrderNotFound(r) \/ GetOrder(r) \/ AlreadyFinal(r) \/ CancelOrder(r)
     \/ PaymentOpen /\ PayOrder(r)

\* A request is received as long as a connection accepted earlier can bring one.
ReceiveStep(r) == \E c \in Calls : Receive(r, c)

\* trManager.Do returns when its connection is back in the pool.
ReturnStep(r) == r \notin conns /\ (Saved(r) \/ CallFailed(r))

ListStep(r) == InventoryOpen /\ (RejectCreate(r) \/ CreateOrder(r))

ProcessHandlerStep(r) ==
  /\ Running
  /\ ReadStep(r) \/ ListStep(r) \/ SavePaid(r) \/ ReturnStep(r)
  /\ UNCHANGED procVars

\* What the handler waits for, or is about to ask, has been closed.
Refused(r) ==
  /\ Running
  /\ \/ pc[r] = "reading" /\ (~PoolOpen \/ (call[r].op = "pay" /\ ~PaymentOpen))
     \/ pc[r] = "paying" /\ rpc[r] # "served" /\ ~PaymentOpen
     \/ pc[r] = "listing" /\ ~InventoryOpen
  /\ GiveUp(r)
  /\ UNCHANGED procVars

\* trManager.Do begins a transaction on a connection of its own.
Acquire(r) ==
  /\ pc[r] = "saving" /\ tx[r] = "open" /\ r \notin conns
  /\ Free
  /\ conns' = conns \cup {r}
  /\ UNCHANGED <<vars, phase>>

\* Mutation: the repository takes the pool where it should take the transaction.
UpsertStepOnPool(r) ==
  /\ pc[r] = "saving" /\ r \in conns
  /\ Free
  /\ Upsert(r)
  /\ UNCHANGED <<paymentVars, pc, call, code, procVars>>

\* The upsert runs on the transaction's connection.
UpsertStep(r) ==
  /\ pc[r] = "saving" /\ r \in conns
  /\ Upsert(r)
  /\ UNCHANGED <<paymentVars, pc, call, code, procVars>>

\* PostgreSQL commits the transaction or rolls it back; Do rolls it back when the
\* handler has given up, or when the closed pool had no connection for it.
Resolve(r) ==
  /\ \/ tx[r] = "locked" /\ (Commit(r) \/ Rollback(r))
     \/ (pc[r] # "saving" \/ (r \notin conns /\ ~PoolOpen)) /\ Rollback(r)
  /\ UNCHANGED <<paymentVars, pc, call, code, procVars>>

\* The connection or the upsert fails.
Break(r) ==
  /\ Rollback(r)
  /\ UNCHANGED <<paymentVars, pc, call, code, procVars>>

\* The connection goes back when the transaction has ended.  That of a handler
\* that gave up is closed, whatever PostgreSQL still does with the transaction.
Release(r) ==
  /\ r \in conns
  /\ tx[r] \in {"committed", "aborted"} \/ pc[r] # "saving"
  /\ conns' = conns \ {r}
  /\ UNCHANGED <<vars, phase>>

-----------------------------------------------------------------------------
\* Shutdown is called and ListenAndServe returns.
Signal ==
  /\ phase = "serving" /\ phase' = "stopping"
  /\ UNCHANGED <<vars, conns>>

Then == [p \in Closing \ {"pool closed"} |->
           CASE p = "stopping" -> "payment closed"
             [] p = "payment closed" -> "inventory closed"
             [] p = "inventory closed" -> "pool closed"]

\* The deferred Close of each client, and the call of pool.Close.
Close ==
  /\ phase \in DOMAIN Then /\ phase' = Then[phase]
  /\ UNCHANGED <<vars, conns>>

Die ==
  /\ pc' = [r \in Requests |-> IF pc[r] \in InFlight THEN "gone" ELSE pc[r]]
  /\ conns' = {}
  /\ UNCHANGED <<storeVars, paymentVars, call, code>>

\* Mutation: pool.Close does not wait.
ExitAtOnce == phase = "pool closed" /\ phase' = "down" /\ Die

\* pool.Close returns when every connection is back; main returns, and with it
\* ends every goroutine.
Exit == phase = "pool closed" /\ conns = {} /\ phase' = "down" /\ Die

\* SIGKILL, a fatal error, or os.Exit because ListenAndServe failed.
Kill == Running /\ phase' = "killed" /\ Die

Restart ==
  /\ ~Running /\ phase' = "serving"
  /\ UNCHANGED <<vars, conns>>

ProcessNext ==
  \/ \E r \in Requests :
       \/ Running /\ (ReceiveStep(r) \/ GiveUp(r)) /\ UNCHANGED procVars
       \/ ProcessHandlerStep(r) \/ Refused(r)
       \/ Acquire(r) \/ UpsertStep(r) \/ Resolve(r) \/ Break(r) \/ Release(r)
       \/ PaymentStep(r) /\ UNCHANGED procVars
  \/ Signal \/ Close \/ Exit \/ Kill \/ Restart

ProcessSpec == ProcessInit /\ [][ProcessNext]_allVars

\* Handlers go on, a call on a closed client or pool returns, PostgreSQL runs each
\* statement to its end, and main runs its deferred calls.  Nothing has to break.
ProcessFairness ==
  /\ \A r \in Requests : /\ WF_allVars(ProcessHandlerStep(r))
                         /\ WF_allVars(Refused(r))
                         /\ WF_allVars(Acquire(r)) /\ WF_allVars(UpsertStep(r))
                         /\ WF_allVars(Resolve(r)) /\ WF_allVars(Release(r))
                         /\ WF_allVars(PaymentStep(r) /\ UNCHANGED procVars)
  /\ WF_allVars(Close) /\ WF_allVars(Exit)

FairProcessSpec == ProcessSpec /\ ProcessFairness
=============================================================================
