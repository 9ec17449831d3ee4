---------------------------- MODULE OrderMemory ----------------------------
(***************************************************************************)
(* OrderService as its own tests run it: on memoryRepository, a map under  *)
(* an RWMutex, and noopTrManager, which only calls Save.  A `locked'       *)
(* request holds the mutex in Save; nothing rolls back, neither repository *)
(* method looks at its context, and the process outlives every request.    *)
(***************************************************************************)
EXTENDS OrderService

\* NewMemoryRepository: an empty map.
MemoryInit == Init /\ orders = [id \in OrderIds |-> NoOrder]

\* Nobody holds the mutex to write.
Unlocked == \A q \in Requests : tx[q] # "locked"

\* memoryRepository.Get, under RLock, with what the service does next.
MemoryGet(r) ==
  /\ Unlocked
  /\ OrderNotFound(r) \/ GetOrder(r) \/ AlreadyFinal(r) \/ PayOrder(r) \/ CancelOrder(r)

\* The service, up to and from its calls of Save.
MemoryHandler(r) ==
  RejectCreate(r) \/ CreateOrder(r) \/ SavePaid(r) \/ Saved(r) \/ CallFailed(r)

\* Mutation: Save takes the read lock.
LockShared(r) ==
  /\ pc[r] = "saving" /\ tx[r] = "open"
  /\ tx' = [tx EXCEPT ![r] = "locked"]
  /\ UNCHANGED <<orders, local, paymentVars, pc, call, code>>

\* memoryRepository.Save gets the mutex.
Lock(r) ==
  /\ pc[r] = "saving" /\ Unlocked
  /\ Upsert(r)
  /\ UNCHANGED <<paymentVars, pc, call, code>>

\* The map is written and the mutex given back.
Write(r) ==
  /\ pc[r] = "saving"
  /\ Commit(r)
  /\ UNCHANGED <<paymentVars, pc, call, code>>

\* A gRPC call reports an error, the cancelled context of a client that has gone
\* among them.
GrpcFailed(r) == pc[r] \in {"listing", "paying"} /\ GiveUp(r)

MemoryNext ==
  \/ \E r \in Requests :
       \/ \E c \in Calls : Receive(r, c)
       \/ MemoryGet(r) \/ MemoryHandler(r) \/ Lock(r) \/ Write(r)
       \/ GrpcFailed(r) \/ PaymentStep(r)
  \/ Quiesced

MemorySpec == MemoryInit /\ [][MemoryNext]_vars

\* Goroutines go on, the mutex among them, and PaymentService answers.
MemoryFairness ==
  \A r \in Requests : /\ WF_vars(MemoryGet(r)) /\ WF_vars(MemoryHandler(r))
                      /\ WF_vars(Lock(r)) /\ WF_vars(Write(r))
                      /\ WF_vars(PaymentStep(r))

FairMemorySpec == MemorySpec /\ MemoryFairness

-----------------------------------------------------------------------------
\* All that OrderService does on the map is what it may do on PostgreSQL, its
\* progress included: a test that passes on the double has seen a behaviour of the
\* real service (memory.go:24-44, tx_manager.go:11-28).
MemoryImplementsService == FairSpec
=============================================================================
