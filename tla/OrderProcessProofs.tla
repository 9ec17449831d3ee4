------------------------- MODULE OrderProcessProofs ------------------------
(***************************************************************************)
(* The process OrderService runs in, with its pool and its way to end,     *)
(* takes no step that OrderService could not take; what it adds, the       *)
(* connections, is accounted for; and an orderly exit abandons no          *)
(* transaction.                                                            *)
(***************************************************************************)
EXTENDS OrderProcessProperties, OrderServiceProofs, FiniteSetTheorems

(* A step of the process is a step of the service or none. *)
LEMMA ProcessStep ==
  ASSUME TypeOK, [ProcessNext]_allVars
  PROVE  [Next]_vars
<1>1. ASSUME NEW r \in Requests, ProcessHandlerStep(r)
      PROVE  HandlerStep(r)
  BY <1>1 DEF ProcessHandlerStep, ReadStep, ListStep, ReturnStep, HandlerStep
<1>2. ASSUME NEW r \in Requests, Refused(r)
      PROVE  GiveUp(r)
  BY <1>2 DEF Refused
<1>3. ASSUME NEW r \in Requests, UpsertStep(r) \/ Resolve(r) \/ Break(r)
      PROVE  StoreStep(r)
  BY <1>3 DEF UpsertStep, Resolve, Break, StoreStep
<1>4. ASSUME NEW r \in Requests, Acquire(r) \/ Release(r)
      PROVE  UNCHANGED vars
  BY <1>4 DEF Acquire, Release
<1>5. CASE Signal \/ Close \/ Restart
  BY <1>5 DEF Signal, Close, Restart
<1>6. CASE Exit \/ Kill
  <2>1. CASE \E r \in Requests : pc[r] \in InFlight
    BY <1>6, <2>1 DEF Exit, Kill, Die, Crash, Next
  <2>2. CASE \A r \in Requests : pc[r] \notin InFlight
    <3>1. pc' = pc
      BY <1>6, <2>2 DEF Exit, Kill, Die, TypeOK
    <3>. QED  BY <1>6, <3>1 DEF Exit, Kill, Die, vars, storeVars, paymentVars
  <2>. QED  BY <2>1, <2>2
<1>7. CASE UNCHANGED allVars
  BY <1>7 DEF allVars
<1>. QED  BY <1>1, <1>2, <1>3, <1>4, <1>5, <1>6, <1>7 DEF ProcessNext, ReceiveStep, Next

\* OrderService's own invariant holds of the process.
THEOREM ProcessInvariance == ProcessSpec => []IInv
<1>1. ProcessInit => IInv
  BY InitInv DEF ProcessInit
<1>2. IInv /\ [ProcessNext]_allVars => IInv'
  BY ProcessStep, NextInv DEF IInv
<1>. QED  BY <1>1, <1>2, PTL DEF ProcessSpec

\* The safety half of ImplementsService: the pool, the signals and the order in
\* which main closes things let OrderService do nothing new
\* (order/cmd/main.go:47-131).
THEOREM ProcessRefinement == ProcessSpec => Spec
<1>1. ProcessInit => Init
  BY DEF ProcessInit
<1>2. IInv /\ [ProcessNext]_allVars => [Next]_vars
  BY ProcessStep DEF IInv
<1>. QED  BY <1>1, <1>2, ProcessInvariance, PTL DEF ProcessSpec, Spec

-----------------------------------------------------------------------------
PoolInv == PoolAccounted /\ IsFiniteSet(conns)

(* All connections are idle at the start. *)
LEMMA PoolInit == ProcessInit => PoolInv
BY FS_EmptySet, PoolAssumption
   DEF ProcessInit, Init, PoolInv, PoolAccounted, ProcessTypeOK, Phases, Running

\* What every step must preserve of the pool, when it leaves conns and phase alone.
LEMMA SameConns ==
  ASSUME PoolInv, UNCHANGED procVars,
         \A q \in Requests : pc'[q] = "saving" /\ tx'[q] = "locked" =>
                             (pc[q] = "saving" /\ tx[q] = "locked") \/ q \in conns
  PROVE  PoolInv'
BY DEF PoolInv, PoolAccounted, ProcessTypeOK, procVars, Running

\* A request comes to wait for a transaction only through Save, which opens one.
LEMMA HandlerKeepsPool ==
  ASSUME IInv, PoolInv, NEW r \in Requests,
         \/ ProcessHandlerStep(r) \/ Refused(r)
         \/ (ReceiveStep(r) \/ GiveUp(r) \/ PaymentStep(r)) /\ UNCHANGED procVars
  PROVE  PoolInv'
<1> USE DEF IInv, TypeOK, StoreTypeOK
<1>1. UNCHANGED procVars
  BY DEF ProcessHandlerStep, Refused
<1>2. ASSUME NEW q \in Requests, pc'[q] = "saving", tx'[q] = "locked"
      PROVE  pc[q] = "saving" /\ tx[q] = "locked"
  <2>1. CASE ReceiveStep(r) \/ GiveUp(r) \/ PaymentStep(r) \/ Refused(r)
    BY <1>2, <2>1 DEF ReceiveStep, Receive, GiveUp, Answer, PaymentStep, Refused, storeVars
  <2>2. CASE CreateOrder(r) \/ CancelOrder(r) \/ SavePaid(r)
    BY <1>2, <2>2 DEF CreateOrder, CancelOrder, SavePaid, Save, GoTo
  <2>3. CASE \/ OrderNotFound(r) \/ GetOrder(r) \/ AlreadyFinal(r) \/ PayOrder(r)
             \/ RejectCreate(r) \/ Saved(r) \/ CallFailed(r)
    BY <1>2, <2>3 DEF OrderNotFound, GetOrder, AlreadyFinal, PayOrder, RejectCreate, Saved,
       CallFailed, Answer, GoTo, storeVars
  <2>. QED
    BY <2>1, <2>2, <2>3 DEF ProcessHandlerStep, ReadStep, ListStep, ReturnStep
<1>. QED  BY <1>1, <1>2, SameConns

(* Each kind of step keeps the pool's accounting: taking a connection, *)
LEMMA AcquireKeepsPool ==
  ASSUME PoolInv, NEW r \in Requests, Acquire(r)
  PROVE  PoolInv'
<1>1. conns' = conns \cup {r} /\ r \notin conns /\ IsFiniteSet(conns) /\ Free
  BY DEF Acquire, PoolInv
<1>2. IsFiniteSet(conns') /\ Cardinality(conns') = Cardinality(conns) + 1
  BY <1>1, FS_AddElement
<1>3. Cardinality(conns') <= PoolSize
  BY <1>1, <1>2, FS_CardinalityType, PoolAssumption DEF Free
<1>4. phase' = phase /\ Running
  BY <1>1 DEF Acquire, Free, PoolOpen, InventoryOpen, PaymentOpen, Running, Closing
<1>. QED
  BY <1>1, <1>2, <1>3, <1>4
     DEF Acquire, vars, PoolInv, PoolAccounted, ProcessTypeOK, Running

(* giving it back, *)
LEMMA ReleaseKeepsPool ==
  ASSUME PoolInv, NEW r \in Requests, Release(r)
  PROVE  PoolInv'
<1>1. conns' = conns \ {r} /\ r \in conns /\ IsFiniteSet(conns)
  BY DEF Release, PoolInv
<1>2. IsFiniteSet(conns') /\ Cardinality(conns') = Cardinality(conns) - 1
  BY <1>1, FS_RemoveElement
<1>3. Cardinality(conns') <= PoolSize
  BY <1>1, <1>2, FS_CardinalityType, PoolAssumption DEF PoolInv, PoolAccounted
<1>. QED
  BY <1>1, <1>2, <1>3
     DEF Release, vars, PoolInv, PoolAccounted, ProcessTypeOK, Running

(* a statement on a connection held, *)
LEMMA StoreKeepsPool ==
  ASSUME IInv, PoolInv, NEW r \in Requests, UpsertStep(r) \/ Resolve(r) \/ Break(r)
  PROVE  PoolInv'
<1>1. UNCHANGED <<procVars, pc>>
  BY DEF UpsertStep, Resolve, Break
<1>2. ASSUME NEW q \in Requests, tx'[q] = "locked"
      PROVE  tx[q] = "locked" \/ q \in conns
  BY <1>2 DEF UpsertStep, Resolve, Break, Upsert, Commit, Rollback, IInv, TypeOK, StoreTypeOK
<1>. QED  BY <1>1, <1>2, SameConns

(* and main.go's own steps. *)
LEMMA MainKeepsPool ==
  ASSUME PoolInv, Signal \/ Close \/ Exit \/ Kill \/ Restart \/ UNCHANGED allVars
  PROVE  PoolInv'
<1>1. CASE Signal \/ Close \/ Restart
  BY <1>1 DEF Signal, Close, Restart, Then, Closing, Phases, Running, vars, PoolInv,
     PoolAccounted, ProcessTypeOK
<1>2. CASE Exit \/ Kill
  <2>1. conns' = {} /\ phase' \in {"down", "killed"}
    BY <1>2 DEF Exit, Kill, Die
  <2>2. ASSUME NEW q \in Requests PROVE pc'[q] # "saving"
    BY <1>2, <2>2 DEF Exit, Kill, Die, InFlight
  <2>. QED
    BY <2>1, <2>2, FS_EmptySet, PoolAssumption
       DEF PoolInv, PoolAccounted, ProcessTypeOK, Phases
<1>3. CASE UNCHANGED allVars
  BY <1>3, SameConns DEF allVars, vars
<1>. QED  BY <1>1, <1>2, <1>3

(* Together: every step of the process. *)
LEMMA PoolNext ==
  ASSUME IInv, PoolInv, [ProcessNext]_allVars
  PROVE  PoolInv'
<1>1. ASSUME NEW r \in Requests,
             \/ Running /\ (ReceiveStep(r) \/ GiveUp(r)) /\ UNCHANGED procVars
             \/ ProcessHandlerStep(r) \/ Refused(r)
             \/ Acquire(r) \/ UpsertStep(r) \/ Resolve(r) \/ Break(r) \/ Release(r)
             \/ PaymentStep(r) /\ UNCHANGED procVars
      PROVE  PoolInv'
  <2>1. CASE Acquire(r)
    BY <2>1, AcquireKeepsPool
  <2>2. CASE Release(r)
    BY <2>2, ReleaseKeepsPool
  <2>3. CASE UpsertStep(r) \/ Resolve(r) \/ Break(r)
    BY <2>3, StoreKeepsPool
  <2>4. CASE \/ ProcessHandlerStep(r) \/ Refused(r)
             \/ (ReceiveStep(r) \/ GiveUp(r) \/ PaymentStep(r)) /\ UNCHANGED procVars
    BY <2>4, HandlerKeepsPool
  <2>. QED  BY <1>1, <2>1, <2>2, <2>3, <2>4
<1>2. CASE Signal \/ Close \/ Exit \/ Kill \/ Restart \/ UNCHANGED allVars
  BY <1>2, MainKeepsPool
<1>. QED  BY <1>1, <1>2 DEF ProcessNext

\* Never more transactions than connections, none without one, and none kept by a
\* request that has ended.
THEOREM PoolBounded == ProcessSpec => []PoolAccounted
<1>1. PoolInv => PoolAccounted
  BY DEF PoolInv
<1>. QED  BY <1>1, PoolInit, PoolNext, ProcessInvariance, PTL DEF ProcessSpec

\* The process that exits in order leaves no row locked behind it.
THEOREM OrderlyExit == ProcessSpec => ExitAbandonsNoTransaction
<1>1. ASSUME IInv, PoolInv, [ProcessNext]_allVars, phase # "down", phase' = "down",
             NEW r \in Requests, pc[r] \in InFlight, tx[r] = "locked"
      PROVE  FALSE
  <2>1. Exit
    BY <1>1 DEF ProcessNext, allVars, procVars, ProcessHandlerStep, Refused, Acquire,
       UpsertStep, Resolve, Break, Release, Signal, Close, Then, Closing, Kill, Restart
  <2>2. pc[r] = "saving"
    BY <1>1 DEF IInv, ControlInv, InFlight
  <2>. QED  BY <1>1, <2>1, <2>2 DEF Exit, PoolInv, PoolAccounted
<1>2. PoolInv /\ IInv /\ [ProcessNext]_allVars
        => [phase # "down" /\ phase' = "down" =>
              \A r \in Requests : pc[r] \in InFlight => tx[r] # "locked"]_allVars
  BY <1>1
<1>. QED
  BY <1>2, PoolInit, PoolNext, ProcessInvariance, PTL
     DEF ProcessSpec, ExitAbandonsNoTransaction
=============================================================================
