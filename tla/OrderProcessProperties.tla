----------------------- MODULE OrderProcessProperties ----------------------
(***************************************************************************)
(* What the pool and the way main ends must not take from OrderService     *)
(***************************************************************************)
EXTENDS OrderProcess

\* A transaction whose handler still waits holds a connection from its upsert on,
\* there are never more of them than the pool has, and none is left to a request
\* that has no use for it (postgres.go:31, tx_manager.go:7).
PoolAccounted ==
  /\ ProcessTypeOK
  /\ Cardinality(conns) <= PoolSize
  /\ \A r \in Requests : pc[r] = "saving" /\ tx[r] = "locked" => r \in conns
  /\ ~Running => conns = {}

\* However few connections there are and however main ends, the process does what
\* OrderService was shown to do, its progress included: no handler needs a second
\* connection while it holds one, and none is left waiting on a client or pool
\* that was closed under it (order/cmd/main.go:52-80).
ImplementsService == FairSpec

\* An orderly exit takes no request with it whose row PostgreSQL may still write:
\* pool.Close, the last of the deferred calls, waits for every transaction
\* (order/cmd/main.go:52).
ExitAbandonsNoTransaction ==
  [][phase # "down" /\ phase' = "down" =>
       \A r \in Requests : pc[r] \in InFlight => tx[r] # "locked"]_allVars

\* Once told to stop the process ends: pool.Close, which waits without a time
\* limit, waits for nobody who waits for something main has closed
\* (order/cmd/main.go:112-122).
StopEnds == phase = "stopping" ~> phase \in {"down", "killed"}
=============================================================================
