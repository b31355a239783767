-------------------------------- MODULE Shutdown --------------------------------
(***************************************************************************)
(* The API process and its end: HTTP handlers and timed workers share the  *)
(* connection pool; a signal or the failure of the server cancels the      *)
(* workers' context, lets the requests drain for a while, waits for the    *)
(* workers and closes the pool.  Admission to the handlers is guarded by   *)
(* the rate limiter.                                                       *)
(***************************************************************************)
EXTENDS RateLimiter

CONSTANTS
    Workers,       \* goroutines counted by workerWG
    Grace,         \* the timeout of server.Shutdown, in ticks
    MaxHandlers    \* requests under way at one time: a bound

VARIABLES
    phase,         \* how far main is
    cancelled,     \* appCtx
    failed,        \* ListenAndServe has returned
    worker,        \* waiting for its ticker, in a run, or returned
    busy,          \* handlers at work that hold no connection
    using,         \* handlers that hold one
    drained,       \* since server.Shutdown was called
    forced         \* the grace period was over, and server.Close was called

processVars == <<phase, cancelled, failed, worker, busy, using, drained, forced>>
vars == <<limiterVars, processVars>>

ASSUME ShutdownAssumption == Grace \in Nat \ {0} /\ MaxHandlers \in Nat \ {0}

TypeOK ==
    /\ LimiterTypeOK
    /\ phase \in {"serving", "draining", "waiting", "closing", "exited"}
    /\ cancelled \in BOOLEAN /\ failed \in BOOLEAN /\ forced \in BOOLEAN
    /\ worker \in [Workers -> {"waiting", "running", "returned"}]
    /\ busy \in 0..MaxHandlers /\ using \in 0..MaxHandlers
    /\ drained \in 0..Grace

Init ==
    /\ LimiterInit
    /\ phase = "serving" /\ cancelled = FALSE /\ failed = FALSE
    /\ worker = [w \in Workers |-> "waiting"]
    /\ busy = 0 /\ using = 0 /\ drained = 0 /\ forced = FALSE

PoolClosed == phase \in {"closing", "exited"}

-----------------------------------------------------------------------------
\* Requests.

Admit(c, lag) ==
    /\ phase = "serving" /\ busy + using < MaxHandlers
    /\ Allow(c, lag)
    /\ busy' = busy + 1
    /\ UNCHANGED <<phase, cancelled, failed, worker, using, drained, forced>>

Reject(c, lag) ==
    /\ phase = "serving"
    /\ Limited(c, lag) \/ Refused(c, lag)
    /\ UNCHANGED processVars

\* The pool gives no connection any more once Close has begun.
AcquireConnection ==
    /\ busy > 0 /\ ~PoolClosed
    /\ busy' = busy - 1 /\ using' = using + 1
    /\ UNCHANGED <<limiterVars, phase, cancelled, failed, worker, drained, forced>>

ReleaseConnection ==
    /\ using > 0
    /\ busy' = busy + 1 /\ using' = using - 1
    /\ UNCHANGED <<limiterVars, phase, cancelled, failed, worker, drained, forced>>

HandlerReturns ==
    /\ busy > 0 /\ phase # "exited"
    /\ busy' = busy - 1
    /\ UNCHANGED <<limiterVars, phase, cancelled, failed, worker, using, drained, forced>>

-----------------------------------------------------------------------------
\* Workers.

\* If the ticker and the context are both ready, select takes either.
RunOnce(w) ==
    /\ worker[w] = "waiting"
    /\ worker' = [worker EXCEPT ![w] = "running"]
    /\ UNCHANGED <<limiterVars, phase, cancelled, failed, busy, using, drained, forced>>

RunEnds(w) ==
    /\ worker[w] = "running"
    /\ worker' = [worker EXCEPT ![w] = "waiting"]
    /\ UNCHANGED <<limiterVars, phase, cancelled, failed, busy, using, drained, forced>>

WorkerReturns(w) ==
    /\ worker[w] = "waiting" /\ cancelled
    /\ worker' = [worker EXCEPT ![w] = "returned"]
    /\ UNCHANGED <<limiterVars, phase, cancelled, failed, busy, using, drained, forced>>

-----------------------------------------------------------------------------
\* main.

Signal ==
    /\ ~cancelled /\ phase = "serving"
    /\ cancelled' = TRUE
    /\ UNCHANGED <<limiterVars, phase, failed, worker, busy, using, drained, forced>>

ServerFails ==
    /\ ~failed /\ phase = "serving"
    /\ failed' = TRUE
    /\ UNCHANGED <<limiterVars, phase, cancelled, worker, busy, using, drained, forced>>

BeginShutdown ==
    /\ phase = "serving" /\ (cancelled \/ failed)
    /\ phase' = "draining" /\ cancelled' = TRUE
    /\ UNCHANGED <<limiterVars, failed, worker, busy, using, drained, forced>>

\* server.Shutdown returns when nothing is under way, or when its time is over.
EndDrain ==
    /\ phase = "draining"
    /\ \/ busy + using = 0 /\ UNCHANGED forced
       \/ drained = Grace /\ forced' = TRUE
    /\ phase' = "waiting"
    /\ UNCHANGED <<limiterVars, cancelled, failed, worker, busy, using, drained>>

\* Mutant of WorkersReturned: a worker that workerWG.Add does not count.
AllButOneReturned == Cardinality({w \in Workers : worker[w] # "returned"}) <= 1

WorkersReturned == \A w \in Workers : worker[w] = "returned"

ClosePool ==
    /\ phase = "waiting" /\ WorkersReturned
    /\ phase' = "closing"
    /\ UNCHANGED <<limiterVars, cancelled, failed, worker, busy, using, drained, forced>>

\* pool.Close waits for the connections that are in use.
Exit ==
    /\ phase = "closing" /\ using = 0
    /\ phase' = "exited" /\ busy' = 0
    /\ UNCHANGED <<limiterVars, cancelled, failed, worker, using, drained, forced>>

Tick ==
    /\ phase \in {"serving", "draining"}
    /\ phase = "draining" => drained < Grace
    /\ drained' = IF phase = "draining" THEN drained + 1 ELSE drained
    /\ LimiterTick
    /\ UNCHANGED <<phase, cancelled, failed, worker, busy, using, forced>>

Next ==
    \/ \E c \in Clients, lag \in 0..Skew : Admit(c, lag) \/ Reject(c, lag)
    \/ AcquireConnection \/ ReleaseConnection \/ HandlerReturns
    \/ \E w \in Workers : RunOnce(w) \/ RunEnds(w) \/ WorkerReturns(w)
    \/ Signal \/ ServerFails \/ BeginShutdown \/ EndDrain \/ ClosePool \/ Exit
    \/ Tick

Spec == Init /\ [][Next]_vars

-----------------------------------------------------------------------------

\* The pool closes last: no worker is between its statements when it does,
\* and a request only if it outlasted the grace period, however signal,
\* failure of the server, tickers and requests meet.
PoolClosesLast ==
    PoolClosed => /\ \A w \in Workers : worker[w] # "running"
                  /\ busy + using > 0 => forced

=============================================================================
