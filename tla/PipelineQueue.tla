---------------------------- MODULE PipelineQueue ----------------------------
(***************************************************************************)
(* internal/pipeline: the lazy variant queue.  Request handlers (producers)*)
(* call Enqueue, a fixed pool of workers consumes the buffered channel, and*)
(* the lifecycle hook starts the pool and closes the channel once at stop. *)
(*                                                                         *)
(* The channel may only be closed while nobody can send on it: Enqueue     *)
(* sends under enqueueMu.RLock after re-reading workerClosing, and         *)
(* closeTaskQueue sets workerClosing before it takes enqueueMu.Lock.  The  *)
(* pending set keeps a request from being queued twice.  What a worker     *)
(* does with a request (process) is the interval between Receive and       *)
(* Finish or Panic.                                                        *)
(***************************************************************************)
EXTENDS Naturals, Sequences

CONSTANTS
    Producers,  \* goroutines that call Enqueue
    Workers,    \* goroutines of the lazy worker pool
    Keys,       \* request keys (requestKey)
    QueueSize,  \* capacity of the tasks channel (resolveQueueSize)
    MaxPanics,  \* bound: how many stage executions may panic
    NoKey

ASSUME QueueSizeAssumption == QueueSize \in Nat \ {0}
ASSUME MaxPanicsAssumption == MaxPanics \in Nat
ASSUME NoKeyAssumption == NoKey \notin Keys

VARIABLES
    producer,       \* [pc, key] of each Enqueue call
    tasks,          \* the buffered channel's content
    pending,        \* the dedup set
    worker,         \* [pc, key] of each pool goroutine
    workerClosing,  \* atomic flag
    canceled,       \* the workers' context
    closing,        \* progress of closeTaskQueue (workerStopOnce, enqueueMu)
    life,           \* progress of the lifecycle hooks
    panics

queueVars == <<producer, tasks, pending, worker, workerClosing, canceled, closing, life, panics>>

(***************************************************************************)
(* closed: close(tasks) has run.  Holding RLock: the producer is between   *)
(* enqueueMu.RLock and its deferred RUnlock.                               *)
(***************************************************************************)
closed == closing = "closed"
holdsRLock(p) == producer[p].pc \in {"locked", "send", "drop"}

idle == [pc |-> "idle", key |-> NoKey]
to(pc, key) == [pc |-> pc, key |-> key]
putAway(w, pc) == [worker EXCEPT ![w] = to(pc, NoKey)]

(***************************************************************************)
(* QueueTypeOK: the types of the variables; the channel's content stays    *)
(* within its capacity, which the non-blocking send has to ensure.         *)
(***************************************************************************)
QueueTypeOK ==
    /\ producer \in [Producers -> [pc : {"idle", "add", "rlock", "locked", "send", "drop"},
                                   key : Keys \cup {NoKey}]]
    /\ tasks \in Seq(Keys) /\ Len(tasks) <= QueueSize
    /\ pending \subseteq Keys
    /\ worker \in [Workers -> [pc : {"off", "select", "process", "exited", "dead"},
                               key : Keys \cup {NoKey}]]
    /\ workerClosing \in BOOLEAN /\ canceled \in BOOLEAN
    /\ closing \in {"no", "marked", "canceled", "locking", "closed"}
    /\ life \in {"init", "noworkers", "starting", "running", "aborting", "failed",
                 "stopping", "stopped", "timedout", "abandoned"}
    /\ panics \in 0..MaxPanics

QueueInit ==
    /\ producer = [p \in Producers |-> idle]
    /\ tasks = <<>>
    /\ pending = {}
    /\ worker = [w \in Workers |-> to("off", NoKey)]
    /\ workerClosing = FALSE /\ canceled = FALSE
    /\ closing = "no"
    /\ life = "init"
    /\ panics = 0

-----------------------------------------------------------------------------
(* Enqueue *)

lifecycle == <<workerClosing, canceled, closing, life>>

Enqueue(p, k) ==
    /\ producer[p].pc = "idle"
    /\ ~workerClosing
    /\ producer' = [producer EXCEPT ![p] = to("add", k)]
    /\ UNCHANGED <<tasks, pending, worker, lifecycle, panics>>

\* Mutation: the pending set is written but not consulted.
AddAlways(p) ==
    /\ producer[p].pc = "add"
    /\ producer' = [producer EXCEPT ![p].pc = "rlock"]
    /\ pending' = pending \cup {producer[p].key}
    /\ UNCHANGED <<tasks, worker, lifecycle, panics>>

AddIfAbsent(p) ==
    LET k == producer[p].key IN
    /\ producer[p].pc = "add"
    /\ producer' = [producer EXCEPT ![p] = IF k \in pending THEN idle ELSE to("rlock", k)]
    /\ pending' = pending \cup {k}
    /\ UNCHANGED <<tasks, worker, lifecycle, panics>>

(***************************************************************************)
(* sync.RWMutex: a writer that is waiting keeps new readers out.           *)
(***************************************************************************)
RLock(p) ==
    /\ producer[p].pc = "rlock"
    /\ closing # "locking"
    /\ producer' = [producer EXCEPT ![p].pc = "locked"]
    /\ UNCHANGED <<tasks, pending, worker, lifecycle, panics>>

\* Mutation: workerClosing is not read again under the lock.
RecheckNothing(p) ==
    /\ producer[p].pc = "locked"
    /\ producer' = [producer EXCEPT ![p].pc = "send"]
    /\ UNCHANGED <<tasks, pending, worker, lifecycle, panics>>

RecheckClosing(p) ==
    /\ producer[p].pc = "locked"
    /\ producer' = [producer EXCEPT ![p].pc = IF workerClosing THEN "drop" ELSE "send"]
    /\ UNCHANGED <<tasks, pending, worker, lifecycle, panics>>

\* Mutation: a dropped request stays in the pending set.
DropKeepingPending(p) ==
    /\ \/ producer[p].pc = "drop"
       \/ producer[p].pc = "send" /\ Len(tasks) >= QueueSize
    /\ producer' = [producer EXCEPT ![p] = idle]
    /\ UNCHANGED <<tasks, pending, worker, lifecycle, panics>>

(***************************************************************************)
(* The non-blocking send.  On a closed channel Go would panic here.        *)
(***************************************************************************)
Send(p) ==
    /\ producer[p].pc = "send"
    /\ Len(tasks) < QueueSize
    /\ tasks' = Append(tasks, producer[p].key)
    /\ producer' = [producer EXCEPT ![p] = idle]
    /\ UNCHANGED <<pending, worker, lifecycle, panics>>

Drop(p) ==
    /\ \/ producer[p].pc = "drop"
       \/ producer[p].pc = "send" /\ Len(tasks) >= QueueSize
    /\ pending' = pending \ {producer[p].key}
    /\ producer' = [producer EXCEPT ![p] = idle]
    /\ UNCHANGED <<tasks, worker, lifecycle, panics>>

-----------------------------------------------------------------------------
(* runWorker *)

Receive(w) ==
    /\ worker[w].pc = "select"
    /\ tasks # <<>>
    /\ worker' = [worker EXCEPT ![w] = to("process", Head(tasks))]
    /\ tasks' = Tail(tasks)
    /\ UNCHANGED <<producer, pending, lifecycle, panics>>

\* Mutation: the worker goes on with its loop instead of returning.
ExitContinues(w) ==
    /\ worker[w].pc = "select"
    /\ canceled \/ (closed /\ tasks = <<>>)
    /\ UNCHANGED queueVars

Exit(w) ==
    /\ worker[w].pc = "select"
    /\ canceled \/ (closed /\ tasks = <<>>)
    /\ worker' = putAway(w, "exited")
    /\ UNCHANGED <<producer, tasks, pending, lifecycle, panics>>

\* Mutation: a worker ends after its first request.
FinishAndExit(w) ==
    /\ worker[w].pc = "process"
    /\ pending' = pending \ {worker[w].key}
    /\ worker' = putAway(w, "exited")
    /\ UNCHANGED <<producer, tasks, lifecycle, panics>>

(***************************************************************************)
(* process has returned, with or without an error; finishRequest runs.     *)
(***************************************************************************)
Finish(w) ==
    /\ worker[w].pc = "process"
    /\ pending' = pending \ {worker[w].key}
    /\ worker' = putAway(w, "select")
    /\ UNCHANGED <<producer, tasks, lifecycle, panics>>

(***************************************************************************)
(* A stage panics: the deferred finishRequest still runs, the pool's panic *)
(* handler logs, and the goroutine is gone; nothing starts another.        *)
(***************************************************************************)
Panic(w) ==
    /\ worker[w].pc = "process"
    /\ panics < MaxPanics
    /\ panics' = panics + 1
    /\ pending' = pending \ {worker[w].key}
    /\ worker' = putAway(w, "dead")
    /\ UNCHANGED <<producer, tasks, lifecycle>>

-----------------------------------------------------------------------------
(* start, stop and closeTaskQueue *)

(***************************************************************************)
(* start() returns before it starts workers when CacheDir is blank.        *)
(***************************************************************************)
Start ==
    /\ life = "init"
    /\ life' \in {"starting", "noworkers"}
    /\ UNCHANGED <<producer, tasks, pending, worker, workerClosing, canceled, closing, panics>>

InvokeWorker(w) ==
    /\ life = "starting"
    /\ worker[w].pc = "off"
    /\ worker' = putAway(w, "select")
    /\ life' = IF \A x \in Workers \ {w} : worker[x].pc # "off" THEN "running" ELSE "starting"
    /\ UNCHANGED <<producer, tasks, pending, workerClosing, canceled, closing, panics>>

InvokeFails ==
    /\ life = "starting"
    /\ life' = "aborting"
    /\ UNCHANGED <<producer, tasks, pending, worker, workerClosing, canceled, closing, panics>>

(***************************************************************************)
(* After a failed start closeTaskQueue is a no-op (workerStopOnce) and the *)
(* released pool is not waited for.                                        *)
(***************************************************************************)
Stop ==
    /\ life \in {"noworkers", "running", "failed"}
    /\ life' = IF life = "failed" THEN "stopped" ELSE "stopping"
    /\ UNCHANGED <<producer, tasks, pending, worker, workerClosing, canceled, closing, panics>>

(***************************************************************************)
(* stop() waits for the cleanup loop first, and returns when its context   *)
(* ends before: the workers are left running and the queue open.           *)
(***************************************************************************)
CleanupStopTimesOut ==
    /\ life = "running"
    /\ life' = "abandoned"
    /\ UNCHANGED <<producer, tasks, pending, worker, workerClosing, canceled, closing, panics>>

(***************************************************************************)
(* The workers' context derives from the one given to start(), that of the *)
(* command: it may end before stop(), and without workerClosing.           *)
(***************************************************************************)
ContextEnds ==
    /\ ~canceled
    /\ canceled' = TRUE
    /\ UNCHANGED <<producer, tasks, pending, worker, workerClosing, closing, life, panics>>

inCloseTaskQueue == life \in {"aborting", "stopping"}

StoreClosing ==
    /\ inCloseTaskQueue /\ closing = "no"
    /\ workerClosing' = TRUE
    /\ closing' = "marked"
    /\ UNCHANGED <<producer, tasks, pending, worker, canceled, life, panics>>

(***************************************************************************)
(* Without startWorkers there is no workerCancel, and no worker to cancel. *)
(***************************************************************************)
CancelWorkers ==
    /\ closing = "marked"
    /\ canceled' = TRUE
    /\ closing' = "canceled"
    /\ UNCHANGED <<producer, tasks, pending, worker, workerClosing, life, panics>>

LockEnqueue ==
    /\ closing = "canceled"
    /\ closing' = "locking"
    /\ UNCHANGED <<producer, tasks, pending, worker, workerClosing, canceled, life, panics>>

CloseTasks ==
    /\ closing = "locking"
    /\ \A p \in Producers : ~holdsRLock(p)
    /\ closing' = "closed"
    /\ UNCHANGED <<producer, tasks, pending, worker, workerClosing, canceled, life, panics>>

noWorkerRuns == \A w \in Workers : worker[w].pc \in {"off", "exited", "dead"}

(***************************************************************************)
(* After an aborted start the pool is released without waiting; stop waits *)
(* for the pool's goroutines, or gives up when its context ends.           *)
(***************************************************************************)
CloseReturns ==
    /\ inCloseTaskQueue /\ closed
    /\ life' = IF life = "aborting" THEN "failed" ELSE "stopped"
    /\ life = "stopping" => noWorkerRuns
    /\ UNCHANGED <<producer, tasks, pending, worker, workerClosing, canceled, closing, panics>>

StopTimesOut ==
    /\ life = "stopping" /\ closed /\ ~noWorkerRuns
    /\ life' = "timedout"
    /\ UNCHANGED <<producer, tasks, pending, worker, workerClosing, canceled, closing, panics>>

-----------------------------------------------------------------------------
EnqueueSteps(p) ==
    AddIfAbsent(p) \/ RLock(p) \/ RecheckClosing(p) \/ Send(p) \/ Drop(p)
WorkerSteps(w) == Receive(w) \/ Exit(w) \/ Finish(w)
CloseSteps == StoreClosing \/ CancelWorkers \/ LockEnqueue \/ CloseTasks \/ CloseReturns

(***************************************************************************)
(* After shutdown the service is quiet for good.                           *)
(***************************************************************************)
Terminated ==
    /\ life \in {"stopped", "timedout"} /\ noWorkerRuns
    /\ \A p \in Producers : producer[p].pc = "idle"
    /\ UNCHANGED queueVars

QueueNext ==
    \/ \E p \in Producers : EnqueueSteps(p) \/ \E k \in Keys : Enqueue(p, k)
    \/ \E w \in Workers : WorkerSteps(w) \/ Panic(w) \/ InvokeWorker(w)
    \/ Start \/ InvokeFails \/ Stop \/ CleanupStopTimesOut \/ ContextEnds
    \/ CloseSteps \/ StopTimesOut
    \/ Terminated

(***************************************************************************)
(* Goroutines that can run do run, stages terminate, and Start gets going; *)
(* nobody is obliged to call Enqueue or Stop.                              *)
(***************************************************************************)
Fairness ==
    /\ \A p \in Producers : WF_queueVars(EnqueueSteps(p))
    /\ \A w \in Workers : WF_queueVars(WorkerSteps(w)) /\ WF_queueVars(InvokeWorker(w))
    /\ WF_queueVars(CloseSteps)

QueueSpec == QueueInit /\ [][QueueNext]_queueVars /\ Fairness

-----------------------------------------------------------------------------
(* Properties *)

owns(p) == producer[p].pc \in {"rlock", "locked", "send", "drop"}
runs(w) == worker[w].pc = "process"

(***************************************************************************)
(* NoSendOnClosed: no Enqueue call stands before its send once             *)
(* closeTaskQueue has closed the channel (a send would panic the request   *)
(* handler), whatever the handlers, the stop hook and a failing start do.  *)
(***************************************************************************)
NoSendOnClosed == \A p \in Producers : producer[p].pc = "send" => ~closed

(***************************************************************************)
(* InFlightOnce: a request key is in at most one place: one Enqueue call   *)
(* that has claimed it, one queue slot or one worker, so two workers never *)
(* process the same request at the same time.                              *)
(***************************************************************************)
ClaimsDiffer ==
    \A p, q \in Producers : owns(p) /\ owns(q) /\ producer[p].key = producer[q].key => p = q
SlotsDiffer == \A i, j \in DOMAIN tasks : tasks[i] = tasks[j] => i = j
RunsDiffer ==
    \A w, x \in Workers : runs(w) /\ runs(x) /\ worker[w].key = worker[x].key => w = x
ClaimNotQueued == \A p \in Producers, i \in DOMAIN tasks : owns(p) => producer[p].key # tasks[i]
ClaimNotRunning ==
    \A p \in Producers, w \in Workers : owns(p) /\ runs(w) => producer[p].key # worker[w].key
QueuedNotRunning == \A i \in DOMAIN tasks, w \in Workers : runs(w) => tasks[i] # worker[w].key

InFlightOnce ==
    /\ ClaimsDiffer /\ SlotsDiffer /\ RunsDiffer
    /\ ClaimNotQueued /\ ClaimNotRunning /\ QueuedNotRunning

(***************************************************************************)
(* PendingIsInFlight: the dedup set holds exactly the requests in flight.  *)
(* A key left behind would make Enqueue ignore that variant for good; one  *)
(* removed too early would let it be queued twice.                         *)
(***************************************************************************)
Claimed(k) == \E p \in Producers : owns(p) /\ producer[p].key = k
Queued(k) == \E i \in DOMAIN tasks : tasks[i] = k
Running(k) == \E w \in Workers : runs(w) /\ worker[w].key = k
PendingIsInFlight == \A k \in Keys : k \in pending <=> Claimed(k) \/ Queued(k) \/ Running(k)

(***************************************************************************)
(* RequestsComplete: while the service runs and no signal has come, an     *)
(* accepted request is processed and forgotten, as long as one worker      *)
(* survives the panics.                                                    *)
(***************************************************************************)
serving == life = "running" /\ ~canceled
RequestsComplete == \A k \in Keys : (k \in pending /\ serving) ~> (k \notin pending \/ ~serving)

(***************************************************************************)
(* WorkersStop: once workerClosing is set every pool goroutine ends, and   *)
(* stop returns.                                                           *)
(***************************************************************************)
WorkersStop ==
    /\ workerClosing ~> noWorkerRuns
    /\ life = "stopping" ~> life \in {"stopped", "timedout"}
=============================================================================
