--------------------------- MODULE PreparedService ---------------------------
(***************************************************************************)
(* internal/server/prepared_service.go: the snapshot that HTTP requests    *)
(* are answered from, and the coalescing background rebuilds that keep it  *)
(* up to date with the catalog.                                            *)
(*                                                                         *)
(* Catalog writers change the catalog and then publish an event.  The      *)
(* event's handler sets rebuildAgain and, if it wins rebuildWorkerRunning, *)
(* starts a rebuild worker; otherwise it trusts the running worker to see  *)
(* the flag.  A request that finds an artifact missing deletes the variant *)
(* and rebuilds in its own goroutine, without an event.  Rebuilds are      *)
(* serialised by rebuildMu.  stop() sets rebuildStopped, unsubscribes,     *)
(* cancels, waits for the workers, and releases the file sources.          *)
(*                                                                         *)
(* The catalog is the number of changes it has seen, and a snapshot is the *)
(* number it was compiled from: the content is a function of it.           *)
(***************************************************************************)
EXTENDS Naturals, FiniteSets

CONSTANTS
    Handlers,    \* event bus goroutines that may run rebuildAsync
    Workers,     \* goroutines available for rebuild workers
    Deleters,    \* request goroutines that may call DeleteVariantArtifact
    MaxChanges,  \* bound: how often the catalog changes
    NoProc

ASSUME MaxChangesAssumption == MaxChanges \in Nat
ASSUME ProcsAssumption ==
    /\ Handlers \cap Workers = {} /\ Handlers \cap Deleters = {} /\ Workers \cap Deleters = {}
    /\ NoProc \notin Handlers \cup Workers \cup Deleters

Rebuilders == Workers \cup Deleters

VARIABLES
    cat,           \* changes made to the catalog
    snapshot,      \* the catalog version the published snapshot shows
    events,        \* changes whose event has not been handled yet
    rebuildMu,     \* holder of rebuildMu, or NoProc
    running,       \* rebuildWorkerRunning
    again,         \* rebuildAgain
    stopped,       \* rebuildStopped
    canceled,      \* the lifecycle context
    handler,       \* program counter of each event handler
    rebuilder,     \* [pc, ver] of each worker and each deleting request
    life,          \* progress of stop()
    files          \* [list, root, closed, open]: serverFileSources

coalescer == <<running, again, stopped, canceled>>
preparedVars == <<cat, snapshot, events, rebuildMu, coalescer, handler, rebuilder, life, files>>

(***************************************************************************)
(* The points of Rebuild, those under rebuildMu, and those of the worker   *)
(* loop at which the worker owns rebuildWorkerRunning.                     *)
(***************************************************************************)
LockedPoints == {"refresh", "insert", "compile", "store"}
RebuildPoints == {"lock"} \cup LockedPoints
OwnerPoints == {"check", "swap", "release", "clearAgain", "clearRunning"} \cup RebuildPoints
WorkerPoints == {"idle", "recheck", "retake"} \cup OwnerPoints

at(p, pc) == rebuilder' = [rebuilder EXCEPT ![p].pc = pc]
subscribed == life \in {"started", "stopping"}

(***************************************************************************)
(* TypeOK: the types of the variables; no root is closed more often than   *)
(* it was opened.                                                          *)
(***************************************************************************)
TypeOK ==
    /\ cat \in 0..MaxChanges /\ snapshot \in 0..MaxChanges /\ events \in 0..MaxChanges
    /\ rebuildMu \in Rebuilders \cup {NoProc}
    /\ running \in BOOLEAN /\ again \in BOOLEAN /\ stopped \in BOOLEAN /\ canceled \in BOOLEAN
    /\ handler \in [Handlers -> {"idle", "load", "setAgain", "cas", "spawn"}]
    /\ rebuilder \in [Rebuilders -> [pc : WorkerPoints, ver : 0..MaxChanges]]
    /\ life \in {"started", "stopping", "unsubscribed", "waiting", "cleanup", "stopped", "timedout"}
    /\ files \in [list : BOOLEAN, root : BOOLEAN, closed : BOOLEAN, open : Nat]

(***************************************************************************)
(* After start() and the first Rebuild of the bootstrap hook.  files.list: *)
(* newServerFileSources returns nil when no root could be opened.          *)
(***************************************************************************)
PreparedInit ==
    /\ cat = 0 /\ snapshot = 0 /\ events = 0
    /\ rebuildMu = NoProc
    /\ running = FALSE /\ again = FALSE /\ stopped = FALSE /\ canceled = FALSE
    /\ handler = [h \in Handlers |-> "idle"]
    /\ rebuilder = [p \in Rebuilders |-> [pc |-> "idle", ver |-> 0]]
    /\ life = "started"
    /\ files \in {[list |-> b, root |-> FALSE, closed |-> FALSE, open |-> 0] : b \in BOOLEAN}

-----------------------------------------------------------------------------
(* Catalog writers and the event bus *)

ChangeCatalog ==
    /\ cat < MaxChanges
    /\ cat' = cat + 1
    /\ events' = events + 1
    /\ UNCHANGED <<snapshot, rebuildMu, coalescer, handler, rebuilder, life, files>>

Deliver(h) ==
    /\ events > 0 /\ subscribed
    /\ handler[h] = "idle"
    /\ events' = events - 1
    /\ handler' = [handler EXCEPT ![h] = "load"]
    /\ UNCHANGED <<cat, snapshot, rebuildMu, coalescer, rebuilder, life, files>>

-----------------------------------------------------------------------------
(* rebuildAsync *)

LoadStopped(h) ==
    /\ handler[h] = "load"
    /\ handler' = [handler EXCEPT ![h] = IF stopped THEN "idle" ELSE "setAgain"]
    /\ UNCHANGED <<cat, snapshot, events, rebuildMu, coalescer, rebuilder, life, files>>

SetAgain(h) ==
    /\ handler[h] = "setAgain"
    /\ again' = TRUE
    /\ handler' = [handler EXCEPT ![h] = "cas"]
    /\ UNCHANGED <<cat, snapshot, events, rebuildMu, running, stopped, canceled, rebuilder, life, files>>

\* Mutation: load and store instead of a compare-and-swap: always spawns.
TakeRunningBlindly(h) ==
    /\ handler[h] = "cas"
    /\ running' = TRUE
    /\ handler' = [handler EXCEPT ![h] = "spawn"]
    /\ UNCHANGED <<cat, snapshot, events, rebuildMu, again, stopped, canceled, rebuilder, life, files>>

TakeRunning(h) ==
    /\ handler[h] = "cas"
    /\ running' = TRUE
    /\ handler' = [handler EXCEPT ![h] = IF running THEN "idle" ELSE "spawn"]
    /\ UNCHANGED <<cat, snapshot, events, rebuildMu, again, stopped, canceled, rebuilder, life, files>>

SpawnWorker(h, w) ==
    /\ handler[h] = "spawn"
    /\ rebuilder[w].pc = "idle"
    /\ at(w, "check")
    /\ handler' = [handler EXCEPT ![h] = "idle"]
    /\ UNCHANGED <<cat, snapshot, events, rebuildMu, coalescer, life, files>>

-----------------------------------------------------------------------------
(* runRebuildWorker *)

CheckStopped(w) ==
    /\ rebuilder[w].pc = "check"
    /\ at(w, IF stopped \/ canceled THEN "clearAgain" ELSE "swap")
    /\ UNCHANGED <<cat, snapshot, events, rebuildMu, coalescer, handler, life, files>>

ClearAgain(w) ==
    /\ rebuilder[w].pc = "clearAgain"
    /\ again' = FALSE
    /\ at(w, "clearRunning")
    /\ UNCHANGED <<cat, snapshot, events, rebuildMu, running, stopped, canceled, handler, life, files>>

ClearRunning(w) ==
    /\ rebuilder[w].pc = "clearRunning"
    /\ running' = FALSE
    /\ at(w, "idle")
    /\ UNCHANGED <<cat, snapshot, events, rebuildMu, again, stopped, canceled, handler, life, files>>

SwapAgain(w) ==
    /\ rebuilder[w].pc = "swap"
    /\ again' = FALSE
    /\ at(w, IF again THEN "lock" ELSE "release")
    /\ UNCHANGED <<cat, snapshot, events, rebuildMu, running, stopped, canceled, handler, life, files>>

(***************************************************************************)
(* releaseRebuildWorker: clear rebuildWorkerRunning, look at rebuildAgain  *)
(* once more, and go on only if no handler has started a worker since.     *)
(***************************************************************************)
ReleaseRunning(w) ==
    /\ rebuilder[w].pc = "release"
    /\ running' = FALSE
    /\ at(w, "recheck")
    /\ UNCHANGED <<cat, snapshot, events, rebuildMu, again, stopped, canceled, handler, life, files>>

\* Mutation: the worker goes without a second look at rebuildAgain.
RecheckNothing(w) ==
    /\ rebuilder[w].pc = "recheck"
    /\ at(w, "idle")
    /\ UNCHANGED <<cat, snapshot, events, rebuildMu, coalescer, handler, life, files>>

RecheckAgain(w) ==
    /\ rebuilder[w].pc = "recheck"
    /\ at(w, IF again THEN "retake" ELSE "idle")
    /\ UNCHANGED <<cat, snapshot, events, rebuildMu, coalescer, handler, life, files>>

RetakeRunning(w) ==
    /\ rebuilder[w].pc = "retake"
    /\ running' = TRUE
    /\ at(w, IF running THEN "idle" ELSE "check")
    /\ UNCHANGED <<cat, snapshot, events, rebuildMu, again, stopped, canceled, handler, life, files>>

-----------------------------------------------------------------------------
(* Rebuild *)

(***************************************************************************)
(* Where Rebuild returns to: a worker to its loop, a request to its end.   *)
(***************************************************************************)
returnTo(p) == IF p \in Workers THEN "check" ELSE "idle"

\* Mutation: Rebuild does not take rebuildMu.
LockNothing(p) ==
    /\ rebuilder[p].pc = "lock"
    /\ at(p, "refresh")
    /\ UNCHANGED <<cat, snapshot, events, rebuildMu, coalescer, handler, life, files>>

LockRebuild(p) ==
    /\ rebuilder[p].pc = "lock"
    /\ rebuildMu = NoProc
    /\ rebuildMu' = p
    /\ at(p, "refresh")
    /\ UNCHANGED <<cat, snapshot, events, coalescer, handler, life, files>>

(***************************************************************************)
(* refreshServerFileSources: a root that is not listed yet is opened, if   *)
(* it can be, outside sourcesMu.                                           *)
(***************************************************************************)
RefreshFiles(p) ==
    /\ rebuilder[p].pc = "refresh"
    /\ \/ /\ at(p, "compile")
          /\ UNCHANGED files
       \/ /\ ~files.root
          /\ files' = [files EXCEPT !.open = @ + 1]
          /\ at(p, "insert")
    /\ UNCHANGED <<cat, snapshot, events, rebuildMu, coalescer, handler, life>>

\* Mutation: a root is added to a list that has been cleaned up already.
InsertIntoClosed(p) ==
    /\ rebuilder[p].pc = "insert"
    /\ files' = [files EXCEPT !.root = TRUE, !.list = TRUE]
    /\ at(p, "compile")
    /\ UNCHANGED <<cat, snapshot, events, rebuildMu, coalescer, handler, life>>

(***************************************************************************)
(* addOwnedRoot under sourcesMu: a list that was closed meanwhile makes    *)
(* the caller discard, and close, what it opened.  A list made on first    *)
(* use becomes s.fileSources once it holds a root.                         *)
(***************************************************************************)
InsertRoot(p) ==
    /\ rebuilder[p].pc = "insert"
    /\ files' = IF files.closed \/ files.root
                  THEN [files EXCEPT !.open = @ - 1]
                  ELSE [files EXCEPT !.root = TRUE, !.list = TRUE]
    /\ at(p, "compile")
    /\ UNCHANGED <<cat, snapshot, events, rebuildMu, coalescer, handler, life>>

(***************************************************************************)
(* Compile fails when the worker's context has ended; otherwise it reads   *)
(* the catalog with one Snapshot call.                                     *)
(***************************************************************************)
Compile(p) ==
    /\ rebuilder[p].pc = "compile"
    /\ IF p \in Workers /\ canceled
         THEN /\ rebuildMu' = NoProc
              /\ at(p, returnTo(p))
         ELSE /\ rebuilder' = [rebuilder EXCEPT ![p] = [pc |-> "store", ver |-> cat]]
              /\ UNCHANGED rebuildMu
    /\ UNCHANGED <<cat, snapshot, events, coalescer, handler, life, files>>

\* Mutation: rebuildMu is not unlocked.
StoreKeepingLock(p) ==
    /\ rebuilder[p].pc = "store"
    /\ snapshot' = rebuilder[p].ver
    /\ at(p, returnTo(p))
    /\ UNCHANGED <<cat, events, rebuildMu, coalescer, handler, life, files>>

StoreSnapshot(p) ==
    /\ rebuilder[p].pc = "store"
    /\ snapshot' = rebuilder[p].ver
    /\ rebuildMu' = NoProc
    /\ at(p, returnTo(p))
    /\ UNCHANGED <<cat, events, coalescer, handler, life, files>>

(***************************************************************************)
(* DeleteVariantArtifact: a delete that removed something is followed by a *)
(* rebuild in the same goroutine; no event is published.                   *)
(***************************************************************************)
DeleteVariantArtifact(d) ==
    /\ rebuilder[d].pc = "idle"
    /\ cat < MaxChanges
    /\ cat' = cat + 1
    /\ at(d, "lock")
    /\ UNCHANGED <<snapshot, events, rebuildMu, coalescer, handler, life, files>>

-----------------------------------------------------------------------------
(* stop *)

StopRebuilds ==
    /\ life = "started"
    /\ stopped' = TRUE
    /\ life' = "stopping"
    /\ UNCHANGED <<cat, snapshot, events, rebuildMu, running, again, canceled, handler, rebuilder, files>>

Unsubscribe ==
    /\ life = "stopping"
    /\ life' = "unsubscribed"
    /\ UNCHANGED <<cat, snapshot, events, rebuildMu, coalescer, handler, rebuilder, files>>

CancelLifecycle ==
    /\ life = "unsubscribed"
    /\ canceled' = TRUE
    /\ life' = "waiting"
    /\ UNCHANGED <<cat, snapshot, events, rebuildMu, running, again, stopped, handler, rebuilder, files>>

(***************************************************************************)
(* waitRebuildWorkers: rebuildWG reaches zero, or stop's context ends.     *)
(***************************************************************************)
WorkersGone ==
    /\ life = "waiting"
    /\ \A w \in Workers : rebuilder[w].pc = "idle"
    /\ life' = "cleanup"
    /\ UNCHANGED <<cat, snapshot, events, rebuildMu, coalescer, handler, rebuilder, files>>

WaitTimesOut ==
    /\ life = "waiting"
    /\ \E w \in Workers : rebuilder[w].pc # "idle"
    /\ life' = "timedout"
    /\ UNCHANGED <<cat, snapshot, events, rebuildMu, coalescer, handler, rebuilder, files>>

(***************************************************************************)
(* fileSources.Cleanup closes what the list owns; on nil it does nothing.  *)
(***************************************************************************)
CleanupFiles ==
    /\ life = "cleanup"
    /\ files' = IF files.list
                  THEN [files EXCEPT !.closed = TRUE, !.open = IF files.root THEN @ - 1 ELSE @]
                  ELSE files
    /\ life' = "stopped"
    /\ UNCHANGED <<cat, snapshot, events, rebuildMu, coalescer, handler, rebuilder>>

-----------------------------------------------------------------------------
HandlerSteps(h) ==
    LoadStopped(h) \/ SetAgain(h) \/ TakeRunning(h) \/ \E w \in Workers : SpawnWorker(h, w)
RebuildSteps(p) ==
    LockRebuild(p) \/ RefreshFiles(p) \/ InsertRoot(p) \/ Compile(p) \/ StoreSnapshot(p)
WorkerSteps(w) ==
    \/ CheckStopped(w) \/ ClearAgain(w) \/ ClearRunning(w) \/ SwapAgain(w)
    \/ ReleaseRunning(w) \/ RecheckAgain(w) \/ RetakeRunning(w)
StopSteps == Unsubscribe \/ CancelLifecycle \/ WorkersGone \/ CleanupFiles

PreparedNext ==
    \/ ChangeCatalog
    \/ \E h \in Handlers : Deliver(h) \/ HandlerSteps(h)
    \/ \E w \in Workers : WorkerSteps(w)
    \/ \E p \in Rebuilders : RebuildSteps(p)
    \/ \E d \in Deleters : DeleteVariantArtifact(d)
    \/ StopRebuilds \/ StopSteps \/ WaitTimesOut

(***************************************************************************)
(* Published events are delivered and started goroutines run; the catalog  *)
(* need not change, no request need come and nobody need stop the service. *)
(***************************************************************************)
Fairness ==
    /\ \A h \in Handlers : WF_preparedVars(Deliver(h)) /\ WF_preparedVars(HandlerSteps(h))
    /\ \A w \in Workers : WF_preparedVars(WorkerSteps(w))
    /\ \A p \in Rebuilders :
         WF_preparedVars(RefreshFiles(p) \/ InsertRoot(p) \/ Compile(p) \/ StoreSnapshot(p))
         /\ SF_preparedVars(LockRebuild(p))
    /\ WF_preparedVars(StopSteps)

PreparedSpec == PreparedInit /\ [][PreparedNext]_preparedVars /\ Fairness

-----------------------------------------------------------------------------
(* Properties *)

Owners == {w \in Workers : rebuilder[w].pc \in OwnerPoints}

(***************************************************************************)
(* OneRebuildWorker: rebuildWorkerRunning is exact.  It is set when and    *)
(* only when one goroutine owns the worker role: a handler about to start  *)
(* the worker or a worker that has not given the role up, never two        *)
(* (rebuildAsync, runRebuildWorker, releaseRebuildWorker).                 *)
(***************************************************************************)
OneRebuildWorker ==
    LET holders == Owners \cup {h \in Handlers : handler[h] = "spawn"} IN
    /\ \A p, q \in holders : p = q
    /\ running <=> holders # {}

(***************************************************************************)
(* QuietIsCurrent: when the service is running and nobody is busy - every  *)
(* event handled, every handler, worker and request done - the published   *)
(* snapshot shows the whole catalog.  A coalesced event is never lost.     *)
(***************************************************************************)
quiet ==
    /\ life = "started" /\ events = 0
    /\ \A h \in Handlers : handler[h] = "idle"
    /\ \A p \in Rebuilders : rebuilder[p].pc = "idle"
QuietIsCurrent == quiet => snapshot = cat

(***************************************************************************)
(* NoRebuildAfterStop: once stop() has returned without an error no        *)
(* background worker is compiling or publishing (file sources are closed), *)
(* even if an event handler had passed the rebuildStopped check before.    *)
(***************************************************************************)
NoRebuildAfterStop ==
    life = "stopped" => \A w \in Workers : rebuilder[w].pc \notin RebuildPoints

(***************************************************************************)
(* WorkerDiscipline: there is one background worker at most, its flag is   *)
(* exact, and none works on after stop() has returned without an error.    *)
(***************************************************************************)
WorkerDiscipline == OneRebuildWorker /\ NoRebuildAfterStop

(***************************************************************************)
(* SourcesReleased: after stop() every root that was opened is closed      *)
(* again, also by a request that opened it while Cleanup ran, provided     *)
(* there was a list to clean up (local_file_sources.go).                   *)
(***************************************************************************)
SourcesReleased ==
    (files.closed /\ \A p \in Rebuilders : rebuilder[p].pc # "insert") => files.open = 0

(***************************************************************************)
(* SnapshotNeverGoesBack: no rebuild publishes an older catalog over a     *)
(* newer one, although workers and requests rebuild concurrently.          *)
(***************************************************************************)
SnapshotNeverGoesBack == [][snapshot' >= snapshot]_preparedVars

(***************************************************************************)
(* SnapshotCatchesUp: every catalog change shows in the snapshot, unless   *)
(* the service is stopped first.                                           *)
(***************************************************************************)
SnapshotCatchesUp ==
    \A v \in 1..MaxChanges : cat >= v ~> (snapshot >= v \/ life # "started")

=============================================================================
