-------------------------- MODULE RuntimeLifecycle --------------------------
(***************************************************************************)
(* The process of spack-runtime: bootstrap of the catalog, start of the    *)
(* HTTP runtime, the wait for a signal or a fatal error, and the stop, of  *)
(* internal/runtime and cmd/spack-runtime.  The main goroutine works       *)
(* against the goroutine that serves, the requests, a signal at any time,  *)
(* operations that fail and timeouts.                                      *)
(*                                                                         *)
(* Hooks of other components are not part of it.                           *)
(***************************************************************************)
EXTENDS Naturals, FiniteSets

CONSTANTS
    Requests,
    MaxFaults       \* bound: operations that fail

ASSUME LifecycleAssumption == IsFiniteSet(Requests) /\ MaxFaults \in Nat

VARIABLES
    main,           \* where the main goroutine is
    phase, ready,   \* the startup metrics
    prepared,       \* a prepared snapshot takes the place of the warm-up
    signalled,      \* the context of the process is done
    listener,       \* "none", "open" or "closed"
    server,         \* the goroutine of serveMainHTTPRuntime
    started,        \* the channel of that name is closed
    serveErr,       \* mainHTTPRuntimeState.serveErr
    fatal,          \* FatalSignal
    req,            \* requests: "idle", "active", "answered"
    causes,         \* errors that runRuntimeContainerContext joins
    faults,
    early           \* history: Shutdown came before Serve

startup == <<phase, ready, prepared>>
serving == <<listener, server, started, serveErr, fatal>>
lifecycleVars == <<main, startup, signalled, serving, req, causes, faults, early>>

Active == {r \in Requests : req[r] = "active"}

LifecycleInit ==
    /\ main = "catalog_scan" /\ phase = "catalog_scan" /\ ready = FALSE
    /\ prepared \in BOOLEAN /\ signalled = FALSE
    /\ listener = "none" /\ server = "none" /\ started = FALSE /\ serveErr = FALSE /\ fatal = FALSE
    /\ req = [r \in Requests |-> "idle"]
    /\ causes = {} /\ faults = 0 /\ early = FALSE

\* SIGINT or SIGTERM
Signal ==
    /\ main # "exited" /\ signalled' = TRUE
    /\ UNCHANGED <<main, startup, serving, req, causes, faults, early>>

fault == faults < MaxFaults /\ faults' = faults + 1

\* A call with the process' context gives up when it is done, or fails.
interrupted == (signalled /\ UNCHANGED faults) \/ fault

-----------------------------------------------------------------------------
(* bootstrapCatalogOnStart *)

afterPhase(p) ==
    CASE p = "catalog_scan" -> "cache_warmup"
      [] p = "cache_warmup" -> "prepared_snapshot"
      [] OTHER              -> "ready"

Bootstrapping == main \in {"catalog_scan", "cache_warmup", "prepared_snapshot"}

BootstrapStep ==
    LET next == afterPhase(main) IN
    /\ Bootstrapping
    /\ phase' = next /\ ready' = (next = "ready")
    /\ main' = IF next = "ready" THEN "listen" ELSE next
    /\ UNCHANGED <<prepared, signalled, serving, req, causes, faults, early>>

\* warmRuntimeMemoryCache and rebuildPreparedSnapshot: one of them does nothing.
BootstrapFails ==
    /\ Bootstrapping
    /\ main = "cache_warmup" => ~prepared
    /\ main = "prepared_snapshot" => prepared
    /\ interrupted
    /\ phase' = "error" /\ main' = "startFailed" /\ causes' = {"start"}
    /\ UNCHANGED <<ready, prepared, signalled, serving, req, early>>

-----------------------------------------------------------------------------
(* startMainHTTPRuntime *)

Listen ==
    /\ main = "listen" /\ main' = "listening" /\ listener' = "open"
    /\ UNCHANGED <<startup, signalled, started, server, serveErr, fatal, req, causes, faults, early>>

ListenFails ==
    /\ main = "listen" /\ interrupted
    /\ main' = "startFailed" /\ causes' = {"start"}
    /\ UNCHANGED <<startup, signalled, serving, req, early>>

\* The context is looked at once more; then the goroutine is started.
StartServer ==
    /\ main = "listening"
    /\ IF signalled
       THEN main' = "startFailed" /\ causes' = {"start"} /\ listener' = "closed" /\ UNCHANGED server
       ELSE main' = "await" /\ server' = "starting" /\ UNCHANGED <<causes, listener>>
    /\ UNCHANGED <<startup, signalled, started, serveErr, fatal, req, faults, early>>

\* waitForMainHTTPRuntimeStart: any of the cases that are ready.
Started ==
    /\ main = "await" /\ started
    /\ main' = "running"
    /\ UNCHANGED <<startup, signalled, serving, req, causes, faults, early>>

\* mainHTTPRuntimeStoppedBeforeStart
StoppedBeforeStart ==
    /\ main = "await" /\ server = "ended"
    /\ main' = "startFailed" /\ causes' = {"start"} /\ listener' = "closed"
    /\ UNCHANGED <<startup, signalled, started, server, serveErr, fatal, req, faults, early>>

\* Mutation: only the wait is left.
StartCanceledAwaits ==
    /\ main = "await" /\ signalled
    /\ main' = "startCleanup" /\ causes' = {"start"}
    /\ UNCHANGED <<startup, signalled, serving, req, faults, early>>

StartCanceled ==
    /\ main = "await" /\ signalled
    /\ main' = "startCleanup" /\ causes' = {"start"} /\ listener' = "closed"
    /\ UNCHANGED <<startup, signalled, started, server, serveErr, fatal, req, faults, early>>

\* waitForMainHTTPRuntimeStartCleanup: until the goroutine ends or time is up.
StartCleanup ==
    /\ main = "startCleanup" /\ main' = "startFailed"
    /\ \/ server = "ended" /\ UNCHANGED causes
       \/ causes' = causes \cup {"timeout"}
    /\ UNCHANGED <<startup, signalled, serving, req, faults, early>>

-----------------------------------------------------------------------------
(***************************************************************************)
(* The goroutine that serves.  BeforeServeFunc closes started before the   *)
(* server knows its listener; from then on connections are accepted.       *)
(***************************************************************************)
BeforeServe ==
    /\ server = "starting" /\ server' = "started" /\ started' = TRUE
    /\ UNCHANGED <<main, startup, signalled, listener, serveErr, fatal, req, causes, faults, early>>

Serve ==
    /\ server = "started" /\ server' = "serving"
    /\ UNCHANGED <<main, startup, signalled, listener, started, serveErr, fatal, req, causes, faults, early>>

\* Listener returns: with an error, or because the listener has been closed.
ListenerFails ==
    /\ server \in {"starting", "serving"} /\ listener = "open" /\ fault
    /\ server' = "failing" /\ serveErr' = TRUE
    /\ UNCHANGED <<main, startup, signalled, listener, started, fatal, req, causes, early>>

ListenerClosed ==
    /\ server = "serving" /\ listener = "closed" /\ server' = "ended"
    /\ UNCHANGED <<main, startup, signalled, listener, started, serveErr, fatal, req, causes, faults, early>>

\* fatal.Report, then close(done)
Report ==
    /\ server = "failing" /\ ~fatal /\ fatal' = TRUE
    /\ UNCHANGED <<main, startup, signalled, listener, started, server, serveErr, req, causes, faults, early>>

Done ==
    /\ server = "failing" /\ fatal /\ server' = "ended"
    /\ UNCHANGED <<main, startup, signalled, listener, started, serveErr, fatal, req, causes, faults, early>>

Accept(r) ==
    /\ req[r] = "idle" /\ server = "serving" /\ listener = "open" /\ main # "exited"
    /\ req' = [req EXCEPT ![r] = "active"]
    /\ UNCHANGED <<main, startup, signalled, serving, causes, faults, early>>

Answer(r) ==
    /\ req[r] = "active" /\ main # "exited"
    /\ req' = [req EXCEPT ![r] = "answered"]
    /\ UNCHANGED <<main, startup, signalled, serving, causes, faults, early>>

-----------------------------------------------------------------------------
(* runRuntimeContainerContext *)

\* Mutation: a fatal error alone does not end the wait.
WaitForSignal ==
    /\ main = "running" /\ signalled
    /\ main' = "shutdown" /\ causes' = IF fatal THEN {"fatal"} ELSE {}
    /\ UNCHANGED <<startup, signalled, serving, req, faults, early>>

\* waitForRuntimeExit: whichever came first, a fatal error counts.
WaitForRuntimeExit ==
    /\ main = "running" /\ (signalled \/ fatal)
    /\ main' = "shutdown" /\ causes' = IF fatal THEN {"fatal"} ELSE {}
    /\ UNCHANGED <<startup, signalled, serving, req, faults, early>>

\* ShutdownWithContext of a server without listener returns at once.
Shutdown ==
    /\ main = "shutdown"
    /\ IF server = "started"
       THEN main' = "close" /\ early' = TRUE /\ UNCHANGED listener
       ELSE main' = "drain" /\ listener' = "closed" /\ UNCHANGED early
    /\ UNCHANGED <<startup, signalled, started, server, serveErr, fatal, req, causes, faults>>

Drained ==
    /\ main = "drain" /\ Active = {} /\ main' = "close"
    /\ UNCHANGED <<startup, signalled, serving, req, causes, faults, early>>

DrainTimesOut ==
    /\ main = "drain" /\ main' = "close" /\ causes' = causes \cup {"timeout"}
    /\ UNCHANGED <<startup, signalled, serving, req, faults, early>>

CloseListener ==
    /\ main = "close" /\ main' = "waitStopped" /\ listener' = "closed"
    /\ UNCHANGED <<startup, signalled, started, server, serveErr, fatal, req, causes, faults, early>>

\* The error of serving is left out if it is the one that was reported.
WaitStopped ==
    /\ main = "waitStopped" /\ server = "ended"
    /\ main' = "finish"
    /\ causes' = IF serveErr /\ ~fatal THEN causes \cup {"serve"} ELSE causes
    /\ UNCHANGED <<startup, signalled, serving, req, faults, early>>

StopTimesOut ==
    /\ main = "waitStopped" /\ main' = "finish" /\ causes' = causes \cup {"timeout"}
    /\ UNCHANGED <<startup, signalled, serving, req, faults, early>>

\* Mutation: what is reported during the stop is not looked at.
FinishAsDecided ==
    /\ main \in {"finish", "startFailed"} /\ main' = "exited"
    /\ UNCHANGED <<startup, signalled, serving, req, causes, faults, early>>

Finish ==
    /\ main \in {"finish", "startFailed"} /\ main' = "exited"
    /\ causes' = IF main = "finish" /\ fatal THEN causes \cup {"fatal"} ELSE causes
    /\ UNCHANGED <<startup, signalled, serving, req, faults, early>>

-----------------------------------------------------------------------------
Main ==
    \/ BootstrapStep \/ BootstrapFails \/ Listen \/ ListenFails \/ StartServer
    \/ Started \/ StoppedBeforeStart \/ StartCanceled \/ StartCleanup
    \/ WaitForRuntimeExit \/ Shutdown \/ Drained \/ DrainTimesOut \/ CloseListener
    \/ WaitStopped \/ StopTimesOut \/ Finish
Server == BeforeServe \/ Serve \/ ListenerFails \/ ListenerClosed

LifecycleNext ==
    \/ Main \/ Signal
    \/ main # "exited" /\ (Server \/ Report \/ Done)
    \/ \E r \in Requests : Accept(r) \/ Answer(r)

(***************************************************************************)
(* The main goroutine goes on, at the latest when a timeout expires, and   *)
(* so does one that has an error to report.  Nothing is assumed of the     *)
(* server otherwise, or of requests: a handler may never return.           *)
(***************************************************************************)
LifecycleSpec ==
    /\ LifecycleInit /\ [][LifecycleNext]_lifecycleVars
    /\ WF_lifecycleVars(Main) /\ WF_lifecycleVars(Report \/ Done)

-----------------------------------------------------------------------------
(***************************************************************************)
(* FailedStartLeavesNothing: when the start fails, at whatever point a     *)
(* signal or an error meets it, the port is free again and no goroutine    *)
(* serves, unless the wait for it has timed out, which the error says.     *)
(***************************************************************************)
FailedStartLeavesNothing ==
    main = "startFailed" =>
        /\ listener # "open"
        /\ server \in {"none", "ended"} \/ "timeout" \in causes
        /\ "start" \in causes

(***************************************************************************)
(* ExitTellsTheTruth: a process that ends without error has served until a *)
(* signal came: the serving goroutine is gone, had no error, not even one  *)
(* that came during the stop, and no request was cut off, unless Shutdown  *)
(* came between BeforeServe and Serve.                                     *)
(***************************************************************************)
ExitTellsTheTruth ==
    main = "exited" /\ causes = {} =>
        /\ signalled /\ ready
        /\ listener = "closed" /\ server = "ended" /\ ~serveErr /\ ~fatal
        /\ Active = {} \/ early

(***************************************************************************)
(* ProcessEnds: a signal, and a fatal error, end the process, although     *)
(* requests may never end and the server may never start.                  *)
(***************************************************************************)
ProcessEnds == signalled \/ fatal ~> main = "exited"
=============================================================================
