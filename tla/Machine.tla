-------------------------------- MODULE Machine --------------------------------
(***************************************************************************)
(* The life of one Machine (machine.go): Start and the goroutines that     *)
(* startVMM leaves behind, the four channels they synchronise on, the      *)
(* cleanup functions, the firecracker (or jailer) process, and concurrent  *)
(* callers of Wait, StopVMM and Shutdown.                                  *)
(*                                                                         *)
(* Errors are sets of causes, as in ExitReport.  A channel of struct{} is  *)
(* only ever closed, so it is represented by its membership in closed; the *)
(* unbuffered errCh is a rendezvous between the sender (wpc = "send") and  *)
(* one receiver.                                                           *)
(***************************************************************************)
EXTENDS Integers, Sequences, SequencesExt

CONSTANTS
    Callers,        \* goroutines that use the machine while it runs
    NetResources,   \* what SetupNetwork registers a cleanup for, in order
    CtxResources,   \* those whose cleanup function uses Start's context (CNI)
    Fifos,          \* the fifos CreateLogFiles creates, in order
    Daemonize,      \* JailerCfg.Daemonize
    Arm64,          \* runtime.GOARCH = "arm64"
    MayTimeout,     \* the init timeout of waitForSocket may fire
    SignalFails,    \* os.Process.Signal may fail although the process runs
    RetryShutdown   \* callers may call Shutdown more than once

Channels == {"exitCh", "shutdownCh", "cleanupCh", "errCh"}
Resources == {"sock"} \cup Range(NetResources) \cup Range(Fifos)

\* "exit": nonzero status or death by a signal; "start": exec failed;
\* "timeout": the init timeout; "ctx": the context of a Wait; a resource: its
\* cleanup function failed.
Causes == {"exit", "start", "timeout", "ctx"} \cup Resources

ASSUME SwitchesAssumption ==
    /\ Daemonize \in BOOLEAN /\ Arm64 \in BOOLEAN
    /\ MayTimeout \in BOOLEAN /\ SignalFails \in BOOLEAN
    /\ RetryShutdown \in BOOLEAN

ASSUME ResourcesAssumption ==
    /\ NetResources \in Seq(STRING) /\ Fifos \in Seq(STRING)
    /\ CtxResources \subseteq Range(NetResources)
    /\ Range(NetResources) \cap Range(Fifos) = {}
    /\ \A j, k \in 1 .. Len(Fifos) : Fifos[j] = Fifos[k] => j = k
    /\ "sock" \notin Range(NetResources) \cup Range(Fifos)

VARIABLES
    spc,            \* where the goroutine in Start is
    fi,             \* number of fifos it has created and registered
    wpc,            \* the goroutine in cmd.Wait
    rpc,            \* the goroutine that reports the exit
    kpc,            \* the goroutine that stops the VMM when ctx is cancelled
    fpc,            \* the goroutine that forwards signals
    closed,         \* the channels that have been closed
    panic,          \* what the program has panicked on, or "none"
    fatalErr,       \* m.fatalErr
    waitErr,        \* what the goroutine in cmd.Wait has to report
    cleanupFuncs,   \* m.cleanupFuncs, each function named by its resource
    once,           \* m.cleanupOnce: "new", "busy" or "done"
    by,             \* which goroutine runs the cleanup
    n, i,           \* its loop: the length ranged over, and the next index
    ran,            \* the cleanup functions run so far (history)
    cleanupErr,     \* the cleanup functions that failed
    ctxDone,        \* the context given to Start is done
    proc,           \* our child process
    vmm,            \* firecracker: the child, or with Daemonize its daemon
    sigterm,        \* SIGTERM has been sent to the running child
    pooled,         \* a connection to the API may be open in the client's pool
    held,           \* the resources that exist on the host
    call, ret       \* per caller: the call in progress, what Wait returned

startVars == <<spc, fi>>
goVars == <<wpc, rpc, kpc, fpc>>
chVars == <<closed, panic>>
cleanupVars == <<cleanupFuncs, once, by, n, i, ran, cleanupErr>>
envVars == <<ctxDone, proc, vmm, sigterm, pooled>>
callVars == <<call, ret>>
vars == <<startVars, goVars, chVars, fatalErr, waitErr, cleanupVars, envVars,
          held, callVars>>

\* Go's close(ch): closing a closed channel panics.
Close(ch) ==
    IF ch \in closed
    THEN panic' = ch /\ UNCHANGED closed
    ELSE closed' = closed \cup {ch} /\ UNCHANGED panic

\* A request can succeed: firecracker serves the API, and its socket file is
\* there or a connection of an earlier request is still open.
APIUp == vmm = "ready" /\ ("sock" \in held \/ pooled)

NewMachine ==
    /\ spc = "new" /\ fi = 0
    /\ wpc = "off" /\ rpc = "off" /\ kpc = "off" /\ fpc = "off"
    /\ closed = {} /\ panic = "none"
    /\ fatalErr = {} /\ waitErr = {}
    /\ cleanupFuncs = <<>> /\ once = "new" /\ by = "none"
    /\ n = 0 /\ i = 0 /\ ran = <<>> /\ cleanupErr = {}
    /\ ctxDone = FALSE /\ proc = "none" /\ vmm = "none" /\ sigterm = FALSE
    /\ held = {} /\ pooled = FALSE
    /\ call = [c \in Callers |-> "idle"] /\ ret = [c \in Callers |-> {}]

-------------------------------------------------------------------------------
(* Start, in the goroutine that called it. *)

\* startOnce: spc leaves "new" once; a later Start returns ErrAlreadyStarted
\* and touches nothing.
Start ==
    /\ spc = "new"
    /\ spc' = "Validation"
    /\ UNCHANGED <<fi, goVars, chVars, fatalErr, waitErr, cleanupVars, envVars,
                   held, callVars>>

\* A handler's error makes Start return through its deferred doCleanup.
Validate ==
    /\ spc = "Validation"
    /\ spc' \in {"SetupNetwork", "doCleanup"}
    /\ UNCHANGED <<fi, goVars, chVars, fatalErr, waitErr, cleanupVars, envVars,
                   held, callVars>>

\* Mutant: the cleanup functions are returned only when there was no error.
NetRegisteredOnSuccess(k) == IF k = Len(NetResources) THEN NetResources ELSE <<>>

\* The cleanup functions returned after the first k resources were set up.
NetRegistered(k) == SubSeq(NetResources, 1, k)

\* Whatever was set up before an error is registered for cleanup all the same.
\* SetupKernelArgs, which runs next, changes none of this state.
setupNetwork ==
    /\ spc = "SetupNetwork"
    /\ \E k \in 0 .. Len(NetResources) :
        /\ held' = held \cup {NetResources[j] : j \in 1 .. k}
        /\ cleanupFuncs' = cleanupFuncs \o NetRegistered(k)
        /\ \/ k = Len(NetResources) /\ spc' = "startCmd"
           \/ spc' = "doCleanup"
    /\ UNCHANGED <<fi, goVars, chVars, fatalErr, waitErr, once, by, n, i, ran,
                   cleanupErr, envVars, callVars>>

startCmdFails ==
    /\ spc = "startCmd"
    /\ fatalErr' = {"start"}
    /\ Close("exitCh")
    /\ spc' = "doCleanup"
    /\ UNCHANGED <<fi, goVars, waitErr, cleanupVars, envVars, held, callVars>>

\* The process runs; the removal of the socket is registered; the goroutine in
\* cmd.Wait and the signal forwarder start.
startCmd ==
    /\ spc = "startCmd"
    /\ proc' = "running"
    /\ vmm' = IF Daemonize THEN "none" ELSE "booting"
    /\ cleanupFuncs' = Append(cleanupFuncs, "sock")
    /\ wpc' = "wait" /\ fpc' = "loop"
    /\ spc' = "waitForSocket"
    /\ UNCHANGED <<fi, rpc, kpc, chVars, fatalErr, waitErr, once, by, n, i, ran,
                   cleanupErr, ctxDone, sigterm, pooled, held, callVars>>

\* Mutant: nobody reads errCh any more.
startVMMNoReporter ==
    /\ kpc' = "select" /\ rpc' = "off"
    /\ spc' = "CreateLogFiles"
    /\ UNCHANGED <<chVars, fatalErr>>

\* waitForSocket returned nil: the killer and the reporter start.
startVMMSucceeds ==
    /\ kpc' = "select" /\ rpc' = "recv"
    /\ spc' = "CreateLogFiles"
    /\ UNCHANGED <<chVars, fatalErr>>

\* Mutant: the reporter is started before the error is looked at.
startVMMFailsReporting(err) ==
    /\ fatalErr' = err
    /\ Close("exitCh")
    /\ spc' = "doCleanup"
    /\ rpc' = "recv" /\ UNCHANGED kpc

\* waitForSocket returned err: startVMM reports it and starts no goroutine.
startVMMFails(err) ==
    /\ fatalErr' = err
    /\ Close("exitCh")
    /\ spc' = "doCleanup"
    /\ UNCHANGED <<rpc, kpc>>

\* The three cases of the select in waitForSocket.  A nil error received from
\* errCh counts as success, although the process has then exited.
waitForSocket ==
    /\ spc = "waitForSocket"
    /\ \/ /\ vmm = "ready" /\ "sock" \in held
          /\ startVMMSucceeds
          /\ pooled' = TRUE /\ UNCHANGED wpc
       \/ /\ wpc = "send" /\ wpc' = "closeErr"
          /\ IF waitErr = {} THEN startVMMSucceeds ELSE startVMMFails(waitErr)
          /\ UNCHANGED pooled
       \/ /\ MayTimeout
          /\ startVMMFails({"timeout"})
          /\ UNCHANGED <<wpc, pooled>>
    /\ UNCHANGED <<fi, fpc, waitErr, cleanupVars, ctxDone, proc, vmm, sigterm,
                   held, callVars>>

createFifo ==
    /\ spc = "CreateLogFiles" /\ fi < Len(Fifos)
    /\ \/ held' = held \cup {Fifos[fi + 1]} /\ spc' = "registerFifo"
       \/ UNCHANGED held /\ spc' = "doCleanup"
    /\ UNCHANGED <<fi, goVars, chVars, fatalErr, waitErr, cleanupVars, envVars,
                   callVars>>

\* Mutant: the removal of a fifo is not registered.
registerFifoNever ==
    /\ spc = "registerFifo"
    /\ fi' = fi + 1
    /\ spc' = "CreateLogFiles"
    /\ UNCHANGED <<goVars, chVars, fatalErr, waitErr, cleanupVars, envVars, held,
                   callVars>>

registerFifo ==
    /\ spc = "registerFifo"
    /\ cleanupFuncs' = Append(cleanupFuncs, Fifos[fi + 1])
    /\ fi' = fi + 1
    /\ spc' = "CreateLogFiles"
    /\ UNCHANGED <<goVars, chVars, fatalErr, waitErr, once, by, n, i, ran,
                   cleanupErr, envVars, held, callVars>>

\* The handlers from BootstrapLogging to the end of the list: API requests with
\* Start's context, the first error ends Start.
configure ==
    /\ spc = "CreateLogFiles" /\ fi = Len(Fifos)
    /\ \/ APIUp /\ ~ctxDone /\ spc' = "startInstance"
       \/ spc' = "doCleanup"
    /\ UNCHANGED <<fi, goVars, chVars, fatalErr, waitErr, cleanupVars, envVars,
                   held, callVars>>

startInstance ==
    /\ spc = "startInstance"
    /\ \/ APIUp /\ ~ctxDone /\ spc' = "ok"
       \/ spc' = "doCleanup"
    /\ UNCHANGED <<fi, goVars, chVars, fatalErr, waitErr, cleanupVars, envVars,
                   held, callVars>>

StartReturnsErr ==
    /\ spc = "doCleanup" /\ once = "done"
    /\ spc' = "err"
    /\ UNCHANGED <<fi, goVars, chVars, fatalErr, waitErr, cleanupVars, envVars,
                   held, callVars>>

-------------------------------------------------------------------------------
(* doCleanup: run by Start after an error and by the goroutine in cmd.Wait;  *)
(* sync.Once lets one of them in and makes the other wait for it.            *)

\* Mutant: the loop runs up to the length and one further.
CleanupBeginInclusive(g) ==
    /\ once = "new"
    /\ once' = "busy" /\ by' = g
    /\ n' = Len(cleanupFuncs) + 1
    /\ UNCHANGED <<startVars, goVars, chVars, fatalErr, waitErr, cleanupFuncs, i,
                   ran, cleanupErr, envVars, held, callVars>>

\* cleanupOnce.Do: the length ranged over is taken at the beginning.
CleanupBegin(g) ==
    /\ once = "new"
    /\ once' = "busy" /\ by' = g
    /\ n' = Len(cleanupFuncs)
    /\ UNCHANGED <<startVars, goVars, chVars, fatalErr, waitErr, cleanupFuncs, i,
                   ran, cleanupErr, envVars, held, callVars>>

\* Mutant: the functions are run in the order of registration.
CleanupFuncForward == cleanupFuncs[i + 1]

\* The range is over the length at the beginning, the index is taken from the
\* end of the slice as it is now.
CleanupFunc == cleanupFuncs[Len(cleanupFuncs) - i]

\* One iteration.  An error is collected and does not end the loop; a function
\* that needs Start's context fails once that is done.
CleanupNext ==
    /\ once = "busy" /\ i < n
    /\ ran' = Append(ran, CleanupFunc)
    /\ \/ /\ ~ctxDone \/ CleanupFunc \notin CtxResources
          /\ held' = held \ {CleanupFunc} /\ UNCHANGED cleanupErr
       \/ cleanupErr' = cleanupErr \cup {CleanupFunc} /\ UNCHANGED held
    /\ i' = i + 1
    /\ UNCHANGED <<startVars, goVars, chVars, fatalErr, waitErr, cleanupFuncs,
                   once, by, n, envVars, callVars>>

\* cleanupFuncs is read here and appended to by Start without a lock.  The
\* append stores the new length before the new element, so the first iteration
\* may call a nil function.
CleanupTornRead ==
    /\ once = "busy" /\ i = 0 /\ n > 0
    /\ spc = "registerFifo"
    /\ panic' = "cleanupFuncs"
    /\ UNCHANGED <<startVars, goVars, closed, fatalErr, waitErr, cleanupVars,
                   envVars, held, callVars>>

CleanupEnd ==
    /\ once = "busy" /\ i = n
    /\ once' = "done"
    /\ UNCHANGED <<startVars, goVars, chVars, fatalErr, waitErr, cleanupFuncs,
                   by, n, i, ran, cleanupErr, envVars, held, callVars>>

doCleanup ==
    \/ spc = "doCleanup" /\ CleanupBegin("start")
    \/ wpc = "cleanup" /\ CleanupBegin("wait")
    \/ CleanupNext \/ CleanupTornRead \/ CleanupEnd

-------------------------------------------------------------------------------
(* The goroutine in cmd.Wait. *)

\* Mutant: the daemonized jailer is not treated specially.
AfterReapAlways == "cleanup"

\* With a daemonized jailer a clean exit of the parent is expected, and
\* the end of the machine is instead announced by Shutdown.
AfterReap == IF Daemonize /\ waitErr = {} THEN "shutdownCh" ELSE "cleanup"

\* Mutant: the goroutine goes on when a SIGTERM has been sent.
ReapEarly ==
    /\ wpc = "wait" /\ (proc = "exited" \/ sigterm)
    /\ proc' = IF proc = "exited" THEN "reaped" ELSE proc
    /\ wpc' = AfterReap
    /\ UNCHANGED <<startVars, rpc, kpc, fpc, chVars, fatalErr, waitErr,
                   cleanupVars, ctxDone, vmm, sigterm, pooled, held, callVars>>

\* cmd.Wait returns.
Reap ==
    /\ wpc = "wait" /\ proc = "exited"
    /\ proc' = "reaped"
    /\ wpc' = AfterReap
    /\ UNCHANGED <<startVars, rpc, kpc, fpc, chVars, fatalErr, waitErr,
                   cleanupVars, ctxDone, vmm, sigterm, pooled, held, callVars>>

AwaitShutdown ==
    /\ wpc = "shutdownCh" /\ "shutdownCh" \in closed
    /\ wpc' = "cleanup"
    /\ UNCHANGED <<startVars, rpc, kpc, fpc, chVars, fatalErr, waitErr,
                   cleanupVars, envVars, held, callVars>>

\* doCleanup returns an error only to the goroutine that ran the functions.
ExitErr == waitErr \cup (IF by = "wait" THEN cleanupErr ELSE {})

WaitCleaned ==
    /\ wpc = "cleanup" /\ once = "done"
    /\ waitErr' = ExitErr
    /\ wpc' = "send"
    /\ UNCHANGED <<startVars, rpc, kpc, fpc, chVars, fatalErr, cleanupVars,
                   envVars, held, callVars>>

CloseErrCh ==
    /\ wpc = "closeErr"
    /\ Close("errCh")
    /\ wpc' = "closeCleanup"
    /\ UNCHANGED <<startVars, rpc, kpc, fpc, fatalErr, waitErr, cleanupVars,
                   envVars, held, callVars>>

CloseCleanupCh ==
    /\ wpc = "closeCleanup"
    /\ Close("cleanupCh")
    /\ wpc' = "done"
    /\ UNCHANGED <<startVars, rpc, kpc, fpc, fatalErr, waitErr, cleanupVars,
                   envVars, held, callVars>>

-------------------------------------------------------------------------------
(* The other goroutines of startVMM and setupSignals. *)

\* Mutant: errCh is not closed after the error has been sent.
NoMoreValuesNever == FALSE

\* Mutant: a cancelled context counts as the end of the machine.
NoMoreValuesOrCancelled == "errCh" \in closed \/ ctxDone

\* errCh has been closed: a receive yields nil.
NoMoreValues == "errCh" \in closed

\* fatalErr = <-errCh: the error if waitForSocket did not take it, else nil
\* once errCh is closed.
ReporterRecv ==
    /\ rpc = "recv"
    /\ \/ wpc = "send" /\ fatalErr' = waitErr /\ wpc' = "closeErr"
       \/ NoMoreValues /\ fatalErr' = {} /\ UNCHANGED wpc
    /\ rpc' = "close"
    /\ UNCHANGED <<startVars, kpc, fpc, chVars, waitErr, cleanupVars, envVars,
                   held, callVars>>

ReporterClose ==
    /\ rpc = "close"
    /\ Close("exitCh")
    /\ rpc' = "done"
    /\ UNCHANGED <<startVars, wpc, kpc, fpc, fatalErr, waitErr, cleanupVars,
                   envVars, held, callVars>>

\* Process.Signal(SIGTERM).  The error for a finished process is ignored.
SendSIGTERM == sigterm' = (sigterm \/ proc = "running")

\* The receive from cleanupCh that ends stopVMM.
\* Mutant: it waits for exitCh.
CleanupAwaitedOnExit == "exitCh" \in closed
CleanupAwaited == "cleanupCh" \in closed

\* Mutant: the goroutine ignores the context.
KillerCancelNever == FALSE

\* The context is done: stopVMM.  Its error is only logged.
KillerCancel ==
    /\ kpc = "select" /\ ctxDone
    /\ \/ kpc' = "stopping" /\ SendSIGTERM
       \/ /\ SignalFails /\ proc = "running"
          /\ kpc' = "done" /\ UNCHANGED sigterm
    /\ UNCHANGED <<startVars, wpc, rpc, fpc, chVars, fatalErr, waitErr,
                   cleanupVars, ctxDone, proc, vmm, pooled, held, callVars>>

\* Mutant: the goroutine waits for the context only.
KillerExitNever == FALSE

\* The VMM exited on its own.
KillerExit ==
    /\ kpc = "select" /\ "exitCh" \in closed
    /\ kpc' = "done"
    /\ UNCHANGED <<startVars, wpc, rpc, fpc, chVars, fatalErr, waitErr,
                   cleanupVars, envVars, held, callVars>>

KillerStopped ==
    /\ kpc = "stopping" /\ CleanupAwaited
    /\ kpc' = "done"
    /\ UNCHANGED <<startVars, wpc, rpc, fpc, chVars, fatalErr, waitErr,
                   cleanupVars, envVars, held, callVars>>

\* A terminating signal sent to our own process is passed on to the child.
ForwardSignal ==
    /\ fpc = "loop" /\ ~sigterm
    /\ SendSIGTERM
    /\ UNCHANGED <<startVars, goVars, chVars, fatalErr, waitErr, cleanupVars,
                   ctxDone, proc, vmm, pooled, held, callVars>>

ForwarderExit ==
    /\ fpc = "loop" /\ "exitCh" \in closed
    /\ fpc' = "done"
    /\ UNCHANGED <<startVars, wpc, rpc, kpc, chVars, fatalErr, waitErr,
                   cleanupVars, envVars, held, callVars>>

-------------------------------------------------------------------------------
(* The callers. *)

Invoke(c, op) ==
    /\ call[c] = "idle"
    /\ call' = [call EXCEPT ![c] = op]
    /\ UNCHANGED <<startVars, goVars, chVars, fatalErr, waitErr, cleanupVars,
                   envVars, held, ret>>

Wait(c) ==
    /\ call[c] = "Wait"
    /\ \/ ret' = [ret EXCEPT ![c] = {"ctx"}]
       \/ "exitCh" \in closed /\ ret' = [ret EXCEPT ![c] = fatalErr]
    /\ call' = [call EXCEPT ![c] = "idle"]
    /\ UNCHANGED <<startVars, goVars, chVars, fatalErr, waitErr, cleanupVars,
                   envVars, held>>

\* cmd.Process is nil until the process has been started.
stopVMM(c) ==
    /\ call[c] = "StopVMM"
    /\ \/ /\ proc = "none" /\ call' = [call EXCEPT ![c] = "idle"]
          /\ UNCHANGED sigterm
       \/ /\ proc = "running" /\ SignalFails
          /\ call' = [call EXCEPT ![c] = "idle"] /\ UNCHANGED sigterm
       \/ /\ proc # "none" /\ call' = [call EXCEPT ![c] = "stopping"]
          /\ SendSIGTERM
    /\ UNCHANGED <<startVars, goVars, chVars, fatalErr, waitErr, cleanupVars,
                   ctxDone, proc, vmm, pooled, held, ret>>

StopReturns(c) ==
    /\ call[c] = "stopping" /\ CleanupAwaited
    /\ call' = [call EXCEPT ![c] = "idle"]
    /\ UNCHANGED <<startVars, goVars, chVars, fatalErr, waitErr, cleanupVars,
                   envVars, held, ret>>

Shutdown(c) ==
    /\ call[c] = "idle"
    /\ RetryShutdown \/ "shutdownCh" \notin closed
    /\ Close("shutdownCh")
    /\ call' = [call EXCEPT ![c] = IF Arm64 THEN "StopVMM" ELSE "CtrlAltDel"]
    /\ UNCHANGED <<startVars, goVars, fatalErr, waitErr, cleanupVars, envVars,
                   held, ret>>

\* The request is answered, or fails; what the guest does about it is
\* firecracker's exit, at any later time or never.
sendCtrlAltDel(c) ==
    /\ call[c] = "CtrlAltDel"
    /\ call' = [call EXCEPT ![c] = "idle"]
    /\ UNCHANGED <<startVars, goVars, chVars, fatalErr, waitErr, cleanupVars,
                   envVars, held, ret>>

-------------------------------------------------------------------------------
(* The environment: the context, firecracker and the jailer. *)

Cancel ==
    /\ ~ctxDone
    /\ ctxDone' = TRUE
    /\ UNCHANGED <<startVars, goVars, chVars, fatalErr, waitErr, cleanupVars,
                   proc, vmm, sigterm, pooled, held, callVars>>

VMMReady ==
    /\ vmm = "booting"
    /\ vmm' = "ready"
    /\ held' = held \cup {"sock"}
    /\ UNCHANGED <<startVars, goVars, chVars, fatalErr, waitErr, cleanupVars,
                   ctxDone, proc, sigterm, pooled, callVars>>

\* Firecracker ends on its own: the guest halted or it failed.
VMMExit ==
    /\ vmm \in {"booting", "ready"}
    /\ vmm' = "exited"
    /\ IF Daemonize
       THEN UNCHANGED <<proc, waitErr>>
       ELSE proc' = "exited" /\ waitErr' \in {{}, {"exit"}}
    /\ UNCHANGED <<startVars, goVars, chVars, fatalErr, cleanupVars, ctxDone,
                   sigterm, pooled, held, callVars>>

\* SIGTERM kills the child.
Terminated ==
    /\ sigterm /\ proc = "running"
    /\ proc' = "exited" /\ waitErr' = {"exit"}
    /\ vmm' = IF Daemonize THEN vmm ELSE "exited"
    /\ UNCHANGED <<startVars, goVars, chVars, fatalErr, cleanupVars, ctxDone,
                   sigterm, pooled, held, callVars>>

\* The jailer forks the daemon that becomes firecracker, then exits cleanly;
\* or it fails before.
Jailer ==
    /\ Daemonize /\ proc = "running"
    /\ \/ vmm = "none" /\ vmm' = "booting" /\ UNCHANGED <<proc, waitErr>>
       \/ /\ proc' = "exited"
          /\ waitErr' = IF vmm = "none" THEN {"exit"} ELSE {}
          /\ UNCHANGED vmm
    /\ UNCHANGED <<startVars, goVars, chVars, fatalErr, cleanupVars, ctxDone,
                   sigterm, pooled, held, callVars>>

-------------------------------------------------------------------------------
StartStep ==
    \/ Start \/ Validate \/ setupNetwork \/ startCmdFails \/ startCmd
    \/ waitForSocket \/ createFifo \/ registerFifo \/ configure
    \/ startInstance \/ StartReturnsErr

WaitStep == Reap \/ AwaitShutdown \/ WaitCleaned \/ CloseErrCh \/ CloseCleanupCh
ReporterStep == ReporterRecv \/ ReporterClose
KillerStep == KillerCancel \/ KillerExit \/ KillerStopped
CallerStep(c) == Wait(c) \/ stopVMM(c) \/ StopReturns(c) \/ sendCtrlAltDel(c)
CallerCalls(c) == Invoke(c, "Wait") \/ Invoke(c, "StopVMM") \/ Shutdown(c)
Environment == Cancel \/ VMMReady \/ VMMExit \/ Terminated \/ Jailer

\* A panic ends the program.
Next ==
    /\ panic = "none"
    /\ \/ StartStep \/ doCleanup \/ WaitStep \/ ReporterStep \/ KillerStep
       \/ ForwardSignal \/ ForwarderExit
       \/ \E c \in Callers : CallerStep(c) \/ CallerCalls(c)
       \/ Environment

Init == NewMachine

Spec == Init /\ [][Next]_vars

(* Fairness: every goroutine that can run does run, a call that can return   *)
(* returns, SIGTERM kills, firecracker comes up unless it exits.  Callers    *)
(* need not call anything, signals need not arrive, ctx need not be done.    *)
Fairness ==
    /\ WF_vars(StartStep /\ panic = "none")
    /\ WF_vars(doCleanup /\ panic = "none")
    /\ WF_vars(WaitStep /\ panic = "none")
    /\ WF_vars(ReporterStep /\ panic = "none")
    /\ WF_vars(KillerStep /\ panic = "none")
    /\ WF_vars(ForwarderExit /\ panic = "none")
    /\ WF_vars(Terminated /\ panic = "none")
    /\ WF_vars(VMMReady /\ panic = "none")
    /\ \A c \in Callers : WF_vars(CallerStep(c) /\ panic = "none")

FairSpec == Spec /\ Fairness

-------------------------------------------------------------------------------
(* Types. *)

ControlOK ==
    /\ spc \in {"new", "Validation", "SetupNetwork", "startCmd", "waitForSocket",
               "CreateLogFiles", "registerFifo", "startInstance", "doCleanup",
               "ok", "err"}
    /\ wpc \in {"off", "wait", "shutdownCh", "cleanup", "send", "closeErr",
               "closeCleanup", "done"}
    /\ rpc \in {"off", "recv", "close", "done"}
    /\ kpc \in {"off", "select", "stopping", "done"}
    /\ fpc \in {"off", "loop", "done"}

ChannelsOK ==
    /\ closed \subseteq Channels
    /\ panic \in {"none", "cleanupFuncs"} \cup Channels

ErrorsOK ==
    /\ fatalErr \subseteq Causes /\ waitErr \subseteq Causes
    /\ cleanupErr \subseteq Resources /\ held \subseteq Resources

CleanupOK ==
    /\ fi \in 0 .. Len(Fifos)
    /\ cleanupFuncs \in Seq(Resources) /\ ran \in Seq(Resources)
    /\ once \in {"new", "busy", "done"} /\ by \in {"none", "start", "wait"}
    /\ n \in 0 .. Len(cleanupFuncs) /\ i \in 0 .. n

EnvironmentOK ==
    /\ ctxDone \in BOOLEAN /\ sigterm \in BOOLEAN /\ pooled \in BOOLEAN
    /\ proc \in {"none", "running", "exited", "reaped"}
    /\ vmm \in {"none", "booting", "ready", "exited"}

CallsOK ==
    /\ call \in [Callers ->
                    {"idle", "Wait", "StopVMM", "stopping", "CtrlAltDel"}]
    /\ ret \in [Callers -> SUBSET Causes]

\* The range of every variable; the loop index never passes the length ranged
\* over, and the fifo counter never passes the configured fifos.
TypeOK ==
    /\ ControlOK /\ ChannelsOK /\ ErrorsOK /\ CleanupOK /\ EnvironmentOK
    /\ CallsOK

-------------------------------------------------------------------------------
(* Safety. *)

\* exitCh, errCh and cleanupCh are each closed at most once, whichever of
\* startVMM's error paths and goroutines reach their close first.
ClosedOnce == panic \notin {"exitCh", "errCh", "cleanupCh"}

\* Wait "will deliver the same error to all callers, subject to each caller's
\* context cancellation": fatalErr is fixed when exitCh is closed.
Report == INSTANCE ExitReport WITH
    exited <- "exitCh" \in closed,
    report <- IF "exitCh" \in closed THEN fatalErr ELSE {},
    got <- ret
ReportsOnce == Report!Spec

\* When Wait is let through with anything but the init timeout, the process is
\* gone and the cleanup has been run (or no process was ever started).
WaitMeansExited ==
    "exitCh" \in closed /\ "timeout" \notin fatalErr
        => proc = "none" \/ (proc = "reaped" /\ once = "done")

\* A StopVMM that has sent its signal returns only when the child has been
\* reaped and every cleanup function that was ranged over has been run.
StopMeansDown ==
    [][\A c \in Callers : call[c] = "stopping" /\ call'[c] = "idle"
            => proc' = "reaped" /\ once' = "done" /\ i' = n']_vars

\* Unless the list grew while it was being run, doCleanup has run exactly the
\* registered functions, the latest first.
UnwindsInOrder ==
    once = "done" /\ n = Len(cleanupFuncs) => ran = Reverse(cleanupFuncs)

\* The cleanup never starts under a machine that is up: the child is gone, or
\* Start is failing.
CleanupNotEarly ==
    once # "new" => proc \in {"none", "reaped"} \/ spc \in {"doCleanup", "err"}

\* Once Start has returned and the machine is down, the only resources left on the
\* host are those whose cleanup function failed; unless Start gave up waiting, when
\* firecracker may open its socket after the cleanup.  The daemon of a jailer may
\* do that too.  Functions registered while the list is being run may be missed.
NoLeak ==
    (/\ spc \in {"ok", "err"} /\ "timeout" \notin fatalErr
     /\ proc = "none" \/ wpc = "done")
        => LET left == held \ (cleanupErr \cup (IF Daemonize THEN {"sock"} ELSE {}))
           IN  /\ left \subseteq Range(cleanupFuncs) \ Range(ran)
               /\ n = Len(cleanupFuncs) => left = {}

\* The clean exit of a daemonized jailer's parent does not tear down the
\* machine under the firecracker it left behind: that needs a Shutdown or a
\* failed Start.
DaemonKept ==
    (/\ once # "new" /\ proc = "reaped" /\ "exit" \notin waitErr
     /\ vmm \in {"booting", "ready"})
        => "shutdownCh" \in closed \/ spc \in {"doCleanup", "err"}

-------------------------------------------------------------------------------
(* Liveness. *)

\* A StopVMM that has sent its signal returns.
StopCompletes ==
    \A c \in Callers : call[c] = "stopping" ~> call[c] # "stopping"

\* The exit of the process is reported: every Wait is let through.
ExitReported == proc = "exited" ~> "exitCh" \in closed

\* Cancelling Start's context brings the process down.
CancelStops == ctxDone /\ proc = "running" ~> proc # "running"

\* Once the process has exited, every goroutine the machine started ends.
GoroutinesEnd ==
    proc = "exited" ~> [](/\ wpc = "done" /\ fpc = "done"
                          /\ rpc \in {"off", "done"} /\ kpc \in {"off", "done"})

-------------------------------------------------------------------------------
(* What the comments in machine.go say and the code does not keep. *)

\* "callbacks that should be run when the machine is being torn down": every
\* registered cleanup function has been run once the goroutine in cmd.Wait is
\* done and Start has returned.
EveryCallbackRun ==
    wpc = "done" /\ spc \in {"ok", "err"} => ran = Reverse(cleanupFuncs)
===============================================================================
