----------------------------- MODULE MachineProofs -----------------------------
(***************************************************************************)
(* Theorems about Machine, for every set of callers, every configuration   *)
(* of resources and fifos and every choice of the switches.                *)
(***************************************************************************)
EXTENDS Machine, TLAPS

-------------------------------------------------------------------------------
(* Facts about the configured resources. *)

\* A prefix of the network's cleanup functions, and each fifo, is a resource
\* of the machine.
LEMMA ResourceTypes ==
    /\ "sock" \in Resources
    /\ NetResources \in Seq(Resources)
    /\ \A k \in 0 .. Len(NetResources) :
        /\ NetRegistered(k) \in Seq(Resources)
        /\ {NetResources[j] : j \in 1 .. k} \subseteq Resources
    /\ \A k \in 1 .. Len(Fifos) : Fifos[k] \in Resources
    /\ Len(Fifos) \in Nat
<1> USE ResourcesAssumption DEF Resources, Range
<1>1. /\ "sock" \in Resources
      /\ Len(Fifos) \in Nat
      /\ \A k \in 1 .. Len(Fifos) : Fifos[k] \in Resources
    OBVIOUS
<1>2. \A j \in 1 .. Len(NetResources) : NetResources[j] \in Resources
    OBVIOUS
<1>3. NetResources \in Seq(Resources)
    BY <1>2 
<1>4. ASSUME NEW k \in 0 .. Len(NetResources)
      PROVE  /\ NetRegistered(k) \in Seq(Resources)
             /\ {NetResources[j] : j \in 1 .. k} \subseteq Resources
    BY <1>2, <1>3 DEF NetRegistered
<1> QED
    BY <1>1, <1>3, <1>4

-------------------------------------------------------------------------------
(* Types. *)

\* What makes CleanupOK inductive: where the loop variables are still zero, and
\* that a fifo about to be registered exists.
LoopInv ==
    /\ once = "new" => n = 0 /\ i = 0
    /\ spc = "registerFifo" => fi < Len(Fifos)

TypeInv == TypeOK /\ LoopInv

\* The machine returned by NewMachine satisfies the type invariant.
LEMMA InitTypeInv == Init => TypeInv
<1> SUFFICES ASSUME NewMachine PROVE TypeInv
    BY DEF Init
<1> USE DEF NewMachine
<1>1. ControlOK /\ ChannelsOK /\ ErrorsOK
    BY DEF ControlOK, ChannelsOK, ErrorsOK
<1>2. CleanupOK /\ LoopInv
    BY ResourceTypes DEF CleanupOK, LoopInv
<1>3. EnvironmentOK
    BY DEF EnvironmentOK
<1>4. CallsOK
    BY DEF CallsOK
<1> QED
    BY <1>1, <1>2, <1>3, <1>4 DEF TypeInv, TypeOK

\* Every step, of whatever goroutine, preserves it.
LEMMA NextTypeInv == TypeInv /\ [Next]_vars => TypeInv'
<1> SUFFICES ASSUME TypeInv, [Next]_vars PROVE TypeInv'
    OBVIOUS
<1> USE ResourceTypes DEF TypeInv, TypeOK
<1>1. CASE Start
    BY <1>1 DEF Start, ControlOK, ChannelsOK, ErrorsOK, CleanupOK,
       EnvironmentOK, CallsOK, LoopInv, startVars, goVars, chVars, cleanupVars,
       envVars, callVars
<1>2. CASE Validate
    BY <1>2 DEF Validate, ControlOK, ChannelsOK, ErrorsOK, CleanupOK,
       EnvironmentOK, CallsOK, LoopInv, startVars, goVars, chVars, cleanupVars,
       envVars, callVars
<1>3. CASE setupNetwork
    BY <1>3 DEF setupNetwork, ControlOK, ChannelsOK, ErrorsOK, CleanupOK,
       EnvironmentOK, CallsOK, LoopInv, startVars, goVars, chVars, cleanupVars,
       envVars, callVars
<1>4. CASE startCmdFails
  <2>1. ControlOK'
      BY <1>4 DEF startCmdFails, Close, ControlOK, startVars, goVars
  <2>2. ChannelsOK'
      BY <1>4 DEF startCmdFails, Close, ChannelsOK, Channels, chVars
  <2>3. ErrorsOK'
      BY <1>4 DEF startCmdFails, Close, ErrorsOK, Causes, cleanupVars
  <2>4. CleanupOK' /\ EnvironmentOK' /\ CallsOK' /\ LoopInv'
      BY <1>4 DEF startCmdFails, CleanupOK, EnvironmentOK, CallsOK, LoopInv,
         startVars, cleanupVars, envVars, callVars
  <2> QED
      BY <2>1, <2>2, <2>3, <2>4 DEF TypeInv, TypeOK
<1>5. CASE startCmd
    BY <1>5 DEF startCmd, ControlOK, ChannelsOK, ErrorsOK, CleanupOK,
       EnvironmentOK, CallsOK, LoopInv, startVars, goVars, chVars, cleanupVars,
       envVars, callVars
<1>6. CASE waitForSocket
  <2>1. ControlOK'
      BY <1>6 DEF waitForSocket, startVMMSucceeds, startVMMFails, Close,
         ControlOK, startVars, goVars
  <2>2. ChannelsOK'
      BY <1>6 DEF waitForSocket, startVMMSucceeds, startVMMFails, Close,
         ChannelsOK, Channels, chVars
  <2>3. ErrorsOK'
      BY <1>6 DEF waitForSocket, startVMMSucceeds, startVMMFails, Close,
         ErrorsOK, Causes, cleanupVars
  <2>4. EnvironmentOK'
      BY <1>6 DEF waitForSocket, startVMMSucceeds, startVMMFails, Close,
         EnvironmentOK, envVars
  <2>5. LoopInv'
      BY <1>6 DEF waitForSocket, startVMMSucceeds, startVMMFails, Close,
         LoopInv, startVars, cleanupVars
  <2>6. CleanupOK' /\ CallsOK'
      BY <1>6 DEF waitForSocket, CleanupOK, CallsOK, startVars, cleanupVars,
         callVars
  <2> QED
      BY <2>1, <2>2, <2>3, <2>4, <2>5, <2>6 DEF TypeInv, TypeOK
<1>7. CASE createFifo
  <2>. Fifos[fi + 1] \in Resources
      BY <1>7 DEF createFifo, CleanupOK
  <2>1. ControlOK'
      BY <1>7 DEF createFifo, ControlOK, startVars, goVars
  <2>2. ErrorsOK'
      BY <1>7 DEF createFifo, ErrorsOK, Causes, CleanupOK, cleanupVars
  <2>3. LoopInv'
      BY <1>7 DEF createFifo, LoopInv, startVars, cleanupVars
  <2>4. ChannelsOK' /\ CleanupOK' /\ EnvironmentOK' /\ CallsOK'
      BY <1>7 DEF createFifo, ChannelsOK, CleanupOK, EnvironmentOK, CallsOK,
         chVars, startVars, cleanupVars, envVars, callVars
  <2> QED
      BY <2>1, <2>2, <2>3, <2>4 DEF TypeInv, TypeOK
<1>8. CASE registerFifo
    BY <1>8 DEF registerFifo, ControlOK, ChannelsOK, ErrorsOK, CleanupOK,
       EnvironmentOK, CallsOK, LoopInv, startVars, goVars, chVars, cleanupVars,
       envVars, callVars
<1>9. CASE configure
    BY <1>9 DEF configure, APIUp, ControlOK, ChannelsOK, ErrorsOK, CleanupOK,
       EnvironmentOK, CallsOK, LoopInv, startVars, goVars, chVars, cleanupVars,
       envVars, callVars
<1>10. CASE startInstance
    BY <1>10 DEF startInstance, APIUp, ControlOK, ChannelsOK, ErrorsOK,
       CleanupOK, EnvironmentOK, CallsOK, LoopInv, startVars, goVars, chVars,
       cleanupVars, envVars, callVars
<1>11. CASE StartReturnsErr
    BY <1>11 DEF StartReturnsErr, ControlOK, ChannelsOK, ErrorsOK, CleanupOK,
       EnvironmentOK, CallsOK, LoopInv, startVars, goVars, chVars, cleanupVars,
       envVars, callVars
<1>12. ASSUME NEW g \in {"start", "wait"}, CleanupBegin(g)
      PROVE  TypeInv'
    BY <1>12 DEF CleanupBegin, ControlOK, ChannelsOK, ErrorsOK, CleanupOK,
       EnvironmentOK, CallsOK, LoopInv, startVars, goVars, chVars, cleanupVars,
       envVars, callVars
<1>13. CASE CleanupNext
  <2>1. CleanupFunc \in Resources
      BY <1>13 DEF CleanupNext, CleanupFunc, CleanupOK
  <2> QED
      BY <1>13, <2>1 DEF CleanupNext, ControlOK, ChannelsOK, ErrorsOK,
         CleanupOK, EnvironmentOK, CallsOK, LoopInv, startVars, goVars, chVars,
         cleanupVars, envVars, callVars
<1>14. CASE CleanupTornRead
    BY <1>14 DEF CleanupTornRead, ControlOK, ChannelsOK, ErrorsOK, CleanupOK,
       EnvironmentOK, CallsOK, LoopInv, startVars, goVars, chVars, cleanupVars,
       envVars, callVars
<1>15. CASE CleanupEnd
    BY <1>15 DEF CleanupEnd, ControlOK, ChannelsOK, ErrorsOK, CleanupOK,
       EnvironmentOK, CallsOK, LoopInv, startVars, goVars, chVars, cleanupVars,
       envVars, callVars
<1>16. CASE Reap
    BY <1>16 DEF Reap, AfterReap, ControlOK, ChannelsOK, ErrorsOK, CleanupOK,
       EnvironmentOK, CallsOK, LoopInv, startVars, goVars, chVars, cleanupVars,
       envVars, callVars
<1>17. CASE AwaitShutdown
    BY <1>17 DEF AwaitShutdown, ControlOK, ChannelsOK, ErrorsOK, CleanupOK,
       EnvironmentOK, CallsOK, LoopInv, startVars, goVars, chVars, cleanupVars,
       envVars, callVars
<1>18. CASE WaitCleaned
  <2>1. ControlOK'
      BY <1>18 DEF WaitCleaned, ExitErr, ControlOK, startVars, goVars
  <2>2. ErrorsOK'
      BY <1>18 DEF WaitCleaned, ExitErr, ErrorsOK, Causes, cleanupVars
  <2>3. ChannelsOK' /\ CleanupOK' /\ EnvironmentOK' /\ CallsOK' /\ LoopInv'
      BY <1>18 DEF WaitCleaned, ChannelsOK, CleanupOK, EnvironmentOK, CallsOK,
         LoopInv, chVars, startVars, cleanupVars, envVars, callVars
  <2> QED
      BY <2>1, <2>2, <2>3 DEF TypeInv, TypeOK
<1>19. CASE CloseErrCh
  <2>1. ControlOK'
      BY <1>19 DEF CloseErrCh, Close, ControlOK, startVars, goVars
  <2>2. ChannelsOK'
      BY <1>19 DEF CloseErrCh, Close, ChannelsOK, Channels, chVars
  <2>3. ErrorsOK' /\ CleanupOK' /\ EnvironmentOK' /\ CallsOK' /\ LoopInv'
      BY <1>19 DEF CloseErrCh, ErrorsOK, CleanupOK, EnvironmentOK, CallsOK,
         LoopInv, cleanupVars, startVars, envVars, callVars
  <2> QED
      BY <2>1, <2>2, <2>3 DEF TypeInv, TypeOK
<1>20. CASE CloseCleanupCh
  <2>1. ControlOK'
      BY <1>20 DEF CloseCleanupCh, Close, ControlOK, startVars, goVars
  <2>2. ChannelsOK'
      BY <1>20 DEF CloseCleanupCh, Close, ChannelsOK, Channels, chVars
  <2>3. ErrorsOK' /\ CleanupOK' /\ EnvironmentOK' /\ CallsOK' /\ LoopInv'
      BY <1>20 DEF CloseCleanupCh, ErrorsOK, CleanupOK, EnvironmentOK, CallsOK,
         LoopInv, cleanupVars, startVars, envVars, callVars
  <2> QED
      BY <2>1, <2>2, <2>3 DEF TypeInv, TypeOK
<1>21. CASE ReporterRecv
  <2>1. ControlOK'
      BY <1>21 DEF ReporterRecv, NoMoreValues, ControlOK, startVars, goVars
  <2>2. ErrorsOK'
      BY <1>21 DEF ReporterRecv, NoMoreValues, ErrorsOK, Causes, cleanupVars
  <2>3. ChannelsOK' /\ CleanupOK' /\ EnvironmentOK' /\ CallsOK' /\ LoopInv'
      BY <1>21 DEF ReporterRecv, ChannelsOK, CleanupOK, EnvironmentOK, CallsOK,
         LoopInv, chVars, startVars, cleanupVars, envVars, callVars
  <2> QED
      BY <2>1, <2>2, <2>3 DEF TypeInv, TypeOK
<1>22. CASE ReporterClose
  <2>1. ControlOK'
      BY <1>22 DEF ReporterClose, Close, ControlOK, startVars, goVars
  <2>2. ChannelsOK'
      BY <1>22 DEF ReporterClose, Close, ChannelsOK, Channels, chVars
  <2>3. ErrorsOK' /\ CleanupOK' /\ EnvironmentOK' /\ CallsOK' /\ LoopInv'
      BY <1>22 DEF ReporterClose, ErrorsOK, CleanupOK, EnvironmentOK, CallsOK,
         LoopInv, cleanupVars, startVars, envVars, callVars
  <2> QED
      BY <2>1, <2>2, <2>3 DEF TypeInv, TypeOK
<1>23. CASE KillerCancel
  <2>1. ControlOK'
      BY <1>23 DEF KillerCancel, SendSIGTERM, ControlOK, startVars, goVars
  <2>2. EnvironmentOK'
      BY <1>23 DEF KillerCancel, SendSIGTERM, EnvironmentOK, envVars
  <2>3. ChannelsOK' /\ ErrorsOK' /\ CleanupOK' /\ CallsOK' /\ LoopInv'
      BY <1>23 DEF KillerCancel, ChannelsOK, ErrorsOK, CleanupOK, CallsOK,
         LoopInv, chVars, cleanupVars, startVars, callVars
  <2> QED
      BY <2>1, <2>2, <2>3 DEF TypeInv, TypeOK
<1>24. CASE KillerExit
    BY <1>24 DEF KillerExit, ControlOK, ChannelsOK, ErrorsOK, CleanupOK,
       EnvironmentOK, CallsOK, LoopInv, startVars, goVars, chVars, cleanupVars,
       envVars, callVars
<1>25. CASE KillerStopped
    BY <1>25 DEF KillerStopped, CleanupAwaited, ControlOK, ChannelsOK,
       ErrorsOK, CleanupOK, EnvironmentOK, CallsOK, LoopInv, startVars, goVars,
       chVars, cleanupVars, envVars, callVars
<1>26. CASE ForwardSignal
  <2>1. EnvironmentOK'
      BY <1>26 DEF ForwardSignal, SendSIGTERM, EnvironmentOK, envVars
  <2>2. ControlOK' /\ ChannelsOK' /\ ErrorsOK' /\ CleanupOK' /\ CallsOK' /\
     LoopInv'
      BY <1>26 DEF ForwardSignal, ControlOK, ChannelsOK, ErrorsOK, CleanupOK,
         CallsOK, LoopInv, startVars, goVars, chVars, cleanupVars, callVars
  <2> QED
      BY <2>1, <2>2 DEF TypeInv, TypeOK
<1>27. CASE ForwarderExit
    BY <1>27 DEF ForwarderExit, ControlOK, ChannelsOK, ErrorsOK, CleanupOK,
       EnvironmentOK, CallsOK, LoopInv, startVars, goVars, chVars, cleanupVars,
       envVars, callVars
<1>28. CASE Cancel
    BY <1>28 DEF Cancel, ControlOK, ChannelsOK, ErrorsOK, CleanupOK,
       EnvironmentOK, CallsOK, LoopInv, startVars, goVars, chVars, cleanupVars,
       envVars, callVars
<1>29. CASE VMMReady
    BY <1>29 DEF VMMReady, ControlOK, ChannelsOK, ErrorsOK, CleanupOK,
       EnvironmentOK, CallsOK, LoopInv, startVars, goVars, chVars, cleanupVars,
       envVars, callVars
<1>30. CASE VMMExit
  <2>1. ErrorsOK'
      BY <1>30 DEF VMMExit, ErrorsOK, Causes, cleanupVars
  <2>2. EnvironmentOK'
      BY <1>30 DEF VMMExit, EnvironmentOK, envVars
  <2>3. ControlOK' /\ ChannelsOK' /\ CleanupOK' /\ CallsOK' /\ LoopInv'
      BY <1>30 DEF VMMExit, ControlOK, ChannelsOK, CleanupOK, CallsOK, LoopInv,
         startVars, goVars, chVars, cleanupVars, callVars
  <2> QED
      BY <2>1, <2>2, <2>3 DEF TypeInv, TypeOK
<1>31. CASE Terminated
  <2>1. ErrorsOK'
      BY <1>31 DEF Terminated, ErrorsOK, Causes, cleanupVars
  <2>2. EnvironmentOK'
      BY <1>31 DEF Terminated, EnvironmentOK, envVars
  <2>3. ControlOK' /\ ChannelsOK' /\ CleanupOK' /\ CallsOK' /\ LoopInv'
      BY <1>31 DEF Terminated, ControlOK, ChannelsOK, CleanupOK, CallsOK,
         LoopInv, startVars, goVars, chVars, cleanupVars, callVars
  <2> QED
      BY <2>1, <2>2, <2>3 DEF TypeInv, TypeOK
<1>32. CASE Jailer
  <2>1. ErrorsOK'
      BY <1>32 DEF Jailer, ErrorsOK, Causes, cleanupVars
  <2>2. EnvironmentOK'
      BY <1>32 DEF Jailer, EnvironmentOK, envVars
  <2>3. ControlOK' /\ ChannelsOK' /\ CleanupOK' /\ CallsOK' /\ LoopInv'
      BY <1>32 DEF Jailer, ControlOK, ChannelsOK, CleanupOK, CallsOK, LoopInv,
         startVars, goVars, chVars, cleanupVars, callVars
  <2> QED
      BY <2>1, <2>2, <2>3 DEF TypeInv, TypeOK
<1>33. ASSUME NEW c \in Callers, NEW op \in {"Wait", "StopVMM"}, Invoke(c, op)
      PROVE  TypeInv'
    BY <1>33 DEF Invoke, ControlOK, ChannelsOK, ErrorsOK, CleanupOK,
       EnvironmentOK, CallsOK, LoopInv, startVars, goVars, chVars, cleanupVars,
       envVars, callVars
<1>34. ASSUME NEW c \in Callers, Wait(c)
      PROVE  TypeInv'
  <2>1. CallsOK'
      BY <1>34 DEF Wait, CallsOK, Causes, ErrorsOK, callVars
  <2>2. ControlOK' /\ ChannelsOK' /\ ErrorsOK' /\ CleanupOK' /\ EnvironmentOK'
     /\ LoopInv'
      BY <1>34 DEF Wait, ControlOK, ChannelsOK, ErrorsOK, CleanupOK,
         EnvironmentOK, LoopInv, startVars, goVars, chVars, cleanupVars,
         envVars
  <2> QED
      BY <2>1, <2>2 DEF TypeInv, TypeOK
<1>35. ASSUME NEW c \in Callers, stopVMM(c)
      PROVE  TypeInv'
  <2>1. EnvironmentOK'
      BY <1>35 DEF stopVMM, SendSIGTERM, EnvironmentOK, envVars
  <2>2. CallsOK'
      BY <1>35 DEF stopVMM, SendSIGTERM, CallsOK, Causes, ErrorsOK, callVars
  <2>3. ControlOK' /\ ChannelsOK' /\ ErrorsOK' /\ CleanupOK' /\ LoopInv'
      BY <1>35 DEF stopVMM, ControlOK, ChannelsOK, ErrorsOK, CleanupOK,
         LoopInv, startVars, goVars, chVars, cleanupVars
  <2> QED
      BY <2>1, <2>2, <2>3 DEF TypeInv, TypeOK
<1>36. ASSUME NEW c \in Callers, StopReturns(c)
      PROVE  TypeInv'
    BY <1>36 DEF StopReturns, CleanupAwaited, ControlOK, ChannelsOK, ErrorsOK,
       CleanupOK, EnvironmentOK, CallsOK, LoopInv, startVars, goVars, chVars,
       cleanupVars, envVars, callVars
<1>37. ASSUME NEW c \in Callers, Shutdown(c)
      PROVE  TypeInv'
  <2>1. ChannelsOK'
      BY <1>37 DEF Shutdown, Close, ChannelsOK, Channels, chVars
  <2>2. CallsOK'
      BY <1>37 DEF Shutdown, Close, CallsOK, Causes, ErrorsOK, callVars
  <2>3. ControlOK' /\ ErrorsOK' /\ CleanupOK' /\ EnvironmentOK' /\ LoopInv'
      BY <1>37 DEF Shutdown, ControlOK, ErrorsOK, CleanupOK, EnvironmentOK,
         LoopInv, startVars, goVars, cleanupVars, envVars
  <2> QED
      BY <2>1, <2>2, <2>3 DEF TypeInv, TypeOK
<1>38. ASSUME NEW c \in Callers, sendCtrlAltDel(c)
      PROVE  TypeInv'
    BY <1>38 DEF sendCtrlAltDel, ControlOK, ChannelsOK, ErrorsOK, CleanupOK,
       EnvironmentOK, CallsOK, LoopInv, startVars, goVars, chVars, cleanupVars,
       envVars, callVars
<1>39. CASE UNCHANGED vars
    BY <1>39 DEF vars, ControlOK, ChannelsOK, ErrorsOK, CleanupOK,
       EnvironmentOK, CallsOK, LoopInv, startVars, goVars, chVars, cleanupVars,
       envVars, callVars
<1> QED
    BY <1>1, <1>2, <1>3, <1>4, <1>5, <1>6, <1>7, <1>8, <1>9, <1>10, <1>11,
       <1>12, <1>13, <1>14, <1>15, <1>16, <1>17, <1>18, <1>19, <1>20, <1>21,
       <1>22, <1>23, <1>24, <1>25, <1>26, <1>27, <1>28, <1>29, <1>30, <1>31,
       <1>32, <1>33, <1>34, <1>35, <1>36, <1>37, <1>38, <1>39 DEF Next,
       StartStep, doCleanup, WaitStep, ReporterStep, KillerStep, CallerStep,
       CallerCalls, Environment

\* Every variable keeps its range, whatever the goroutines, the callers and the
\* process do; in particular doCleanup never indexes outside cleanupFuncs.
THEOREM TypeCorrect == Spec => []TypeOK
<1>1. TypeInv => TypeOK
    BY DEF TypeInv
<1> QED
    BY InitTypeInv, NextTypeInv, <1>1, PTL DEF Spec

-------------------------------------------------------------------------------
(* The channels and the process. *)

BeforeCmd == {"new", "Validation", "SetupNetwork", "startCmd"}
ErrSent == {"closeErr", "closeCleanup", "done"}

\* Until startVMM is past waitForSocket it alone can close exitCh, and then the
\* reporter alone, and only if startVMM has not; the goroutine in cmd.Wait
\* alone closes errCh and cleanupCh, one after the other.
ChannelInv ==
    /\ spc \in BeforeCmd => wpc = "off"
    /\ spc \in BeforeCmd \cup {"waitForSocket"}
        => "exitCh" \notin closed /\ rpc = "off"
    /\ rpc \in {"recv", "close"} => "exitCh" \notin closed
    /\ "errCh" \in closed => wpc \in {"closeCleanup", "done"}
    /\ "cleanupCh" \in closed => wpc = "done"
    /\ ClosedOnce

\* The goroutine in cmd.Wait follows the process: it is past cmd.Wait when the
\* child has been reaped, and past doCleanup when the cleanup is done.
ProcessInv ==
    /\ proc = "none" <=> wpc = "off"
    /\ proc \in {"running", "exited"} <=> wpc = "wait"
    /\ ~Daemonize /\ vmm \in {"booting", "ready"} => proc = "running"
    /\ wpc \in {"send"} \cup ErrSent => once = "done"
    /\ once = "done" => i = n

\* Unless by an init timeout, exitCh is closed, or about to be, only after the
\* error of cmd.Wait has been received, or when there never was a process.
ReportInv ==
    "timeout" \notin fatalErr /\ ("exitCh" \in closed \/ rpc = "close")
        => wpc \in {"off"} \cup ErrSent

IInv == ChannelInv /\ ProcessInv /\ ReportInv

\* It holds of the machine returned by NewMachine.
LEMMA InitIInv == Init => IInv
    BY DEF Init, NewMachine, IInv, ChannelInv, ProcessInv, ReportInv, ClosedOnce,
       BeforeCmd, ErrSent

\* Every step preserves it.
LEMMA NextIInv == TypeInv /\ IInv /\ [Next]_vars => IInv'
<1> SUFFICES ASSUME TypeInv, IInv, [Next]_vars PROVE IInv'
    OBVIOUS
<1> USE DEF IInv, ChannelInv, ProcessInv, ReportInv, ClosedOnce, BeforeCmd,
        ErrSent
<1>1. CASE Start
    BY <1>1 DEF Start, startVars, goVars, chVars, cleanupVars, envVars,
       callVars
<1>2. CASE Validate
    BY <1>2 DEF Validate, startVars, goVars, chVars, cleanupVars, envVars,
       callVars
<1>3. CASE setupNetwork
    BY <1>3 DEF setupNetwork, startVars, goVars, chVars, cleanupVars, envVars,
       callVars
<1>4. CASE startCmdFails
    BY <1>4 DEF startCmdFails, Close, startVars, goVars, chVars, cleanupVars,
       envVars, callVars
<1>5. CASE startCmd
    BY <1>5 DEF startCmd, startVars, goVars, chVars, cleanupVars, envVars,
       callVars
<1>6. CASE waitForSocket
    BY <1>6 DEF waitForSocket, startVMMSucceeds, startVMMFails, Close,
       startVars, goVars, chVars, cleanupVars, envVars, callVars
<1>7. CASE createFifo
    BY <1>7 DEF createFifo, startVars, goVars, chVars, cleanupVars, envVars,
       callVars
<1>8. CASE registerFifo
    BY <1>8 DEF registerFifo, startVars, goVars, chVars, cleanupVars, envVars,
       callVars
<1>9. CASE configure
    BY <1>9 DEF configure, APIUp, startVars, goVars, chVars, cleanupVars,
       envVars, callVars
<1>10. CASE startInstance
    BY <1>10 DEF startInstance, APIUp, startVars, goVars, chVars, cleanupVars,
       envVars, callVars
<1>11. CASE StartReturnsErr
    BY <1>11 DEF StartReturnsErr, startVars, goVars, chVars, cleanupVars,
       envVars, callVars
<1>12. ASSUME NEW g \in {"start", "wait"}, CleanupBegin(g)
      PROVE  IInv'
    BY <1>12 DEF CleanupBegin, startVars, goVars, chVars, cleanupVars, envVars,
       callVars
<1>13. CASE CleanupNext
    BY <1>13 DEF CleanupNext, startVars, goVars, chVars, cleanupVars, envVars,
       callVars
<1>14. CASE CleanupTornRead
    BY <1>14 DEF CleanupTornRead, startVars, goVars, chVars, cleanupVars,
       envVars, callVars
<1>15. CASE CleanupEnd
    BY <1>15 DEF CleanupEnd, startVars, goVars, chVars, cleanupVars, envVars,
       callVars
<1>16. CASE Reap
    BY <1>16 DEF Reap, AfterReap, startVars, goVars, chVars, cleanupVars,
       envVars, callVars
<1>17. CASE AwaitShutdown
    BY <1>17 DEF AwaitShutdown, startVars, goVars, chVars, cleanupVars,
       envVars, callVars
<1>18. CASE WaitCleaned
    BY <1>18 DEF WaitCleaned, ExitErr, startVars, goVars, chVars, cleanupVars,
       envVars, callVars
<1>19. CASE CloseErrCh
    BY <1>19 DEF CloseErrCh, Close, startVars, goVars, chVars, cleanupVars,
       envVars, callVars
<1>20. CASE CloseCleanupCh
    BY <1>20 DEF CloseCleanupCh, Close, startVars, goVars, chVars, cleanupVars,
       envVars, callVars
<1>21. CASE ReporterRecv
    BY <1>21 DEF ReporterRecv, NoMoreValues, startVars, goVars, chVars,
       cleanupVars, envVars, callVars
<1>22. CASE ReporterClose
    BY <1>22 DEF ReporterClose, Close, startVars, goVars, chVars, cleanupVars,
       envVars, callVars
<1>23. CASE KillerCancel
    BY <1>23 DEF KillerCancel, SendSIGTERM, startVars, goVars, chVars,
       cleanupVars, envVars, callVars
<1>24. CASE KillerExit
    BY <1>24 DEF KillerExit, startVars, goVars, chVars, cleanupVars, envVars,
       callVars
<1>25. CASE KillerStopped
    BY <1>25 DEF KillerStopped, CleanupAwaited, startVars, goVars, chVars,
       cleanupVars, envVars, callVars
<1>26. CASE ForwardSignal
    BY <1>26 DEF ForwardSignal, SendSIGTERM, startVars, goVars, chVars,
       cleanupVars, envVars, callVars
<1>27. CASE ForwarderExit
    BY <1>27 DEF ForwarderExit, startVars, goVars, chVars, cleanupVars,
       envVars, callVars
<1>28. CASE Cancel
    BY <1>28 DEF Cancel, startVars, goVars, chVars, cleanupVars, envVars,
       callVars
<1>29. CASE VMMReady
    BY <1>29 DEF VMMReady, startVars, goVars, chVars, cleanupVars, envVars,
       callVars
<1>30. CASE VMMExit
    BY <1>30 DEF VMMExit, startVars, goVars, chVars, cleanupVars, envVars,
       callVars
<1>31. CASE Terminated
    BY <1>31 DEF Terminated, startVars, goVars, chVars, cleanupVars, envVars,
       callVars
<1>32. CASE Jailer
    BY <1>32 DEF Jailer, startVars, goVars, chVars, cleanupVars, envVars,
       callVars
<1>33. ASSUME NEW c \in Callers, NEW op \in {"Wait", "StopVMM"}, Invoke(c, op)
      PROVE  IInv'
    BY <1>33 DEF Invoke, startVars, goVars, chVars, cleanupVars, envVars,
       callVars
<1>34. ASSUME NEW c \in Callers, Wait(c)
      PROVE  IInv'
    BY <1>34 DEF Wait, startVars, goVars, chVars, cleanupVars, envVars,
       callVars
<1>35. ASSUME NEW c \in Callers, stopVMM(c)
      PROVE  IInv'
    BY <1>35 DEF stopVMM, SendSIGTERM, startVars, goVars, chVars, cleanupVars,
       envVars, callVars
<1>36. ASSUME NEW c \in Callers, StopReturns(c)
      PROVE  IInv'
    BY <1>36 DEF StopReturns, CleanupAwaited, startVars, goVars, chVars,
       cleanupVars, envVars, callVars
<1>37. ASSUME NEW c \in Callers, Shutdown(c)
      PROVE  IInv'
    BY <1>37 DEF Shutdown, Close, startVars, goVars, chVars, cleanupVars,
       envVars, callVars
<1>38. ASSUME NEW c \in Callers, sendCtrlAltDel(c)
      PROVE  IInv'
    BY <1>38 DEF sendCtrlAltDel, startVars, goVars, chVars, cleanupVars,
       envVars, callVars
<1>39. CASE UNCHANGED vars
    BY <1>39 DEF vars, startVars, goVars, chVars, cleanupVars, envVars,
       callVars
<1> QED
    BY <1>1, <1>2, <1>3, <1>4, <1>5, <1>6, <1>7, <1>8, <1>9, <1>10, <1>11,
       <1>12, <1>13, <1>14, <1>15, <1>16, <1>17, <1>18, <1>19, <1>20, <1>21,
       <1>22, <1>23, <1>24, <1>25, <1>26, <1>27, <1>28, <1>29, <1>30, <1>31,
       <1>32, <1>33, <1>34, <1>35, <1>36, <1>37, <1>38, <1>39 DEF Next,
       StartStep, doCleanup, WaitStep, ReporterStep, KillerStep, CallerStep,
       CallerCalls, Environment

\* The reachable states satisfy both invariants.
LEMMA Invariants == Spec => [](TypeInv /\ IInv)
    BY InitTypeInv, NextTypeInv, InitIInv, NextIInv, PTL DEF Spec

\* No error path of startVMM and no goroutine ever closes exitCh, errCh or
\* cleanupCh a second time.
THEOREM ChannelsClosedOnce == Spec => []ClosedOnce
<1>1. TypeInv /\ IInv => ClosedOnce
    BY DEF IInv, ChannelInv
<1> QED
    BY Invariants, <1>1, PTL

\* A Wait that is let through by exitCh, with any error but the init timeout,
\* finds the process reaped and cleaned up.
THEOREM WaitSound == Spec => []WaitMeansExited
<1>1. TypeInv /\ IInv => WaitMeansExited
    BY DEF TypeInv, TypeOK, EnvironmentOK, IInv, ProcessInv, ReportInv, ErrSent,
           WaitMeansExited
<1> QED
    BY Invariants, <1>1, PTL

\* Only these steps touch a channel, fatalErr or a caller.
LEMMA StepKinds ==
    ASSUME [Next]_vars
    PROVE  \/ UNCHANGED <<closed, fatalErr, call, ret>>
           \/ startCmdFails \/ waitForSocket \/ CloseErrCh \/ CloseCleanupCh
           \/ ReporterStep
           \/ \E c \in Callers : CallerStep(c) \/ CallerCalls(c)
<1> USE DEF chVars, callVars
<1>1. CASE \/ Start \/ Validate \/ setupNetwork \/ startCmd \/ createFifo
           \/ registerFifo \/ configure \/ startInstance \/ StartReturnsErr
    BY <1>1 DEF Start, Validate, setupNetwork, startCmd, createFifo,
       registerFifo, configure, startInstance, StartReturnsErr
<1>2. CASE doCleanup \/ Reap \/ AwaitShutdown \/ WaitCleaned
    BY <1>2 DEF doCleanup, CleanupBegin, CleanupNext, CleanupTornRead,
       CleanupEnd, Reap, AwaitShutdown, WaitCleaned
<1>3. CASE KillerStep \/ ForwardSignal \/ ForwarderExit \/ Environment
    BY <1>3 DEF KillerStep, KillerCancel, KillerExit, KillerStopped,
       ForwardSignal, ForwarderExit, Environment, Cancel, VMMReady, VMMExit,
       Terminated, Jailer
<1>4. CASE UNCHANGED vars
    BY <1>4 DEF vars
<1> QED
    BY <1>1, <1>2, <1>3, <1>4 DEF Next, StartStep, WaitStep

\* A StopVMM that has signalled the process returns only after the process has
\* been reaped and the cleanup loop is over.
THEOREM StopSound == Spec => StopMeansDown
<1> DEFINE Stopped(c) == call[c] = "stopping" /\ call'[c] = "idle"
           Down == proc' = "reaped" /\ once' = "done" /\ i' = n'
<1>1. ASSUME TypeInv, IInv, [Next]_vars, NEW c \in Callers, Stopped(c)
      PROVE  Down
  <2> USE DEF TypeInv, TypeOK, CallsOK
  <2>1. ~UNCHANGED <<closed, fatalErr, call, ret>>
      BY <1>1
  <2>2. ~(startCmdFails \/ waitForSocket \/ CloseErrCh \/ CloseCleanupCh
            \/ ReporterStep)
      BY <1>1 DEF startCmdFails, waitForSocket, CloseErrCh, CloseCleanupCh,
         ReporterStep, ReporterRecv, ReporterClose, callVars
  <2>3. PICK d \in Callers : CallerStep(d) \/ CallerCalls(d)
      BY <1>1, <2>1, <2>2, StepKinds
  <2>4. d = c
      BY <1>1, <2>3 DEF CallerStep, CallerCalls, Invoke, Wait, stopVMM,
         StopReturns, Shutdown, sendCtrlAltDel
  <2>5. StopReturns(c)
      BY <1>1, <2>3, <2>4 DEF CallerStep, CallerCalls, Invoke, Wait, stopVMM,
         Shutdown, sendCtrlAltDel
  <2>6. wpc = "done" /\ UNCHANGED <<proc, once, i, n>>
      BY <1>1, <2>5 DEF StopReturns, CleanupAwaited, IInv, ChannelInv,
         cleanupVars, envVars
  <2> QED
      BY <1>1, <2>6 DEF IInv, ProcessInv, ErrSent, EnvironmentOK
<1>2. TypeInv /\ IInv /\ [Next]_vars
        => [\A c \in Callers : Stopped(c) => Down]_vars
    BY <1>1
<1> QED
    BY <1>2, Invariants, PTL DEF Spec, StopMeansDown

-------------------------------------------------------------------------------
(* Machine implements ExitReport. *)

\* A step of the machine is a step, or no step, of the exit report.
LEMMA ReportStep ==
    TypeInv /\ TypeInv' /\ IInv /\ IInv' /\ [Next]_vars
        => [Report!Next]_(Report!vars)
<1> SUFFICES ASSUME TypeInv, TypeInv', IInv, IInv', [Next]_vars
             PROVE  [Report!Next]_(Report!vars)
    OBVIOUS
<1> DEFINE exited == "exitCh" \in closed
<1> USE DEF TypeInv, TypeOK, ErrorsOK, IInv, ChannelInv, ClosedOnce
<1>1. CASE UNCHANGED <<closed, fatalErr, call, ret>>
    BY <1>1 DEF Report!vars
<1>2. CASE ~exited /\ exited' /\ UNCHANGED ret
  <2>1. fatalErr' \in SUBSET Causes
      OBVIOUS
  <2> QED
      BY <1>2, <2>1 DEF Report!Next, Report!Exit
<1>3. CASE exited' = exited /\ UNCHANGED ret /\ (exited => UNCHANGED fatalErr)
    BY <1>3 DEF Report!vars
<1>4. CASE startCmdFails \/ waitForSocket
  <2>1. ~exited /\ UNCHANGED ret
      BY <1>4 DEF startCmdFails, waitForSocket, BeforeCmd, callVars
  <2>2. exited' \/ exited' = exited
      BY <2>1
  <2> QED
      BY <1>2, <1>3, <2>1, <2>2
<1>5. CASE CloseErrCh \/ CloseCleanupCh
  <2>1. exited' = exited /\ UNCHANGED <<ret, fatalErr>>
      BY <1>5 DEF CloseErrCh, CloseCleanupCh, Close, callVars
  <2> QED
      BY <1>3, <2>1
<1>6. CASE ReporterStep
  <2>1. ~exited /\ UNCHANGED ret
      BY <1>6 DEF ReporterStep, ReporterRecv, ReporterClose, callVars
  <2>2. exited' \/ exited' = exited
      BY <2>1
  <2> QED
      BY <1>2, <1>3, <2>1, <2>2
<1>7. ASSUME NEW c \in Callers, Wait(c)
      PROVE  [Report!Next]_(Report!vars)
    BY <1>7 DEF Wait, chVars, Report!Next, Report!Deliver, Report!GiveUp,
       Report!vars
<1>8. ASSUME NEW c \in Callers,
             \/ stopVMM(c) \/ StopReturns(c) \/ sendCtrlAltDel(c)
             \/ CallerCalls(c)
      PROVE  [Report!Next]_(Report!vars)
  <2>1. exited' = exited /\ UNCHANGED <<ret, fatalErr>>
      BY <1>8 DEF stopVMM, StopReturns, sendCtrlAltDel, CallerCalls, Invoke,
         Shutdown, Close, chVars
  <2> QED
      BY <1>3, <2>1
<1> QED
    BY StepKinds, <1>1, <1>4, <1>5, <1>6, <1>7, <1>8 DEF CallerStep

\* Whatever the interleaving, all Waits that are not cancelled get the same
\* error, fixed when exitCh is closed: the machine implements ExitReport.
THEOREM ReportsTheSame == Spec => ReportsOnce
<1>1. Init => Report!Init
    BY DEF Init, NewMachine, Report!Init
<1> QED
    BY <1>1, ReportStep, Invariants, PTL DEF Spec, ReportsOnce, Report!Spec

-------------------------------------------------------------------------------
(* The cleanup. *)

\* Nothing is cleaned up before the process is started; from then on the
\* functions run so far are the last i of a list that has not grown.
UnwindInv ==
    /\ spc \in BeforeCmd => once = "new"
    /\ once = "new" => ran = <<>>
    /\ Len(ran) = i
    /\ once # "new" /\ n = Len(cleanupFuncs)
        => \A j \in 1 .. i : ran[j] = cleanupFuncs[n + 1 - j]
    /\ CleanupNotEarly

\* It holds of the machine returned by NewMachine.
LEMMA InitUnwindInv == Init => UnwindInv
    BY DEF Init, NewMachine, UnwindInv, CleanupNotEarly

\* Every step preserves it.
LEMMA NextUnwindInv == TypeInv /\ IInv /\ UnwindInv /\ [Next]_vars => UnwindInv'
<1> SUFFICES ASSUME TypeInv, IInv, UnwindInv, [Next]_vars PROVE UnwindInv'
    OBVIOUS
<1> USE DEF TypeInv, TypeOK, CleanupOK, LoopInv, UnwindInv, CleanupNotEarly,
        BeforeCmd
<1>1. CASE Start \/ Validate
    BY <1>1 DEF Start, Validate, cleanupVars, envVars
<1>2. CASE setupNetwork \/ startCmd
    BY <1>2 DEF setupNetwork, startCmd, cleanupVars, envVars
<1>3. CASE \/ startCmdFails \/ waitForSocket \/ createFifo \/ configure
           \/ startInstance \/ StartReturnsErr
    BY <1>3 DEF startCmdFails, waitForSocket, startVMMSucceeds, startVMMFails,
       createFifo, configure, startInstance, StartReturnsErr, cleanupVars,
       envVars
<1>4. CASE registerFifo
  <2>1. cleanupFuncs' \in Seq(Resources) /\ Len(cleanupFuncs') = Len(cleanupFuncs) + 1
      BY <1>4, ResourceTypes DEF registerFifo
  <2>2. n' # Len(cleanupFuncs')
      BY <1>4, <2>1 DEF registerFifo
  <2> QED
      BY <1>4, <2>2 DEF registerFifo, envVars
<1>5. CASE spc = "doCleanup" /\ CleanupBegin("start")
    BY <1>5 DEF CleanupBegin, startVars, envVars
<1>6. CASE wpc = "cleanup" /\ CleanupBegin("wait")
  <2>1. proc \in {"none", "reaped"}
      BY <1>6 DEF IInv, ProcessInv, EnvironmentOK
  <2>2. spc \notin BeforeCmd
      BY <1>6 DEF IInv, ChannelInv
  <2> QED
      BY <1>6, <2>1, <2>2 DEF CleanupBegin, startVars, envVars
<1>7. CASE CleanupNext
  <2>1. i < n /\ i' = i + 1 /\ UNCHANGED <<spc, proc, once, n, cleanupFuncs>>
      BY <1>7 DEF CleanupNext, startVars, envVars
  <2>2. ran' = Append(ran, cleanupFuncs[Len(cleanupFuncs) - i])
      BY <1>7 DEF CleanupNext, CleanupFunc
  <2>3. Len(ran') = i'
      BY <2>1, <2>2
  <2>4. ASSUME n = Len(cleanupFuncs), NEW j \in 1 .. i + 1
        PROVE  ran'[j] = cleanupFuncs[n + 1 - j]
      BY <1>7, <2>1, <2>2, <2>4 DEF CleanupNext
  <2> QED
      BY <1>7, <2>1, <2>3, <2>4 DEF CleanupNext
<1>8. CASE CleanupTornRead \/ CleanupEnd
    BY <1>8 DEF CleanupTornRead, CleanupEnd, startVars, cleanupVars, envVars
<1>9. CASE WaitStep \/ ReporterStep \/ KillerStep
    BY <1>9 DEF WaitStep, Reap, AwaitShutdown, WaitCleaned, CloseErrCh,
       CloseCleanupCh, ReporterStep, ReporterRecv, ReporterClose, KillerStep,
       KillerCancel, KillerExit, KillerStopped, startVars, cleanupVars, envVars
<1>10. ASSUME NEW c \in Callers, CallerStep(c) \/ CallerCalls(c)
       PROVE  UnwindInv'
    BY <1>10 DEF CallerStep, CallerCalls, Wait, stopVMM, StopReturns,
       sendCtrlAltDel, Invoke, Shutdown, startVars, cleanupVars, envVars
<1>11. CASE ForwardSignal \/ ForwarderExit \/ Cancel \/ VMMReady
    BY <1>11 DEF ForwardSignal, ForwarderExit, Cancel, VMMReady, startVars,
       cleanupVars, envVars
<1>12. CASE VMMExit \/ Terminated \/ Jailer
  <2>1. UNCHANGED <<startVars, cleanupVars>>
      BY <1>12 DEF VMMExit, Terminated, Jailer
  <2>2. proc' = proc \/ proc = "running"
      BY <1>12 DEF VMMExit, Terminated, Jailer, IInv, ProcessInv
  <2> QED
      BY <2>1, <2>2 DEF startVars, cleanupVars
<1>13. CASE UNCHANGED vars
    BY <1>13 DEF vars, startVars, cleanupVars, envVars
<1> QED
    BY <1>1, <1>2, <1>3, <1>4, <1>5, <1>6, <1>7, <1>8, <1>9, <1>10, <1>11,
       <1>12, <1>13 DEF Next, StartStep, doCleanup, Environment

\* A cleanup that ran over a list that did not grow ran all of it, backwards.
THEOREM CleanupUnwinds == Spec => []UnwindsInOrder
<1>1. ASSUME TypeInv, IInv, UnwindInv PROVE UnwindsInOrder
  <2> SUFFICES ASSUME once = "done", n = Len(cleanupFuncs)
               PROVE  ran = Reverse(cleanupFuncs)
      BY DEF UnwindsInOrder
  <2>1. /\ ran \in Seq(Resources) /\ cleanupFuncs \in Seq(Resources)
        /\ Len(ran) = Len(cleanupFuncs)
      BY <1>1 DEF TypeInv, TypeOK, CleanupOK, IInv, ProcessInv, UnwindInv
  <2>2. \A j \in 1 .. Len(cleanupFuncs) :
            ran[j] = cleanupFuncs[Len(cleanupFuncs) - j + 1]
      BY <1>1 DEF TypeInv, TypeOK, CleanupOK, IInv, ProcessInv, UnwindInv
  <2> QED
      BY <2>1, <2>2 DEF Reverse
<1> QED
    BY <1>1, Invariants, InitUnwindInv, NextUnwindInv, PTL DEF Spec

\* No cleanup function runs under a machine that is up.
THEOREM CleanupSafe == Spec => []CleanupNotEarly
<1>1. UnwindInv => CleanupNotEarly
    BY DEF UnwindInv
<1> QED
    BY <1>1, Invariants, InitUnwindInv, NextUnwindInv, PTL DEF Spec
-------------------------------------------------------------------------------
(* What is left behind. *)

Registered == Range(cleanupFuncs)
Undone == Range(ran)
LateSock == Daemonize \/ "timeout" \in fatalErr

\* Everything that exists is registered for cleanup, except for a fifo between its
\* creation and its registration.
HeldInv ==
    /\ \A r \in held : r \in Registered \/ (spc = "registerFifo" /\ r = Fifos[fi + 1])
    /\ proc # "none" => "sock" \in Registered
    /\ vmm # "none" => proc # "none"

\* The functions registered so far, and those run, are of resources that are set up
\* only once; so what exists although its function was run is a resource whose
\* function failed, or the socket of a firecracker that came up late.
UndoneInv ==
    /\ Registered \subseteq
        {"sock"} \cup Range(NetResources) \cup {Fifos[j] : j \in 1 .. fi}
    /\ Undone \subseteq Registered
    /\ \A r \in held \cap Undone : r \in cleanupErr \/ (r = "sock" /\ LateSock)

\* Where Start and firecracker are when the cleanup begins; Start returns an error
\* after the cleanup, and nil only with a process.
StageInv ==
    /\ spc \in BeforeCmd \cup {"waitForSocket"} \/ rpc = "recv" => fatalErr = {}
    /\ spc \in BeforeCmd => vmm = "none"
    /\ vmm = "booting" /\ ~LateSock => once = "new" /\ spc = "waitForSocket"
    /\ spc = "err" => once = "done"
    /\ spc \in {"waitForSocket", "CreateLogFiles", "registerFifo", "startInstance",
                "ok"} => wpc # "off"

LeakInv == HeldInv /\ UndoneInv /\ StageInv

\* Who runs the cleanup, and what lets the goroutine in cmd.Wait get there under a
\* daemonized jailer.
DaemonInv ==
    /\ once # "new" => \/ by = "start" /\ spc \in {"doCleanup", "err"}
                       \/ by = "wait" /\ wpc \in {"cleanup", "send"} \cup ErrSent
    /\ wpc \in {"off", "wait", "shutdownCh", "cleanup"} => waitErr \in {{}, {"exit"}}
    /\ Daemonize /\ wpc \in {"cleanup", "send"} \cup ErrSent /\ "exit" \notin waitErr
        => "shutdownCh" \in closed

\* It holds of the machine returned by NewMachine.
LEMMA InitDaemonInv == Init => DaemonInv
    BY DEF Init, NewMachine, DaemonInv, ErrSent

\* Every step preserves it.
LEMMA NextDaemonInv == TypeInv /\ IInv /\ DaemonInv /\ [Next]_vars => DaemonInv'
<1> SUFFICES ASSUME TypeInv, IInv, DaemonInv, [Next]_vars PROVE DaemonInv'
    OBVIOUS
<1> USE DEF DaemonInv, ErrSent, chVars, startVars, cleanupVars, goVars
<1>1. CASE \/ Start \/ Validate \/ setupNetwork \/ startCmdFails \/ startCmd
           \/ createFifo \/ registerFifo \/ configure \/ startInstance
           \/ StartReturnsErr
    BY <1>1 DEF Start, Validate, setupNetwork, startCmdFails, startCmd, Close,
       createFifo, registerFifo, configure, startInstance, StartReturnsErr,
       IInv, ChannelInv, BeforeCmd
<1>2. CASE waitForSocket
    BY <1>2 DEF waitForSocket, startVMMSucceeds, startVMMFails, Close
<1>3. CASE doCleanup
    BY <1>3 DEF doCleanup, CleanupBegin, CleanupNext, CleanupTornRead, CleanupEnd
<1>4. CASE WaitStep
    BY <1>4 DEF WaitStep, Reap, AfterReap, AwaitShutdown, WaitCleaned, ExitErr,
       CloseErrCh, CloseCleanupCh, Close
<1>5. CASE ReporterStep \/ KillerStep \/ ForwardSignal \/ ForwarderExit
    BY <1>5 DEF ReporterStep, ReporterRecv, ReporterClose, KillerStep,
       KillerCancel, KillerExit, KillerStopped, ForwardSignal, ForwarderExit, Close
<1>6. ASSUME NEW c \in Callers, CallerStep(c) \/ CallerCalls(c)
      PROVE  DaemonInv'
    BY <1>6 DEF CallerStep, CallerCalls, Wait, stopVMM, StopReturns,
       sendCtrlAltDel, Invoke, Shutdown, Close
<1>7. CASE Environment
  <2>1. UNCHANGED <<spc, wpc, by, once, closed>>
      BY <1>7 DEF Environment, Cancel, VMMReady, VMMExit, Terminated, Jailer
  <2>2. \/ UNCHANGED waitErr
        \/ waitErr' \in {{}, {"exit"}} /\ wpc = "wait"
      BY <1>7 DEF Environment, Cancel, VMMReady, VMMExit, Terminated, Jailer,
         IInv, ProcessInv
  <2> QED
      BY <2>1, <2>2
<1>8. CASE UNCHANGED vars
    BY <1>8 DEF vars
<1> QED
    BY <1>1, <1>2, <1>3, <1>4, <1>5, <1>6, <1>7, <1>8 DEF Next, StartStep

\* The machine over a daemon that still runs is torn down only by a Shutdown, by a
\* failed Start, or because the jailer itself failed.
THEOREM DaemonSafe == Spec => []DaemonKept
<1>1. TypeInv /\ IInv /\ DaemonInv => DaemonKept
    BY DEF IInv, ProcessInv, DaemonInv, DaemonKept
<1> QED
    BY <1>1, Invariants, InitDaemonInv, NextDaemonInv, PTL DEF Spec

\* A list that is extended has the new elements as well.
LEMMA RangeGrows ==
    /\ \A s \in Seq(Resources), x \in Resources :
        Range(Append(s, x)) = Range(s) \cup {x}
    /\ \A s, t \in Seq(Resources) : Range(s \o t) = Range(s) \cup Range(t)
<1>1. ASSUME NEW s \in Seq(Resources), NEW x \in Resources
      PROVE  Range(Append(s, x)) = Range(s) \cup {x}
  <2> DEFINE t == Append(s, x)
  <2>1. /\ DOMAIN t = 1 .. Len(s) + 1 /\ t[Len(s) + 1] = x
        /\ \A j \in 1 .. Len(s) : t[j] = s[j]
      OBVIOUS
  <2>2. \A j \in 1 .. Len(s) + 1 : j \in 1 .. Len(s) \/ j = Len(s) + 1
      OBVIOUS
  <2>3. DOMAIN s = 1 .. Len(s) /\ Len(s) + 1 \in 1 .. Len(s) + 1
        /\ \A j \in 1 .. Len(s) : j \in 1 .. Len(s) + 1
      OBVIOUS
  <2> HIDE DEF t
  <2>4. Range(t) = Range(s) \cup {x}
      BY <2>1, <2>2, <2>3 DEF Range
  <2> QED
      BY <2>4 DEF t
<1>2. ASSUME NEW s \in Seq(Resources), NEW t \in Seq(Resources)
      PROVE  Range(s \o t) = Range(s) \cup Range(t)
  <2> DEFINE w == s \o t
  <2>1. /\ DOMAIN w = 1 .. Len(s) + Len(t)
        /\ \A j \in 1 .. Len(s) : w[j] = s[j]
        /\ \A j \in 1 .. Len(t) : w[Len(s) + j] = t[j]
      OBVIOUS
  <2>2. DOMAIN s = 1 .. Len(s) /\ DOMAIN t = 1 .. Len(t)
      OBVIOUS
  <2>3. ASSUME NEW j \in 1 .. Len(s) + Len(t)
        PROVE  w[j] \in Range(s) \cup Range(t)
    <3>1. CASE j \in 1 .. Len(s)
        BY <2>1, <2>2, <3>1 DEF Range
    <3>2. CASE j \notin 1 .. Len(s)
      <4>1. j - Len(s) \in 1 .. Len(t) /\ j = Len(s) + (j - Len(s))
          BY <3>2
      <4>2. w[j] = t[j - Len(s)]
          BY <2>1, <4>1
      <4> QED
          BY <2>2, <4>1, <4>2 DEF Range
    <3> QED
        BY <3>1, <3>2
  <2>4. /\ \A j \in 1 .. Len(s) : j \in 1 .. Len(s) + Len(t)
        /\ \A j \in 1 .. Len(t) : Len(s) + j \in 1 .. Len(s) + Len(t)
      OBVIOUS
  <2> HIDE DEF w
  <2>5. Range(s) \subseteq Range(w) /\ Range(t) \subseteq Range(w)
      BY <2>1, <2>2, <2>4 DEF Range
  <2>6. Range(w) \subseteq Range(s) \cup Range(t)
    <3>1. Range(w) = {w[j] : j \in 1 .. Len(s) + Len(t)}
        BY <2>1 DEF Range
    <3> QED
        BY <2>3, <3>1
  <2>7. Range(w) = Range(s) \cup Range(t)
      BY <2>5, <2>6
  <2> QED
      BY <2>7 DEF w
<1> QED
    BY <1>1, <1>2

\* What setupNetwork registers is what it has set up; a fifo is neither the socket,
\* nor of the network, nor another fifo.
LEMMA ResourcesDistinct ==
    /\ \A k \in 0 .. Len(NetResources) :
        /\ Range(NetRegistered(k)) = {NetResources[j] : j \in 1 .. k}
        /\ Range(NetRegistered(k)) \subseteq Range(NetResources)
    /\ \A k \in 0 .. Len(Fifos) - 1 :
        /\ Fifos[k + 1] \notin {"sock"} \cup Range(NetResources)
        /\ Fifos[k + 1] \notin {Fifos[j] : j \in 1 .. k}
        /\ {Fifos[j] : j \in 1 .. k + 1} = {Fifos[j] : j \in 1 .. k} \cup {Fifos[k + 1]}
<1> USE ResourcesAssumption
<1>1. ASSUME NEW k \in 0 .. Len(NetResources)
      PROVE  /\ Range(NetRegistered(k)) = {NetResources[j] : j \in 1 .. k}
             /\ Range(NetRegistered(k)) \subseteq Range(NetResources)
  <2>1. /\ DOMAIN NetRegistered(k) = 1 .. k
        /\ \A j \in 1 .. k : NetRegistered(k)[j] = NetResources[j]
      BY DEF NetRegistered
  <2>2. DOMAIN NetResources = 1 .. Len(NetResources)
      OBVIOUS
  <2>3. Range(NetRegistered(k)) = {NetResources[j] : j \in 1 .. k}
      BY <2>1 DEF Range
  <2>4. {NetResources[j] : j \in 1 .. k} \subseteq Range(NetResources)
      BY <2>2 DEF Range
  <2> QED
      BY <2>3, <2>4
<1>2. ASSUME NEW k \in 0 .. Len(Fifos) - 1
      PROVE  /\ Fifos[k + 1] \notin {"sock"} \cup Range(NetResources)
             /\ Fifos[k + 1] \notin {Fifos[j] : j \in 1 .. k}
             /\ {Fifos[j] : j \in 1 .. k + 1}
                    = {Fifos[j] : j \in 1 .. k} \cup {Fifos[k + 1]}
  <2>1. k + 1 \in 1 .. Len(Fifos) /\ DOMAIN Fifos = 1 .. Len(Fifos)
      OBVIOUS
  <2>2. Fifos[k + 1] \in Range(Fifos)
      BY <2>1 DEF Range
  <2>3. \A j \in 1 .. k : j \in 1 .. Len(Fifos) /\ j # k + 1 /\ j \in 1 .. k + 1
      OBVIOUS
  <2>4. \A j \in 1 .. k + 1 : j \in 1 .. k \/ j = k + 1
      OBVIOUS
  <2>5. Fifos[k + 1] \notin {Fifos[j] : j \in 1 .. k}
      BY <2>1, <2>3
  <2>6. {Fifos[j] : j \in 1 .. k + 1} = {Fifos[j] : j \in 1 .. k} \cup {Fifos[k + 1]}
    <3>1. k + 1 \in 1 .. k + 1
        OBVIOUS
    <3> QED
        BY <2>3, <2>4, <3>1
  <2> QED
      BY <2>2, <2>5, <2>6
<1> QED
    BY <1>1, <1>2

\* It holds of the machine returned by NewMachine.
LEMMA InitLeakInv == Init => LeakInv
<1> SUFFICES ASSUME NewMachine PROVE LeakInv
    BY DEF Init
<1>1. Registered = {} /\ Undone = {} /\ held = {}
    BY DEF NewMachine, Registered, Undone, Range
<1> QED
    BY <1>1 DEF NewMachine, LeakInv, HeldInv, UndoneInv, StageInv, BeforeCmd

\* Where Start, the reporter and firecracker are.
LEMMA NextStageInv ==
    TypeInv /\ IInv /\ UnwindInv /\ StageInv /\ [Next]_vars => StageInv'
<1> SUFFICES ASSUME TypeInv, IInv, UnwindInv, StageInv, [Next]_vars PROVE StageInv'
    OBVIOUS
<1> USE DEF StageInv, BeforeCmd, LateSock, startVars, goVars, cleanupVars, envVars
<1>1. CASE Start \/ Validate \/ setupNetwork
  <2>1. vmm # "booting"
      BY <1>1 DEF Start, Validate, setupNetwork
  <2> QED
      BY <1>1, <2>1 DEF Start, Validate, setupNetwork
<1>2. CASE startCmdFails
    BY <1>2 DEF startCmdFails, IInv, ChannelInv
<1>3. CASE startCmd
    BY <1>3 DEF startCmd, UnwindInv
<1>4. CASE waitForSocket
  <2>1. CASE spc' = "CreateLogFiles" /\ UNCHANGED <<fatalErr, vmm>>
    <3>1. wpc # "off" /\ wpc' # "off"
        BY <1>4 DEF waitForSocket
    <3>2. vmm # "booting" \/ LateSock
        BY <1>4, <2>1 DEF waitForSocket, startVMMSucceeds, startVMMFails,
           IInv, ProcessInv
    <3> QED
        BY <2>1, <3>1, <3>2, <1>4 DEF waitForSocket
  <2>2. CASE spc' = "doCleanup" /\ UNCHANGED <<vmm, rpc>>
    <3>1. vmm # "booting" \/ LateSock'
        BY <1>4, <2>2 DEF waitForSocket, startVMMSucceeds, startVMMFails,
           IInv, ProcessInv
    <3> QED
        BY <2>2, <3>1, <1>4 DEF waitForSocket, IInv, ChannelInv
  <2> QED
      BY <1>4, <2>1, <2>2 DEF waitForSocket, startVMMSucceeds, startVMMFails
<1>5. CASE createFifo \/ registerFifo \/ configure \/ startInstance \/ StartReturnsErr
    BY <1>5 DEF createFifo, registerFifo, configure, startInstance, StartReturnsErr
<1>6. CASE doCleanup
  <2>1. CASE once = "new" /\ once' = "busy" 
    <3>1. spc # "waitForSocket" \/ wpc = "cleanup"
        BY <1>6, <2>1 DEF doCleanup, CleanupBegin, CleanupNext, CleanupTornRead,
           CleanupEnd
    <3> QED
        BY <1>6, <2>1, <3>1 DEF doCleanup, CleanupBegin, CleanupNext,
           CleanupTornRead, CleanupEnd, IInv, ProcessInv
  <2>2. CASE once # "new"
      BY <1>6, <2>2 DEF doCleanup, CleanupBegin, CleanupNext, CleanupTornRead,
         CleanupEnd
  <2> QED
      BY <1>6, <2>1, <2>2 DEF doCleanup, CleanupBegin, CleanupNext,
         CleanupTornRead, CleanupEnd
<1>7. CASE WaitStep
    BY <1>7 DEF WaitStep, Reap, AfterReap, AwaitShutdown, WaitCleaned, CloseErrCh,
       CloseCleanupCh
<1>8. CASE ReporterStep
  <2>1. CASE ReporterRecv
    <3>1. proc # "running"
        BY <2>1 DEF ReporterRecv, NoMoreValues, IInv, ChannelInv, ProcessInv
    <3> QED
        BY <2>1, <3>1 DEF ReporterRecv, NoMoreValues, IInv, ChannelInv, ProcessInv
  <2>2. CASE ReporterClose
      BY <2>2 DEF ReporterClose
  <2> QED
      BY <1>8, <2>1, <2>2 DEF ReporterStep
<1>9. CASE KillerStep \/ ForwardSignal \/ ForwarderExit
    BY <1>9 DEF KillerStep, KillerCancel, KillerExit, KillerStopped,
       ForwardSignal, ForwarderExit
<1>10. ASSUME NEW c \in Callers, CallerStep(c) \/ CallerCalls(c)
       PROVE  StageInv'
    BY <1>10 DEF CallerStep, CallerCalls, Wait, stopVMM, StopReturns,
       sendCtrlAltDel, Invoke, Shutdown
<1>11. CASE Environment
  <2>1. UNCHANGED <<startVars, goVars, fatalErr, cleanupVars>>
      BY <1>11 DEF Environment, Cancel, VMMReady, VMMExit, Terminated, Jailer
  <2>2. vmm' = "booting" => vmm = "booting" \/ Daemonize
      BY <1>11 DEF Environment, Cancel, VMMReady, VMMExit, Terminated, Jailer
  <2>3. vmm' = vmm \/ vmm # "none" \/ proc = "running"
      BY <1>11 DEF Environment, Cancel, VMMReady, VMMExit, Terminated, Jailer
  <2>4. spc \in BeforeCmd => vmm' = "none"
      BY <2>3 DEF IInv, ChannelInv, ProcessInv
  <2> QED
      BY <2>1, <2>2, <2>4
<1>12. CASE UNCHANGED vars
    BY <1>12 DEF vars
<1> QED
    BY <1>1, <1>2, <1>3, <1>4, <1>5, <1>6, <1>7, <1>8, <1>9, <1>10, <1>11, <1>12
       DEF Next, StartStep

\* Every step preserves that what exists is registered.
LEMMA NextHeldInv ==
    TypeInv /\ IInv /\ HeldInv /\ [Next]_vars => HeldInv'
<1> SUFFICES ASSUME TypeInv, IInv, HeldInv, [Next]_vars PROVE HeldInv'
    OBVIOUS
<1> USE DEF HeldInv, startVars, cleanupVars, envVars
<1>1. CASE setupNetwork
  <2>1. PICK k \in 0 .. Len(NetResources) :
            /\ held' = held \cup {NetResources[j] : j \in 1 .. k}
            /\ cleanupFuncs' = cleanupFuncs \o NetRegistered(k)
      BY <1>1 DEF setupNetwork
  <2>2. Registered' = Registered \cup {NetResources[j] : j \in 1 .. k}
      BY <2>1, RangeGrows, ResourceTypes, ResourcesDistinct
         DEF Registered, TypeInv, TypeOK, CleanupOK
  <2> QED
      BY <1>1, <2>1, <2>2 DEF setupNetwork
<1>2. CASE startCmd
  <2>1. Registered' = Registered \cup {"sock"}
      BY <1>2, RangeGrows, ResourceTypes
         DEF startCmd, Registered, TypeInv, TypeOK, CleanupOK
  <2> QED
      BY <1>2, <2>1 DEF startCmd
<1>3. CASE createFifo
  <2>1. UNCHANGED <<Registered, proc, vmm, fi>> /\ spc = "CreateLogFiles"
      BY <1>3 DEF createFifo, Registered
  <2>2. \/ held' = held \cup {Fifos[fi + 1]} /\ spc' = "registerFifo"
        \/ held' = held
      BY <1>3 DEF createFifo
  <2> QED
      BY <2>1, <2>2
<1>4. CASE registerFifo
  <2>1. Registered' = Registered \cup {Fifos[fi + 1]}
    <3>1. Fifos[fi + 1] \in Resources
        BY <1>4, ResourceTypes DEF registerFifo, TypeInv, TypeOK, CleanupOK, LoopInv
    <3> QED
        BY <1>4, <3>1, RangeGrows
           DEF registerFifo, Registered, TypeInv, TypeOK, CleanupOK
  <2> QED
      BY <1>4, <2>1 DEF registerFifo
<1>5. CASE \/ Start \/ Validate \/ startCmdFails \/ waitForSocket \/ configure
           \/ startInstance \/ StartReturnsErr
  <2>1. UNCHANGED <<cleanupFuncs, held, proc, vmm, fi>> /\ spc # "registerFifo"
      BY <1>5 DEF Start, Validate, startCmdFails, waitForSocket, configure,
         startInstance, StartReturnsErr
  <2> QED
      BY <2>1 DEF Registered
<1>6. CASE doCleanup
  <2>1. UNCHANGED <<cleanupFuncs, proc, vmm, spc, fi>> /\ held' \subseteq held
      BY <1>6 DEF doCleanup, CleanupBegin, CleanupNext, CleanupTornRead, CleanupEnd
  <2> QED
      BY <2>1 DEF Registered
<1>7. CASE WaitStep \/ ReporterStep \/ KillerStep \/ ForwardSignal \/ ForwarderExit
  <2>1. UNCHANGED <<cleanupFuncs, held, vmm, spc, fi>> /\ (proc' = "none" <=> proc = "none")
      BY <1>7 DEF WaitStep, Reap, AwaitShutdown, WaitCleaned, CloseErrCh,
         CloseCleanupCh, ReporterStep, ReporterRecv, ReporterClose, KillerStep,
         KillerCancel, KillerExit, KillerStopped, ForwardSignal, ForwarderExit
  <2> QED
      BY <2>1 DEF Registered
<1>8. ASSUME NEW c \in Callers, CallerStep(c) \/ CallerCalls(c)
      PROVE  HeldInv'
  <2>1. UNCHANGED <<cleanupFuncs, held, proc, vmm, spc, fi>>
      BY <1>8 DEF CallerStep, CallerCalls, Wait, stopVMM, StopReturns,
         sendCtrlAltDel, Invoke, Shutdown
  <2> QED
      BY <2>1 DEF Registered
<1>9. CASE Environment
  <2>1. UNCHANGED <<cleanupFuncs, spc, fi>> /\ (proc' = "none" => proc = "none")
      BY <1>9 DEF Environment, Cancel, VMMReady, VMMExit, Terminated, Jailer
  <2>2. held' = held \/ (held' = held \cup {"sock"} /\ vmm # "none")
      BY <1>9 DEF Environment, Cancel, VMMReady, VMMExit, Terminated, Jailer
  <2>3. vmm' # "none" => proc' # "none"
      BY <1>9 DEF Environment, Cancel, VMMReady, VMMExit, Terminated, Jailer
  <2>4. proc' # "none" => proc # "none"
      BY <1>9 DEF Environment, Cancel, VMMReady, VMMExit, Terminated, Jailer
  <2> QED
      BY <2>1, <2>2, <2>3, <2>4 DEF Registered
<1>10. CASE UNCHANGED vars
    BY <1>10 DEF vars, Registered
<1> QED
    BY <1>1, <1>2, <1>3, <1>4, <1>5, <1>6, <1>7, <1>8, <1>9, <1>10 DEF Next,
       StartStep

\* Every step preserves that what exists has not been undone.
LEMMA NextUndoneInv ==
    TypeInv /\ IInv /\ UnwindInv /\ LeakInv /\ [Next]_vars => UndoneInv'
<1> SUFFICES ASSUME TypeInv, IInv, UnwindInv, LeakInv, [Next]_vars PROVE UndoneInv'
    OBVIOUS
<1> USE DEF LeakInv, UndoneInv, startVars, cleanupVars, envVars
<1>0. once = "new" => Undone = {}
    BY DEF UnwindInv, Undone, Range
<1>1. CASE setupNetwork
  <2>1. PICK k \in 0 .. Len(NetResources) :
            cleanupFuncs' = cleanupFuncs \o NetRegistered(k)
      BY <1>1 DEF setupNetwork
  <2>2. /\ Registered' = Registered \cup Range(NetRegistered(k))
        /\ Range(NetRegistered(k)) \subseteq Range(NetResources)
      BY <2>1, RangeGrows, ResourceTypes, ResourcesDistinct
         DEF Registered, TypeInv, TypeOK, CleanupOK
  <2>3. Undone = {} /\ Undone' = {} /\ fi' = fi
      BY <1>0, <1>1 DEF setupNetwork, UnwindInv, BeforeCmd, Undone
  <2> QED
      BY <2>2, <2>3
<1>2. CASE startCmd
  <2>1. Registered' = Registered \cup {"sock"}
      BY <1>2, RangeGrows, ResourceTypes
         DEF startCmd, Registered, TypeInv, TypeOK, CleanupOK
  <2>2. Undone' = Undone /\ UNCHANGED <<fi, held, cleanupErr, fatalErr>>
      BY <1>2 DEF startCmd, Undone
  <2> QED
      BY <2>1, <2>2 DEF LateSock
<1>3. CASE createFifo
  <2>1. UNCHANGED <<Registered, Undone, fi, cleanupErr, LateSock>>
      BY <1>3 DEF createFifo, Registered, Undone, LateSock
  <2>2. held' = held \/ held' = held \cup {Fifos[fi + 1]}
      BY <1>3 DEF createFifo
  <2>3. Fifos[fi + 1] \notin Undone
    <3>1. fi \in 0 .. Len(Fifos) - 1
        BY <1>3, ResourceTypes DEF createFifo, TypeInv, TypeOK, CleanupOK
    <3> QED
        BY <3>1, ResourcesDistinct
  <2> QED
      BY <2>1, <2>2, <2>3
<1>4. CASE registerFifo
  <2>1. fi \in 0 .. Len(Fifos) - 1 /\ fi' = fi + 1
      BY <1>4, ResourceTypes DEF registerFifo, TypeInv, TypeOK, CleanupOK, LoopInv
  <2>2. Registered' = Registered \cup {Fifos[fi + 1]}
    <3>1. Fifos[fi + 1] \in Resources
        BY <2>1, ResourceTypes
    <3> QED
        BY <1>4, <3>1, RangeGrows
           DEF registerFifo, Registered, TypeInv, TypeOK, CleanupOK
  <2>3. UNCHANGED <<Undone, held, cleanupErr, LateSock>>
      BY <1>4 DEF registerFifo, Undone, LateSock
  <2>4. {Fifos[j] : j \in 1 .. fi'} = {Fifos[j] : j \in 1 .. fi} \cup {Fifos[fi + 1]}
      BY <2>1, ResourcesDistinct
  <2> QED
      BY <2>2, <2>3, <2>4
<1>5. CASE \/ Start \/ Validate \/ startCmdFails \/ configure \/ startInstance
           \/ StartReturnsErr \/ waitForSocket
  <2>1. UNCHANGED <<cleanupFuncs, ran, held, cleanupErr, fi>>
      BY <1>5 DEF Start, Validate, startCmdFails, waitForSocket, configure,
         startInstance, StartReturnsErr
  <2>2. LateSock => LateSock'
      BY <1>5 DEF Start, Validate, startCmdFails, waitForSocket, startVMMSucceeds,
         startVMMFails, configure, startInstance, StartReturnsErr, LateSock,
         StageInv, BeforeCmd
  <2> QED
      BY <2>1, <2>2 DEF Registered, Undone
<1>6. CASE CleanupNext
  <2>1. UNCHANGED <<Registered, fi, LateSock>>
      BY <1>6 DEF CleanupNext, Registered, LateSock
  <2>2. CleanupFunc \in Registered /\ CleanupFunc \in Resources
    <3>1. Len(cleanupFuncs) - i \in DOMAIN cleanupFuncs
        BY <1>6 DEF CleanupNext, TypeInv, TypeOK, CleanupOK
    <3> QED
        BY <3>1 DEF CleanupFunc, Registered, Range, TypeInv, TypeOK, CleanupOK
  <2>3. Undone' = Undone \cup {CleanupFunc}
      BY <1>6, <2>2, RangeGrows DEF CleanupNext, Undone, TypeInv, TypeOK, CleanupOK
  <2>4. \/ held' = held \ {CleanupFunc} /\ cleanupErr' = cleanupErr
        \/ held' = held /\ cleanupErr' = cleanupErr \cup {CleanupFunc}
      BY <1>6 DEF CleanupNext
  <2> QED
      BY <2>1, <2>2, <2>3, <2>4
<1>7. CASE \/ spc = "doCleanup" /\ CleanupBegin("start")
           \/ wpc = "cleanup" /\ CleanupBegin("wait")
           \/ CleanupTornRead \/ CleanupEnd
    BY <1>7 DEF CleanupBegin, CleanupTornRead, CleanupEnd, Registered, Undone,
       LateSock
<1>8. CASE WaitStep \/ KillerStep \/ ForwardSignal \/ ForwarderExit
  <2>1. UNCHANGED <<cleanupFuncs, ran, held, cleanupErr, fatalErr, fi>>
      BY <1>8 DEF WaitStep, Reap, AwaitShutdown, WaitCleaned, CloseErrCh,
         CloseCleanupCh, KillerStep, KillerCancel, KillerExit, KillerStopped,
         ForwardSignal, ForwarderExit
  <2> QED
      BY <2>1 DEF Registered, Undone, LateSock
<1>9. CASE ReporterStep
  <2>1. UNCHANGED <<cleanupFuncs, ran, held, cleanupErr, fi>>
      BY <1>9 DEF ReporterStep, ReporterRecv, ReporterClose
  <2>2. LateSock => LateSock'
      BY <1>9 DEF ReporterStep, ReporterRecv, ReporterClose, LateSock, StageInv
  <2> QED
      BY <2>1, <2>2 DEF Registered, Undone
<1>10. ASSUME NEW c \in Callers, CallerStep(c) \/ CallerCalls(c)
       PROVE  UndoneInv'
  <2>1. UNCHANGED <<cleanupFuncs, ran, held, cleanupErr, fatalErr, fi>>
      BY <1>10 DEF CallerStep, CallerCalls, Wait, stopVMM, StopReturns,
         sendCtrlAltDel, Invoke, Shutdown
  <2> QED
      BY <2>1 DEF Registered, Undone, LateSock
<1>11. CASE Environment
  <2>1. UNCHANGED <<cleanupFuncs, ran, cleanupErr, fatalErr, fi>>
      BY <1>11 DEF Environment, Cancel, VMMReady, VMMExit, Terminated, Jailer
  <2>2. held' = held \/ (held' = held \cup {"sock"} /\ vmm = "booting")
      BY <1>11 DEF Environment, Cancel, VMMReady, VMMExit, Terminated, Jailer
  <2>3. vmm = "booting" => LateSock \/ Undone = {}
      BY <1>0 DEF StageInv
  <2> QED
      BY <2>1, <2>2, <2>3 DEF Registered, Undone, LateSock
<1>12. CASE UNCHANGED vars
    BY <1>12 DEF vars, Registered, Undone, LateSock
<1> QED
    BY <1>1, <1>2, <1>3, <1>4, <1>5, <1>6, <1>7, <1>8, <1>9, <1>10, <1>11, <1>12
       DEF Next, StartStep, doCleanup

\* When a machine is down, nothing that Start set up is left but what could not be
\* undone, what firecracker opened after a timeout or as a daemon, and what was
\* registered while the cleanup ran: for every list of resources and fifos.
THEOREM NothingLeaks == Spec => []NoLeak
<1>1. ASSUME TypeInv, IInv, UnwindInv, LeakInv PROVE NoLeak
  <2> SUFFICES ASSUME spc \in {"ok", "err"}, "timeout" \notin fatalErr,
                      proc = "none" \/ wpc = "done",
                      NEW r \in held, r \notin cleanupErr, Daemonize => r # "sock"
               PROVE  /\ r \in Registered \ Undone
                      /\ n # Len(cleanupFuncs)
      BY DEF NoLeak, Registered, Undone
  <2>1. r \in Registered \ Undone
      BY <1>1 DEF LeakInv, HeldInv, UndoneInv, LateSock
  <2>2. once = "done"
      BY <1>1 DEF LeakInv, StageInv, IInv, ProcessInv, ErrSent
  <2>3. ASSUME n = Len(cleanupFuncs) PROVE FALSE
    <3>1. PICK j \in 1 .. Len(cleanupFuncs) : r = cleanupFuncs[j]
        BY <1>1, <2>1 DEF Registered, Range, TypeInv, TypeOK, CleanupOK
    <3>2. /\ n + 1 - j \in 1 .. i /\ n + 1 - (n + 1 - j) = j
          /\ DOMAIN ran = 1 .. i
        BY <1>1, <2>2, <2>3, <3>1
           DEF TypeInv, TypeOK, CleanupOK, IInv, ProcessInv, UnwindInv
    <3>3. ran[n + 1 - j] = r
        BY <1>1, <2>2, <2>3, <3>1, <3>2 DEF UnwindInv
    <3> QED
        BY <2>1, <3>2, <3>3 DEF Undone, Range
  <2> QED
      BY <2>1, <2>3
<1>2. TypeInv /\ IInv /\ UnwindInv /\ LeakInv /\ [Next]_vars => LeakInv'
    BY NextStageInv, NextHeldInv, NextUndoneInv DEF LeakInv
<1> QED
    BY <1>1, <1>2, Invariants, InitUnwindInv, NextUnwindInv, InitLeakInv, PTL
       DEF Spec
===============================================================================
