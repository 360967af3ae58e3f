------------------------------ MODULE GuestProofs ------------------------------
(***************************************************************************)
(* What the operations of a machine send, and the invariants of the calls  *)
(* of Guest, for any number of goroutines: the lemmas SessionProofs rests  *)
(* on.                                                                     *)
(***************************************************************************)
EXTENDS Guest, SequenceTheorems, TLAPS

-------------------------------------------------------------------------------
(* What the operations send. *)

\* The request reaches the operation of the API that is asked for, and its reader
\* takes the code of success, and no other, for a result of the asserted type.
Understood(r, a) ==
    /\ Operations(r) \subseteq {a.operation}
    /\ r.reader.ok = Done(r) /\ r.reader.ok \notin r.reader.typed
    /\ r.reader.result = r.asserted /\ r.asserted # "error"

\* A request r that operation o sends for a; only PauseVM and ResumeVM change the
\* state of the guest.
Carried(o, r, a) ==
    /\ Understood(r, a)
    /\ o \in AsAsked => r.id = a.id /\ r.body = a.body
    /\ a = [operation |-> a.operation, id |-> a.id, body |-> a.body]
    /\ a.operation = "patchVm" <=> SetsState(o)

SendsNone(o) == Sends[o] = <<>> /\ Asks[o] = <<>> /\ ~SetsState(o)
SendsOne(o) ==
    \E r, a : Sends[o] = <<r>> /\ Asks[o] = <<a>> /\ Carried(o, r, a)
SendsTwo(o) ==
    \E r, a, s, b :
        /\ Sends[o] = <<r, s>> /\ Asks[o] = <<a, b>>
        /\ Carried(o, r, a) /\ Carried(o, s, b) /\ ~SetsState(o)

\* Two requests of one each make a sequence of two.
LEMMA ConcatTwo ==
    ASSUME NEW a, NEW b PROVE <<a>> \o <<b>> = <<a, b>>
<1> DEFINE S == {a, b} w == <<a>> \o <<b>> v == <<a, b>>
<1>1. w \in Seq(S) /\ Len(w) = 2 /\ w[1] = a /\ w[2] = b
    BY <<a>> \in Seq(S), <<b>> \in Seq(S), ConcatProperties
<1>2. v \in Seq(S) /\ Len(v) = 2 /\ v[1] = a /\ v[2] = b
    OBVIOUS
<1> HIDE DEF w, v
<1>3. \A i \in 1 .. Len(w) : w[i] = v[i]
  <2>1. \A i \in 1 .. 2 : i = 1 \/ i = 2
      OBVIOUS
  <2> QED
      BY <1>1, <1>2, <2>1
<1>4. w = v
    BY <1>1, <1>2, <1>3, SeqEqual
<1> QED
    BY <1>4 DEF w, v

\* Every operation sends one request for each thing it asks for, in that order.
LEMMA SendsAsks ==
    \A o \in DOMAIN Sends : SendsNone(o) \/ SendsOne(o) \/ SendsTwo(o)
<1> USE DEF Sends, Asks, Ask, Rates, AsAsked, SendsNone, SendsOne, SendsTwo,
            Carried, Understood, SetsState, Operations, Paths, Done,
            Nil, Direct!Nil, Client!Nil, Client!NoBody, Client!RequestTimeout,
            Client!HalfTimeout, Client!CallerContext, Client!CallerContextOnly,
            Client!NewParams, Client!NewParamsWithContext, Client!SetContext,
            Client!SetTimeout, Client!Written, Client!Ops!Submit,
            Client!Ops!Reader
<1>1. SendsNone("snapshotStarted")
    BY DEF startInstance
<1>2. SendsNone("noLogging")
    BY DEF setupLogging
<1>3. SendsNone("noMetrics")
    BY DEF setupMetrics
<1>4. SendsNone("noMmds")
    BY DEF setMmdsConfig, IfaceID
<1>5. SendsOne("PauseVM")
    BY DEF PauseVM, Client!PatchVM, Client!Ops!PatchVM,
           Client!Ops!PatchVMReader, Client!PatchVMParams
<1>6. SendsOne("ResumeVM")
    BY DEF ResumeVM, Client!PatchVM, Client!Ops!PatchVM,
           Client!Ops!PatchVMReader, Client!PatchVMParams
<1>7. SendsOne("CreateSnapshot")
    BY DEF CreateSnapshot, Client!CreateSnapshot, Client!Ops!CreateSnapshot,
           Client!Ops!CreateSnapshotReader, Client!CreateSnapshotParams
<1>8. SendsOne("loadSnapshot")
    BY DEF loadSnapshot, Client!LoadSnapshot, Client!Ops!LoadSnapshot,
           Client!Ops!LoadSnapshotReader, Client!LoadSnapshotParams
<1>9. SendsOne("CreateBalloon")
    BY DEF CreateBalloon, Client!PutBalloon, Client!Ops!PutBalloon,
           Client!Ops!PutBalloonReader, Client!PutBalloonParams
<1>10. SendsOne("GetBalloonConfig")
    BY DEF GetBalloonConfig, Client!DescribeBalloonConfig,
           Client!Ops!DescribeBalloonConfig,
           Client!Ops!DescribeBalloonConfigReader,
           Client!DescribeBalloonConfigParams
<1>11. SendsOne("UpdateBalloon")
    BY DEF UpdateBalloon, Client!PatchBalloon, Client!Ops!PatchBalloon,
           Client!Ops!PatchBalloonReader, Client!PatchBalloonParams
<1>12. SendsOne("GetBalloonStats")
    BY DEF GetBalloonStats, Client!DescribeBalloonStats,
           Client!Ops!DescribeBalloonStats,
           Client!Ops!DescribeBalloonStatsReader,
           Client!DescribeBalloonStatsParams
<1>13. SendsOne("UpdateBalloonStats")
    BY DEF UpdateBalloonStats, Client!PatchBalloonStatsInterval,
           Client!Ops!PatchBalloonStatsInterval,
           Client!Ops!PatchBalloonStatsIntervalReader,
           Client!PatchBalloonStatsIntervalParams
<1>14. SendsOne("SetMetadata")
    BY DEF SetMetadata, Client!PutMmds, Client!Ops!PutMmds,
           Client!Ops!PutMmdsReader, Client!PutMmdsParams
<1>15. SendsOne("UpdateMetadata")
    BY DEF UpdateMetadata, Client!PatchMmds, Client!Ops!PatchMmds,
           Client!Ops!PatchMmdsReader, Client!PatchMmdsParams
<1>16. SendsOne("GetMetadata")
    BY DEF GetMetadata, Client!GetMmds, Client!Ops!GetMmds,
           Client!Ops!GetMmdsReader, Client!GetMmdsParams
<1>17. SendsOne("UpdateGuestDrive")
    BY DEF UpdateGuestDrive, Client!PatchGuestDriveByID,
           Client!Ops!PatchGuestDriveByID,
           Client!Ops!PatchGuestDriveByIDReader,
           Client!PatchGuestDriveByIDParams
<1>18. SendsOne("DescribeInstanceInfo")
    BY DEF DescribeInstanceInfo, Client!GetInstanceInfo,
           Client!Ops!DescribeInstance, Client!Ops!DescribeInstanceReader,
           Client!DescribeInstanceParams
<1>19. SendsOne("GetFirecrackerVersion")
    BY DEF GetFirecrackerVersion, Client!GetFirecrackerVersion,
           Client!Ops!GetFirecrackerVersion,
           Client!Ops!GetFirecrackerVersionReader,
           Client!GetFirecrackerVersionParams
<1>20. SendsOne("createBootSource")
    BY DEF createBootSource, Client!PutGuestBootSource,
           Client!Ops!PutGuestBootSource,
           Client!Ops!PutGuestBootSourceReader,
           Client!PutGuestBootSourceParams
<1>21. SendsOne("addVsocks")
    BY DEF addVsock, Client!PutGuestVsock, Client!Ops!PutGuestVsock,
           Client!Ops!PutGuestVsockReader, Client!PutGuestVsockParams
<1>22. SendsOne("startInstance")
    BY DEF startInstance, Client!CreateSyncAction,
           Client!Ops!CreateSyncAction, Client!Ops!CreateSyncActionReader,
           Client!CreateSyncActionParams
<1>23. SendsOne("sendCtrlAltDel")
    BY DEF sendCtrlAltDel, Client!CreateSyncAction,
           Client!Ops!CreateSyncAction, Client!Ops!CreateSyncActionReader,
           Client!CreateSyncActionParams
<1>24. SendsOne("setupLogging")
    BY DEF setupLogging, Client!PutLogger, Client!Ops!PutLogger,
           Client!Ops!PutLoggerReader, Client!PutLoggerParams
<1>25. SendsOne("setupMetrics")
    BY DEF setupMetrics, Client!PutMetrics, Client!Ops!PutMetrics,
           Client!Ops!PutMetricsReader, Client!PutMetricsParams
<1>26. SendsOne("setMmdsConfig")
    BY DEF setMmdsConfig, IfaceID, Client!PutMmdsConfig,
           Client!Ops!PutMmdsConfig, Client!Ops!PutMmdsConfigReader,
           Client!PutMmdsConfigParams
<1>27. SendsOne("limitBoth")
    BY DEF UpdateGuestNetworkInterfaceRateLimit,
           Client!PatchGuestNetworkInterfaceByID,
           Client!Ops!PatchGuestNetworkInterfaceByID,
           Client!Ops!PatchGuestNetworkInterfaceByIDReader,
           Client!PatchGuestNetworkInterfaceByIDParams
<1>28. SendsOne("limitIn")
    BY DEF UpdateGuestNetworkInterfaceRateLimit,
           Client!PatchGuestNetworkInterfaceByID,
           Client!Ops!PatchGuestNetworkInterfaceByID,
           Client!Ops!PatchGuestNetworkInterfaceByIDReader,
           Client!PatchGuestNetworkInterfaceByIDParams
<1>29. SendsOne("limitNone")
    BY DEF UpdateGuestNetworkInterfaceRateLimit,
           Client!PatchGuestNetworkInterfaceByID,
           Client!Ops!PatchGuestNetworkInterfaceByID,
           Client!Ops!PatchGuestNetworkInterfaceByIDReader,
           Client!PatchGuestNetworkInterfaceByIDParams
<1>30. SendsOne("GetExportVMConfig")
    BY DEF GetExportVMConfig, Client!GetExportVMConfig,
           Client!Ops!GetExportVMConfig, Client!Ops!GetExportVMConfigReader,
           Client!GetExportVMConfigParams
<1>31. SendsOne("limitOut")
    BY DEF UpdateGuestNetworkInterfaceRateLimit,
           Client!PatchGuestNetworkInterfaceByID,
           Client!Ops!PatchGuestNetworkInterfaceByID,
           Client!Ops!PatchGuestNetworkInterfaceByIDReader,
           Client!PatchGuestNetworkInterfaceByIDParams
<1>32. SendsOne("limitEach")
    BY DEF UpdateGuestNetworkInterfaceRateLimit,
           Client!PatchGuestNetworkInterfaceByID,
           Client!Ops!PatchGuestNetworkInterfaceByID,
           Client!Ops!PatchGuestNetworkInterfaceByIDReader,
           Client!PatchGuestNetworkInterfaceByIDParams
<1>33. SendsOne("PutCPUConfiguration")
    BY DEF PutCPUConfiguration, Direct!PutCPUConfiguration,
           Direct!PutCPUConfigurationReader,
           Direct!PutCPUConfigurationParams, Direct!Submit, Direct!Reader,
           Direct!NewParams, Direct!NoBody, Direct!Written
<1>34. SendsOne("PutEntropyDevice")
    BY DEF PutEntropyDevice, Direct!PutEntropyDevice,
           Direct!PutEntropyDeviceReader, Direct!PutEntropyDeviceParams,
           Direct!Submit, Direct!Reader, Direct!NewParams, Direct!NoBody,
           Direct!Written
<1>35. SendsOne("PatchMachineConfiguration")
    BY DEF PatchMachineConfiguration, Direct!PatchMachineConfiguration,
           Direct!PatchMachineConfigurationReader,
           Direct!PatchMachineConfigurationParams, Direct!Submit,
           Direct!Reader, Direct!NewParams, Direct!NoBody, Direct!Written
<1>36. SendsTwo("createMachine")
    BY ConcatTwo DEF createMachine, refreshMachineConfiguration,
           Client!PutMachineConfiguration,
           Client!Ops!PutMachineConfiguration,
           Client!Ops!PutMachineConfigurationReader,
           Client!PutMachineConfigurationParams,
           Client!GetMachineConfiguration,
           Client!Ops!GetMachineConfiguration,
           Client!Ops!GetMachineConfigurationReader,
           Client!GetMachineConfigurationParams
<1>37. SendsTwo("attachDrives")
    BY ConcatTwo DEF attachDrives, attachDrive, Client!PutGuestDriveByID,
           Client!Ops!PutGuestDriveByID, Client!Ops!PutGuestDriveByIDReader,
           Client!PutGuestDriveByIDParams
<1>38. SendsTwo("createNetworkInterfaces")
    BY ConcatTwo DEF createNetworkInterfaces, createNetworkInterface, IfaceID,
           Client!PutGuestNetworkInterfaceByID,
           Client!Ops!PutGuestNetworkInterfaceByID,
           Client!Ops!PutGuestNetworkInterfaceByIDReader,
           Client!PutGuestNetworkInterfaceByIDParams
<1> HIDE DEF SendsNone, SendsOne, SendsTwo
<1> QED
    BY <1>1, <1>2, <1>3, <1>4, <1>5, <1>6, <1>7, <1>8, <1>9, <1>10, <1>11,
       <1>12, <1>13, <1>14, <1>15, <1>16, <1>17, <1>18, <1>19, <1>20, <1>21,
       <1>22, <1>23, <1>24, <1>25, <1>26, <1>27, <1>28, <1>29, <1>30, <1>31,
       <1>32, <1>33, <1>34, <1>35, <1>36, <1>37, <1>38

\* What the proofs below use of it.
LEMMA Requests ==
    ASSUME NEW o \in DOMAIN Sends
    PROVE  /\ Len(Sends[o]) \in 0 .. 2 /\ Len(Asks[o]) = Len(Sends[o])
           /\ Sends[o] = <<>> => Asks[o] = <<>> /\ ~SetsState(o)
           /\ Sends[o] # <<>> => Len(Sends[o]) # 0
           /\ SetsState(o) => Len(Sends[o]) = 1
           /\ \A k \in 1 .. Len(Sends[o]) : Carried(o, Sends[o][k], Asks[o][k])
           /\ Asks[o] \in Seq({Asks[o][k] : k \in 1 .. Len(Sends[o])})
<1>1. CASE SendsNone(o)
    BY <1>1 DEF SendsNone
<1>2. CASE SendsOne(o)
  <2>1. PICK r, a : Sends[o] = <<r>> /\ Asks[o] = <<a>> /\ Carried(o, r, a)
      BY <1>2 DEF SendsOne
  <2>2. Len(Sends[o]) = 1 /\ Len(Asks[o]) = 1 /\ Sends[o][1] = r /\ Asks[o][1] = a
      BY <2>1
  <2>3. \A k \in 1 .. 1 : k = 1
      OBVIOUS
  <2> QED
      BY <2>1, <2>2, <2>3
<1>3. CASE SendsTwo(o)
  <2>1. PICK r, a, s, b :
            /\ Sends[o] = <<r, s>> /\ Asks[o] = <<a, b>>
            /\ Carried(o, r, a) /\ Carried(o, s, b) /\ ~SetsState(o)
      BY <1>3 DEF SendsTwo
  <2>2. /\ Len(Sends[o]) = 2 /\ Sends[o][1] = r /\ Sends[o][2] = s
        /\ Len(Asks[o]) = 2 /\ Asks[o][1] = a /\ Asks[o][2] = b
      BY <2>1
  <2>3. \A k \in 1 .. 2 : k = 1 \/ k = 2
      OBVIOUS
  <2> QED
      BY <2>1, <2>2, <2>3
<1> QED
    BY <1>1, <1>2, <1>3, SendsAsks

\* An answer is turned into nil or an error, and a refusal into an error.
LEMMA AnswersReturn ==
    ASSUME NEW r, NEW a, Understood(r, a), NEW b,
           NEW code \in Refusals \cup {Done(r)}
    PROVE  LET result == Direct!Returns(r, [code |-> code, body |-> b])
           IN  result \in {"nil", "error"} /\ (code # Done(r) => result = "error")
<1>1. CASE code = Done(r)
    BY <1>1 DEF Understood, Direct!Returns, Direct!ReadResponse, Direct!Error
<1>2. CASE code \in Refusals /\ code # Done(r)
  <2>1. code \div 100 # 2
      BY <1>2 DEF Refusals
  <2> QED
      BY <1>2, <2>1 DEF Understood, Direct!Returns, Direct!ReadResponse, Direct!Error
<1> QED
    BY <1>1, <1>2

-------------------------------------------------------------------------------
(* The calls. *)

\* What firecracker may have done for a call.
Effects ==
    UNION {{[operation |-> Asks[o][k].operation, id |-> Sends[o][k].id,
             body |-> Sends[o][k].body] : k \in 1 .. Len(Sends[o])} :
           o \in DOMAIN Sends}

Calls ==
    [op : DOMAIN Sends \cup {Nil}, phase : {"idle", "sent", "answered", "done"},
     k : 1 .. 2, answer : {Nil, "error"}, served : Seq(Effects),
     cancelled : BOOLEAN, alone : BOOLEAN, result : {Nil, "error"}]

\* A call in progress is at one of the requests of its operation.
CallsOK ==
    /\ call \in [Callers -> Calls]
    /\ \A c \in Callers : InProgress(c) =>
        call[c].op \in DOMAIN Sends /\ call[c].k <= Len(Sends[call[c].op])

Setting(c) == InProgress(c) /\ SetsState(call[c].op)

\* While a call that sets the guest's state is alone there is no other and no
\* request left over; answered with nil, it has set the state.
AloneOK ==
    \A c \in Callers : Setting(c) /\ call[c].alone =>
        /\ late = {} /\ \A d \in Callers \ {c} : ~Setting(d)
        /\ call[c].phase = "answered" /\ call[c].answer = Nil
            => vm = Asks[call[c].op][1].body[1]

\* What the callers have been told holds as long as nobody sets the state.
BeliefOK ==
    belief # Unknown =>
        late = {} /\ belief = vm /\ \A c \in Callers : ~Setting(c)

GuestInv == CallsOK /\ AloneOK /\ BeliefOK

\* What has been done for a call is what it asks for, as far as it has come.
Served(c) ==
    LET done == call[c].served
        asks == Asks[call[c].op]
    IN  /\ call[c].op \in AsAsked
        /\ Len(done) <= Len(asks) /\ \A j \in 1 .. Len(done) : done[j] = asks[j]
        /\ call[c].phase = "sent" => Len(done) = call[c].k - 1
        /\ call[c].phase = "answered" => 
            IF call[c].answer = Nil THEN Len(done) = call[c].k
            ELSE Len(done) \in {call[c].k - 1, call[c].k}
        /\ call[c].phase = "done" /\ call[c].result = Nil => Len(done) = Len(asks)

ServedInv == \A c \in Callers : call[c].op # Nil => Served(c)

\* The records that the actions build have the fields of a call.
LEMMA IdleRecord == Idle \in Calls
    BY EmptySeq DEF Idle, Calls

\* So do the records of calls that have returned.
LEMMA ReturnedRecord ==
    ASSUME NEW o \in DOMAIN Sends \cup {Nil}, NEW served \in Seq(Effects),
           NEW result \in {Nil, "error"}
    PROVE  Returned(o, served, result) \in Calls
    BY IdleRecord DEF Calls, Returned

\* A call that ends is not in progress and leaves every other call alone.
LEMMA CallEnds ==
    ASSUME CallsOK, NEW c \in Callers, NEW served \in Seq(Effects),
           NEW result \in {Nil, "error"},
           call' = [call EXCEPT ![c] = Returned(@.op, served, result)]
    PROVE  /\ CallsOK' /\ ~InProgress(c)'
           /\ call'[c].op = call[c].op
           /\ \A d \in Callers \ {c} : call'[d] = call[d]
           /\ \A d \in Callers \ {c} : InProgress(d)' = InProgress(d)
<1> DEFINE rec == Returned(call[c].op, served, result)
<1>1. rec \in Calls /\ rec.phase = "done" /\ rec.op = call[c].op
  <2>1. call[c].op \in DOMAIN Sends \cup {Nil}
      BY DEF Calls, CallsOK
  <2>2. rec \in Calls
      BY <2>1, ReturnedRecord
  <2> QED
      BY <2>2 DEF Returned, Idle
<1>2. call' = [call EXCEPT ![c] = rec]
    OBVIOUS
<1> HIDE DEF rec
<1>3. call'[c] = rec /\ \A d \in Callers \ {c} : call'[d] = call[d]
    BY <1>2 DEF CallsOK
<1>4. ~InProgress(c)' /\ \A d \in Callers \ {c} : InProgress(d)' = InProgress(d)
    BY <1>1, <1>3 DEF InProgress
<1>5. call' \in [Callers -> Calls]
    BY <1>1, <1>2 DEF CallsOK
<1> QED
    BY <1>1, <1>3, <1>4, <1>5 DEF CallsOK

\* A call that fails, whether or not its request is left over.
LEMMA CallFails ==
    ASSUME GuestInv, NEW c \in Callers, Fail(c, "error"), UNCHANGED vm,
           UNCHANGED late \/ Setting(c)
    PROVE  GuestInv'
<1>1. /\ CallsOK' /\ ~InProgress(c)'
      /\ \A d \in Callers \ {c} : call'[d] = call[d] /\ Setting(d)' = Setting(d)
    BY CallEnds, EmptySeq DEF Fail, GuestInv, Setting
<1>2. AloneOK'
  <2>1. SUFFICES ASSUME NEW d \in Callers \ {c}, Setting(d), call[d].alone
                 PROVE  /\ late' = {} /\ \A e \in Callers \ {d} : ~Setting(e)'
                        /\ call[d].phase = "answered" /\ call[d].answer = Nil
                            => vm = Asks[call[d].op][1].body[1]
      BY <1>1 DEF AloneOK, Setting
  <2>2. ~Setting(c) /\ late = {} /\ \A e \in Callers \ {d} : ~Setting(e)
      BY <2>1 DEF GuestInv, AloneOK
  <2>3. \A e \in Callers \ {d} : ~Setting(e)'
      BY <1>1, <2>2 DEF Setting
  <2> QED
      BY <2>1, <2>2, <2>3 DEF GuestInv, AloneOK
<1>3. BeliefOK'
  <2>1. SUFFICES ASSUME belief # Unknown
                 PROVE  late' = {} /\ belief = vm /\ \A d \in Callers : ~Setting(d)'
      BY DEF BeliefOK, Fail
  <2>2. late = {} /\ belief = vm /\ \A d \in Callers : ~Setting(d)
      BY <2>1 DEF GuestInv, BeliefOK
  <2> QED
      BY <1>1, <2>2 DEF Setting
<1> QED
    BY <1>1, <1>2, <1>3 DEF GuestInv

\* A call that returns nil.
LEMMA CallSucceeds ==
    ASSUME GuestInv, NEW c \in Callers, Succeed(c), UNCHANGED <<vm, late>>,
           call[c].phase = "answered", call[c].answer = Nil
    PROVE  GuestInv'
<1>0. call[c].served \in Seq(Effects) /\ InProgress(c)
    BY DEF GuestInv, CallsOK, Calls, InProgress
<1>1. /\ CallsOK' /\ ~InProgress(c)'
      /\ \A d \in Callers \ {c} : call'[d] = call[d] /\ Setting(d)' = Setting(d)
  <2>1. call' = [call EXCEPT ![c] = Returned(@.op, call[c].served, Nil)]
      BY DEF Succeed
  <2> QED
      BY <1>0, <2>1, CallEnds DEF GuestInv, Setting
<1>2. AloneOK'
    BY <1>1 DEF GuestInv, AloneOK, Setting
<1>3. BeliefOK'
  <2>1. CASE Setting(c) /\ call[c].alone
    <3>1. /\ late = {} /\ \A d \in Callers \ {c} : ~Setting(d)
          /\ vm = Asks[call[c].op][1].body[1]
        BY <2>1 DEF GuestInv, AloneOK
    <3>2. belief' = vm
        BY <2>1, <3>1 DEF Succeed, Setting
    <3> QED
        BY <1>1, <3>1, <3>2 DEF BeliefOK, Setting
  <2>2. CASE ~(Setting(c) /\ call[c].alone)
    <3>1. belief' = belief
        BY <1>0, <2>2 DEF Succeed, Setting
    <3> QED
        BY <1>1, <3>1 DEF GuestInv, BeliefOK, Setting
  <2> QED
      BY <2>1, <2>2
<1> QED
    BY <1>1, <1>2, <1>3 DEF GuestInv

\* A call stays in progress, with another phase, request or answer.
LEMMA CallContinues ==
    ASSUME CallsOK, NEW c \in Callers, InProgress(c), NEW rec \in Calls,
           rec.op = call[c].op, rec.phase \in {"sent", "answered"},
           rec.k <= Len(Sends[rec.op]), call' = [call EXCEPT ![c] = rec]
    PROVE  /\ CallsOK' /\ call'[c] = rec
           /\ \A d \in Callers \ {c} : call'[d] = call[d]
           /\ \A d \in Callers : InProgress(d)' = InProgress(d)
           /\ \A d \in Callers : Setting(d)' = Setting(d)
<1>1. call'[c] = rec /\ \A d \in Callers \ {c} : call'[d] = call[d]
    BY DEF CallsOK
<1>2. \A d \in Callers : InProgress(d)' = InProgress(d)
    BY <1>1 DEF InProgress
<1>3. call' \in [Callers -> Calls]
    BY DEF CallsOK
<1>4. \A d \in Callers : Setting(d)' = Setting(d)
    BY <1>1, <1>2 DEF Setting
<1>5. rec.op \in DOMAIN Sends
    BY DEF CallsOK
<1> QED
    BY <1>1, <1>2, <1>3, <1>4, <1>5 DEF CallsOK

\* A new call: it is alone only if no other sets the state, and then no other is.
LEMMA InvokeInv ==
    ASSUME GuestInv, NEW c \in Callers, NEW o \in DOMAIN Sends, Invoke(c, o)
    PROVE  GuestInv'
<1>1. CASE Sends[o] = <<>>
  <2>1. call' = [call EXCEPT ![c] = Returned(o, <<>>, Nil)] /\ belief' = belief
      BY <1>1, Requests DEF Invoke
  <2>2. Returned(o, <<>>, Nil) \in Calls
      BY ReturnedRecord, EmptySeq
  <2> DEFINE rec == Returned(o, <<>>, Nil)
  <2>3. rec.phase = "done"
      BY DEF Returned, Idle
  <2>4. call' = [call EXCEPT ![c] = rec] /\ rec \in Calls
      BY <2>1, <2>2
  <2> HIDE DEF rec
  <2>5. /\ call' \in [Callers -> Calls] /\ call'[c] = rec
        /\ \A d \in Callers \ {c} : call'[d] = call[d]
      BY <2>4 DEF GuestInv, CallsOK
  <2>6. /\ ~InProgress(c) /\ ~InProgress(c)'
        /\ \A d \in Callers \ {c} : InProgress(d)' = InProgress(d)
      BY <2>3, <2>5 DEF Invoke, InProgress
  <2>7. CallsOK'
      BY <2>5, <2>6 DEF GuestInv, CallsOK
  <2>8. \A d \in Callers : Setting(d)' = Setting(d)
      BY <2>5, <2>6 DEF Setting
  <2>9. AloneOK' /\ BeliefOK'
      BY <2>1, <2>5, <2>6, <2>8 DEF Invoke, GuestInv, AloneOK, BeliefOK, Setting
  <2> QED
      BY <2>7, <2>9 DEF GuestInv
<1>2. CASE Sends[o] # <<>>
  <2> DEFINE others == {d \in Callers \ {c} : InProgress(d)
                            /\ SetsState(o) /\ SetsState(call[d].op)}
             rec == [Idle EXCEPT !.op = o, !.phase = "sent",
                                 !.alone = others \cup late = {}]
  <2>1. /\ ~InProgress(c) /\ UNCHANGED <<vm, late>>
        /\ belief' = IF SetsState(o) THEN Unknown ELSE belief
      BY DEF Invoke
  <2>2. rec \in Calls
    <3> HIDE DEF others
    <3> QED
      BY IdleRecord DEF Calls
  <2>3. rec.op = o /\ rec.phase = "sent" /\ rec.k = 1
        /\ rec.alone = (others \cup late = {})
    <3> HIDE DEF others
    <3> QED
      BY DEF Idle
  <2>4. call' = [d \in Callers |-> CASE d = c -> rec
                      [] d \in others -> [call[d] EXCEPT !.alone = FALSE]
                      [] OTHER -> call[d]]
      BY <1>2 DEF Invoke
  <2> HIDE DEF rec
  <2>5. c \notin others /\ others \subseteq Callers
      OBVIOUS
  <2>6. ASSUME NEW d \in Callers \ {c}
        PROVE  /\ call'[d] \in Calls /\ call'[d].op = call[d].op
               /\ call'[d].phase = call[d].phase /\ call'[d].k = call[d].k
               /\ call'[d].answer = call[d].answer
               /\ d \in others => ~call'[d].alone
               /\ d \notin others => call'[d].alone = call[d].alone
    <3>1. call[d] \in Calls
        BY DEF GuestInv, CallsOK
    <3>2. CASE d \in others
      <4>1. call'[d] = [call[d] EXCEPT !.alone = FALSE]
          BY <2>4, <3>2
      <4> QED
          BY <3>1, <3>2, <4>1 DEF Calls
    <3>3. CASE d \notin others
        BY <2>4, <3>1, <3>3
    <3> QED
        BY <3>2, <3>3
  <2>7. call'[c] = rec
      BY <2>4
  <2>8. /\ InProgress(c)' /\ (Setting(c)' <=> SetsState(o))
        /\ \A d \in Callers \ {c} : InProgress(d)' = InProgress(d)
        /\ \A d \in Callers \ {c} : Setting(d)' = Setting(d)
      BY <2>3, <2>6, <2>7 DEF InProgress, Setting
  <2>9. CallsOK'
    <3>1. call' \in [Callers -> Calls]
        BY <2>2, <2>4, <2>6, <2>7
    <3>2. rec.k <= Len(Sends[rec.op]) /\ rec.op \in DOMAIN Sends
        BY <1>2, <2>3, Requests
    <3> QED
        BY <2>6, <2>7, <2>8, <3>1, <3>2 DEF GuestInv, CallsOK
  <2>10. AloneOK'
    <3>1. SUFFICES ASSUME NEW d \in Callers, Setting(d)', call'[d].alone
                   PROVE  /\ late = {} /\ \A e \in Callers \ {d} : ~Setting(e)'
                          /\ call'[d].phase = "answered" /\ call'[d].answer = Nil
                                => vm = Asks[call'[d].op][1].body[1]
        BY <2>1 DEF AloneOK
    <3>2. CASE d = c
      <4>1. others = {} /\ late = {} /\ SetsState(o)
          BY <2>3, <2>7, <2>8, <3>1, <3>2
      <4>2. \A e \in Callers \ {c} : ~Setting(e)
          BY <4>1 DEF Setting
      <4> QED
          BY <2>3, <2>7, <2>8, <3>2, <4>1, <4>2
    <3>3. CASE d # c
      <4>1. Setting(d) /\ d \notin others /\ call[d].alone
          BY <2>6, <2>8, <3>1, <3>3
      <4>2. ~SetsState(o)
          BY <3>3, <4>1 DEF Setting
      <4>3. /\ late = {} /\ \A e \in Callers \ {d} : ~Setting(e)
            /\ call[d].phase = "answered" /\ call[d].answer = Nil
                => vm = Asks[call[d].op][1].body[1]
          BY <4>1 DEF GuestInv, AloneOK
      <4> QED
          BY <2>6, <2>8, <3>3, <4>2, <4>3
    <3> QED
        BY <3>2, <3>3
  <2>11. BeliefOK'
      BY <2>1, <2>8 DEF GuestInv, BeliefOK
  <2> QED
      BY <2>9, <2>10, <2>11 DEF GuestInv
<1> QED
    BY <1>1, <1>2

\* Firecracker answers a request: only one of PauseVM or ResumeVM changes the
\* state, and only success is read as nil.
LEMMA ServeInv ==
    ASSUME GuestInv, NEW c \in Callers, Serve(c)
    PROVE  GuestInv'
<1> DEFINE o == call[c].op
           k == call[c].k
           r == Request(c)
           a == Asks[o][k]
<1>1. /\ call[c].phase = "sent" /\ InProgress(c) /\ UNCHANGED <<late, belief>>
      /\ call[c] \in Calls /\ o \in DOMAIN Sends /\ k \in 1 .. Len(Sends[o])
      /\ k \in 1 .. 2 /\ call[c].served \in Seq(Effects)
    BY DEF Serve, GuestInv, CallsOK, InProgress, Calls
<1>2. Carried(o, r, a)
    BY <1>1, Requests DEF Request
<1>3. PICK code \in Refusals \cup {Done(r)}, served \in Seq(Effects) :
        /\ Answer(c, code, served)
        /\ code = Done(r) => \/ \E p \in Operations(r) : vm' = After(p, r.body)
                             \/ Done(r) \in Refusals /\ UNCHANGED vm
        /\ code # Done(r) => UNCHANGED vm
  <2>1. CASE \E p \in Operations(r) :
            /\ Answer(c, Done(r), Append(call[c].served,
                        [operation |-> p, id |-> r.id, body |-> r.body]))
            /\ vm' = After(p, r.body)
    <3>1. PICK p \in Operations(r) :
            /\ Answer(c, Done(r), Append(call[c].served,
                        [operation |-> p, id |-> r.id, body |-> r.body]))
            /\ vm' = After(p, r.body)
        BY <2>1
    <3>2. [operation |-> p, id |-> r.id, body |-> r.body] \in Effects
      <4>1. p = a.operation
          BY <1>2, <3>1 DEF Carried, Understood
      <4> QED
          BY <1>1, <4>1 DEF Effects, Request
    <3>3. Append(call[c].served, [operation |-> p, id |-> r.id, body |-> r.body])
            \in Seq(Effects)
        BY <1>1, <3>2, AppendProperties
    <3> QED
        BY <3>1, <3>3
  <2>2. CASE \E code \in Refusals : Answer(c, code, call[c].served) /\ UNCHANGED vm
      BY <1>1, <2>2
  <2> QED
      BY <2>1, <2>2 DEF Serve
<1>3a. PICK b : call' = [call EXCEPT ![c].phase = "answered", ![c].served = served,
                   ![c].answer = Direct!Returns(r, [code |-> code, body |-> b])]
    BY <1>3 DEF Answer
<1> DEFINE answer == Direct!Returns(r, [code |-> code, body |-> b])
           rec == [call[c] EXCEPT !.phase = "answered", !.served = served,
                                  !.answer = answer]
<1>4. answer \in {"nil", "error"} /\ (code # Done(r) => answer = "error")
    BY <1>2, AnswersReturn DEF Carried
<1>5. call' = [call EXCEPT ![c] = rec]
    BY <1>3a
<1> HIDE DEF answer
<1>6. /\ rec \in Calls /\ rec.op = o /\ rec.phase = "answered" /\ rec.k = k
      /\ rec.answer = answer /\ rec.alone = call[c].alone
    BY <1>1, <1>4 DEF Calls, Nil, Direct!Nil
<1> HIDE DEF rec
<1>7. /\ CallsOK' /\ call'[c] = rec /\ \A d \in Callers : Setting(d)' = Setting(d)
      /\ \A d \in Callers \ {c} : call'[d] = call[d]
  <2>1. rec.k <= Len(Sends[rec.op])
      BY <1>1, <1>6, Requests
  <2> QED
      BY <1>1, <1>5, <1>6, <2>1, CallContinues DEF GuestInv
<1>8. /\ ~SetsState(o) => vm' = vm
      /\ Setting(c) /\ answer = "nil" => vm' = Asks[o][1].body[1]
  <2>1. Done(r) \notin Refusals
      BY DEF Done, Refusals
  <2>2. CASE code = Done(r)
    <3>1. PICK p \in Operations(r) : vm' = After(p, r.body)
        BY <1>3, <2>1, <2>2
    <3>2. p = "patchVm" <=> SetsState(o)
        BY <1>2, <3>1 DEF Carried, Understood
    <3>3. SetsState(o) => k = 1 /\ r.body = a.body
      <4>1. SetsState(o) => o \in AsAsked
          BY <1>1 DEF AsAsked, SetsState
      <4>2. SetsState(o) => Len(Sends[o]) = 1
          BY <1>1, Requests
      <4>3. SetsState(o) => k = 1
        <5>1. k \in 1 .. Len(Sends[o])
            BY <1>1
        <5>2. SetsState(o) => k \in 1 .. 1
            BY <4>2, <5>1
        <5> HIDE DEF k
        <5> QED
            BY <5>2
      <4>4. SetsState(o) => r.body = a.body
        <5> HIDE DEF r, a, o
        <5> QED
          BY <1>2, <4>1 DEF Carried
      <4> QED
          BY <4>3, <4>4
    <3> QED
        BY <3>1, <3>2, <3>3 DEF After, Setting
  <2>3. CASE code # Done(r)
      BY <1>3, <1>4, <2>3
  <2> QED
      BY <2>2, <2>3
<1> HIDE DEF o, k, r, a
<1>9. AloneOK'
  <2>1. SUFFICES ASSUME NEW d \in Callers, Setting(d), call'[d].alone
                 PROVE  /\ late = {} /\ \A e \in Callers \ {d} : ~Setting(e)
                        /\ call'[d].phase = "answered" /\ call'[d].answer = Nil
                            => vm' = Asks[call'[d].op][1].body[1]
      BY <1>1, <1>7 DEF AloneOK
  <2>2. call[d].alone
      BY <1>6, <1>7, <2>1
  <2>3. late = {} /\ \A e \in Callers \ {d} : ~Setting(e)
      BY <2>1, <2>2 DEF GuestInv, AloneOK
  <2>4. CASE d = c
      BY <1>6, <1>7, <1>8, <2>1, <2>3, <2>4 DEF Nil, Direct!Nil
  <2>5. CASE d # c
    <3>1. vm' = vm
        BY <1>1, <1>8, <2>3, <2>5 DEF Setting, o
    <3> QED
        BY <1>7, <2>1, <2>2, <2>3, <2>5, <3>1 DEF GuestInv, AloneOK
  <2> QED
      BY <2>4, <2>5
<1>10. BeliefOK'
  <2>1. CASE belief # Unknown
    <3>1. late = {} /\ belief = vm /\ \A d \in Callers : ~Setting(d)
        BY <2>1 DEF GuestInv, BeliefOK
    <3>2. vm' = vm
        BY <1>1, <1>8, <3>1 DEF Setting, o
    <3> QED
        BY <1>1, <1>7, <3>1, <3>2 DEF BeliefOK
  <2>2. CASE belief = Unknown
      BY <1>1, <2>2 DEF BeliefOK
  <2> QED
      BY <2>1, <2>2
<1> QED
    BY <1>7, <1>9, <1>10 DEF GuestInv

\* The next request of a loop.
LEMMA ProceedInv ==
    ASSUME GuestInv, NEW c \in Callers, call[c].phase = "answered",
           call[c].k # Len(Sends[call[c].op]), Proceed(c), UNCHANGED <<vm, late>>
    PROVE  GuestInv'
<1>1. CASE Fail(c, "error")
    BY <1>1, CallFails
<1>2. CASE /\ call' = [call EXCEPT ![c].phase = "sent", ![c].k = @ + 1,
                                   ![c].answer = Nil]
           /\ UNCHANGED belief
  <2> DEFINE o == call[c].op
             rec == [call[c] EXCEPT !.phase = "sent", !.k = @ + 1, !.answer = Nil]
  <2>1. /\ call[c] \in Calls /\ InProgress(c) /\ o \in DOMAIN Sends
        /\ call[c].k \in 1 .. 2 /\ call[c].k <= Len(Sends[o])
      BY DEF GuestInv, CallsOK, InProgress, Calls
  <2>2. call[c].k + 1 \in 1 .. 2 /\ call[c].k + 1 <= Len(Sends[o])
    <3> DEFINE k == call[c].k  n == Len(Sends[o])
    <3>1. n \in 0 .. 2 /\ k \in 1 .. 2 /\ k <= n /\ k # n
        BY <2>1, Requests
    <3> HIDE DEF k, n
    <3>2. k + 1 \in 1 .. 2 /\ k + 1 <= n
        BY <3>1
    <3> QED
        BY <3>2 DEF k, n
  <2>3. /\ rec \in Calls /\ rec.op = o /\ rec.phase = "sent"
        /\ rec.k = call[c].k + 1 /\ rec.alone = call[c].alone
      BY <2>1, <2>2 DEF Calls
  <2>4. call' = [call EXCEPT ![c] = rec]
      BY <1>2
  <2> HIDE DEF rec
  <2>5. /\ CallsOK' /\ call'[c] = rec /\ \A d \in Callers : Setting(d)' = Setting(d)
        /\ \A d \in Callers \ {c} : call'[d] = call[d]
    <3>1. rec.k <= Len(Sends[rec.op])
        BY <2>2, <2>3
    <3> QED
        BY <2>1, <2>3, <2>4, <3>1, CallContinues DEF GuestInv
  <2>6. AloneOK'
    <3>1. SUFFICES ASSUME NEW d \in Callers, Setting(d), call'[d].alone
                   PROVE  /\ late = {} /\ \A e \in Callers \ {d} : ~Setting(e)
                          /\ call'[d].phase = "answered" /\ call'[d].answer = Nil
                              => vm = Asks[call'[d].op][1].body[1]
        BY <2>5 DEF AloneOK
    <3>2. call[d].alone
        BY <2>3, <2>5, <3>1
    <3>3. CASE d = c
        BY <2>3, <2>5, <3>1, <3>2, <3>3 DEF GuestInv, AloneOK
    <3>4. CASE d # c
        BY <2>5, <3>1, <3>2, <3>4 DEF GuestInv, AloneOK
    <3> QED
        BY <3>3, <3>4
  <2>7. BeliefOK'
      BY <1>2, <2>5 DEF GuestInv, BeliefOK
  <2> QED
      BY <2>5, <2>6, <2>7 DEF GuestInv
<1> QED
    BY <1>1, <1>2 DEF Proceed

\* The context of a call ends.
LEMMA CancelInv ==
    ASSUME GuestInv, NEW c \in Callers, Cancel(c)
    PROVE  GuestInv'
<1> DEFINE rec == [call[c] EXCEPT !.cancelled = TRUE]
<1>1. /\ call[c] \in Calls /\ InProgress(c) /\ UNCHANGED <<vm, late, belief>>
      /\ call' = [call EXCEPT ![c] = rec]
    BY DEF Cancel, GuestInv, CallsOK
<1>2. /\ rec \in Calls /\ rec.op = call[c].op /\ rec.phase = call[c].phase
      /\ rec.k = call[c].k /\ rec.alone = call[c].alone
      /\ rec.answer = call[c].answer
    BY <1>1 DEF Calls
<1> HIDE DEF rec
<1>3. /\ CallsOK' /\ call'[c] = rec /\ \A d \in Callers : Setting(d)' = Setting(d)
      /\ \A d \in Callers \ {c} : call'[d] = call[d]
  <2>1. rec.k <= Len(Sends[rec.op]) /\ rec.phase \in {"sent", "answered"}
      BY <1>1, <1>2 DEF GuestInv, CallsOK, InProgress
  <2> QED
      BY <1>1, <1>2, <2>1, CallContinues DEF GuestInv
<1>4. AloneOK' /\ BeliefOK'
    BY <1>1, <1>2, <1>3 DEF GuestInv, AloneOK, BeliefOK
<1> QED
    BY <1>3, <1>4 DEF GuestInv

\* Every step of the calls and of firecracker preserves the invariant.
LEMMA GuestStep ==
    GuestInv /\ (GuestNext \/ Exit \/ UNCHANGED guestVars) => GuestInv'
<1> SUFFICES ASSUME GuestInv, GuestNext \/ Exit \/ UNCHANGED guestVars
             PROVE  GuestInv'
    OBVIOUS
<1>1. ASSUME NEW c \in Callers, NEW o \in Menu[c], Invoke(c, o) PROVE GuestInv'
    BY <1>1, MenuAssumption, InvokeInv
<1>2. ASSUME NEW c \in Callers, Return(c) PROVE GuestInv'
  <2>1. call[c].phase = "answered" /\ call[c].answer \in {Nil, "error"}
        /\ UNCHANGED <<vm, late>>
      BY <1>2 DEF Return, GuestInv, CallsOK, Calls
  <2>2. CASE call[c].answer = "nil" /\ Succeed(c)
      BY <2>1, <2>2, CallSucceeds DEF Nil, Direct!Nil
  <2>3. CASE Fail(c, "error")
      BY <2>1, <2>3, CallFails
  <2>4. CASE call[c].k # Len(Sends[call[c].op]) /\ Proceed(c)
      BY <2>1, <2>4, ProceedInv
  <2> QED
      BY <1>2, <2>1, <2>2, <2>3, <2>4 DEF Return, Nil, Direct!Nil
<1>3. ASSUME NEW c \in Callers, Broken(c) PROVE GuestInv'
    BY <1>3, CallFails DEF Broken
<1>4. ASSUME NEW c \in Callers, Expire(c) \/ ContextDone(c) PROVE GuestInv'
    BY <1>4, CallFails DEF Expire, ContextDone, Abandon, Setting
<1>5. ASSUME NEW c \in Callers, Cancel(c) PROVE GuestInv'
    BY <1>5, CancelInv
<1>6. ASSUME NEW c \in Callers, Serve(c) PROVE GuestInv'
    BY <1>6, ServeInv
<1>7. CASE ServeLate
  <2>1. late # {} /\ UNCHANGED <<call, belief>> /\ (late = {} => FALSE)
      BY <1>7 DEF ServeLate
  <2>2. CallsOK' /\ \A c \in Callers : Setting(c)' = Setting(c)
      BY <2>1 DEF GuestInv, CallsOK, Setting, InProgress
  <2>3. belief = Unknown /\ \A c \in Callers : ~(Setting(c) /\ call[c].alone)
      BY <2>1 DEF GuestInv, AloneOK, BeliefOK
  <2> QED
      BY <2>1, <2>2, <2>3 DEF GuestInv, AloneOK, BeliefOK
<1>8. CASE Exit \/ UNCHANGED guestVars
  <2>1. UNCHANGED <<vm, call, belief>> /\ late' \in {late, {}}
      BY <1>8 DEF Exit, guestVars
  <2>2. CallsOK' /\ \A c \in Callers : Setting(c)' = Setting(c)
      BY <2>1 DEF GuestInv, CallsOK, Setting, InProgress
  <2> QED
      BY <2>1, <2>2 DEF GuestInv, AloneOK, BeliefOK
<1> QED
    BY <1>1, <1>2, <1>3, <1>4, <1>5, <1>6, <1>7, <1>8 DEF GuestNext, CallStep

-------------------------------------------------------------------------------
(* What a call that returns nil has had done. *)

\* It is enough to look at the one call that has changed.
LEMMA OneServed ==
    ASSUME GuestInv, ServedInv, NEW c \in Callers, call'[c].op # Nil => Served(c)',
           \A d \in Callers \ {c} : call'[d] = call[d]
    PROVE  ServedInv'
<1>1. ASSUME NEW d \in Callers \ {c}, call'[d].op # Nil PROVE Served(d)'
  <2>1. Served(d) /\ call'[d] = call[d]
      BY <1>1 DEF ServedInv
  <2> QED
      BY <2>1 DEF Served
<1> QED
    BY <1>1 DEF ServedInv

\* A call that fails claims nothing.
LEMMA FailServed ==
    ASSUME GuestInv, ServedInv, NEW c \in Callers, Fail(c, "error")
    PROVE  ServedInv'
<1> DEFINE rec == Returned(call[c].op, <<>>, "error")
<1>1. /\ call'[c] = rec /\ \A d \in Callers \ {c} : call'[d] = call[d]
    BY DEF Fail, GuestInv, CallsOK
<1>2. /\ rec.op = call[c].op /\ rec.phase = "done" /\ rec.served = <<>>
      /\ rec.result = "error"
    BY DEF Returned, Idle
<1> HIDE DEF rec
<1>3. ASSUME call'[c].op # Nil PROVE Served(c)'
  <2>1. call[c].op \in AsAsked /\ Len(Asks[call[c].op]) \in Nat
    <3>1. call[c].op \in AsAsked
        BY <1>1, <1>2, <1>3 DEF ServedInv, Served
    <3>2. Len(Asks[call[c].op]) \in 0 .. 2
        BY <3>1, Requests DEF AsAsked
    <3> QED
        BY <3>1, <3>2
  <2> QED
      BY <1>1, <1>2, <2>1 DEF Served, Nil, Direct!Nil
<1> QED
    BY <1>1, <1>3, OneServed

\* A nil is returned after the last request, when everything has been done.
LEMMA SucceedServed ==
    ASSUME GuestInv, ServedInv, NEW c \in Callers, Succeed(c),
           call[c].phase = "answered", call[c].answer = Nil,
           call[c].k = Len(Sends[call[c].op])
    PROVE  ServedInv'
<1> DEFINE rec == Returned(call[c].op, call[c].served, Nil)
<1>1. /\ call'[c] = rec /\ \A d \in Callers \ {c} : call'[d] = call[d]
    BY DEF Succeed, GuestInv, CallsOK
<1>2. /\ rec.op = call[c].op /\ rec.phase = "done" /\ rec.served = call[c].served
    BY DEF Returned, Idle
<1> HIDE DEF rec
<1>3. ASSUME call'[c].op # Nil PROVE Served(c)'
  <2>1. Served(c)
      BY <1>1, <1>2, <1>3 DEF ServedInv
  <2>2. Len(Asks[call[c].op]) = Len(Sends[call[c].op])
      BY <2>1, Requests DEF Served, AsAsked
  <2> QED
      BY <1>1, <1>2, <2>1, <2>2 DEF Served
<1> QED
    BY <1>1, <1>3, OneServed

\* The next request is sent when the previous one has been served.
LEMMA ProceedServed ==
    ASSUME GuestInv, ServedInv, NEW c \in Callers, Proceed(c),
           call[c].phase = "answered", call[c].answer = Nil
    PROVE  ServedInv'
<1>1. CASE Fail(c, "error")
    BY <1>1, FailServed
<1>2. CASE call' = [call EXCEPT ![c].phase = "sent", ![c].k = @ + 1,
                                ![c].answer = Nil]
  <2>1. /\ call[c] \in Calls
        /\ call'[c] = [call[c] EXCEPT !.phase = "sent", !.k = @ + 1, !.answer = Nil]
        /\ \A d \in Callers \ {c} : call'[d] = call[d]
      BY <1>2 DEF GuestInv, CallsOK
  <2>2. /\ call'[c].op = call[c].op /\ call'[c].phase = "sent"
        /\ call'[c].k = call[c].k + 1 /\ call'[c].served = call[c].served
        /\ call[c].k \in 1 .. 2
      BY <2>1 DEF Calls
  <2>3. ASSUME call'[c].op # Nil PROVE Served(c)'
      BY <2>2, <2>3 DEF ServedInv, Served
  <2> QED
      BY <2>1, <2>3, OneServed
<1> QED
    BY <1>1, <1>2 DEF Proceed

\* A new call has had nothing done.
LEMMA InvokeServed ==
    ASSUME GuestInv, ServedInv, NEW c \in Callers, NEW o \in AsAsked, Invoke(c, o)
    PROVE  ServedInv'
<1>1. o \in DOMAIN Sends /\ Len(Asks[o]) \in Nat /\ Len(<<>>) = 0
  <2>1. o \in DOMAIN Sends
      BY DEF AsAsked
  <2>2. Len(Asks[o]) \in 0 .. 2
      BY <2>1, Requests
  <2> QED
      BY <2>1, <2>2
<1>2. CASE Sends[o] = <<>>
  <2> DEFINE rec == Returned(o, <<>>, Nil)
  <2>1. /\ call'[c] = rec /\ \A d \in Callers \ {c} : call'[d] = call[d]
      BY <1>2 DEF Invoke, GuestInv, CallsOK
  <2>2. rec.op = o /\ rec.phase = "done" /\ rec.served = <<>>
      BY DEF Returned, Idle
  <2> HIDE DEF rec
  <2>3. Asks[o] = <<>>
      BY <1>1, <1>2, Requests
  <2>4. Served(c)'
      BY <1>1, <2>1, <2>2, <2>3 DEF Served
  <2> QED
      BY <2>1, <2>4, OneServed
<1>3. CASE Sends[o] # <<>>
  <2> DEFINE others == {d \in Callers \ {c} : InProgress(d)
                            /\ SetsState(o) /\ SetsState(call[d].op)}
             rec == [Idle EXCEPT !.op = o, !.phase = "sent",
                                 !.alone = others \cup late = {}]
  <2>1. call' = [d \in Callers |-> CASE d = c -> rec
                      [] d \in others -> [call[d] EXCEPT !.alone = FALSE]
                      [] OTHER -> call[d]]
      BY <1>3 DEF Invoke
  <2>2. rec.op = o /\ rec.phase = "sent" /\ rec.k = 1 /\ rec.served = <<>>
    <3> HIDE DEF others
    <3> QED
        BY DEF Idle
  <2> HIDE DEF rec
  <2>3. Served(c)'
    <3>1. call'[c] = rec
        BY <2>1
    <3> QED
        BY <1>1, <2>2, <3>1 DEF Served
  <2>4. ASSUME NEW d \in Callers \ {c}, call'[d].op # Nil
        PROVE  Served(d)'
    <3>1. call[d] \in Calls
        BY DEF GuestInv, CallsOK
    <3>2. call'[d] = call[d] \/ call'[d] = [call[d] EXCEPT !.alone = FALSE]
        BY <2>1
    <3>3. /\ call'[d].op = call[d].op /\ call'[d].phase = call[d].phase
          /\ call'[d].k = call[d].k /\ call'[d].answer = call[d].answer
          /\ call'[d].served = call[d].served /\ call'[d].result = call[d].result
        BY <3>1, <3>2 DEF Calls
    <3> QED
        BY <2>4, <3>3 DEF ServedInv, Served
  <2> QED
      BY <2>3, <2>4 DEF ServedInv
<1> QED
    BY <1>2, <1>3

\* Firecracker does the next thing asked for and answers with success, or does
\* nothing and refuses.
LEMMA ServeServed ==
    ASSUME GuestInv, ServedInv, NEW c \in Callers, Serve(c)
    PROVE  ServedInv'
<1> DEFINE o == call[c].op
           k == call[c].k
           r == Request(c)
           done == call[c].served
<1>1. /\ call[c].phase = "sent" /\ call[c] \in Calls /\ o \in DOMAIN Sends
      /\ k \in 1 .. Len(Sends[o]) /\ k \in Nat
    BY DEF Serve, GuestInv, CallsOK, InProgress, Calls
<1>2. Served(c) /\ o # Nil
  <2>1. o # Nil
      BY <1>1 DEF Sends, Nil, Direct!Nil
  <2> QED
      BY <2>1 DEF ServedInv
<1>3. Carried(o, r, Asks[o][k]) /\ r.id = Asks[o][k].id /\ r.body = Asks[o][k].body
  <2>1. Carried(o, r, Asks[o][k])
      BY <1>1, Requests DEF Request
  <2>2. o \in AsAsked
      BY <1>2 DEF Served
  <2> QED
      BY <2>1, <2>2 DEF Carried
<1>4. Len(done) = k - 1 /\ done \in Seq(Effects) /\ Len(Asks[o]) = Len(Sends[o])
      /\ Len(Sends[o]) \in Nat
  <2>1. Len(Sends[o]) \in 0 .. 2 /\ Len(Asks[o]) = Len(Sends[o])
      BY <1>1, Requests
  <2> QED
      BY <1>1, <1>2, <2>1 DEF Served, Calls
<1>5. ASSUME NEW code \in Refusals \cup {Done(r)}, NEW served \in Seq(Effects),
             Answer(c, code, served), Len(served) \in {k - 1, k},
             code = Done(r) => Len(served) = k,
             \A j \in 1 .. Len(served) : served[j] = Asks[o][j]
      PROVE  ServedInv'
  <2>1. PICK b : call' = [call EXCEPT ![c].phase = "answered", ![c].served = served,
                   ![c].answer = Direct!Returns(r, [code |-> code, body |-> b])]
      BY <1>5 DEF Answer
  <2> DEFINE answer == Direct!Returns(r, [code |-> code, body |-> b])
  <2>2. answer \in {"nil", "error"} /\ (code # Done(r) => answer = "error")
      BY <1>3, AnswersReturn DEF Carried
  <2> HIDE DEF answer
  <2>3. /\ call'[c] = [call[c] EXCEPT !.phase = "answered", !.served = served,
                                      !.answer = answer]
        /\ \A d \in Callers \ {c} : call'[d] = call[d]
      BY <2>1 DEF GuestInv, CallsOK, answer
  <2>4. /\ call'[c].op = o /\ call'[c].phase = "answered" /\ call'[c].k = k
        /\ call'[c].served = served /\ call'[c].answer = answer
      BY <1>1, <2>3 DEF Calls
  <2>5. Len(served) <= Len(Asks[o])
    <3> HIDE DEF o, k
    <3> QED
        BY <1>1, <1>4, <1>5
  <2>6. IF answer = Nil THEN Len(served) = k ELSE Len(served) \in {k - 1, k}
      BY <1>5, <2>2 DEF Nil, Direct!Nil
  <2>7. o \in AsAsked
      BY <1>2 DEF Served
  <2> HIDE DEF o, k
  <2>8. Served(c)'
      BY <1>5, <2>4, <2>5, <2>6, <2>7 DEF Served
  <2> QED
      BY <2>3, <2>8, OneServed
<1>6. CASE \E p \in Operations(r) :
        Answer(c, Done(r), Append(done,
                    [operation |-> p, id |-> r.id, body |-> r.body]))
  <2>1. PICK p \in Operations(r) :
            Answer(c, Done(r), Append(done,
                    [operation |-> p, id |-> r.id, body |-> r.body]))
      BY <1>6
  <2> DEFINE e == [operation |-> p, id |-> r.id, body |-> r.body]
             served == Append(done, e)
  <2>2. p = Asks[o][k].operation
      BY <1>3 DEF Carried, Understood
  <2>3. e \in Effects
      BY <1>1, <2>2 DEF Effects, Request
  <2>4. e = Asks[o][k]
      BY <1>3, <2>2 DEF Carried
  <2> HIDE DEF e
  <2>5. /\ served \in Seq(Effects) /\ Len(served) = k
        /\ served[k] = e /\ \A j \in 1 .. k - 1 : served[j] = done[j]
    <3> HIDE DEF k, done
    <3> QED
        BY <1>1, <1>4, <2>3, AppendProperties
  <2>6. ASSUME NEW j \in 1 .. Len(served) PROVE served[j] = Asks[o][j]
    <3>1. j \in 1 .. k - 1 \/ j = k
      <4> HIDE DEF served, k
      <4> QED
        BY <1>1, <2>5
    <3>2. \A i \in 1 .. k - 1 : done[i] = Asks[o][i]
        BY <1>2, <1>4 DEF Served
    <3> HIDE DEF served, k, done
    <3> QED
        BY <2>4, <2>5, <3>1, <3>2
  <2> HIDE DEF served
  <2>7. Answer(c, Done(r), served)
      BY <2>1 DEF served, e
  <2> QED
      BY <1>5, <2>5, <2>6, <2>7
<1>7. CASE \E code \in Refusals : Answer(c, code, done)
  <2>1. PICK code \in Refusals : Answer(c, code, done)
      BY <1>7
  <2>2. code # Done(r)
      BY DEF Done, Refusals
  <2>3. \A j \in 1 .. Len(done) : done[j] = Asks[o][j]
      BY <1>2 DEF Served
  <2> QED
      BY <1>4, <1>5, <2>1, <2>2, <2>3
<1> QED
    BY <1>6, <1>7 DEF Serve

\* Every step keeps what has been done for each call a prefix of what it asks for.
LEMMA ServedStep ==
    ASSUME \A c \in Callers : Menu[c] \subseteq AsAsked
    PROVE  GuestInv /\ ServedInv /\ (GuestNext \/ Exit \/ UNCHANGED guestVars)
               => ServedInv'
<1> SUFFICES ASSUME GuestInv, ServedInv, GuestNext \/ Exit \/ UNCHANGED guestVars
             PROVE  ServedInv'
    OBVIOUS
<1>1. ASSUME NEW c \in Callers, NEW o \in Menu[c], Invoke(c, o) PROVE ServedInv'
    BY <1>1, InvokeServed
<1>2. ASSUME NEW c \in Callers, Return(c) PROVE ServedInv'
  <2>1. call[c].phase = "answered" /\ call[c].answer \in {Nil, "error"}
      BY <1>2 DEF Return, GuestInv, CallsOK, Calls
  <2>2. CASE /\ call[c].answer = "nil" /\ Succeed(c)
             /\ call[c].k = Len(Sends[call[c].op])
      BY <2>1, <2>2, SucceedServed DEF Nil, Direct!Nil
  <2>3. CASE Fail(c, "error")
      BY <2>3, FailServed
  <2>4. CASE call[c].answer = "nil" /\ Proceed(c)
      BY <2>1, <2>4, ProceedServed DEF Nil, Direct!Nil
  <2> QED
      BY <1>2, <2>1, <2>2, <2>3, <2>4 DEF Return, Nil, Direct!Nil
<1>3. ASSUME NEW c \in Callers, Broken(c) \/ Expire(c) \/ ContextDone(c)
      PROVE  ServedInv'
    BY <1>3, FailServed DEF Broken, Expire, ContextDone, Abandon
<1>4. ASSUME NEW c \in Callers, Cancel(c) PROVE ServedInv'
  <2>1. /\ call'[c] = [call[c] EXCEPT !.cancelled = TRUE] /\ call[c] \in Calls
        /\ \A d \in Callers \ {c} : call'[d] = call[d]
      BY <1>4 DEF Cancel, GuestInv, CallsOK
  <2>2. /\ call'[c].op = call[c].op /\ call'[c].phase = call[c].phase
        /\ call'[c].k = call[c].k /\ call'[c].answer = call[c].answer
        /\ call'[c].served = call[c].served /\ call'[c].result = call[c].result
      BY <2>1 DEF Calls
  <2>3. ASSUME call'[c].op # Nil PROVE Served(c)'
      BY <2>2, <2>3 DEF ServedInv, Served
  <2> QED
      BY <2>1, <2>3, OneServed
<1>5. ASSUME NEW c \in Callers, Serve(c) PROVE ServedInv'
    BY <1>5, ServeServed
<1>6. CASE ServeLate \/ Exit \/ UNCHANGED guestVars
  <2>1. call' = call
      BY <1>6 DEF ServeLate, Exit, guestVars
  <2> QED
      BY <2>1 DEF ServedInv, Served
<1> QED
    BY <1>1, <1>2, <1>3, <1>4, <1>5, <1>6 DEF GuestNext, CallStep

\* What has been done for a call, when all of it is as asked.
LEMMA ServedMeansDone ==
    ASSUME GuestInv, ServedInv, NEW c \in Callers, call[c].op # Nil
    PROVE  /\ IsPrefix(call[c].served, Asks[call[c].op])
           /\ call[c].phase = "done" /\ call[c].result = Nil
                => call[c].served = Asks[call[c].op]
<1> DEFINE o == call[c].op
           done == call[c].served
           S == Effects \cup {Asks[o][k] : k \in 1 .. Len(Sends[o])}
<1>1. /\ o \in DOMAIN Sends /\ done \in Seq(S) /\ Asks[o] \in Seq(S)
  <2>1. o \in DOMAIN Sends
      BY DEF ServedInv, Served, AsAsked
  <2>2. Asks[o] \in Seq({Asks[o][k] : k \in 1 .. Len(Sends[o])})
      BY <2>1, Requests
  <2>3. done \in Seq(Effects)
      BY DEF GuestInv, CallsOK, Calls
  <2> QED
      BY <2>1, <2>2, <2>3
<1>2. /\ Len(done) <= Len(Asks[o]) /\ \A j \in 1 .. Len(done) : done[j] = Asks[o][j]
      /\ call[c].phase = "done" /\ call[c].result = Nil => Len(done) = Len(Asks[o])
    BY DEF ServedInv, Served
<1> HIDE DEF S, o, done
<1>3. SubSeq(done, 1, Len(done)) = SubSeq(Asks[o], 1, Len(done))
  <2> DEFINE n == Len(done) s == SubSeq(done, 1, n) t == SubSeq(Asks[o], 1, n)
  <2>1. n \in Nat /\ \A j \in 1 .. n : done[j] \in S /\ Asks[o][j] \in S
      BY <1>1, <1>2
  <2> HIDE DEF n
  <2>2. /\ s \in Seq(S) /\ Len(s) = n /\ \A j \in 1 .. n : s[j] = done[j]
    <3>1. 1 \in Int /\ n \in Int
        BY <2>1
    <3> QED
        BY <2>1, <3>1, SubSeqProperties
  <2>3. /\ t \in Seq(S) /\ Len(t) = n /\ \A j \in 1 .. n : t[j] = Asks[o][j]
    <3>1. 1 \in Int /\ n \in Int
        BY <2>1
    <3> QED
        BY <2>1, <3>1, SubSeqProperties
  <2> HIDE DEF s, t
  <2>4. s = t
      BY <1>2, <2>2, <2>3, SeqEqual DEF n
  <2> QED
      BY <2>4 DEF s, t, n
<1>4. IsPrefix(done, Asks[o])
    BY <1>2, <1>3 DEF IsPrefix
<1>5. call[c].phase = "done" /\ call[c].result = Nil => done = Asks[o]
    BY <1>1, <1>2, SeqEqual
<1> QED
    BY <1>4, <1>5 DEF o, done
===============================================================================
