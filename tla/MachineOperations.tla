--------------------------- MODULE MachineOperations ---------------------------
(***************************************************************************)
(* The operations of a machine that talk to firecracker (machine.go), each *)
(* as the sequence of requests it sends through Client; it returns at the  *)
(* first error.  The arguments are symbols that tell the requests apart.   *)
(* m.machineConfig, which refreshMachineConfiguration stores, is read      *)
(* nowhere and left out.                                                   *)
(***************************************************************************)
EXTENDS Sequences

Client == INSTANCE ApiClient
Direct == INSTANCE ApiOperations
Nil == Direct!Nil

-------------------------------------------------------------------------------
(* The requests each operation sends, in order. *)

PauseVM == <<Client!PatchVM(<<"Paused">>)>>
ResumeVM == <<Client!PatchVM(<<"Resumed">>)>>
CreateSnapshot == <<Client!CreateSnapshot(<<"snapshot">>)>>
loadSnapshot == <<Client!LoadSnapshot(<<"snapshot">>)>>
CreateBalloon == <<Client!PutBalloon(<<"balloon">>)>>
GetBalloonConfig == <<Client!DescribeBalloonConfig>>
UpdateBalloon == <<Client!PatchBalloon(<<"amount">>)>>
GetBalloonStats == <<Client!DescribeBalloonStats>>
UpdateBalloonStats == <<Client!PatchBalloonStatsInterval(<<"interval">>)>>
SetMetadata == <<Client!PutMmds(<<"metadata">>)>>
UpdateMetadata == <<Client!PatchMmds(<<"metadata">>)>>
GetMetadata == <<Client!GetMmds>>
UpdateGuestDrive == <<Client!PatchGuestDriveByID("drive1", "path")>>
DescribeInstanceInfo == <<Client!GetInstanceInfo>>
GetFirecrackerVersion == <<Client!GetFirecrackerVersion>>
refreshMachineConfiguration == <<Client!GetMachineConfiguration>>
createMachine ==
    <<Client!PutMachineConfiguration(<<"machine">>)>>
        \o refreshMachineConfiguration
createBootSource == <<Client!PutGuestBootSource(<<"kernel">>)>>
attachDrive(dev) == <<Client!PutGuestDriveByID(dev, <<dev>>)>>
\* Mutant: the loop's variable is shared by its rounds.
attachLastDrive == attachDrive("drive2") \o attachDrive("drive2")

attachDrives == attachDrive("drive1") \o attachDrive("drive2")

\* strconv.Itoa(id + 1) for the indices of two interfaces.
IfaceID == <<"1", "2">>
createNetworkInterface(iid) ==
    <<Client!PutGuestNetworkInterfaceByID(iid, <<iid>>)>>
createNetworkInterfaces ==
    createNetworkInterface(IfaceID[1]) \o createNetworkInterface(IfaceID[2])
addVsock == <<Client!PutGuestVsock(<<"vsock">>)>>
sendCtrlAltDel == <<Client!CreateSyncAction(<<"SendCtrlAltDel">>)>>

\* Nothing is sent when a snapshot is configured, no path is, or no interface
\* allows MMDS.
startInstance(hasSnapshot) ==
    IF hasSnapshot THEN <<>> ELSE <<Client!CreateSyncAction(<<"InstanceStart">>)>>
setupLogging(path) ==
    IF path = Nil THEN <<>> ELSE <<Client!PutLogger(<<path>>)>>
setupMetrics(path) ==
    IF path = Nil THEN <<>> ELSE <<Client!PutMetrics(<<path>>)>>
setMmdsConfig(allowed) ==
    LET allows(iid) == IF iid \in allowed THEN <<iid>> ELSE <<>>
        ifaces == allows(IfaceID[1]) \o allows(IfaceID[2])
    IN  IF ifaces = <<>> THEN <<>> ELSE <<Client!PutMmdsConfig(ifaces)>>

\* The limiter of the transmitting side is taken from InRateLimiter.
UpdateGuestNetworkInterfaceRateLimit(in, out) ==
    <<Client!PatchGuestNetworkInterfaceByID("1",
        <<in, IF out = Nil THEN Nil ELSE in>>)>>

\* Operations of the generated client that no method of Machine uses.
GetExportVMConfig == <<Client!GetExportVMConfig>>
PutCPUConfiguration ==
    <<Direct!PutCPUConfiguration(
        Direct!PutCPUConfigurationParams(Direct!NewParams, <<"cpu">>))>>
PutEntropyDevice ==
    <<Direct!PutEntropyDevice(
        Direct!PutEntropyDeviceParams(Direct!NewParams, <<"entropy">>))>>
PatchMachineConfiguration ==
    <<Direct!PatchMachineConfiguration(
        Direct!PatchMachineConfigurationParams(Direct!NewParams,
                                               <<"machine">>))>>

-------------------------------------------------------------------------------
\* The operations with the arguments they are called with: the name of a call,
\* and what is sent for it.
Sends ==
    [PauseVM |-> PauseVM, ResumeVM |-> ResumeVM,
     CreateSnapshot |-> CreateSnapshot, loadSnapshot |-> loadSnapshot,
     CreateBalloon |-> CreateBalloon, GetBalloonConfig |-> GetBalloonConfig,
     UpdateBalloon |-> UpdateBalloon, GetBalloonStats |-> GetBalloonStats,
     UpdateBalloonStats |-> UpdateBalloonStats,
     SetMetadata |-> SetMetadata, UpdateMetadata |-> UpdateMetadata,
     GetMetadata |-> GetMetadata, UpdateGuestDrive |-> UpdateGuestDrive,
     DescribeInstanceInfo |-> DescribeInstanceInfo,
     GetFirecrackerVersion |-> GetFirecrackerVersion,
     createMachine |-> createMachine, createBootSource |-> createBootSource,
     attachDrives |-> attachDrives,
     createNetworkInterfaces |-> createNetworkInterfaces,
     addVsocks |-> addVsock, startInstance |-> startInstance(FALSE),
     snapshotStarted |-> startInstance(TRUE),
     sendCtrlAltDel |-> sendCtrlAltDel,
     setupLogging |-> setupLogging("log"), noLogging |-> setupLogging(Nil),
     setupMetrics |-> setupMetrics("metrics"), noMetrics |-> setupMetrics(Nil),
     setMmdsConfig |-> setMmdsConfig({"2"}), noMmds |-> setMmdsConfig({}),
     limitBoth |-> UpdateGuestNetworkInterfaceRateLimit("x", "x"),
     limitIn |-> UpdateGuestNetworkInterfaceRateLimit("x", Nil),
     limitNone |-> UpdateGuestNetworkInterfaceRateLimit(Nil, Nil),
     limitOut |-> UpdateGuestNetworkInterfaceRateLimit(Nil, "x"),
     limitEach |-> UpdateGuestNetworkInterfaceRateLimit("x", "y"),
     GetExportVMConfig |-> GetExportVMConfig,
     PutCPUConfiguration |-> PutCPUConfiguration,
     PutEntropyDevice |-> PutEntropyDevice,
     PatchMachineConfiguration |-> PatchMachineConfiguration]

\* What each of them is for, by the operation of the API (client/swagger.yaml),
\* the resource and its new value: the reference the calls are checked against.
Ask(operation, id, body) ==
    <<[operation |-> operation, id |-> id, body |-> body]>>
Rates(rx, tx) ==
    Ask("patchGuestNetworkInterfaceByID", "1", <<rx, tx>>)

Asks ==
    [PauseVM |-> Ask("patchVm", Nil, <<"Paused">>),
     ResumeVM |-> Ask("patchVm", Nil, <<"Resumed">>),
     CreateSnapshot |-> Ask("createSnapshot", Nil, <<"snapshot">>),
     loadSnapshot |-> Ask("loadSnapshot", Nil, <<"snapshot">>),
     CreateBalloon |-> Ask("putBalloon", Nil, <<"balloon">>),
     GetBalloonConfig |-> Ask("describeBalloonConfig", Nil, <<>>),
     UpdateBalloon |-> Ask("patchBalloon", Nil, <<"amount">>),
     GetBalloonStats |-> Ask("describeBalloonStats", Nil, <<>>),
     UpdateBalloonStats |->
         Ask("patchBalloonStatsInterval", Nil, <<"interval">>),
     SetMetadata |-> Ask("putMmds", Nil, <<"metadata">>),
     UpdateMetadata |-> Ask("patchMmds", Nil, <<"metadata">>),
     GetMetadata |-> Ask("getMmds", Nil, <<>>),
     UpdateGuestDrive |->
         Ask("patchGuestDriveByID", "drive1", <<"drive1", "path">>),
     DescribeInstanceInfo |-> Ask("describeInstance", Nil, <<>>),
     GetFirecrackerVersion |-> Ask("getFirecrackerVersion", Nil, <<>>),
     createMachine |-> Ask("putMachineConfiguration", Nil, <<"machine">>)
                         \o Ask("getMachineConfiguration", Nil, <<>>),
     createBootSource |-> Ask("putGuestBootSource", Nil, <<"kernel">>),
     attachDrives |-> Ask("putGuestDriveByID", "drive1", <<"drive1">>)
                        \o Ask("putGuestDriveByID", "drive2", <<"drive2">>),
     createNetworkInterfaces |->
         Ask("putGuestNetworkInterfaceByID", "1", <<"1">>)
           \o Ask("putGuestNetworkInterfaceByID", "2", <<"2">>),
     addVsocks |-> Ask("putGuestVsock", Nil, <<"vsock">>),
     startInstance |-> Ask("createSyncAction", Nil, <<"InstanceStart">>),
     snapshotStarted |-> <<>>,
     sendCtrlAltDel |-> Ask("createSyncAction", Nil, <<"SendCtrlAltDel">>),
     setupLogging |-> Ask("putLogger", Nil, <<"log">>), noLogging |-> <<>>,
     setupMetrics |-> Ask("putMetrics", Nil, <<"metrics">>), noMetrics |-> <<>>,
     setMmdsConfig |-> Ask("putMmdsConfig", Nil, <<"2">>), noMmds |-> <<>>,
     limitBoth |-> Rates("x", "x"), limitIn |-> Rates("x", Nil),
     limitNone |-> Rates(Nil, Nil), limitOut |-> Rates(Nil, "x"),
     limitEach |-> Rates("x", "y"),
     GetExportVMConfig |-> Ask("getExportVmConfig", Nil, <<>>),
     PutCPUConfiguration |-> Ask("putCpuConfiguration", Nil, <<"cpu">>),
     PutEntropyDevice |-> Ask("putEntropyDevice", Nil, <<"entropy">>),
     PatchMachineConfiguration |->
         Ask("patchMachineConfiguration", Nil, <<"machine">>)]
===============================================================================
