------------------------------- MODULE ApiClient -------------------------------
(***************************************************************************)
(* The methods of Client (firecracker.go): which generated operation each  *)
(* one calls, with which context and which limit.  The options a caller    *)
(* may pass to change the parameters are left out.                         *)
(***************************************************************************)
EXTENDS ApiParams

Ops == INSTANCE ApiOperations

\* context.WithTimeout(ctx, firecrackerRequestTimeout), and half of it.
RequestTimeout == NewParamsWithContext("request")
HalfTimeout == NewParamsWithContext("half")

\* The caller's context, with the default limit of the parameters or with none.
CallerContext == SetContext(NewParams, "caller")
CallerContextOnly == NewParamsWithContext("caller")

-------------------------------------------------------------------------------
GetFirecrackerVersion ==
    Ops!GetFirecrackerVersion(GetFirecrackerVersionParams(CallerContext))

PutLogger(logger) ==
    Ops!PutLogger(PutLoggerParams(RequestTimeout, logger))

PutMetrics(metrics) ==
    Ops!PutMetrics(PutMetricsParams(RequestTimeout, metrics))

PutMachineConfiguration(cfg) ==
    Ops!PutMachineConfiguration(
        PutMachineConfigurationParams(RequestTimeout, cfg))

PutGuestBootSource(source) ==
    Ops!PutGuestBootSource(PutGuestBootSourceParams(RequestTimeout, source))

PutGuestNetworkInterfaceByID(ifaceID, ifaceCfg) ==
    Ops!PutGuestNetworkInterfaceByID(
        PutGuestNetworkInterfaceByIDParams(RequestTimeout, ifaceID, ifaceCfg))

PatchGuestNetworkInterfaceByID(ifaceID, ifaceCfg) ==
    Ops!PatchGuestNetworkInterfaceByID(
        PatchGuestNetworkInterfaceByIDParams(RequestTimeout, ifaceID, ifaceCfg))

PutGuestDriveByID(driveID, drive) ==
    Ops!PutGuestDriveByID(
        PutGuestDriveByIDParams(HalfTimeout, driveID, drive))

PutGuestVsock(vsock) ==
    Ops!PutGuestVsock(PutGuestVsockParams(CallerContext, vsock))

\* Mutant: the limit of the request is forgotten.
PatchVMNoLimit(vm) ==
    Ops!PatchVM(PatchVMParams(CallerContextOnly, vm))

PatchVM(vm) ==
    Ops!PatchVM(PatchVMParams(RequestTimeout, vm))

CreateSnapshot(snapshotParams) ==
    Ops!CreateSnapshot(
        CreateSnapshotParams(CallerContextOnly, snapshotParams))

LoadSnapshot(snapshotParams) ==
    Ops!LoadSnapshot(LoadSnapshotParams(CallerContextOnly, snapshotParams))

CreateSyncAction(info) ==
    Ops!CreateSyncAction(CreateSyncActionParams(CallerContext, info))

PutMmds(metadata) ==
    Ops!PutMmds(PutMmdsParams(CallerContext, metadata))

GetMmds ==
    Ops!GetMmds(GetMmdsParams(CallerContext))

PatchMmds(metadata) ==
    Ops!PatchMmds(PatchMmdsParams(CallerContext, metadata))

PutMmdsConfig(config) ==
    Ops!PutMmdsConfig(PutMmdsConfigParams(CallerContext, config))

GetMachineConfiguration ==
    Ops!GetMachineConfiguration(
        GetMachineConfigurationParams(SetTimeout(NewParams, "request")))

GetInstanceInfo ==
    Ops!DescribeInstance(DescribeInstanceParams(CallerContext))

PatchGuestDriveByID(driveID, pathOnHost) ==
    Ops!PatchGuestDriveByID(PatchGuestDriveByIDParams(CallerContext, driveID,
        <<driveID, pathOnHost>>))

PutBalloon(balloon) ==
    Ops!PutBalloon(PutBalloonParams(RequestTimeout, balloon))

DescribeBalloonConfig ==
    Ops!DescribeBalloonConfig(
        DescribeBalloonConfigParams(SetTimeout(CallerContext, "request")))

PatchBalloon(ballonUpdate) ==
    Ops!PatchBalloon(PatchBalloonParams(RequestTimeout, ballonUpdate))

DescribeBalloonStats ==
    Ops!DescribeBalloonStats(
        DescribeBalloonStatsParams(SetTimeout(CallerContext, "request")))

PatchBalloonStatsInterval(balloonStatsUpdate) ==
    Ops!PatchBalloonStatsInterval(
        PatchBalloonStatsIntervalParams(RequestTimeout, balloonStatsUpdate))

GetExportVMConfig ==
    Ops!GetExportVMConfig(
        GetExportVMConfigParams(SetTimeout(NewParams, "request")))

===============================================================================
