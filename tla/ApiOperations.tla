---------------------------- MODULE ApiOperations ------------------------------
(***************************************************************************)
(* The operations of the generated client                                  *)
(* (client/operations/operations_client.go): the request each one submits, *)
(* the reader of its answer and the type it asserts the result to have.    *)
(***************************************************************************)
EXTENDS ApiResponses, ApiParams

\* transport.Submit is given everything at once; what comes of it is in Guest.
Submit(method, path, params, reader, asserted) ==
    [method |-> method, path |-> path, id |-> params.id, body |-> params.body,
     timeout |-> params.timeout, ctx |-> params.ctx,
     reader |-> reader, asserted |-> asserted]

\* What a method returns for an answer: nil with a result, an error, or a panic
\* when the result is not of the asserted type.
Returns(op, response) ==
    LET result == ReadResponse(op.reader, response)
    IN  CASE result = Error       -> "error"
          [] result = op.asserted -> "nil"
          [] OTHER                -> "panic"

-------------------------------------------------------------------------------
CreateSnapshot(params) ==
    Submit("PUT", "/snapshot/create", params,
           CreateSnapshotReader, "CreateSnapshotNoContent")

CreateSyncAction(params) ==
    Submit("PUT", "/actions", params,
           CreateSyncActionReader, "CreateSyncActionNoContent")

DescribeBalloonConfig(params) ==
    Submit("GET", "/balloon", params,
           DescribeBalloonConfigReader, "DescribeBalloonConfigOK")

DescribeBalloonStats(params) ==
    Submit("GET", "/balloon/statistics", params,
           DescribeBalloonStatsReader, "DescribeBalloonStatsOK")

DescribeInstance(params) ==
    Submit("GET", "/", params,
           DescribeInstanceReader, "DescribeInstanceOK")

GetExportVMConfig(params) ==
    Submit("GET", "/vm/config", params,
           GetExportVMConfigReader, "GetExportVMConfigOK")

GetFirecrackerVersion(params) ==
    Submit("GET", "/version", params,
           GetFirecrackerVersionReader, "GetFirecrackerVersionOK")

GetMachineConfiguration(params) ==
    Submit("GET", "/machine-config", params,
           GetMachineConfigurationReader, "GetMachineConfigurationOK")

GetMmds(params) ==
    Submit("GET", "/mmds", params,
           GetMmdsReader, "GetMmdsOK")

LoadSnapshot(params) ==
    Submit("PUT", "/snapshot/load", params,
           LoadSnapshotReader, "LoadSnapshotNoContent")

PatchBalloon(params) ==
    Submit("PATCH", "/balloon", params,
           PatchBalloonReader, "PatchBalloonNoContent")

PatchBalloonStatsInterval(params) ==
    Submit("PATCH", "/balloon/statistics", params,
           PatchBalloonStatsIntervalReader, "PatchBalloonStatsIntervalNoContent")

PatchGuestDriveByID(params) ==
    Submit("PATCH", "/drives/drive_id", params,
           PatchGuestDriveByIDReader, "PatchGuestDriveByIDNoContent")

PatchGuestNetworkInterfaceByID(params) ==
    Submit("PATCH", "/network-interfaces/iface_id", params,
           PatchGuestNetworkInterfaceByIDReader, "PatchGuestNetworkInterfaceByIDNoContent")

PatchMachineConfiguration(params) ==
    Submit("PATCH", "/machine-config", params,
           PatchMachineConfigurationReader, "PatchMachineConfigurationNoContent")

PatchMmds(params) ==
    Submit("PATCH", "/mmds", params,
           PatchMmdsReader, "PatchMmdsNoContent")

PatchVM(params) ==
    Submit("PATCH", "/vm", params,
           PatchVMReader, "PatchVMNoContent")

PutBalloon(params) ==
    Submit("PUT", "/balloon", params,
           PutBalloonReader, "PutBalloonNoContent")

PutCPUConfiguration(params) ==
    Submit("PUT", "/cpu-config", params,
           PutCPUConfigurationReader, "PutCPUConfigurationNoContent")

PutEntropyDevice(params) ==
    Submit("PUT", "/entropy", params,
           PutEntropyDeviceReader, "PutEntropyDeviceNoContent")

PutGuestBootSource(params) ==
    Submit("PUT", "/boot-source", params,
           PutGuestBootSourceReader, "PutGuestBootSourceNoContent")

PutGuestDriveByID(params) ==
    Submit("PUT", "/drives/drive_id", params,
           PutGuestDriveByIDReader, "PutGuestDriveByIDNoContent")

PutGuestNetworkInterfaceByID(params) ==
    Submit("PUT", "/network-interfaces/iface_id", params,
           PutGuestNetworkInterfaceByIDReader, "PutGuestNetworkInterfaceByIDNoContent")

PutGuestVsock(params) ==
    Submit("PUT", "/vsock", params,
           PutGuestVsockReader, "PutGuestVsockNoContent")

PutLogger(params) ==
    Submit("PUT", "/logger", params,
           PutLoggerReader, "PutLoggerNoContent")

PutMachineConfiguration(params) ==
    Submit("PUT", "/machine-config", params,
           PutMachineConfigurationReader, "PutMachineConfigurationNoContent")

PutMetrics(params) ==
    Submit("PUT", "/metrics", params,
           PutMetricsReader, "PutMetricsNoContent")

PutMmds(params) ==
    Submit("PUT", "/mmds", params,
           PutMmdsReader, "PutMmdsNoContent")

PutMmdsConfig(params) ==
    Submit("PUT", "/mmds/config", params,
           PutMmdsConfigReader, "PutMmdsConfigNoContent")

===============================================================================
