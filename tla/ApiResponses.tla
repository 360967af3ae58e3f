----------------------------- MODULE ApiResponses ------------------------------
(***************************************************************************)
(* The readers of the generated client (client/operations/*_responses.go): *)
(* how each operation turns the status code and the body of an answer into *)
(* a result or an error.                                                   *)
(***************************************************************************)
EXTENDS Integers

\* The code of success with the type it is read into, and the codes that are
\* read into a typed error.
Reader(ok, result, typed) == [ok |-> ok, result |-> result, typed |-> typed]

Error == "error"

\* readResponse: a 204 has no body; any other body must decode, an empty one
\* (io.EOF) is accepted.
Readable(response) == response.code = 204 \/ response.body # "malformed"

\* Mutant: the Default type is always a result.
ReadDefault(reader, response) ==
    IF Readable(response) /\ response.code = reader.ok THEN reader.result
    ELSE IF Readable(response) /\ response.code \notin reader.typed
         THEN "Default" ELSE Error

\* A code the reader does not know goes to its Default type, which is an error
\* unless the code is a 2xx.
ReadResponse(reader, response) ==
    IF Readable(response) /\ response.code = reader.ok THEN reader.result
    ELSE IF Readable(response) /\ response.code \notin reader.typed
            /\ response.code \div 100 = 2
         THEN "Default" ELSE Error

-------------------------------------------------------------------------------
CreateSnapshotReader == Reader(204, "CreateSnapshotNoContent", {400})
CreateSyncActionReader == Reader(204, "CreateSyncActionNoContent", {400})
DescribeBalloonConfigReader == Reader(200, "DescribeBalloonConfigOK", {400})
DescribeBalloonStatsReader == Reader(200, "DescribeBalloonStatsOK", {400})
DescribeInstanceReader == Reader(200, "DescribeInstanceOK", {})
GetExportVMConfigReader == Reader(200, "GetExportVMConfigOK", {})
GetFirecrackerVersionReader == Reader(200, "GetFirecrackerVersionOK", {})
GetMachineConfigurationReader == Reader(200, "GetMachineConfigurationOK", {})
GetMmdsReader == Reader(200, "GetMmdsOK", {404})
LoadSnapshotReader == Reader(204, "LoadSnapshotNoContent", {400})
PatchBalloonReader == Reader(204, "PatchBalloonNoContent", {400})
PatchBalloonStatsIntervalReader == Reader(204, "PatchBalloonStatsIntervalNoContent", {400})
PatchGuestDriveByIDReader == Reader(204, "PatchGuestDriveByIDNoContent", {400})
PatchGuestNetworkInterfaceByIDReader == Reader(204, "PatchGuestNetworkInterfaceByIDNoContent", {400})
PatchMachineConfigurationReader == Reader(204, "PatchMachineConfigurationNoContent", {400})
PatchMmdsReader == Reader(204, "PatchMmdsNoContent", {400})
PatchVMReader == Reader(204, "PatchVMNoContent", {400})
PutBalloonReader == Reader(204, "PutBalloonNoContent", {400})
PutCPUConfigurationReader == Reader(204, "PutCPUConfigurationNoContent", {400})
PutEntropyDeviceReader == Reader(204, "PutEntropyDeviceNoContent", {})
PutGuestBootSourceReader == Reader(204, "PutGuestBootSourceNoContent", {400})
PutGuestDriveByIDReader == Reader(204, "PutGuestDriveByIDNoContent", {400})
PutGuestNetworkInterfaceByIDReader == Reader(204, "PutGuestNetworkInterfaceByIDNoContent", {400})
PutGuestVsockReader == Reader(204, "PutGuestVsockNoContent", {400})
PutLoggerReader == Reader(204, "PutLoggerNoContent", {400})
PutMachineConfigurationReader == Reader(204, "PutMachineConfigurationNoContent", {400})
PutMetricsReader == Reader(204, "PutMetricsNoContent", {400})
PutMmdsReader == Reader(204, "PutMmdsNoContent", {400})
PutMmdsConfigReader == Reader(204, "PutMmdsConfigNoContent", {400})

===============================================================================
