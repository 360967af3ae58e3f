------------------------------ MODULE ApiParams --------------------------------
(***************************************************************************)
(* The parameters of the generated client                                  *)
(* (client/operations/*_parameters.go): the time limit, the context, the   *)
(* id in the path and the body of a request.  Contexts and limits are      *)
(* named, not measured: "request" is the configured request timeout,       *)
(* "default" the 30 seconds of go-openapi.                                 *)
(***************************************************************************)

Nil == "nil"

\* A body is the tuple of its fields that matter.
NoBody == <<>>

\* New...Params: the default limit and no context.
NewParams == [timeout |-> "default", ctx |-> Nil, id |-> Nil, body |-> NoBody]

\* New...ParamsWithContext: no limit but the one the context may have.
NewParamsWithContext(ctx) == [NewParams EXCEPT !.timeout = Nil, !.ctx = ctx]

SetContext(p, ctx) == [p EXCEPT !.ctx = ctx]
SetTimeout(p, timeout) == [p EXCEPT !.timeout = timeout]

-------------------------------------------------------------------------------
(* What each operation's parameters write to the request.                  *)

\* WriteToRequest: the limit, the id of the path for the operations that have
\* one, the body unless it is nil.
Written(p, id, body) == [p EXCEPT !.id = id, !.body = body]

CreateSnapshotParams(p, body) == Written(p, Nil, body)
CreateSyncActionParams(p, body) == Written(p, Nil, body)
DescribeBalloonConfigParams(p) == Written(p, Nil, NoBody)
DescribeBalloonStatsParams(p) == Written(p, Nil, NoBody)
DescribeInstanceParams(p) == Written(p, Nil, NoBody)
GetExportVMConfigParams(p) == Written(p, Nil, NoBody)
GetFirecrackerVersionParams(p) == Written(p, Nil, NoBody)
GetMachineConfigurationParams(p) == Written(p, Nil, NoBody)
GetMmdsParams(p) == Written(p, Nil, NoBody)
LoadSnapshotParams(p, body) == Written(p, Nil, body)
PatchBalloonParams(p, body) == Written(p, Nil, body)
PatchBalloonStatsIntervalParams(p, body) == Written(p, Nil, body)
PatchGuestDriveByIDParams(p, id, body) == Written(p, id, body)
PatchGuestNetworkInterfaceByIDParams(p, id, body) == Written(p, id, body)
PatchMachineConfigurationParams(p, body) == Written(p, Nil, body)
PatchMmdsParams(p, body) == Written(p, Nil, body)
PatchVMParams(p, body) == Written(p, Nil, body)
PutBalloonParams(p, body) == Written(p, Nil, body)
PutCPUConfigurationParams(p, body) == Written(p, Nil, body)
PutEntropyDeviceParams(p, body) == Written(p, Nil, body)
PutGuestBootSourceParams(p, body) == Written(p, Nil, body)
PutGuestDriveByIDParams(p, id, body) == Written(p, id, body)
PutGuestNetworkInterfaceByIDParams(p, id, body) == Written(p, id, body)
PutGuestVsockParams(p, body) == Written(p, Nil, body)
PutLoggerParams(p, body) == Written(p, Nil, body)
PutMachineConfigurationParams(p, body) == Written(p, Nil, body)
PutMetricsParams(p, body) == Written(p, Nil, body)
PutMmdsParams(p, body) == Written(p, Nil, body)
PutMmdsConfigParams(p, body) == Written(p, Nil, body)

===============================================================================
