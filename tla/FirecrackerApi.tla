---------------------------- MODULE FirecrackerApi -----------------------------
(***************************************************************************)
(* The API that firecracker serves, as client/swagger.yaml declares it:    *)
(* the operation at each method and path, and the codes of its answers.    *)
(* The parameter of a path is written without its braces.                  *)
(***************************************************************************)

Paths ==
    [GET |->
        {<<"/", "describeInstance">>,
         <<"/balloon", "describeBalloonConfig">>,
         <<"/balloon/statistics", "describeBalloonStats">>,
         <<"/machine-config", "getMachineConfiguration">>,
         <<"/mmds", "getMmds">>,
         <<"/version", "getFirecrackerVersion">>,
         <<"/vm/config", "getExportVmConfig">>},
     PUT |->
        {<<"/actions", "createSyncAction">>,
         <<"/balloon", "putBalloon">>,
         <<"/boot-source", "putGuestBootSource">>,
         <<"/cpu-config", "putCpuConfiguration">>,
         <<"/drives/drive_id", "putGuestDriveByID">>,
         <<"/logger", "putLogger">>,
         <<"/machine-config", "putMachineConfiguration">>,
         <<"/metrics", "putMetrics">>,
         <<"/mmds", "putMmds">>,
         <<"/mmds/config", "putMmdsConfig">>,
         <<"/entropy", "putEntropyDevice">>,
         <<"/network-interfaces/iface_id", "putGuestNetworkInterfaceByID">>,
         <<"/snapshot/create", "createSnapshot">>,
         <<"/snapshot/load", "loadSnapshot">>,
         <<"/vsock", "putGuestVsock">>},
     PATCH |->
        {<<"/balloon", "patchBalloon">>,
         <<"/balloon/statistics", "patchBalloonStatsInterval">>,
         <<"/drives/drive_id", "patchGuestDriveByID">>,
         <<"/machine-config", "patchMachineConfiguration">>,
         <<"/mmds", "patchMmds">>,
         <<"/network-interfaces/iface_id", "patchGuestNetworkInterfaceByID">>,
         <<"/vm", "patchVm">>}]

\* The operations (at most one) a request is for.
Operations(request) ==
    {p[2] : p \in {q \in Paths[request.method] : q[1] = request.path}}

\* A GET is answered with 200 and a body, everything else with 204 and none; an
\* error comes with a body.  What follows the status line may arrive broken.
Done(request) == IF request.method = "GET" THEN 200 ELSE 204
Refusals == {400, 404, 500}
Bodies(code) == IF code = 204 THEN {"none"} ELSE {"json", "malformed"}
===============================================================================
