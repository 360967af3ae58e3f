---------------------------------- MODULE Boot ---------------------------------
(***************************************************************************)
(* From a Config to a running guest: the handler lists that NewMachine     *)
(* puts together (with the jailer, with a snapshot), and what each handler *)
(* validates, rewrites and asks of firecracker.                            *)
(*                                                                         *)
(* A caller may make several machines from one Config, one Start after     *)
(* another.  The Config is copied, its slices are not: the interfaces and  *)
(* the drives are shared by all of these machines, and so are the socket   *)
(* path and the chroot directory that it names.  A firecracker whose Start *)
(* gave up waiting for it may still come up on that path.  That it exits   *)
(* under a Start, and what becomes of the CNI network, are in Machine and  *)
(* Network; here any request and any handler may fail.                     *)
(***************************************************************************)
EXTENDS Integers, Sequences, FiniteSets, SequencesExt, Commands, CniResult

CONSTANTS
    Machines,   \* the machines made from the Config
    Configs,    \* the Configs the caller may use
    CniResults(_)   \* what CNI may report to a machine

Files == {"kernel", "initrd", "root", "data", "log", "metrics", "mem",
          "snapshot", "uds"}

\* A path: a file on the host, or a bare name (relative to the chroot for a
\* jailed firecracker), or the empty string.
Path(dir, file) == [dir |-> dir, file |-> file]
NoPath == Path(Unset, Unset)
Paths == [dir : {"host", "name"}, file : Files] \cup {NoPath}
Base(p) == Path("name", p.file)

\* A Config: with a jailer (baseDir is its ChrootBaseDir); NetNS; KernelArgs as
\* a sequence of keys and values; the snapshot given by the WithSnapshot option
\* or by the Snapshot field; whether validation is disabled; how the log and the
\* metrics are configured; the files that are missing on the host, and the sizes
\* of the machine that are not given; the slices; the API socket; seccomp; the
\* CPUs of the NUMA node; the cgroup settings.
ConfigFields ==
    [jailed : BOOLEAN, baseDir : STRING, netns : STRING,
     args : Seq([key : STRING, val : Seq(STRING)]),
     snapshot : {"none", "option", "field"}, unchecked : BOOLEAN,
     initrd : BOOLEAN, log : {"none", "path", "fifo"}, vsock : BOOLEAN,
     missing : SUBSET (Files \cup {"VcpuCount", "MemSizeMib"}),
     ifaces : Seq([cni : {"none", "ok", "bad"}, dev : Seq(STRING),
                   mac : Seq(STRING), ip : Seq(Seq(STRING)), mmds : BOOLEAN]),
     drives : Seq([path : [dir : {"host"}, file : Files], root : BOOLEAN]),
     socket : STRING, seccomp : STRING, cpus : STRING,
     cgroup : Seq(STRING \X STRING)]

ASSUME ConfigsAssumption == Configs \subseteq ConfigFields

\* A machine's name is not that of no machine.
ASSUME MachinesAssumption == Machines \cap {"none", "stale"} = {}

\* An address in a CNI result belongs to an interface of the result, or to none.
ASSUME CniResultsAssumption ==
    \A m \in Machines : \A result \in CniResults(m) :
        /\ DOMAIN result.ifaces = 1 .. Len(result.ifaces)
        /\ \A j \in DOMAIN result.ips :
            result.ips[j].iface \in DOMAIN result.ifaces \cup {0}

VARIABLES
    cfg,        \* the caller's Config
    ifaces,     \* the array of cfg.NetworkInterfaces
    drives,     \* the array of cfg.Drives
    chroot,     \* the names in the jail's root directory
    fifos,      \* the fifos that exist on the host
    server,     \* whose firecracker listens on the socket path, "none", or
                \* "stale" if there is a socket and nobody listens
    st,         \* per machine: "none", "new", "starting", "ok", "err" or "down"
    todo,       \* the handlers its Start has still to run
    own,        \* its own copy of the Config's scalar fields
    cmd,        \* the command line its process will be started with
    cni,        \* the CNI result it was configured from, in a sequence
    ns,         \* the namespace its firecracker runs in
    made,       \* what its cleanup functions will remove
    late,       \* a firecracker Start gave up waiting for: "no", "pending" or
                \* "bound", when it has come up after all
    reqs        \* the requests that were accepted, in order

sharedVars == <<ifaces, drives>>
hostVars == <<chroot, fifos, server>>
machineVars == <<own, cmd, cni, ns, made, late>>
vars == <<cfg, sharedVars, hostVars, st, todo, machineVars, reqs>>

NoConfig == [kernel |-> NoPath, initrd |-> NoPath, log |-> NoPath,
             metrics |-> NoPath, netns |-> Unset, args |-> <<>>, socket |-> <<>>]
NoCommand == [options |-> <<>>, behind |-> <<>>]

Init ==
    /\ cfg \in Configs
    /\ ifaces = cfg.ifaces /\ drives = cfg.drives
    /\ chroot = {} /\ fifos = {} /\ server = "none"
    /\ st = [m \in Machines |-> "none"] /\ todo = [m \in Machines |-> <<>>]
    /\ own = [m \in Machines |-> NoConfig] /\ cmd = [m \in Machines |-> NoCommand]
    /\ cni = [m \in Machines |-> <<>>]
    /\ ns = [m \in Machines |-> Unset] /\ made = [m \in Machines |-> {}]
    /\ late = [m \in Machines |-> "no"]
    /\ reqs = [m \in Machines |-> <<>>]

\* The list without the handlers in names: its k-th is the k-th of those kept.
Without(list, names) ==
    LET kept == {j \in DOMAIN list : list[j] \notin names}
        nth(k) == CHOOSE j \in kept : Cardinality({l \in kept : l <= j}) = k
    IN  [k \in 1 .. Cardinality(kept) |-> list[nth(k)]]

-------------------------------------------------------------------------------
(* NewMachine: the handler lists. *)

defaultFcInitHandlerList ==
    <<"SetupNetwork", "SetupKernelArgs", "StartVMM", "CreateLogFiles",
      "BootstrapLogging", "CreateMachine", "CreateBootSource", "AttachDrives",
      "CreateNetworkInterfaces", "AddVsocks", "ConfigMmds">>

loadSnapshotRemoveHandlerList ==
    {"SetupKernelArgs", "CreateMachine", "CreateBootSource", "AttachDrives",
     "CreateNetworkInterfaces", "ConfigMmds"}

\* Mutant: the files are linked at the end.
AdaptHandlersLast(list) == Append(list, "LinkFilesToRootFS")

\* NaiveChrootStrategy: the files are linked right after CreateLogFiles.
AdaptHandlers(list) ==
    LET at == CHOOSE j \in DOMAIN list : list[j] = "CreateLogFiles"
    IN  SubSeq(list, 1, at) \o <<"LinkFilesToRootFS">>
            \o SubSeq(list, at + 1, Len(list))

\* Mutant: the handlers for a fresh guest stay in the list.
modifyHandlersForLoadSnapshotKeep(list) == Append(list, "LoadSnapshot")

modifyHandlersForLoadSnapshot(list) ==
    Append(Without(list, loadSnapshotRemoveHandlerList), "LoadSnapshot")

FcInit ==
    LET list == IF cfg.jailed THEN AdaptHandlers(defaultFcInitHandlerList)
                              ELSE defaultFcInitHandlerList
    IN  IF cfg.snapshot = "option" THEN modifyHandlersForLoadSnapshot(list)
                                   ELSE list

Validation ==
    LET list == <<"ValidateNetworkCfg",
                  IF cfg.jailed THEN "ValidateJailerCfg" ELSE "ValidateCfg">>
    IN  IF cfg.snapshot = "option"
        THEN Append(Without(list, {"ValidateCfg"}), "ValidateLoadSnapshotCfg")
        ELSE list

\* The first interface with a CNIConfiguration, or 0.
cniInterface ==
    LET S == {j \in DOMAIN ifaces : ifaces[j].cni # "none"}
    IN  IF S = {} THEN 0 ELSE CHOOSE j \in S : \A k \in S : j <= k

\* The paths of the fifos, or of LogPath and MetricsPath.
LogFile(f) == IF cfg.log = "none" THEN NoPath ELSE Path("host", f)

\* Mutant: the client is given the socket's path inside the jail.
jailInside == [cmd |-> JailerArgs(jailBuilder(cfg)),
               socket |-> <<machineSocketPath(cfg)>>]

\* The jailer's command line, with the NetNS of the Config, and the socket's
\* path on the host.
jail == [cmd |-> JailerArgs(jailBuilder(cfg)),
         socket |-> Append(jailerWorkspaceDir(cfg), machineSocketPath(cfg))]

\* Without a jailer.
plain(m) ==
    [cmd |-> Build(configureBuilder(defaultFirecrackerVMMCommandBuilder, cfg, m)),
     socket |-> <<cfg.socket>>]

\* The client is made for the socket as jail has rewritten it.  The default
\* namespace, named after the VM's ID (here m), is filled in after jail.
NewMachine(m) ==
    LET process == IF cfg.jailed THEN jail ELSE plain(m) IN
    /\ st[m] = "none"
    /\ st' = [st EXCEPT ![m] = "new"]
    /\ cmd' = [cmd EXCEPT ![m] = process.cmd]
    /\ own' = [own EXCEPT ![m] =
            [kernel |-> Path("host", "kernel"),
             initrd |-> IF cfg.initrd THEN Path("host", "initrd") ELSE NoPath,
             log |-> LogFile("log"), metrics |-> LogFile("metrics"),
             netns |-> IF cfg.netns = Unset /\ cniInterface # 0 THEN m ELSE cfg.netns,
             args |-> cfg.args, socket |-> process.socket]]
    /\ UNCHANGED <<cfg, sharedVars, hostVars, todo, cni, ns, made, late, reqs>>

\* Handlers.Run flattens the lists.  Start is called on one machine at a time.
Start(m) ==
    /\ st[m] = "new" /\ \A o \in Machines : st[o] # "starting"
    /\ st' = [st EXCEPT ![m] = "starting"]
    /\ todo' = [todo EXCEPT ![m] =
                    (IF cfg.unchecked THEN <<>> ELSE Validation) \o FcInit]
    /\ UNCHANGED <<cfg, sharedVars, hostVars, machineVars, reqs>>

-------------------------------------------------------------------------------
(* How a handler ends. *)

Runs(m, h) == st[m] = "starting" /\ todo[m] # <<>> /\ Head(todo[m]) = h

\* It returned nil.
Done(m) == todo' = [todo EXCEPT ![m] = Tail(@)] /\ UNCHANGED st

\* Its error ends Start, whose deferred doCleanup removes what has been made.
doCleanup(m, things) ==
    /\ server' = IF "sock" \in things THEN "none" ELSE server
    /\ fifos' = fifos \ things
    /\ made' = [made EXCEPT ![m] = {}]

Fail(m) ==
    /\ st' = [st EXCEPT ![m] = "err"]
    /\ todo' = [todo EXCEPT ![m] = <<>>]
    /\ doCleanup(m, made[m])
    /\ UNCHANGED chroot

\* A handler that only looks.
Check(m, ok) ==
    /\ \/ ok /\ Done(m) /\ UNCHANGED <<hostVars, made>>
       \/ ~ok /\ Fail(m)
    /\ UNCHANGED <<cfg, sharedVars, own, cmd, cni, ns, late, reqs>>

\* One of the requests rs, or what comes after them, fails; an accepted request
\* may be reported as failed.
SendFails(m, rs) ==
    \E k \in 0 .. Len(rs) :
        /\ k > 0 => server \in Machines
        /\ reqs' = [reqs EXCEPT ![m] = @ \o SubSeq(rs, 1, k)]
        /\ Fail(m)

\* A handler that sends the requests rs, each after the one before it was
\* accepted.
Send(m, rs) ==
    /\ \/ /\ rs = <<>> \/ server \in Machines
          /\ reqs' = [reqs EXCEPT ![m] = @ \o rs]
          /\ Done(m) /\ UNCHANGED <<hostVars, made>>
       \/ rs # <<>> /\ SendFails(m, rs)
    /\ UNCHANGED <<cfg, sharedVars, own, cmd, cni, ns, late>>

-------------------------------------------------------------------------------
(* The validation handlers. *)

\* os.Stat succeeds.  A bare name is looked up where the SDK runs.
Exists(p) ==
    /\ p.dir = "host" /\ p.file \notin cfg.missing
    /\ p.file \in {"log", "metrics"} => p.file \in fifos

\* Mutant: an interface may have both configurations.
OneKindLax(iface) == iface.cni # "none" \/ iface.dev # <<>>

\* Exactly one of CNIConfiguration and StaticConfiguration (dev is the
\* name of the tap in it, and empty without one).
OneKind(iface) == (iface.cni # "none") # (iface.dev # <<>>)

Keys(args) == {args[j].key : j \in DOMAIN args}

\* Mutant: an address does not exclude an ip= of the user's.
AloneLax(iface, args) ==
    iface.cni # "none" \/ (iface.dev # <<>> /\ iface.ip # <<>>)
        => Len(ifaces) = 1

\* An address is only set for a single interface and without ip= in the args.
Alone(iface, args) ==
    iface.cni # "none" \/ (iface.dev # <<>> /\ iface.ip # <<>>)
        => Len(ifaces) = 1 /\ "ip" \notin Keys(args)

\* Exactly one of NetworkName and NetworkConfig.
CNIValid(iface) == iface.cni # "bad"

\* A device name; IPv4 addresses and at most two nameservers.
StaticValid(iface) ==
    iface.dev # <<Unset>> /\ (iface.ip # <<>> =>
        iface.ip[1] # <<"v6">> /\ Len(iface.ip[2]) <= 2)

ValidateNetwork(m) ==
    /\ Runs(m, "ValidateNetworkCfg")
    /\ Check(m, \A j \in DOMAIN ifaces : LET iface == ifaces[j] IN
            /\ OneKind(iface) /\ Alone(iface, own[m].args)
            /\ CNIValid(iface) /\ StaticValid(iface))

ValidateJailer(m) ==
    /\ Runs(m, "ValidateJailerCfg")
    /\ Check(m, own[m].initrd # NoPath \/ \E j \in DOMAIN drives : drives[j].root)

\* Mutant: a socket that is in use is not noticed.
SocketFreeAlways == TRUE

\* No socket file is in the way.
SocketFree == server = "none"

\* Of the drives, only the first root device is looked at.
Validate(m) ==
    /\ Runs(m, "ValidateCfg")
    /\ Check(m,
        /\ Exists(own[m].kernel)
        /\ own[m].initrd # NoPath => Exists(own[m].initrd)
        /\ \A j \in DOMAIN drives :
            drives[j].root /\ (\A k \in 1 .. j - 1 : ~drives[k].root)
                => Exists(drives[j].path)
        /\ SocketFree
        /\ cfg.missing \cap {"VcpuCount", "MemSizeMib"} = {})

\* What loadSnapshot and addVsocks name, as the Config has it: no handler
\* rewrites these paths.  mem is MemFilePath or the path of MemBackend.
SnapshotPaths == [mem |-> Path("host", "mem"), snapshot |-> Path("host", "snapshot")]
UdsPath == Path("host", "uds")

ValidateLoadSnapshot(m) ==
    /\ Runs(m, "ValidateLoadSnapshotCfg")
    /\ Check(m, /\ \A j \in DOMAIN drives : Exists(drives[j].path)
                /\ SocketFree
                /\ Exists(SnapshotPaths.mem) /\ Exists(SnapshotPaths.snapshot))

-------------------------------------------------------------------------------
(* The handlers before firecracker runs. *)

\* The static configuration made from CNI's result; an IP configuration is an
\* address and at most two nameservers.
Filled(iface, conf) ==
    [iface EXCEPT !.dev = <<conf.TapName>>, !.mac = conf.VMMacAddr,
        !.ip = <<conf.VMIPConfig,
                 SubSeq(conf.VMNameservers, 1,
                    IF Len(conf.VMNameservers) > 2 THEN 2
                                                   ELSE Len(conf.VMNameservers))>>]

\* The CNI result is written into the caller's array unless a static
\* configuration is already there.  CNI, or the reading of its result, may fail.
setupNetwork(m) ==
    /\ Runs(m, "SetupNetwork")
    /\ \/ /\ cniInterface # 0 => ifaces[cniInterface].dev # <<>>
          /\ Done(m) /\ UNCHANGED <<ifaces, cni, hostVars, made>>
       \/ /\ cniInterface # 0 /\ ifaces[cniInterface].dev = <<>>
          /\ \E result \in CniResults(m) :
                LET conf == StaticNetworkConfFrom(result, m)
                IN  /\ conf # Err
                    /\ cni' = [cni EXCEPT ![m] = <<result>>]
                    /\ ifaces' = [ifaces EXCEPT ![cniInterface] =
                                    Filled(@, conf[1])]
          /\ Done(m) /\ UNCHANGED <<hostVars, made>>
       \/ cniInterface # 0 /\ Fail(m) /\ UNCHANGED <<ifaces, cni>>
    /\ UNCHANGED <<cfg, drives, own, cmd, ns, late, reqs>>

\* The map that the arguments are parsed into: the last value of a key counts.
parseKernelArgs(args) ==
    [k \in Keys(args) |->
        LET at == CHOOSE j \in DOMAIN args :
                    args[j].key = k /\ \A l \in DOMAIN args :
                                            args[l].key = k => l <= j
        IN  args[at].val]

\* The map written out again, in any order.
Strings(map) == SetToSeqs({[key |-> k, val |-> map[k]] : k \in DOMAIN map})

\* The IP configuration of the first interface that has one, or <<>>.
staticIPInterface ==
    LET S == {j \in DOMAIN ifaces : ifaces[j].dev # <<>> /\ ifaces[j].ip # <<>>}
    IN  IF S = {} THEN <<>> ELSE ifaces[CHOOSE j \in S : \A k \in S : j <= k].ip

setupKernelArgs(m) ==
    /\ Runs(m, "SetupKernelArgs")
    /\ LET old == parseKernelArgs(own[m].args)
           ip == staticIPInterface
           map == IF ip = <<>> THEN old
                  ELSE [k \in DOMAIN old \cup {"ip"} |->
                            IF k = "ip" THEN IPBootParam(ip[1], ip[2])
                                        ELSE old[k]]
       IN  \E args \in Strings(map) : own' = [own EXCEPT ![m].args = args]
    /\ Done(m)
    /\ UNCHANGED <<cfg, sharedVars, hostVars, cmd, cni, ns, made, late, reqs>>

\* Without a jailer the process is started in NetNS, otherwise the jailer joins
\* the one it was told.
Namespace(m) ==
    IF cfg.jailed THEN Value(cmd[m].options, "--netns", Unset) ELSE own[m].netns

\* The removal of the socket is registered as soon as the process runs.  If
\* another firecracker has the socket, ours exits, but waitForSocket may have
\* been answered by the other one.  When waitForSocket fails the process has
\* exited, or it is still coming up: nobody stops it.
startVMM(m) ==
    /\ Runs(m, "StartVMM")
    /\ \/ /\ server # "stale" /\ server' = IF server = "none" THEN m ELSE server
          /\ ns' = [ns EXCEPT ![m] = Namespace(m)]
          /\ made' = [made EXCEPT ![m] = @ \cup {"sock"}]
          /\ Done(m) /\ UNCHANGED <<chroot, fifos, late>>
       \/ Fail(m) /\ UNCHANGED <<ns, late>>
       \/ /\ st' = [st EXCEPT ![m] = "err"] /\ todo' = [todo EXCEPT ![m] = <<>>]
          /\ doCleanup(m, made[m] \cup {"sock"})
          /\ late' \in {late, [late EXCEPT ![m] = "pending"]}
          /\ UNCHANGED <<chroot, ns>>
    /\ UNCHANGED <<cfg, sharedVars, own, cmd, cni, reqs>>

\* The process comes up after its Start has cleaned up.
LateBinds(m) ==
    /\ late[m] = "pending" /\ server = "none"
    /\ late' = [late EXCEPT ![m] = "bound"] /\ server' = m
    /\ UNCHANGED <<cfg, sharedVars, chroot, fifos, st, todo, own, cmd, cni, ns,
                   made, reqs>>

\* Its exit leaves the socket, whose removal has been tried before.
LateExits(m) ==
    /\ late[m] = "bound" /\ server = m
    /\ server' = "stale"
    /\ UNCHANGED <<cfg, sharedVars, chroot, fifos, st, todo, machineVars, reqs>>

-------------------------------------------------------------------------------
(* Files and the jail. *)

\* Mkfifo fails if the name is taken; LogPath and MetricsPath are only opened.
CreateLogFiles(m) ==
    /\ Runs(m, "CreateLogFiles")
    /\ \/ /\ cfg.log = "fifo" /\ fifos = {}
          /\ fifos' = {"log", "metrics"}
          /\ made' = [made EXCEPT ![m] = @ \cup {"log", "metrics"}]
          /\ Done(m) /\ UNCHANGED <<chroot, server>>
       \/ cfg.log # "fifo" /\ Done(m) /\ UNCHANGED <<hostVars, made>>
       \/ cfg.log # "none" /\ Fail(m)
    /\ UNCHANGED <<cfg, sharedVars, own, cmd, cni, ns, late, reqs>>

\* What is linked into the chroot, in order.  LogPath and MetricsPath are not.
Links(m) ==
    <<own[m].kernel>>
        \o (IF own[m].initrd = NoPath THEN <<>> ELSE <<own[m].initrd>>)
        \o [j \in DOMAIN drives |-> drives[j].path]
        \o (IF cfg.log = "fifo" THEN <<own[m].log, own[m].metrics>> ELSE <<>>)

\* The number of links up to and including the drives.
BeforeFifos(m) == Len(Links(m)) - (IF cfg.log = "fifo" THEN 2 ELSE 0)

\* os.Link needs the file and a free name.  The directory is put together from
\* ChrootBaseDir without its default, so there is none if that is empty.
Linkable(m, j) ==
    /\ cfg.baseDir # Unset /\ Exists(Links(m)[j])
    /\ Links(m)[j].file \notin chroot \cup {Links(m)[l].file : l \in 1 .. j - 1}

Renamed(p, linked) == IF linked THEN Base(p) ELSE p

\* The paths of the Config when k links are complete: each drive is renamed, in
\* the caller's array, as it is linked; kernel and initrd after all drives.
Relinked(m, k) ==
    LET c == own[m]
        at == BeforeFifos(m)
    IN  /\ drives' = [j \in DOMAIN drives |-> [drives[j] EXCEPT
                        !.path = Renamed(@, at - Len(drives) + j <= k)]]
        /\ own' = [own EXCEPT ![m] = [c EXCEPT
                        !.kernel = Renamed(c.kernel, k >= at),
                        !.initrd = Renamed(c.initrd, k >= at /\ c.initrd # NoPath),
                        !.log = Renamed(c.log, k > at),
                        !.metrics = Renamed(c.metrics, k > at + 1)]]

\* The first n links are made.  The last of them is not complete if it is that
\* of a fifo and Chown fails.
LinkFiles(m) ==
    /\ Runs(m, "LinkFilesToRootFS")
    /\ \E n \in 0 .. Len(Links(m)) : \E k \in {n - 1, n} :
        /\ k # n => n > BeforeFifos(m)
        /\ \A j \in 1 .. n : Linkable(m, j)
        /\ chroot' = chroot \cup {Links(m)[j].file : j \in 1 .. n}
        /\ Relinked(m, k)
        /\ \/ k = Len(Links(m)) /\ Done(m) /\ UNCHANGED <<fifos, server, made>>
           \/ /\ st' = [st EXCEPT ![m] = "err"] /\ todo' = [todo EXCEPT ![m] = <<>>]
              /\ doCleanup(m, made[m])
    /\ UNCHANGED <<cfg, ifaces, cmd, cni, ns, late, reqs>>

-------------------------------------------------------------------------------
(* The handlers that configure firecracker through its API. *)

\* A request, and the machine whose firecracker it is sent to.
Request(op, arg) == [op |-> op, arg |-> arg, to |-> server]

\* A fifo takes precedence over a path; without either nothing is sent.
BootstrapLogging(m) ==
    /\ Runs(m, "BootstrapLogging")
    /\ Send(m, IF cfg.log = "none" THEN <<>>
               ELSE <<Request("logger", own[m].log),
                      Request("metrics", own[m].metrics)>>)

\* The configuration is read back afterwards, which may fail as well.
createMachine(m) ==
    Runs(m, "CreateMachine") /\ Send(m, <<Request("machine", "config")>>)

createBootSource(m) ==
    /\ Runs(m, "CreateBootSource")
    /\ Send(m, <<Request("boot", [kernel |-> own[m].kernel,
                                  initrd |-> own[m].initrd,
                                  args |-> own[m].args])>>)

attachDrives(m) ==
    /\ Runs(m, "AttachDrives")
    /\ Send(m, [j \in DOMAIN drives |-> Request("drive", drives[j].path)])

\* An interface without a static configuration is an error, behind the requests
\* for those before it.
createNetworkInterfaces(m) ==
    LET rs == [j \in DOMAIN ifaces |->
                Request("iface", [dev |-> ifaces[j].dev, mac |-> ifaces[j].mac,
                                  ip |-> ifaces[j].ip])]
        lacking == {j \in DOMAIN ifaces : ifaces[j].dev = <<>>}
    IN  /\ Runs(m, "CreateNetworkInterfaces")
        /\ \/ lacking = {} /\ Send(m, rs)
           \/ /\ \E j \in lacking : /\ \A l \in lacking : j <= l
                                    /\ SendFails(m, SubSeq(rs, 1, j - 1))
              /\ UNCHANGED <<cfg, sharedVars, own, cmd, cni, ns, late>>

addVsocks(m) ==
    /\ Runs(m, "AddVsocks")
    /\ Send(m, IF cfg.vsock THEN <<Request("vsock", UdsPath)>> ELSE <<>>)

\* Sent only if some interface may reach the metadata service.
setMmdsConfig(m) ==
    LET allowed == {j \in DOMAIN ifaces : ifaces[j].mmds}
    IN  /\ Runs(m, "ConfigMmds")
        /\ Send(m, IF allowed = {} THEN <<>> ELSE <<Request("mmds", allowed)>>)

loadSnapshot(m) ==
    Runs(m, "LoadSnapshot") /\ Send(m, <<Request("load", SnapshotPaths)>>)

\* Mutant: a machine made from a snapshot is started like any other.
hasSnapshotNever == FALSE

\* A snapshot in the Config, whether it came from the option or the field.
hasSnapshot == cfg.snapshot # "none"

\* The last step of Start, after the handlers.
startInstance(m) ==
    /\ st[m] = "starting" /\ todo[m] = <<>>
    /\ LET rs == IF hasSnapshot THEN <<>> ELSE <<Request("start", "instance")>>
       IN  \/ /\ rs = <<>> \/ server \in Machines
              /\ reqs' = [reqs EXCEPT ![m] = @ \o rs]
              /\ st' = [st EXCEPT ![m] = "ok"]
              /\ UNCHANGED <<todo, hostVars, made>>
           \/ /\ rs # <<>> /\ Fail(m)
              /\ \/ UNCHANGED reqs
                 \/ server \in Machines /\ reqs' = [reqs EXCEPT ![m] = @ \o rs]
    /\ UNCHANGED <<cfg, sharedVars, own, cmd, cni, ns, late>>

\* The machine is stopped, or firecracker exits: the cleanup functions run.
Stop(m) ==
    /\ st[m] = "ok"
    /\ st' = [st EXCEPT ![m] = "down"]
    /\ doCleanup(m, made[m])
    /\ UNCHANGED <<cfg, sharedVars, chroot, todo, own, cmd, cni, ns, late, reqs>>

-------------------------------------------------------------------------------
Handler(m) ==
    \/ ValidateNetwork(m) \/ ValidateJailer(m) \/ Validate(m)
    \/ ValidateLoadSnapshot(m) \/ setupNetwork(m) \/ setupKernelArgs(m)
    \/ startVMM(m) \/ CreateLogFiles(m) \/ LinkFiles(m) \/ BootstrapLogging(m)
    \/ createMachine(m) \/ createBootSource(m) \/ attachDrives(m)
    \/ createNetworkInterfaces(m) \/ addVsocks(m) \/ setMmdsConfig(m)
    \/ loadSnapshot(m)

Next == \E m \in Machines :
            \/ NewMachine(m) \/ Start(m) \/ Handler(m) \/ startInstance(m) \/ Stop(m)
            \/ LateBinds(m) \/ LateExits(m)

Spec == Init /\ [][Next]_vars

-------------------------------------------------------------------------------
(* Properties. *)

Sent(m, op) == {j \in DOMAIN reqs[m] : reqs[m][j].op = op}

\* The guest is started or restored at most once and by the last request that
\* Start sends: nothing is configured behind a running guest.
GuestStartedLast ==
    \A m \in Machines : \A j \in Sent(m, "start") \cup Sent(m, "load") :
        j = Len(reqs[m])

\* A snapshot is only loaded into a firecracker that has not been given a
\* machine configuration, a boot source, drives, interfaces or MMDS, which
\* "cannot run if we plan to load a snapshot".
SnapshotIntoFresh ==
    \A m \in Machines : Sent(m, "load") # {} =>
        \A op \in {"machine", "boot", "drive", "iface", "mmds"} :
            Sent(m, op) = {}

\* All paths in a request.
Told(r) ==
    CASE r.op = "boot" -> {r.arg.kernel, r.arg.initrd} \ {NoPath}
      [] r.op \in {"drive", "logger", "metrics", "vsock"} -> {r.arg}
      [] r.op = "load" -> {r.arg.mem, r.arg.snapshot}
      [] OTHER -> {}

\* Those the SDK passes on as the caller wrote them, with a jailer too: LogPath
\* and MetricsPath, the files of a snapshot, the path of a vsock.
PassedOn(r) ==
    CASE r.op \in {"logger", "metrics"} /\ cfg.log = "path"
            -> {LogFile("log"), LogFile("metrics")}
      [] r.op = "vsock" -> {UdsPath}
      [] r.op = "load" -> {SnapshotPaths.mem, SnapshotPaths.snapshot}
      [] OTHER -> {}

\* Every path that a jailed firecracker is given is the name of a file in its
\* chroot (the kernel, the initrd, the drives and the fifos were linked and
\* renamed before), or one of the caller's that the SDK does not translate.
PathsInChroot ==
    cfg.jailed => \A m \in Machines : \A j \in DOMAIN reqs[m] :
        \A p \in Told(reqs[m][j]) :
            \/ p.dir = "name" /\ p.file \in chroot
            \/ p \in PassedOn(reqs[m][j])

\* With validation, a machine that is started while no other one is being
\* started configures its own firecracker, even if it shares a Config and its
\* socket path with others; or else one that came up on that path after its
\* Start had given up waiting for it.
OwnFirecracker ==
    ~cfg.unchecked => \A m \in Machines : \A j \in DOMAIN reqs[m] :
        LET to == reqs[m][j].to IN to = m \/ late[to] = "bound"

\* The interface r is what CNI has reported for VM id: the only tap with the
\* name of the VM's only interface, that one's MAC and its only address.
Reported(r, result, id) ==
    \E v, t \in DOMAIN result.ifaces :
        LET vm == result.ifaces[v]
            tap == result.ifaces[t]
        IN  /\ vm.sandbox = id /\ tap.sandbox # id /\ tap.name = vm.name
            /\ \A k \in DOMAIN result.ifaces \ {v, t} :
                result.ifaces[k].sandbox # id /\ result.ifaces[k].name # vm.name
            /\ r.dev = <<tap.name>> /\ r.mac = vm.mac
            /\ {<<r.ip[1]>>} = {<<result.ips[k].addr>> :
                    k \in {l \in DOMAIN result.ips : result.ips[l].iface = v}}

\* The interface r is one of the caller's, as it was configured.
Callers(r) ==
    \E k \in DOMAIN cfg.ifaces : LET iface == cfg.ifaces[k] IN
        r = [dev |-> iface.dev, mac |-> iface.mac, ip |-> iface.ip]

\* With validation, a machine with a CNI interface attaches the tap that CNI
\* made for it, never the one that an earlier machine left in the shared Config
\* and never one that the result leaves open; a machine without one attaches the
\* caller's interfaces.
OwnTap ==
    ~cfg.unchecked => \A m \in Machines : \A j \in Sent(m, "iface") :
        IF cniInterface = 0 THEN Callers(reqs[m][j].arg)
        ELSE cni[m] # <<>> /\ Reported(reqs[m][j].arg, cni[m][1], m)

\* With validation, the boot arguments are the caller's, each key once with its
\* last value, and ip= is the address of the machine's interface if it has one.
BootArgsAgree ==
    ~cfg.unchecked => \A m \in Machines : \A j \in Sent(m, "boot") :
        LET args == reqs[m][j].arg.args
            users == parseKernelArgs(cfg.args)
        IN  /\ \A k, l \in DOMAIN args : args[k].key = args[l].key => k = l
            /\ \A k \in DOMAIN users :
                k \in Keys(args) /\ parseKernelArgs(args)[k] = users[k]
            /\ Keys(args) \ DOMAIN users =
                    (IF staticIPInterface = <<>> THEN {} ELSE {"ip"})
            /\ \A l \in Sent(m, "iface") :
                reqs[m][l].arg.ip # <<>>
                    => parseKernelArgs(args)["ip"][1] = reqs[m][l].arg.ip[1]

\* A machine's firecracker that is given the tap of a CNI network runs in the
\* namespace of that network: the SDK will "place the final VM inside the
\* resultant network namespace", itself or through the jailer.
RunsWithItsTap ==
    \A m \in Machines : \A j \in Sent(m, "iface") :
        cni[m] # <<>> /\ reqs[m][j].to = m => ns[m] = own[m].netns

\* The client dials where the process that the command line starts will listen,
\* if a socket is configured or there is a jailer; and the cgroup files of the
\* NUMA node have the caller's (last) values where the caller gives them: "the
\* values passed to WithCgroupArgs will take precedence".
CommandAgrees ==
    \A m \in Machines : st[m] # "none" =>
        /\ cfg.jailed \/ cfg.socket # Unset
             => own[m].socket = Listens(cmd[m], cfg.jailed)
        /\ cfg.jailed => \A j \in DOMAIN cfg.cgroup :
             (\A k \in DOMAIN cfg.cgroup :
                k > j => cfg.cgroup[k][1] # cfg.cgroup[j][1])
                => Cgroup(cmd[m], cfg.cgroup[j][1]) = cfg.cgroup[j][2]

\* What the comment on Start says: "If the handlers succeed, then this will
\* start the VMM instance."
StartMeansStarted ==
    \A m \in Machines : st[m] = "ok" =>
        Sent(m, "start") \cup Sent(m, "load") # {}
================================================================================
