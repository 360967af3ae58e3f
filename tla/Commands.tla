-------------------------------- MODULE Commands -------------------------------
(***************************************************************************)
(* The command lines that NewMachine builds: firecracker's                 *)
(* (command_builder.go) and the jailer's (jailer.go).  A command line is   *)
(* the sequence of the binary's options, each with its value, and of those *)
(* behind "--", which the jailer hands to firecracker.  Standard input and *)
(* output are left out, and so are the options that change nothing here    *)
(* (user and group, the cgroup's version and parent, daemonize).           *)
(***************************************************************************)
EXTENDS Integers, Sequences, FiniteSetsExt

\* A string of the Config that is not set.
Unset == ""

\* An option that is left out when its value is empty.
Optional(flag, value) == IF value = Unset THEN <<>> ELSE << <<flag, value>> >>

seccompArgs(seccomp) ==
    CASE seccomp = "off"     -> << <<"--no-seccomp", Unset>> >>
      [] seccomp = "default" -> <<>>
      [] OTHER               -> << <<"--seccomp-filter", seccomp>> >>

-------------------------------------------------------------------------------
(* VMCommandBuilder. *)

defaultFirecrackerVMMCommandBuilder == [socketPath |-> Unset, args |-> <<>>]

WithSocketPath(b, path) == [b EXCEPT !.socketPath = path]
AddArgs(b, args) == [b EXCEPT !.args = @ \o args]

configureBuilder(b, cfg, id) ==
    AddArgs(AddArgs(WithSocketPath(b, cfg.socket), << <<"--id", id>> >>),
            seccompArgs(cfg.seccomp))

Build(b) == [options |-> Optional("--api-sock", b.socketPath) \o b.args,
             behind |-> <<>>]

-------------------------------------------------------------------------------
(* JailerCommandBuilder. *)

\* The CPUs of the NUMA node (cpus, read by getNumaCpuset; empty if the node is
\* not there), then the settings given by the caller.
JailerArgs(b) ==
    [options |->
        << <<"--id", b.id>>, <<"--exec-file", b.execFile>> >>
        \o (IF b.cpus = Unset THEN <<>>
            ELSE << <<"--cgroup", <<"cpuset.mems", b.node>> >>,
                    <<"--cgroup", <<"cpuset.cpus", b.cpus>> >> >>)
        \o [j \in DOMAIN b.cgroupArgs |-> <<"--cgroup", b.cgroupArgs[j]>>]
        \o Optional("--chroot-base-dir", b.chrootBaseDir)
        \o Optional("--netns", b.netNS),
     behind |-> b.firecrackerArgs]

defaultJailerPath == "/srv/jailer"
defaultSocketPath == "/run/firecracker.socket"

\* The jail's root directory on the host, as jail sees it.
jailerWorkspaceDir(cfg) ==
    <<IF cfg.baseDir # Unset THEN cfg.baseDir ELSE defaultJailerPath,
      "firecracker", "jail", "root">>

machineSocketPath(cfg) ==
    IF cfg.socket # Unset THEN cfg.socket ELSE defaultSocketPath

\* The builder that jail fills in.
jailBuilder(cfg) ==
    [id |-> "jail", execFile |-> "firecracker", node |-> "0", cpus |-> cfg.cpus,
     cgroupArgs |-> cfg.cgroup, chrootBaseDir |-> cfg.baseDir,
     netNS |-> cfg.netns,
     firecrackerArgs |-> seccompArgs(cfg.seccomp)
                            \o << <<"--api-sock", machineSocketPath(cfg)>> >>]

-------------------------------------------------------------------------------
(* What the programs make of their command lines. *)

\* The last value of an option, or the default.
Value(options, flag, default) ==
    LET given == {j \in DOMAIN options : options[j][1] = flag}
    IN  IF given = {} THEN default ELSE options[Max(given)][2]

\* The directory the jailer makes its root, on the host.
Chroot(cmd) ==
    <<Value(cmd.options, "--chroot-base-dir", "/srv/jailer"),
      Value(cmd.options, "--exec-file", Unset), Value(cmd.options, "--id", Unset),
      "root">>

\* Where firecracker listens, as a path on the host.
Listens(cmd, jailed) ==
    IF jailed
    THEN Chroot(cmd) \o <<Value(cmd.behind, "--api-sock", defaultSocketPath)>>
    ELSE <<Value(cmd.options, "--api-sock", defaultSocketPath)>>

\* The settings of the cgroup that are in force: the last one of each file.
Cgroup(cmd, file) ==
    LET given == {j \in DOMAIN cmd.options : /\ cmd.options[j][1] = "--cgroup"
                                             /\ cmd.options[j][2][1] = file}
    IN  IF given = {} THEN Unset ELSE cmd.options[Max(given)][2][2]
===============================================================================
