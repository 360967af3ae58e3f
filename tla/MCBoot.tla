--------------------------------- MODULE MCBoot --------------------------------
(***************************************************************************)
(* Configs that vary in their network, in their files and in the command   *)
(* line.                                                                   *)
(***************************************************************************)
EXTENDS Boot, TLC

CONSTANTS m1, m2

Symm == Permutations({m1, m2})

Iface(how, dev, ip, mmds) ==
    [cni |-> how, dev |-> dev, mac |-> <<>>, ip |-> ip, mmds |-> mmds]

\* CNI, a tap, a tap with an address, both, neither, and invalid ones.
Interfaces ==
    {Iface("ok", <<>>, <<>>, TRUE), Iface("none", <<"user">>, <<>>, TRUE),
     Iface("none", <<"user">>, << <<"user">>, <<>> >>, FALSE),
     Iface("ok", <<"user">>, <<>>, FALSE),
     Iface("none", <<>>, <<>>, FALSE), Iface("bad", <<>>, <<>>, FALSE),
     Iface("none", <<"user">>, << <<"v6">>, <<>> >>, FALSE)}

\* CNI results: the device of a plugin, the tap, the VM's interface; and those
\* that lack something or have something twice.
Link(name, sandbox, mac) == [name |-> name, sandbox |-> sandbox, mac |-> mac]
Veth == Link("veth", "netns", <<>>)
Tap(m) == Link(m, "netns", <<>>)
VM(m) == Link(m, m, <<"mac", m>>)
IP(iface, addr) == [iface |-> iface, addr |-> addr]
Result(links, ips, nameservers) ==
    [ifaces |-> links, ips |-> ips, nameservers |-> nameservers]

MCCniResults(m) ==
    {Result(<<VM(m), Veth, Tap(m)>>, <<IP(1, <<"addr", m>>)>>, <<>>),
     Result(<<Veth, Tap(m), VM(m)>>,
            <<IP(1, <<"host">>), IP(3, <<"addr", m>>), IP(0, <<"other">>)>>,
            <<"a", "b", "c">>),
     Result(<<Veth, Tap(m)>>, <<IP(2, <<"addr", m>>)>>, <<>>),
     Result(<<Tap(m), VM(m), VM(m)>>, <<IP(2, <<"addr", m>>)>>, <<>>),
     Result(<<Veth, VM(m)>>, <<IP(2, <<"addr", m>>)>>, <<>>),
     Result(<<Tap(m), Link(m, "", <<>>), VM(m)>>,
            <<IP(3, <<"addr", m>>)>>, <<>>),
     Result(<<Tap(m), VM(m)>>, <<IP(1, <<"host">>)>>, <<>>),
     Result(<<Tap(m), VM(m)>>, <<IP(2, <<"addr", m>>), IP(2, <<"more">>)>>, <<>>)}

Arg(key, val) == [key |-> key, val |-> val]
KernelArgs ==
    {<<Arg("console", <<"a">>), Arg("quiet", <<>>), Arg("console", <<"b">>)>>,
     <<Arg("ip", <<"boot">>)>>}

Drive(file, root) == [path |-> Path("host", file), root |-> root]
Drives == {<<Drive("data", FALSE), Drive("root", TRUE)>>,
           <<Drive("root", FALSE)>>,
           \* two drives with the same file name
           <<Drive("root", TRUE), Drive("root", FALSE)>>}

Base0 == [jailed |-> FALSE, baseDir |-> "dir", netns |-> "", args |-> <<>>,
          snapshot |-> "none", unchecked |-> FALSE, initrd |-> FALSE,
          log |-> "none", vsock |-> FALSE, missing |-> {}, ifaces |-> <<>>,
          drives |-> <<Drive("root", TRUE)>>, socket |-> "sock",
          seccomp |-> "default", cpus |-> "", cgroup |-> <<>>]

NetworkConfigs(kinds) ==
    {[Base0 EXCEPT !.jailed = j, !.netns = n, !.args = a, !.snapshot = s,
                   !.unchecked = u, !.ifaces = f] :
        j \in BOOLEAN, n \in {"", "given"}, a \in KernelArgs, s \in kinds,
        u \in BOOLEAN, f \in UNION {[1 .. l -> Interfaces] : l \in 0 .. 2}}

FileConfigs(kinds) ==
    {[Base0 EXCEPT !.jailed = j, !.baseDir = b, !.snapshot = s, !.initrd = i,
                   !.log = g, !.vsock = TRUE, !.missing = x, !.drives = d] :
        j \in BOOLEAN, b \in {"", "dir"}, s \in kinds, i \in BOOLEAN,
        g \in {"none", "path", "fifo"}, d \in Drives,
        x \in {{}, {"kernel"}, {"initrd"}, {"data"}, {"snapshot"}, {"mem"},
               {"VcpuCount"}, {"MemSizeMib"}}}

CommandConfigs ==
    {[Base0 EXCEPT !.jailed = j, !.baseDir = b, !.netns = n, !.socket = k,
                   !.seccomp = s, !.cpus = c, !.cgroup = g] :
        j \in BOOLEAN, b \in {"", "dir"}, n \in {"", "given"}, k \in {"", "sock"},
        s \in {"off", "default", "filter"}, c \in {"", "0-3"},
        g \in {<<>>, << <<"cpuset.cpus", "1">> >>,
               << <<"cpuset.cpus", "1">>, <<"cpuset.cpus", "2">> >>}}

MCConfigs == NetworkConfigs({"none", "option"})
                \cup FileConfigs({"none", "option"}) \cup CommandConfigs

\* Jailed or not, with a CNI network and without a NetNS.
MCDefaultNetNS ==
    {[Base0 EXCEPT !.jailed = j, !.ifaces = <<Iface("ok", <<>>, <<>>, TRUE)>>] :
        j \in BOOLEAN}

\* Those whose snapshot is in the Snapshot field.
MCFieldConfigs == FileConfigs({"none", "option", "field"})
===============================================================================
