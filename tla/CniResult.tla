------------------------------- MODULE CniResult -------------------------------
(***************************************************************************)
(* How the result of CNI is read (cni/internal/cniutil.go, cni/vmconf).    *)
(* A result has interfaces (name, sandbox, mac), addresses (the index of   *)
(* their interface, or 0, and the address) and nameservers.  The VM's own  *)
(* interface is a pseudo-interface whose sandbox is the VM's ID; the tap   *)
(* has the same name and another sandbox.  Routes, domains and the MTU are *)
(* read too, and used nowhere.                                             *)
(***************************************************************************)
EXTENDS Integers, Sequences

\* The addresses, the interfaces in and out of a sandbox, and those of them with
\* a name, each as a set of indices.
InterfaceIPs(result, name, sandbox) ==
    {j \in DOMAIN result.ips : LET at == result.ips[j].iface IN
        at # 0 /\ result.ifaces[at].name = name
               /\ result.ifaces[at].sandbox = sandbox}

FilterBySandbox(sandbox, ifaces) ==
    [in |-> {j \in DOMAIN ifaces : ifaces[j].sandbox = sandbox},
     out |-> {j \in DOMAIN ifaces : ifaces[j].sandbox # sandbox}]

IfacesWithName(name, ifaces, among) == {j \in among : ifaces[j].name = name}

Single(S) == \E j \in S : S = {j}
Only(S) == CHOOSE j \in S : TRUE

\* An error is the empty sequence.
Err == <<>>

\* The VM's interface and its tap, if there is exactly one of each.
VMTapPair(result, vmID) ==
    LET split == FilterBySandbox(vmID, result.ifaces)
        vm == Only(split.in)
        taps == IfacesWithName(result.ifaces[vm].name, result.ifaces, split.out)
    IN  IF ~Single(split.in) \/ ~Single(taps) THEN Err
        ELSE <<result.ifaces[vm], result.ifaces[Only(taps)]>>

\* The configuration of the VM's interface, if it has exactly one address.
StaticNetworkConfFrom(result, containerID) ==
    LET pair == VMTapPair(result, containerID)
        ips == InterfaceIPs(result, pair[1].name, pair[1].sandbox)
    IN  IF pair = Err \/ ~Single(ips) THEN Err
        ELSE <<[TapName |-> pair[2].name, VMMacAddr |-> pair[1].mac,
                VMIPConfig |-> result.ips[Only(ips)].addr,
                VMNameservers |-> result.nameservers]>>

\* The value of ip=: the address, and two nameservers, empty if not given.
IPBootParam(addr, nameservers) ==
    <<addr>> \o [j \in 1 .. 2 |->
                    IF j <= Len(nameservers) THEN nameservers[j] ELSE ""]
===============================================================================
