-------------------------------- MODULE Network --------------------------------
(***************************************************************************)
(* CNI networking (network.go): setupNetwork creates a network namespace   *)
(* at a path and lets the CNI plugins build the VM's network in it; what   *)
(* it registers is undone by doCleanup.  Several VMs, each with a process  *)
(* of its own, keep their namespaces in one directory (defaultNetNSDir).   *)
(* A process may crash at any step; a VM is then started again under the   *)
(* same VMID on the host as the crash left it.                             *)
(***************************************************************************)
EXTENDS Integers, Sequences, SequencesExt

CONSTANTS
    VMs,        \* VMIDs
    Forced,     \* those with CNIConfiguration.Force
    MayFail,    \* system calls and plugins may fail
    MayCrash    \* processes may crash

ASSUME NetworkAssumption ==
    /\ Forced \subseteq VMs
    /\ MayFail \in BOOLEAN /\ MayCrash \in BOOLEAN

\* The cleanup functions: os.Remove of the directory, os.Remove of the path,
\* unix.Unmount and DelNetworkList.
Funcs == {"rmParent", "rmNetNS", "umount", "delNetwork"}

\* Where a process can be; "idle" without one.
Steps == {"idle", "isNS", "statParent", "mkdirParent", "openNetNS", "mountNetNS",
          "delStale", "addNetwork", "parse", "up", "cleanup"}

VARIABLES
    given,      \* the VMs whose Config.NetNS the user mounted, elsewhere
    parent,     \* the directory exists
    netns,      \* per VM, its path: "absent", an empty "file", or "mounted"
    cni,        \* per VM, its CNI network: "none", "partial" or "up"
    pc,         \* per VM, where its process is
    funcs,      \* per VM, the cleanup functions registered and not yet run
    ctxDone,    \* per VM, Start's context is done
    lost        \* per VM, the functions that failed or died with the process

hostVars == <<parent, netns, cni>>
vars == <<given, hostVars, pc, funcs, ctxDone, lost>>

Init ==
    /\ given \in SUBSET VMs
    /\ netns = [v \in VMs |-> IF v \in given THEN "mounted" ELSE "absent"]
    /\ parent \in BOOLEAN
    /\ cni = [v \in VMs |-> "none"]
    /\ pc = [v \in VMs |-> "idle"]
    /\ funcs = [v \in VMs |-> <<>>]
    /\ ctxDone = [v \in VMs |-> FALSE]
    /\ lost = [v \in VMs |-> {}]

-------------------------------------------------------------------------------
Goto(v, l) == pc' = [pc EXCEPT ![v] = l]

\* Mutant: a function is appended by the callee and again by its caller.
RegisterTwice(v, f) == funcs' = [funcs EXCEPT ![v] = @ \o <<f, f>>]
Register(v, f) == funcs' = [funcs EXCEPT ![v] = Append(@, f)]

\* The handler returns an error, after a failed system call or plugin.
Fail(v) == MayFail /\ Goto(v, "cleanup")

\* A new Machine, with a context of its own, reaches the SetupNetwork handler.
setupNetwork(v) ==
    /\ pc[v] = "idle"
    /\ Goto(v, "isNS")
    /\ ctxDone' = [ctxDone EXCEPT ![v] = FALSE]
    /\ UNCHANGED <<hostVars, funcs, lost>>

(* initializeNetNS. *)

\* Mutant: the namespace found at the path is registered like a new one.
UseAsIsOwned(v) ==
    /\ Goto(v, "delStale")
    /\ Register(v, "umount")

\* A namespace found at the path is used as it is, and not cleaned up.
UseAsIs(v) ==
    /\ Goto(v, "delStale")
    /\ UNCHANGED funcs

IsNSorErr(v) ==
    /\ pc[v] = "isNS"
    /\ \/ netns[v] = "mounted" /\ UseAsIs(v)
       \/ netns[v] = "file" /\ Goto(v, "cleanup") /\ UNCHANGED funcs
       \/ netns[v] = "absent" /\ Goto(v, "statParent") /\ UNCHANGED funcs
       \/ Fail(v) /\ UNCHANGED funcs
    /\ UNCHANGED <<hostVars, ctxDone, lost>>

statParent(v) ==
    /\ pc[v] = "statParent"
    /\ Goto(v, IF parent THEN "openNetNS" ELSE "mkdirParent") \/ Fail(v)
    /\ UNCHANGED <<hostVars, funcs, ctxDone, lost>>

\* MkdirAll succeeds too when a neighbour has made the directory meanwhile;
\* both have then registered its removal.
mkdirParent(v) ==
    /\ pc[v] = "mkdirParent"
    /\ \/ parent' = TRUE /\ Register(v, "rmParent") /\ Goto(v, "openNetNS")
       \/ Fail(v) /\ UNCHANGED <<parent, funcs>>
    /\ UNCHANGED <<netns, cni, ctxDone, lost>>

\* O_CREATE|O_EXCL.  The directory may have gone since statParent.
openNetNS(v) ==
    /\ pc[v] = "openNetNS"
    /\ \/ /\ parent /\ netns[v] = "absent"
          /\ netns' = [netns EXCEPT ![v] = "file"]
          /\ Register(v, "rmNetNS") /\ Goto(v, "mountNetNS")
       \/ /\ ~parent /\ Goto(v, "cleanup")
          /\ UNCHANGED <<netns, funcs>>
       \/ Fail(v) /\ UNCHANGED <<netns, funcs>>
    /\ UNCHANGED <<parent, cni, ctxDone, lost>>

\* Unshare and Mount in a goroutine of its own, which is waited for.
mountNetNS(v) ==
    /\ pc[v] = "mountNetNS"
    /\ \/ /\ netns' = [netns EXCEPT ![v] = "mounted"]
          /\ Register(v, "umount") /\ Goto(v, "delStale")
       \/ Fail(v) /\ UNCHANGED <<netns, funcs>>
    /\ UNCHANGED <<parent, cni, ctxDone, lost>>

(* invokeCNI. *)

\* DelNetworkList(ctx): a no-op without a network; when it fails, or ctx is
\* done, some of the network may be gone.
DelNetworkList(v) ==
    /\ ~ctxDone[v]
    /\ cni' = [cni EXCEPT ![v] = "none"]
DelNetworkListFails(v) ==
    /\ MayFail \/ ctxDone[v]
    /\ \/ UNCHANGED cni
       \/ cni[v] # "none" /\ cni' = [cni EXCEPT ![v] = "partial"]

\* Mutant: the error is logged whether or not Force is set.
AfterStaleErrForced(v) == "addNetwork"

\* With Force the error is only logged.
AfterStaleErr(v) == IF v \in Forced THEN "addNetwork" ELSE "cleanup"

\* The network a crash may have left is deleted first.
delStale(v) ==
    /\ pc[v] = "delStale"
    /\ \/ /\ DelNetworkList(v) /\ Goto(v, "addNetwork")
          /\ lost' = [lost EXCEPT ![v] = @ \ {"delNetwork"}]
       \/ DelNetworkListFails(v) /\ Goto(v, AfterStaleErr(v)) /\ UNCHANGED lost
       \/ Fail(v) /\ UNCHANGED <<cni, lost>>    \* LoadConfList
    /\ UNCHANGED <<parent, netns, funcs, ctxDone>>

\* Mutant: the deletion is registered when the network is complete.
addNetworkThenRegister(v) ==
    /\ pc[v] = "addNetwork"
    /\ \/ /\ ~ctxDone[v] /\ cni' = [cni EXCEPT ![v] = "up"]
          /\ Goto(v, "parse") /\ Register(v, "delNetwork")
       \/ /\ MayFail \/ ctxDone[v]
          /\ UNCHANGED cni \/ cni' = [cni EXCEPT ![v] = "partial"]
          /\ Goto(v, "cleanup") /\ UNCHANGED funcs
    /\ UNCHANGED <<parent, netns, ctxDone, lost>>

\* The deletion is registered, then AddNetworkList(ctx) called: it may fail
\* or be cancelled half way.
addNetwork(v) ==
    /\ pc[v] = "addNetwork"
    /\ Register(v, "delNetwork")
    /\ \/ /\ ~ctxDone[v] /\ cni' = [cni EXCEPT ![v] = "up"]
          /\ Goto(v, "parse")
       \/ /\ MayFail \/ ctxDone[v]
          /\ UNCHANGED cni \/ cni' = [cni EXCEPT ![v] = "partial"]
          /\ Goto(v, "cleanup")
    /\ UNCHANGED <<parent, netns, ctxDone, lost>>

\* StaticNetworkConfFrom: the result may lack what the VM needs.
parseResult(v) ==
    /\ pc[v] = "parse"
    /\ Goto(v, "up") \/ Fail(v)
    /\ UNCHANGED <<hostVars, funcs, ctxDone, lost>>

-------------------------------------------------------------------------------
(* The rest of the machine's life, as far as it matters here. *)

\* A later handler fails, or the VMM exits: doCleanup begins.
stop(v) ==
    /\ pc[v] = "up"
    /\ Goto(v, "cleanup")
    /\ UNCHANGED <<hostVars, funcs, ctxDone, lost>>

Cancel(v) ==
    /\ pc[v] # "idle" /\ ~ctxDone[v]
    /\ ctxDone' = [ctxDone EXCEPT ![v] = TRUE]
    /\ UNCHANGED <<hostVars, pc, funcs, lost>>

\* Mutant: os.RemoveAll instead of os.Remove.
ParentRemovableAll == parent

\* os.Remove refuses a directory with files in it.
ParentRemovable == parent /\ \A v \in VMs \ given : netns[v] = "absent"

\* Each cleanup function where it succeeds.
rmParent(v) ==
    /\ ParentRemovable
    /\ parent' = FALSE /\ UNCHANGED <<netns, cni>>
rmNetNS(v) ==
    /\ netns[v] = "file"
    /\ netns' = [netns EXCEPT ![v] = "absent"] /\ UNCHANGED <<parent, cni>>
umount(v) ==
    /\ netns[v] = "mounted"
    /\ netns' = [netns EXCEPT ![v] = "file"] /\ UNCHANGED <<parent, cni>>
delNetwork(v) == DelNetworkList(v) /\ UNCHANGED <<parent, netns>>

Succeeds(v, f) ==
    \/ f = "rmParent" /\ rmParent(v)
    \/ f = "rmNetNS" /\ rmNetNS(v)
    \/ f = "umount" /\ umount(v)
    \/ f = "delNetwork" /\ delNetwork(v)

\* A function fails: for no reason of ours, or because what it removes is
\* in use or no longer there.
FuncFails(v, f) ==
    \/ f = "delNetwork" /\ DelNetworkListFails(v) /\ UNCHANGED <<parent, netns>>
    \/ /\ f # "delNetwork"
       /\ \/ MayFail
          \/ f = "rmParent" /\ ~ParentRemovable
          \/ f = "rmNetNS" /\ netns[v] # "file"
          \/ f = "umount" /\ netns[v] # "mounted"
       /\ UNCHANGED hostVars

\* Run one function; an error is collected and does not end the loop.
RunFunc(v, f) ==
    \/ Succeeds(v, f) /\ lost' = [lost EXCEPT ![v] = @ \ {f}]
    \/ FuncFails(v, f) /\ lost' = [lost EXCEPT ![v] = @ \cup {f}]

\* Mutant: the first function registered is run first.
doCleanupForward(v) ==
    /\ pc[v] = "cleanup" /\ funcs[v] # <<>>
    /\ RunFunc(v, Head(funcs[v]))
    /\ funcs' = [funcs EXCEPT ![v] = Tail(@)]
    /\ UNCHANGED <<pc, ctxDone>>

\* One iteration: the latest function left is run.
doCleanup(v) ==
    /\ pc[v] = "cleanup" /\ funcs[v] # <<>>
    /\ RunFunc(v, Last(funcs[v]))
    /\ funcs' = [funcs EXCEPT ![v] = Front(@)]
    /\ UNCHANGED <<pc, ctxDone>>

cleanedUp(v) ==
    /\ pc[v] = "cleanup" /\ funcs[v] = <<>>
    /\ Goto(v, "idle")
    /\ UNCHANGED <<hostVars, funcs, ctxDone, lost>>

\* The process dies, and what it had registered with it.
Crash(v) ==
    /\ MayCrash /\ pc[v] # "idle"
    /\ Goto(v, "idle")
    /\ lost' = [lost EXCEPT ![v] = @ \cup Range(funcs[v])]
    /\ funcs' = [funcs EXCEPT ![v] = <<>>]
    /\ UNCHANGED <<hostVars, ctxDone>>

Step(v) ==
    \/ setupNetwork(v) \/ IsNSorErr(v) \/ statParent(v) \/ mkdirParent(v)
    \/ openNetNS(v) \/ mountNetNS(v) \/ delStale(v) \/ addNetwork(v)
    \/ parseResult(v) \/ stop(v) \/ Cancel(v) \/ doCleanup(v)
    \/ cleanedUp(v) \/ Crash(v)

Next == UNCHANGED given /\ \E v \in VMs : Step(v)

Spec == Init /\ [][Next]_vars

-------------------------------------------------------------------------------
\* The range of every variable; no function is registered twice.
TypeOK ==
    /\ given \subseteq VMs
    /\ parent \in BOOLEAN
    /\ netns \in [VMs -> {"absent", "file", "mounted"}]
    /\ cni \in [VMs -> {"none", "partial", "up"}]
    /\ pc \in [VMs -> Steps]
    /\ funcs \in [VMs -> Seq(Funcs)]
    /\ \A v \in VMs : IsInjective(funcs[v])
    /\ ctxDone \in [VMs -> BOOLEAN]
    /\ lost \in [VMs -> SUBSET Funcs]

\* What a VM has left on the host when it has no process is accounted for by a
\* cleanup function that failed or died in a crash.  In particular one later
\* start and stop that goes well removes the CNI network a crash left behind.
NoLeak ==
    \A v \in VMs : pc[v] = "idle" =>
        /\ cni[v] # "none" => "delNetwork" \in lost[v]
        /\ v \notin given => /\ netns[v] = "mounted" => "umount" \in lost[v]
                             /\ netns[v] # "absent" => "rmNetNS" \in lost[v]

\* A namespace the user mounted is neither unmounted nor removed, whatever
\* fails or crashes.
GivenKept == \A v \in given : netns[v] = "mounted"

\* The directory is never taken away under a neighbour's namespace.
ParentKept == (\E v \in VMs \ given : netns[v] # "absent") => parent

\* The CNI network is deleted before the namespace it lives in: without one it
\* exists only if its deletion failed or died.
NetworkInNamespace ==
    \A v \in VMs : cni[v] # "none" /\ netns[v] # "mounted" => "delNetwork" \in lost[v]

\* "so we don't try to create a new network on top of a possibly half-deleted
\* previous one": without Force, AddNetworkList finds no network.
NoOverlay ==
    \A v \in VMs \ Forced : pc[v] = "addNetwork" => cni[v] = "none"

\* "Append cleanup of the network list before calling AddNetworkList to handle
\* case where AddNetworkList fails but leaves intermediate resources around":
\* when no call fails by itself and nothing crashes, no network is left.
AddUndone == \A v \in VMs : pc[v] = "idle" => cni[v] = "none"
===============================================================================
