# A TLA+ model of firecracker-go-sdk

firecracker-go-sdk starts a firecracker (or jailer) process, configures it
through an HTTP API on a Unix socket, and tears down what it set up when the
process ends. The code that is easy to get wrong is the concurrent part: the
goroutines that watch the process, four channels, a list of cleanup functions
that two goroutines may run, host resources that outlive a crash, a Config whose
slices are shared and rewritten, and requests that outlive the calls that sent
them. This directory models these parts and checks them with TLC; every invariant and
every step property of the passing runs is also proved, with TLAPS, for all values of
the constants. The modules are translated from the code; `PROJECT.json` maps every
definition to its lines.

## Inventory

| component | state | operations | how it interacts |
|---|---|---|---|
| Machine lifecycle (`machine.go`) | `exitCh`, `shutdownCh`, `cleanupCh`, `errCh`, `fatalErr`, `cleanupFuncs`, `cleanupOnce`, `startOnce`, the `cmd` | `Start`, `Wait`, `StopVMM`, `Shutdown`, `doCleanup`, `startVMM` | runs the handler lists; starts a goroutine in `cmd.Wait`, a killer on ctx, a reporter of the exit, a signal forwarder |
| Handler lists (`handlers.go`) | a slice per list, with a package-level default | `Append`, `Prepend`, `AppendAfter`, `Remove`, `Swap`, `Swappend`, `Clear`, `Run` | every Machine starts with the default lists |
| CNI networking (`network.go`) | a namespace path and its directory, the CNI network, cleanup functions | `setupNetwork`, `initializeNetNS`, `invokeCNI` | called by the SetupNetwork handler, undone by `doCleanup`; neighbours share the directory |
| Network configuration, kernel arguments (`network.go`, `kernelargs.go`, `cni/vmconf`) | none beyond the Config | `validate`, `setupKernelArgs`, `parseKernelArgs`, `IPBootParam` | the Validation and SetupKernelArgs handlers |
| Configuration and snapshots (`machine.go`, `opts.go`, `snapshot.go`) | `machineConfig`, the Config | API requests of the handlers, `PauseVM`, `ResumeVM`, `CreateSnapshot`, `WithSnapshot`, balloon, metadata, drives, rate limits | a sequence of HTTP requests each, ended by the first error |
| Jailer (`jailer.go`) | a chroot directory, a command line | `jail`, `JailerCommandBuilder`, `NaiveChrootStrategy`, `LinkFilesHandler` | replaces `cmd`, rewrites paths; `Daemonize` makes the child exit early |
| Fifo capture (`machine.go`) | a fifo, two goroutines | `captureFifoToFileWithChannel` | ends on `exitCh` or when firecracker closes its end |
| vsock dialer (`vsock/dial.go`) | a connection, its deadline | `dial`, `tryConnect` | talks to firecracker's vsock socket |
| vsock listener (`vsock/listener.go`) | a listening descriptor | `Listener`, `Accept`, `tryAccept`, `Close` | inside the guest, the dialer's other end |
| CNI result parsing (`cni/internal/cniutil.go`, `cni/vmconf`) | none | `VMTapPair`, `StaticNetworkConfFrom` | called by `setupNetwork` |
| Builders (`command_builder.go`, `drives.go`) | slices | `With...`, `Build` | used by `NewMachine` and by callers |
| API wrappers (`firecracker.go`, `client_transports.go`) | an HTTP transport, the request timeout | one method per request | used by Machine |
| Generated client (`client/`) | none | per operation: parameters, request, reader of the answer | used by the wrappers |
| netlink, helpers | none | | |

What makes these parts correct:

- lifecycle: no channel is closed twice; every `Wait` gets the same error, after
  the process is gone; `StopVMM` returns, and only after the cleanup; nothing
  that was set up is forgotten; no goroutine is left behind;
- handler lists: a machine's list is its own;
- networking: what is created is registered, undone in reverse order, and
  neither a crash nor a neighbour makes it destroy what is not its own;
- dialer and listener: only acknowledged connections are handed out, each has
  one peer, failed ones are closed, a cancelled dial returns, `Accept` returns;
- operations on a running guest: nil means that firecracker did what was asked,
  a call ends whether or not firecracker answers;
- fifo capture: what firecracker wrote is captured in order, both goroutines end;
- configuration: validated combinations lead to one defined `ip=` parameter and
  one device; snapshots skip the boot handlers;
- jailer: the files that are linked into the chroot are handed to firecracker by
  their names there, the SDK looks for the socket where the command line puts it,
  and the process runs in the namespace of its network.

The hazards found in reading, each at its line and with the properties that
cover it, are under `hazards` in `PROJECT.json`.

## Modules

| module | models |
|---|---|
| `ExitReport` | what `Wait` promises: the error is fixed when the exit is announced, and each call returns it or its own context's error |
| `Machine` | `Start`, the goroutines of `startVMM` and `setupSignals`, `doCleanup`, `Wait`/`StopVMM`/`Shutdown` called concurrently, the process, the context, the daemonized jailer |
| `MachineProofs` | theorems about `Machine` |
| `Network` | `setupNetwork` and its cleanup for several VMs, with failures, cancellation, crashes and restarts |
| `NetworkProofs` | theorems about `Network` |
| `IndependentLists`, `HandlerList` | what the list operations promise, and the operations on Go slices that share arrays |
| `HandlerProofs` | that the second implements the first |
| `Boot` | the handler lists and what each handler validates, rewrites and asks of firecracker, for machines made from one Config |
| `Commands` | the command lines of firecracker and the jailer, and how those programs read them |
| `CniResult` | the lookups in a CNI result and the configuration made from it |
| `CommandProofs`, `BootProofs` | theorems about `Commands` and about `Boot` |
| `ApiParams`, `ApiResponses`, `ApiOperations` | the generated client: parameters, readers and requests of its 29 operations |
| `ApiClient` | the methods of `Client`: operation, context and limit |
| `MachineOperations` | the operations of a machine as sequences of requests, and what each is for |
| `FirecrackerApi` | the paths, methods and answers of `client/swagger.yaml` |
| `Guest` | goroutines that call these operations, firecracker serving, refusing, ignoring or exiting, limits, cancellation and requests that outlive their call |
| `FifoCapture` | the two goroutines of `captureFifoToFileWithChannel`, the pipe, its writer and the cleanup of the path |
| `Session` | `Guest` next to `FifoCapture`; they share firecracker's exit |
| `GuestProofs`, `SessionProofs` | lemmas about the requests and steps of `Guest`; theorems about `Session` |
| `VsockDial` | `dial`, `tryConnect` and the byte stream behind the acknowledgement |
| `VsockListener` | `Listener`, `Accept`, `tryAccept` and `Close` |
| `Vsock`, `VsockProofs` | a dialer and a listener with firecracker between them; theorems about them |
| `MCMachine`, `MCLifecycle`, `MCNetwork`, `MCHandlerList`, `MCBoot`, `MCSession` | values of the constants for TLC; `MCLifecycle` has two kinds of machine in one run |
| `MCNeighbours`, `MCGuest` | `MCNetwork` with `MCHandlerList`, and `MCSession` with `Vsock`, in one run each |

### Machine

`spc` is where the goroutine in `Start` is (named after the handler it runs);
`wpc`, `rpc`, `kpc` and `fpc` are the goroutines in `cmd.Wait`, the reporter
(`fatalErr = <-errCh; close(exitCh)`), the killer (`select` on ctx and
`exitCh`) and the signal forwarder. Each action is the code between two points
where another goroutine can be noticed.

- *Channels* of `struct{}` are only closed, so `closed` is a set; closing twice
  sets `panic`, after which nothing happens any more. `errCh` is unbuffered: a
  send is a step shared by the sender (`wpc = "send"`) and a receiver.
- *Errors* are sets of causes, so that multierror's merge is a union.
- *Cleanup functions* are named by the resource they remove. The loop keeps the
  length it ranges over (`n`) and its index (`i`) apart from the list, because
  `Start` appends to the list without a lock while the goroutine in `cmd.Wait`
  may be in the loop; `CleanupTornRead` is the torn read of that data race.
- *Processes*: `proc` is our child, `vmm` is firecracker. They differ with
  `Daemonize`, where the jailer's parent exits and leaves a daemon.
- *Requests* succeed only if firecracker is up and its socket file exists, or a
  connection is still open in the HTTP client's pool; they may always fail.
- The handlers before `SetupNetwork` and those after `CreateLogFiles` touch none
  of this state: each group is one step that succeeds or fails. So does
  `startInstance`, whose early return for a machine with a snapshot is a success
  of the latter group; `Boot` tells the two apart.

### Network

Each VM has a process that runs `setupNetwork` system call by system call, then
is `up`, then runs its cleanup functions one by one. The host (`parent`,
`netns`, `cni`) survives a `Crash`, the registered functions do not. `lost` is a
history variable: the functions that failed or died with their process and whose
effect has not been made up for since. A CNI call fails when its context is done.

### HandlerList

A slice is an array and a length; `append` writes in place when the array has
room and allocates otherwise, with up to `Slack` unused places. A loop over a list
joins what its passes append. `Independent` is the refinement of
`IndependentLists`, in which a list is a plain sequence and the results of
`Remove` and `AppendAfter` are described by the positions of what is in them.

### Boot

`todo` is the list that `Handlers.Run` flattens; each handler is an action that
ends in `Done` (the next one runs) or `Fail` (Start returns through its deferred
`doCleanup`). `ifaces` and `drives` are the arrays behind the caller's slices,
shared by every machine made from the Config; `own` is a machine's copy of the
other fields. A tap or an address is named by who made it: the user or CNI for a
machine. A path is a file on the host or a bare name; `Base` makes the second of
the first. `server` is whose firecracker listens on the shared socket path, so a
request records to whom it really went. A handler that sends several requests may
fail behind any of them; `createNetworkInterfaces` also fails at the first
interface without a static configuration, behind the requests for those before
it. Starts do not overlap. The Config's
pointers that `jail` dereferences are set.

A `startVMM` that fails in `waitForSocket` may leave its process behind, since
nobody stops it: `late` says that it is still coming up, and then that it has
bound the socket (`LateBinds`), where it may answer a later machine; when it
exits, its socket stays (`server = "stale"`). `LinkFiles` tells a fifo that could
not be linked from one that was linked and not renamed, because `Chown` failed.
Not every path is translated for a jail: `Told` is what a request names and
`PassedOn` what the SDK sends as the caller wrote it.

`cmd` is the command line `NewMachine` builds and `own.socket` the path its client
connects to; `Commands` also says what the jailer and firecracker make of such a
command line (which chroot, which socket, which cgroup settings), so that
`CommandAgrees` compares the two sides. `cni` is the result a machine was
configured from: `CniResults` offers results with several taps, addresses and
sandboxes, and `CniResult` is what picks from them; the slices of interfaces and
addresses that the code filters are sets of indices there, since only their
length and their only element matter.

### Guest

An operation of the machine is a sequence of requests (`Sends`), each with its
method, path, id, body, context, limit, reader and asserted type, put together
from `MachineOperations` through `ApiClient` and `ApiParams` to `ApiOperations`
as the code does. A call is at its k-th request: `sent`, `answered` (the reader
has made a result, an error or a panic of the answer) or `done`. `Serve` looks
the request up in `FirecrackerApi`, does it or refuses it with any declared kind
of code, and the body of an answer may be broken. A call may be ended by its
limit, by its context or by firecracker's exit; a PATCH of the guest's state that
was under way then stays in `late` and may still be served. `belief` is the state
the callers know the guest to be in. `Asks` is the reference: what each operation
is for, by the name of the API's operation, written down independently of the
request that is sent. Bodies are symbols for the values of their fields; the
fields themselves are not spelled out, except for the rate limiters.

### FifoCapture

`copier` and `closer` are the two goroutines, `pipe` is our end of the fifo,
which containerd's package opens in the background, `path` tells whose fifo is
at the path. `io.Copy` takes a byte at a time and returns at the end of the file
or when the pipe is closed under it.

### Vsock

A number is a byte: 0 the answer line, k > 0 the guest's k-th byte. One `Read`
of the 32-byte buffered reader takes whatever is there up to its room. A
connection that firecracker has acknowledged is in the listener's queue, whether
or not the guest's program is in `Accept` and whether or not the dialer still
waits for the answer. A listener that is closed drops its queue.

## Runs

| run | bounds | what it checks |
|---|---|---|
| `lifecycle` | 2 callers, timeouts, failing signals, repeated `Shutdown`; either a plain machine with 2 network resources, whose callers only `Wait` again after a `Wait` that returned an error, or a daemonized jailer with one fifo, stopped by one caller at a time, whose daemon does not open its socket after the cleanup has begun | `TypeOK`, `ClosedOnce`, `CleanupNotEarly`, `WaitMeansExited`, `NoLeak`, `UnwindsInOrder`, `DaemonKept`, `StopMeansDown`, `ReportsOnce` |
| `liveness` | 1 caller, a CNI network, arm64, fairness, no timeouts; deadlock checked | `StopCompletes`, `ExitReported`, `CancelStops`, `GoroutinesEnd` |
| `neighbours` | 2 VMs, one with `Force`, any of them with the user's namespace; failures, cancellation, any number of crashes; or 2 machines, 3 handlers with 2 names, lists up to 2 long; deadlock checked | `TypeOK`, `NoLeak`, `GivenKept`, `ParentKept`, `NetworkInNamespace`, `NoOverlay`; `Independent` |
| `boot` | 2 machines from one of about 2500 Configs: up to 2 interfaces of 7 kinds, with or without jailer, namespace, `ip=`, snapshot, validation; CNI results that are ambiguous or incomplete; sockets, seccomp, base directories and cgroup settings; files, fifos and drives, some missing; processes that outlive an init timeout | `GuestStartedLast`, `SnapshotIntoFresh`, `PathsInChroot`, `OwnFirecracker`, `OwnTap`, `BootArgsAgree`, `CommandAgrees` |
| `guest` | one goroutine that calls each of the operations (but for two uses of one, see `rate_limits`), one that pauses and resumes the guest meanwhile, requests that outlive their call, a fifo with a few bytes; or 3 guest bytes, 1 of which fits behind the answer, 3 answered connections and a queue of 2; deadlock checked | `NilMeansDone`, `NoPanic`, `ToldState`, `CapturedAll`, `CallsReturn`, `CaptureEnds`; `HandedOutReady`, `ReadsGuestOnly`, `OrphansOnlyWrong`, `OnePeer`, `CancelReturns`, `AcceptReturns` |

`neighbours` and `guest` each put two components side by side that share no state.
A behaviour moves one of them while the other rests in an initial state (in
`guest`, the dialer after one failed dial) in which nothing that is assumed fair is
enabled: so the behaviours are those of each component by itself, and a deadlock
of one is not hidden by the other.

Two exceptions are part of what `boot` checks. `PathsInChroot` leaves out the
paths in `PassedOn`, which a jailed firecracker gets untranslated; and
`OwnFirecracker` a process that came up after its Start had given up. Both are
under Findings.

`Machine` has no counters: the only bounds are the callers, the resources and
the fifos. Two callers are enough for two calls to race (one in `StopVMM`, one
in `Shutdown` or `Wait`); two or three cleanup functions tell an order from its
reverse. In `Network` two VMs are enough for a neighbour to make or remove the
directory between two steps. In `Boot` two machines are enough for one to find
what another left in the Config, the chroot or at the socket path; two
interfaces to break every rule of `validate`. In `guest` calls share nothing but
the guest's state and firecracker, so two goroutines that pause and resume, with
one left-over request, are enough for a call to be overtaken by an older one. In
the dialing part of it three connections give an attempt that was given up after
its answer, one that is accepted and one in the queue. `boot` stops when every machine is
down or has failed. `Machine` runs with `CHECK_DEADLOCK FALSE` stop
where the code stops: in a panic, or, after an init timeout, with the goroutine
in `cmd.Wait` blocked.

*Fairness.* Every goroutine that can run does (the Go scheduler); SIGTERM kills
the child; firecracker opens its socket unless it exits. Nothing is assumed of
callers, of signals or of the context. In `VsockDial` the choice of a `select`
with two ready cases is random, so neither case is passed over for ever: strong
fairness of `SelectDone`, and of `AcceptDone` in `VsockListener`. In `Session`
limits expire, contexts that are done are seen, answers that have arrived are
read and the goroutines of the capture run; firecracker need not answer.

## Findings

Each has a run in which TLC violates what a comment says.

- `timeout_stop`: after an init timeout nobody receives from `errCh`, the
  goroutine in `cmd.Wait` blocks on its send, `cleanupCh` is never closed and
  `StopVMM` never returns.
- `cleanup_race`: a process that exits while `CreateLogFiles` is registering
  fifos makes `doCleanup` miss the functions appended late.
- `network_cancel`: the CNI network's cleanup uses `Start`'s context; stopping
  the machine by cancelling it leaves the network behind.
- `fcinit_lists`: the default FcInit list has room for a twelfth handler, so the
  `Append` of one machine writes into an array that all machines share.
- `snapshot_field`: a snapshot given in `Config.Snapshot` without the
  `WithSnapshot` option makes `Start` return nil for a guest that was configured
  but neither started nor restored.
- `jailed_namespace`: `jail` builds the command line before `NewMachine` fills in
  the default `NetNS`, so a jailed machine with CNI and without `NetNS` runs
  outside the namespace of its network.
- `rate_limits`: `UpdateGuestNetworkInterfaceRateLimit` sends the incoming limiter
  in place of the outgoing one (machine.go:882), and returns nil.

Also visible in the models, without a run of its own: `exitCh` is closed on an
init timeout while the process runs on; with `Daemonize`, `StopVMM` waits for a
cleanup that only `Shutdown` starts; a `Start` that fails before `startVMM` never
closes `exitCh`; a second `Shutdown` panics; a namespace left by a crash is
never removed, and a crash between the creation and the mounting of its file
makes every later start fail until the file is removed by hand; a firecracker that
an init timeout left behind may bind the socket after the cleanup, also behind a
retry's `Validate`, and is then configured in place of the retry's own; `dial`
never reads `RetryTimeout`, although the comment at vsock/dial.go:92 describes a
fixed timeout; guest bytes read together with the acknowledgement are
dropped; after an answer other than OK the dialer's connection is not closed; with
an empty `ChrootBaseDir` `LinkFiles` links into a directory that does not exist;
`LogPath`, `MetricsPath`, `MemFilePath`, `MemBackend`, `SnapshotPath` and the path
of a vsock are sent to a jailed firecracker as the caller wrote them, as paths of
the host; a Config cannot be used for a second machine with CNI or a jailer, because
the first one has rewritten its interfaces or drives; with no `SocketPath` and
no jailer the client dials the empty path while firecracker listens on its
default one, and `Validate` accepts it; `MemFilePath` is sent along with
`MemBackend` when a snapshot is loaded.

In the operations of a running guest: `createMachine` logs that it continues when the read-back of the configuration fails, and returns
the error; `GetMachineConfiguration` and `GetExportVMConfig` take no context, so
a cancelled caller waits until the request timeout; `CreateSnapshot` and
`LoadSnapshot` have no limit at all; a success code that swagger.yaml does not
declare would panic the caller in a type assertion; after a PauseVM or ResumeVM
that timed out, nil from the next one does not tell the guest's state. In the
fifo capture: what is still in the pipe when `exitCh` is closed is lost, and the
late `Unlink` of a path may remove the fifo of a later machine. In the listener:
neither the limit nor the context ends an `Accept` without a connection, and a
connection the dialer has given up is handed to the guest all the same.

## Proofs

Every theorem holds for all values of the constants that meet the assumptions
named with it. They say what the code's inputs are like, never how large they are.

### Machine

For every set of callers and every sequence of network resources and fifos
(`ResourcesAssumption`: sequences of names without "sock", disjoint, and no fifo
twice), with or without `Daemonize`:

| theorem | statement |
|---|---|
| `TypeCorrect` | `Spec => []TypeOK` |
| `ChannelsClosedOnce` | `Spec => []ClosedOnce` |
| `WaitSound` | `Spec => []WaitMeansExited` |
| `StopSound` | `Spec => StopMeansDown` |
| `ReportsTheSame` | `Spec => ReportsOnce`: Machine implements ExitReport |
| `CleanupUnwinds` | `Spec => []UnwindsInOrder` |
| `CleanupSafe` | `Spec => []CleanupNotEarly` |
| `NothingLeaks` | `Spec => []NoLeak` |
| `DaemonSafe` | `Spec => []DaemonKept` |

`TypeOK` is not inductive: that the index stays within the list needs that both
loop variables are zero until `cleanupOnce` is entered, and that a fifo being
registered is one of the configured ones (`LoopInv`). The rest goes by `IInv`:

- `ChannelInv` says who may still close which channel. `exitCh` belongs to
  `startVMM` until it is past `waitForSocket`, then to the reporter, which
  exists only if `startVMM` did not close it; `errCh` and `cleanupCh` belong to
  the goroutine in `cmd.Wait`.
- `ProcessInv` ties that goroutine's position to the process and to the cleanup.
- `ReportInv` says that, unless the error is an init timeout, the reporter is
  past its receive, or `exitCh` closed, only if the goroutine in `cmd.Wait` has
  sent. After a timeout it is false, hence the exception in `WaitMeansExited`.
- `UnwindInv` gives, for a list that has not grown since the loop began, the
  functions run so far as the reverse of its last `i` elements.
- `LeakInv`: what exists is registered, but for a fifo between its creation and
  its registration (`HeldInv`); what exists although its function has run is what
  that function failed to remove, or the socket of a firecracker that came up late
  (`UndoneInv`); and firecracker comes up late only under a daemonized jailer or
  after a timeout (`StageInv`). That every resource is set up once is needed here,
  hence the assumption that no fifo is listed twice.
- `DaemonInv`: the goroutine in `cmd.Wait` gets to the cleanup of a daemonized
  machine whose jailer exited cleanly only through `shutdownCh`.

### Network

For every set of VMs, any of them with `Force` or with a namespace of the user's:

| theorem | statement |
|---|---|
| `LeftoversAccounted` | `Spec => []NoLeak` |
| `NetworkDeletedFirst` | `Spec => []NetworkInNamespace` |
| `ParentSafe` | `Spec => []ParentKept` |
| `GivenSafe` | `Spec => []GivenKept` |
| `NeverOverlaid` | `Spec => []NoOverlay` |
| `NetworkTypes` | `Spec => []TypeOK` |

None of these is inductive by itself. `Inv` adds, per VM, which functions can be
on the stack at each step and that they are there in the order of creation
(`StackInv`), how far the namespace is at each step (`NamespaceInv`), and that
what exists has its function on the stack or in `lost` (`AccountInv`). A step of
one VM does not touch another's part (`StepLocal`); only the directory is
shared, and `NextParentKept` deals with it.

### HandlerList

| theorem | statement |
|---|---|
| `ListsIndependent` | `ListSpec => Independent`: HandlerList implements IndependentLists |

It holds for any finite set of machines, any handlers and lists of any length, if
the default list fills its array (`Spare = 0`) and `NewMachine` appends to it
(`OnNew # <<>>`), as with the validation handlers. Both hypotheses are needed:
`fcinit_lists` is a counterexample without them.

- `ListInv`: the default fills its array, and two machines share no array but the
  empty one. `AssignEffect` says when an assignment shows to nobody else,
  `BuildEffect` and `AppendEffect` that allocation and `append` meet that
  condition; that there is always a free array is a matter of counting
  (`FreeArray`).
- The loops: `Counting` is induction on the passes of a loop, stated with a set
  instead of a predicate, which the provers can use; `Flattened` says where each
  pass's part stands in the result; `Removed`, `AppendedAfter` and `Swapped` are
  the three loops by positions.
- One lemma per operation then gives the step of `IndependentLists`.

### Commands and Boot

`CommandProofs` is about the command lines, for every Config:

| theorem | statement |
|---|---|
| `JailerListens` | the path the SDK dials is the one that follows from the jailer's command line |
| `PlainListens` | without a jailer it is the socket of the Config, if that names one |
| `CallersCgroup` | the caller's last setting of a cgroup file is in force, whatever is derived from the NUMA node |

They rest on what the last occurrence of an option in a joined sequence is
(`ValueJoined` and its neighbours). `BootProofs` proves, for any machines, any
Configs and any CNI results:

| theorem | statement |
|---|---|
| `StartsLast` | `Spec => []GuestStartedLast` |
| `LoadsFresh` | `Spec => []SnapshotIntoFresh` |
| `LinksBeforeNames` | `Spec => []PathsInChroot` |
| `TalksToItsOwn` | `Spec => []OwnFirecracker` |
| `DialsWhereItListens` | `Spec => []CommandAgrees` |
| `JoinsItsNetwork` | `Spec => []RunsWithItsTap`, if every Config that has a jailer names a namespace |
| `AttachesItsOwnTap` | `Spec => []OwnTap` |
| `BootsWithItsAddress` | `Spec => []BootArgsAgree` |

`LinksBeforeNames` and `TalksToItsOwn` have the exceptions of the properties they
state, and `DialsWhereItListens` that of a Config with neither a socket nor a
jailer. The condition of `JoinsItsNetwork` is exact: `jailed_namespace` refutes
the property without it.

Assumed: the fields of a Config have their types (`ConfigsAssumption`), no machine
is called "none" or "stale" (`MachinesAssumption`), and an address in a CNI result belongs to
an interface of that result or to none (`CniResultsAssumption`; the code would
panic on another index).

What all of them need is where a machine is in its list. The handlers have an order
that holds in every list `NewMachine` can build, whatever was inserted or removed
(`Place`, `InOrder`): so the handlers in `todo` say which ones have run, and the
invariants read "while X is still to do" and "once X is done" (`ListsInv`). On top
of it:

- `StartedInv`, `FreshInv`: which requests may have been sent;
- `ChrootInv`: once `LinkFilesToRootFS` is done, every path of the machine is a name
  in the chroot. The drives are renamed in an array that all machines share, so a
  machine that failed half-way has to be covered too;
- `ServerInv`: behind the validation, or with a jailer behind the linking of the
  kernel, nobody serves the socket but the machine itself or a process that came
  up late (`Claimed`, `Meets`); once bound such a process stays so marked, also
  after its exit (`LateKept`), hence requests sent to it earlier stay excepted;
- `CommandInv`, `NamespaceInv`: the command line is the one `NewMachine` built, and
  the process that runs it is in the namespace it names;
- `IfacesInv`, `TapInv`: behind the validation the CNI interface is alone and has no
  tap; behind `setupNetwork` it has what CNI reported to this machine (`Connected`).
  `ResultReported` says what `StaticNetworkConfFrom` picks from a result;
- `ArgsInv`: the arguments are the caller's until `SetupKernelArgs`, then those and
  `ip=` (`ArgsRight`), and what the validation saw of the interfaces still holds
  (`Addressed`). `WrittenOut` says that a map of arguments that is written out in
  any order and parsed again is the same map.

### Session

For any number of goroutines, each with its own menu of operations:

| theorem | statement |
|---|---|
| `NeverPanics` | `Spec => []NoPanic` |
| `TellsState` | `Spec => []ToldState` |
| `DoneAsAsked` | `Spec => []NilMeansDone`, if the menus leave out the two uses of `UpdateGuestNetworkInterfaceRateLimit` that are not sent as asked (`AsAsked`) |
| `CaptureFaithful` | `Spec => []CapturedAll` |

`Requests` (in `GuestProofs`) compares, operation by operation, what is sent with
what it is for. `GuestInv` says that what the callers have been told leaves no
request under way or left over; without that, `belief = vm` would not survive a
step of firecracker. `ServedInv` says that what was done for a call is a prefix of
what it asks for, at every point of the call. `CaptureInv` accounts for every byte:
captured ones, then those in the pipe.

### Vsock

For every number of bytes and connections, every buffer and every queue:

| theorem | statement |
|---|---|
| `DialReady` | `VsockSpec => []HandedOutReady` |
| `DialReadsInOrder` | `VsockSpec => []ReadsGuestOnly` |
| `DialCloses` | `VsockSpec => []OrphansOnlyWrong` |
| `PeersMatch` | `VsockSpec => []OnePeer` |

`AttemptInv` says what an attempt has at each step. `StreamInv` orders the bytes
read and unread, with the answer line first until it is consumed: without it
nothing keeps the line out of what the caller reads. `PeerInv` says that an
acknowledged connection is the last one numbered and is among those accepted or
queued; a number occurs once because the sequence increases.

### Only model-checked

The eight liveness properties (`StopCompletes`, `ExitReported`, `CancelStops`,
`GoroutinesEnd`, `CancelReturns`, `AcceptReturns`, `CallsReturn`, `CaptureEnds`):
they rest on fairness, and the prover has no ENABLED. The seven violations are
TLC's as well.

## Not modelled

- The `Validate` methods of the generated models, which nothing in the SDK calls,
  and their serialization: bodies are symbols.
- `DrivesBuilder`, which only callers use. `AddDrive` and `Build` append to a
  slice that copies of the builder share, with the consequences that
  `HandlerList` shows; the first added drive is numbered 0 although drives.go:24
  says that the numbers start at one.
- `cni/internal/netlink.go`: system calls on links, used by CNI plugins.
- The functional options, pointer helpers, rate limiter and balloon builders:
  they only build values. `waitForAliveVMM` is not called by the SDK itself.
- Overlapping Starts of machines made from one Config: nothing in the code or
  docs allows them, and every shared field would race.
- Examples, mocks and tests.

## Plan

1. Done: `Machine`, `Network`, `Boot` with `Commands` and `CniResult`, `Session`
   with the API client, `Vsock`, `HandlerList`, and the proofs above: every
   invariant and every action property of the runs is a theorem.
2. Next: `Network` as a refinement of the acquire/register/unwind step of
   `Machine`, and `Boot`'s handlers as one of its `configure` step, so that what is
   proved of each can be used for the other.
3. The exact conditions of the findings as theorems: for instance that `AddUndone`
   holds as long as `Start`'s context is not done, and that `StopVMM` can only be
   blocked after an init timeout.
