------------------------------ MODULE MCLifecycle ------------------------------
(***************************************************************************)
(* Two kinds of machine in one run: a plain one with CNI networking, and   *)
(* one under a daemonized jailer with a fifo, whose Shutdown may be        *)
(* repeated.  The constants of the configuration are those of the plain    *)
(* machine and of the properties; the other one steps with its own.        *)
(***************************************************************************)
EXTENDS Machine, TLC

CONSTANTS c1, c2

VARIABLE daemon     \* which of the two kinds this behaviour is about

MCNet == <<"netns", "cni">>
MCCtx == {"cni"}
MCFifos == <<"logFifo">>

Plain == INSTANCE Machine WITH Fifos <- <<>>
Daemon == INSTANCE Machine WITH
    NetResources <- <<>>, CtxResources <- {},
    Daemonize <- TRUE, SignalFails <- FALSE, RetryShutdown <- TRUE

\* Bound: after a Wait that returned an error a caller only calls Wait again.
WaitsOnly == \A c \in Callers : ret[c] # {} => call'[c] \in {"idle", "Wait"}

\* Bound: the daemonized machine is stopped by one caller at a time and not
\* waited for.
OneStops ==
    /\ \A c \in Callers : call'[c] # "Wait"
    /\ \A b, c \in Callers : call'[b] = "idle" \/ call'[c] = "idle" \/ b = c

\* Bound: the daemon does not open its socket after the cleanup has begun, which
\* is the one thing that NoLeak allows a daemon to leave behind.
SocketInTime == "sock" \in held' \ held => once = "new"

MCInit == Init /\ daemon \in BOOLEAN

MCNext ==
    /\ UNCHANGED daemon
    /\ \/ ~daemon /\ Plain!Next /\ WaitsOnly
       \/ daemon /\ Daemon!Next /\ OneStops /\ SocketInTime

MCSpec == MCInit /\ [][MCNext]_<<vars, daemon>>

\* Callers are interchangeable.
Symm == Permutations({c1, c2})
===============================================================================
