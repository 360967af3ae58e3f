----------------------------- MODULE VsockListener -----------------------------
(***************************************************************************)
(* The guest's side of a vsock (vsock/listener.go): Accept's loop around   *)
(* tryAccept, and Close.  The kernel's listening socket is modelled from   *)
(* how it is used: it queues the connections it has answered, accept(2)    *)
(* blocks while the queue is empty and fails once the socket is closed.    *)
(***************************************************************************)
EXTENDS Integers, Sequences

CONSTANTS
    Backlog     \* connections the listening socket queues

ASSUME BacklogAssumption == Backlog \in Nat \ {0}

VARIABLES
    lpc,            \* the goroutine in Accept: "idle", "select" or "accept"
    listening,      \* the listening socket is open
    lctxDone,       \* the context given to Listener is done
    expired,        \* RetryTimeout has passed since Accept was called
    backlog,        \* connections answered and not yet accepted, in order
    accepted        \* connections Accept has returned, in order

listenerVars == <<lpc, listening, lctxDone, expired, backlog, accepted>>

ListenerInit ==
    /\ lpc = "idle" /\ listening = TRUE /\ lctxDone = FALSE /\ expired = FALSE
    /\ backlog = <<>> /\ accepted = <<>>

-------------------------------------------------------------------------------
(* Accept, called again and again by the guest's program. *)

CallAccept ==
    /\ lpc = "idle"
    /\ lpc' = "select" /\ expired' = FALSE
    /\ UNCHANGED <<listening, lctxDone, backlog, accepted>>

AcceptDone ==
    /\ lpc = "select" /\ (lctxDone \/ expired)
    /\ lpc' = "idle"
    /\ UNCHANGED <<listening, lctxDone, expired, backlog, accepted>>

AcceptTick ==
    /\ lpc = "select"
    /\ lpc' = "accept"
    /\ UNCHANGED <<listening, lctxDone, expired, backlog, accepted>>

\* Mutant: the connection is taken for a temporary failure.
tryAcceptLosing ==
    /\ lpc = "accept" /\ listening /\ backlog # <<>>
    /\ lpc' = "select" /\ backlog' = Tail(backlog)
    /\ UNCHANGED <<listening, lctxDone, expired, accepted>>

\* Nothing but a connection or an error ends it, whatever the context says.
tryAccept ==
    /\ lpc = "accept" /\ listening /\ backlog # <<>>
    /\ lpc' = "idle"
    /\ backlog' = Tail(backlog) /\ accepted' = Append(accepted, Head(backlog))
    /\ UNCHANGED <<listening, lctxDone, expired>>

\* A temporary error leads to the next round, any other one out of Accept.
tryAcceptFails ==
    /\ lpc = "accept" /\ listening
    /\ lpc' \in {"select", "idle"}
    /\ UNCHANGED <<listening, lctxDone, expired, backlog, accepted>>

\* Mutant: closing the socket does not wake the goroutine.
tryAcceptBlocked == FALSE

\* The error of a closed socket is not temporary.
tryAcceptClosed ==
    /\ lpc = "accept" /\ ~listening
    /\ lpc' = "idle"
    /\ UNCHANGED <<listening, lctxDone, expired, backlog, accepted>>

\* Close resets the connections nobody has accepted.
Close ==
    /\ listening
    /\ listening' = FALSE /\ backlog' = <<>>
    /\ UNCHANGED <<lpc, lctxDone, expired, accepted>>

-------------------------------------------------------------------------------
(* Time, the owner of the context, and the kernel. *)

AcceptExpires ==
    /\ lpc # "idle" /\ ~expired
    /\ expired' = TRUE
    /\ UNCHANGED <<lpc, listening, lctxDone, backlog, accepted>>

ListenerCancel ==
    /\ ~lctxDone
    /\ lctxDone' = TRUE
    /\ UNCHANGED <<lpc, listening, expired, backlog, accepted>>

\* The kernel answers a connection and queues it; a full queue, or no listening
\* socket, makes it refuse.
Enqueue(id) ==
    /\ listening /\ Len(backlog) < Backlog
    /\ backlog' = Append(backlog, id)
    /\ UNCHANGED <<lpc, listening, lctxDone, expired, accepted>>

-------------------------------------------------------------------------------
Accepting == tryAccept \/ tryAcceptFails \/ tryAcceptClosed

\* Everything but Enqueue.
ListenerNext ==
    CallAccept \/ AcceptDone \/ AcceptTick \/ Accepting \/ Close \/ AcceptExpires
        \/ ListenerCancel

-------------------------------------------------------------------------------
\* Accept returns once the listener is closed, and, when its time is over or its
\* context done, once a connection is waiting: the blocking accept of tryAccept
\* sees neither the limit nor the context.
AcceptReturns ==
    lpc # "idle" /\ (\/ ~listening
                     \/ (expired \/ lctxDone) /\ backlog # <<>>) ~> lpc = "idle"
===============================================================================
