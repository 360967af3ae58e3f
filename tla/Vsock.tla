--------------------------------- MODULE Vsock ---------------------------------
(***************************************************************************)
(* A host that dials and a guest that listens, with firecracker between    *)
(* them: it answers OK when the guest's kernel has queued the connection,  *)
(* which is before the guest's program accepts it.                         *)
(***************************************************************************)
EXTENDS VsockDial, VsockListener, FiniteSets

CONSTANTS
    MaxConns    \* bound: connections that are answered

VARIABLES
    conns       \* number of connections answered; the last is the dialer's

vsockVars == <<dialVars, listenerVars, conns>>

VsockInit == DialInit /\ ListenerInit /\ conns = 0

\* Firecracker passes CONNECT on; a wrong answer comes from something else at
\* the socket's path.
Connect ==
    /\ AnswerConnect /\ conns < MaxConns
    /\ \/ acked' = "OK" /\ conns' = conns + 1 /\ Enqueue(conns')
       \/ acked' = "bad" /\ UNCHANGED <<listenerVars, conns>>

\* The guest's program writes to the connection it has accepted.
Talk ==
    /\ GuestWrites /\ \E j \in DOMAIN accepted : accepted[j] = conns
    /\ UNCHANGED <<listenerVars, conns>>

VsockNext ==
    \/ DialerNext /\ UNCHANGED <<listenerVars, conns>>
    \/ ListenerNext /\ UNCHANGED <<dialVars, conns>>
    \/ Connect \/ Talk

\* Both goroutines run and their deadlines expire.  When both cases of a select
\* are ready Go picks one at random, so neither is passed over for ever.
VsockFairness ==
    /\ WF_vsockVars(SelectTick /\ UNCHANGED <<listenerVars, conns>>)
    /\ SF_vsockVars(SelectDone /\ UNCHANGED <<listenerVars, conns>>)
    /\ WF_vsockVars(Attempt /\ UNCHANGED <<listenerVars, conns>>)
    /\ WF_vsockVars(AcceptTick /\ UNCHANGED <<dialVars, conns>>)
    /\ SF_vsockVars(AcceptDone /\ UNCHANGED <<dialVars, conns>>)
    /\ WF_vsockVars(Accepting /\ UNCHANGED <<dialVars, conns>>)

VsockSpec == VsockInit /\ [][VsockNext]_vsockVars
FairVsockSpec == VsockSpec /\ VsockFairness

-------------------------------------------------------------------------------
\* A connection the dialer hands out has one peer in the guest: it waits for
\* Accept or has been returned by it, unless the listener was closed.  Accept
\* gives connections out once each and in the order they were answered, those
\* of attempts the dialer has given up included.
OnePeer ==
    LET peers == accepted \o backlog
    IN  /\ pc = "conn" /\ listening
             => Cardinality({j \in DOMAIN peers : peers[j] = conns}) = 1
        /\ \A j, k \in DOMAIN peers : j < k => peers[j] < peers[k]
===============================================================================
