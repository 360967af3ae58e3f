-------------------------------- MODULE MCGuest --------------------------------
(***************************************************************************)
(* A running guest: its machine's operations and the capture of its log,   *)
(* as in MCSession, and the vsock connections to it.  A connection is no   *)
(* business of the API, so a behaviour either dials and accepts, before    *)
(* anything is called and without a log fifo, or calls and captures, when  *)
(* the only dial has failed.  Nothing that is to be fair is enabled on the *)
(* side that rests.                                                        *)
(***************************************************************************)
EXTENDS MCSession, Vsock

VsockRests == pc = "fatalErr" /\ lpc = "idle" /\ listening
            /\ ~ctxDone /\ ~lctxDone /\ ~expired /\ conns = 0 /\ orphans = {}

SessionRests ==
    /\ up /\ vm = "Resumed" /\ belief = "Resumed" /\ late = {}
    /\ \A c \in Callers : call[c] = Idle
    /\ writer = "none" /\ written = 0 /\ ~exitCh /\ ~copyErr
    /\ copier # "off" => pipe = "opening" /\ copier = "copy" /\ closer = "wait"
                            /\ path = "ours"

MCGuestNext ==
    \/ VsockRests /\ Next /\ Bound /\ UNCHANGED vsockVars
    \/ /\ SessionRests /\ VsockNext /\ UNCHANGED sessionVars
       /\ closer = "off" \/ VsockRests'

MCGuestInit == Init /\ VsockInit

MCGuestSpec ==
    /\ MCGuestInit /\ [][MCGuestNext]_<<sessionVars, vsockVars>>
    /\ Fairness /\ VsockFairness
===============================================================================
