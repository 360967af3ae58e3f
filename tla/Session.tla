-------------------------------- MODULE Session --------------------------------
(***************************************************************************)
(* A running machine: the calls of Guest next to the capture of its log    *)
(* fifo.  They meet in firecracker's exit, which breaks the API and closes *)
(* the writing end of the fifo in one step.                                *)
(***************************************************************************)
EXTENDS Guest, FifoCapture

sessionVars == <<guestVars, fifoVars>>

Init == GuestInit /\ FifoInit

Die == Exit /\ WriterExits

Next ==
    \/ GuestNext /\ UNCHANGED fifoVars
    \/ FifoNext /\ UNCHANGED guestVars
    \/ Die

Spec == Init /\ [][Next]_sessionVars

(* Fairness: limits expire, contexts that are done are seen, an answer that  *)
(* has arrived is read, the goroutines of the capture run, and the exit of   *)
(* firecracker is cleaned up and reported (Machine's ExitReported).          *)
(* Firecracker need not answer or exit, and nobody need call anything.       *)
Fairness ==
    /\ \A c \in Callers : WF_sessionVars(CallStep(c) /\ UNCHANGED fifoVars)
    /\ WF_sessionVars(Copier /\ UNCHANGED guestVars)
    /\ WF_sessionVars(Reporting /\ UNCHANGED guestVars)

FairSpec == Spec /\ Fairness
===============================================================================
