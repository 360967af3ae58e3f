------------------------------- MODULE MCSession -------------------------------
(***************************************************************************)
(* One goroutine that may call everything, one that pauses and resumes the *)
(* guest meanwhile, and the capture of a log.  Calls share nothing but the *)
(* guest's state and firecracker itself, so the second goroutine calls     *)
(* only when the first pauses or resumes too, and with a fifo configured   *)
(* there is one PauseVM at most.                                           *)
(***************************************************************************)
EXTENDS Session

CONSTANTS c1, c2

PauseResume == {"PauseVM", "ResumeVM"}

MCMenu == [c \in Callers |-> IF c = c1 THEN AsAsked ELSE PauseResume]

\* Every use, the two included that are not sent as asked.
MCFullMenu == [c \in Callers |-> DOMAIN Sends]

Bound ==
    /\ call'[c2] # Idle => call'[c1].op \in PauseResume \cup {Nil}
    /\ closer # "off" => /\ call'[c1].op \in {Nil, "PauseVM"}
                         /\ call'[c2] = Idle
===============================================================================
