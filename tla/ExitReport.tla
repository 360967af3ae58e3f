------------------------------ MODULE ExitReport ------------------------------
(***************************************************************************)
(* What Machine.Wait promises its callers (machine.go, the comment above   *)
(* Wait): the end of the machine is reported once, the report never        *)
(* changes afterwards, and every Wait returns either that report or the    *)
(* error of the caller's own context.                                      *)
(*                                                                         *)
(* An error is the set of its causes: nil is the empty set and a           *)
(* multierror is the union of its parts.                                   *)
(***************************************************************************)
CONSTANTS
    Callers,    \* goroutines that may call Wait
    Causes      \* causes an error may have

VARIABLES
    exited,     \* TRUE once the end of the machine has been reported
    report,     \* the reported error, meaningful once exited
    got         \* got[c]: what the last Wait of c returned

vars == <<exited, report, got>>

TypeOK ==
    /\ exited \in BOOLEAN
    /\ report \in SUBSET Causes
    /\ got \in [Callers -> SUBSET Causes]

Init ==
    /\ exited = FALSE
    /\ report = {}
    /\ got = [c \in Callers |-> {}]

\* The machine ends, for a reason fixed from now on.
Exit ==
    /\ ~exited
    /\ exited' = TRUE
    /\ report' \in SUBSET Causes
    /\ UNCHANGED got

\* A Wait returns the report.
Deliver(c) ==
    /\ exited
    /\ got' = [got EXCEPT ![c] = report]
    /\ UNCHANGED <<exited, report>>

\* A Wait gives up because the caller's own context ended.
GiveUp(c) ==
    /\ got' = [got EXCEPT ![c] = {"ctx"}]
    /\ UNCHANGED <<exited, report>>

Next == Exit \/ \E c \in Callers : Deliver(c) \/ GiveUp(c)

Spec == Init /\ [][Next]_vars
===============================================================================
