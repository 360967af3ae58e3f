--------------------------------- MODULE Guest ---------------------------------
(***************************************************************************)
(* Calls of a machine's operations by several goroutines while firecracker *)
(* runs.  An operation sends its requests one after another and returns at *)
(* the first error.  Firecracker does what a request asks, refuses it,     *)
(* never answers, or exits; the limit of the request or the context of the *)
(* caller may end a call whose request is still on its way, and firecracker*)
(* may serve that request later.                                           *)
(***************************************************************************)
EXTENDS Integers, Sequences, SequencesExt, FiniteSets, MachineOperations,
        FirecrackerApi

CONSTANTS
    Callers,    \* goroutines that use the machine
    Menu,       \* the operations each of them may call
    MaxLate     \* bound: requests that outlive their call at the same time

ASSUME MenuAssumption == Menu \in [Callers -> SUBSET DOMAIN Sends]

VARIABLES
    up,         \* firecracker runs
    vm,         \* the state of the guest, changed by PATCH /vm
    late,       \* states asked for by requests whose call has returned
    call,       \* per goroutine: its call in progress, or the last one
    belief      \* the state the callers have been told the guest is in

guestVars == <<up, vm, late, call, belief>>

States == {"Paused", "Resumed"}
Unknown == "unknown"

Idle == [op |-> Nil, phase |-> "idle", k |-> 1, answer |-> Nil, served |-> <<>>,
         cancelled |-> FALSE, alone |-> TRUE, result |-> Nil]

GuestInit ==
    /\ up = TRUE /\ vm = "Resumed" /\ late = {} /\ belief = "Resumed"
    /\ call = [c \in Callers |-> Idle]

InProgress(c) == call[c].phase \in {"sent", "answered"}

\* The request the call has sent last.
Request(c) == Sends[call[c].op][call[c].k]

\* PauseVM and ResumeVM.
SetsState(o) == o \in {"PauseVM", "ResumeVM"}

Returned(o, served, result) ==
    [Idle EXCEPT !.op = o, !.phase = "done", !.served = served, !.result = result]

-------------------------------------------------------------------------------
(* A call. *)

\* An operation with nothing to send returns at once.  alone tells that no
\* other request for the guest's state is under way or left over.
Invoke(c, o) ==
    /\ ~InProgress(c)
    /\ IF Sends[o] = <<>>
       THEN call' = [call EXCEPT ![c] = Returned(o, <<>>, Nil)]
       ELSE LET others == {d \in Callers \ {c} : InProgress(d)
                                /\ SetsState(o) /\ SetsState(call[d].op)}
            IN  call' = [d \in Callers |->
                    CASE d = c -> [Idle EXCEPT !.op = o, !.phase = "sent",
                                               !.alone = others \cup late = {}]
                      [] d \in others -> [call[d] EXCEPT !.alone = FALSE]
                      [] OTHER -> call[d]]
    /\ belief' = IF SetsState(o) THEN Unknown ELSE belief
    /\ UNCHANGED <<up, vm, late>>

\* The request carries a limit of its own, or a context with one.
Limited(request) ==
    request.timeout # Nil \/ request.ctx \in {"request", "half"}

\* The caller's context reaches the request.
Cancellable(request) == request.ctx # Nil

\* GetMetadata decodes the payload once more, into the caller's value.
Decodes(o) == IF o = "GetMetadata" THEN {TRUE, FALSE} ELSE {TRUE}

Fail(c, result) ==
    /\ call' = [call EXCEPT ![c] = Returned(@.op, <<>>, result)]
    /\ UNCHANGED belief

\* The last request was answered: the caller is told nil.
Succeed(c) ==
    /\ call' = [call EXCEPT ![c] = Returned(@.op, @.served, Nil)]
    /\ belief' = IF SetsState(call[c].op) /\ call[c].alone
                 THEN Asks[call[c].op][1].body[1] ELSE belief

\* The next request of a loop; it is not sent under a context that is done.
Proceed(c) ==
    IF call[c].cancelled /\ Cancellable(Sends[call[c].op][call[c].k + 1])
    THEN Fail(c, "error")
    ELSE /\ call' = [call EXCEPT ![c].phase = "sent", ![c].k = @ + 1,
                                 ![c].answer = Nil]
         /\ UNCHANGED belief

\* Mutant: an error of the last request is dropped.
ReturnNil(c) ==
    /\ call[c].phase = "answered"
    /\ IF call[c].k = Len(Sends[call[c].op]) THEN Succeed(c) ELSE Proceed(c)
    /\ UNCHANGED <<up, vm, late>>

\* The method of the generated client returns what its reader made of the answer.
Return(c) ==
    /\ call[c].phase = "answered"
    /\ LET result == call[c].answer
           last == call[c].k = Len(Sends[call[c].op])
       IN  \/ result = "nil" /\ last /\ Succeed(c)
           \/ result = "nil" /\ last /\ FALSE \in Decodes(call[c].op)
                             /\ Fail(c, "error")
           \/ result = "nil" /\ ~last /\ Proceed(c)
           \/ result # "nil" /\ Fail(c, result)
    /\ UNCHANGED <<up, vm, late>>

\* The transport fails: firecracker is gone.
Broken(c) ==
    /\ InProgress(c) /\ ~up
    /\ Fail(c, "error")
    /\ UNCHANGED <<up, vm, late>>

\* The call is given up: its connection is closed, which may or may not keep
\* firecracker from serving a request it has not answered.
Abandon(c) ==
    /\ Fail(c, "error")
    /\ \/ UNCHANGED late
       \/ /\ call[c].phase = "sent" /\ up /\ Cardinality(late) < MaxLate
          /\ SetsState(call[c].op)
          /\ late' = late \cup {Request(c).body[1]}
    /\ UNCHANGED <<up, vm>>

Expire(c) == InProgress(c) /\ Limited(Request(c)) /\ Abandon(c)

ContextDone(c) ==
    InProgress(c) /\ call[c].cancelled /\ Cancellable(Request(c)) /\ Abandon(c)

Cancel(c) ==
    /\ InProgress(c) /\ ~call[c].cancelled
    /\ call' = [call EXCEPT ![c].cancelled = TRUE]
    /\ UNCHANGED <<up, vm, late, belief>>

-------------------------------------------------------------------------------
(* Firecracker. *)

\* What a request for operation o does to the guest's state.
After(o, body) == IF o = "patchVm" THEN body[1] ELSE vm

Answer(c, code, served) ==
    \E b \in Bodies(code) :
        call' = [call EXCEPT ![c].phase = "answered", ![c].served = served,
                             ![c].answer = Direct!Returns(Request(c),
                                               [code |-> code, body |-> b])]

Serve(c) ==
    /\ up /\ call[c].phase = "sent"
    /\ LET r == Request(c) IN
        \/ \E o \in Operations(r) :
            /\ Answer(c, Done(r),
                      Append(call[c].served,
                             [operation |-> o, id |-> r.id, body |-> r.body]))
            /\ vm' = After(o, r.body)
        \/ \E code \in Refusals : Answer(c, code, call[c].served) /\ UNCHANGED vm
    /\ UNCHANGED <<up, late, belief>>

ServeLate ==
    /\ up
    /\ \E s \in late : late' = late \ {s} /\ vm' \in {vm, s}
    /\ UNCHANGED <<up, call, belief>>

Exit ==
    /\ up
    /\ up' = FALSE /\ late' = {}
    /\ UNCHANGED <<vm, call, belief>>

-------------------------------------------------------------------------------
CallStep(c) == Return(c) \/ Broken(c) \/ Expire(c) \/ ContextDone(c)

\* Everything but Exit, which ends more than the API.
GuestNext ==
    \/ \E c \in Callers :
        \/ \E o \in Menu[c] : Invoke(c, o)
        \/ CallStep(c) \/ Cancel(c) \/ Serve(c)
    \/ ServeLate

-------------------------------------------------------------------------------
\* Two limits that differ, and a lone outgoing one, are not sent as asked.
AsAsked == DOMAIN Sends \ {"limitOut", "limitEach"}

\* A call that returns nil has had firecracker do exactly what the operation is
\* for, request by request and in order; a call under way is at a prefix of it.
NilMeansDone ==
    \A c \in Callers :
        LET done == call[c].served IN
        \/ call[c].op = Nil
        \/ /\ IsPrefix(done, Asks[call[c].op])
           /\ call[c].phase = "done" /\ call[c].result = Nil
                => done = Asks[call[c].op]

\* No answer that the API declares makes the generated client panic in its type
\* assertion.
NoPanic == \A c \in Callers : call[c].result # "panic"

\* When PauseVM or ResumeVM has returned nil, with no other such call under way
\* meanwhile and no request of an abandoned one left, the guest is in that
\* state, and stays in it until the next such call.
ToldState == belief \in {vm, Unknown}

\* A call returns, whatever firecracker does, once its context is done; and
\* without that too, unless it makes or loads a snapshot.
CallsReturn ==
    \A c \in Callers :
        InProgress(c) /\ (call[c].cancelled
                            \/ call[c].op \notin {"CreateSnapshot", "loadSnapshot"})
            ~> ~InProgress(c)
===============================================================================
