------------------------------- MODULE VsockDial -------------------------------
(***************************************************************************)
(* vsock.DialContext (vsock/dial.go): the retry loop of dial, the          *)
(* handshake of tryConnect and the byte stream of the connection that is   *)
(* handed to the caller.  Firecracker answers CONNECT with a line; once    *)
(* the guest has accepted, whatever the guest writes follows that line in  *)
(* the same stream.                                                        *)
(***************************************************************************)
EXTENDS Integers, Sequences

CONSTANTS
    GuestBytes,     \* how many bytes the guest writes on its own
    BufferRoom,     \* bytes the 32-byte reader has room for beside the line
    BadAcks         \* the answer to CONNECT may be something else than OK

ASSUME DialAssumption ==
    /\ GuestBytes \in Nat /\ BufferRoom \in Nat
    /\ BadAcks \in BOOLEAN

VARIABLES
    pc,             \* the goroutine in dial
    ctxDone,        \* the caller's context is done
    open,           \* the connection of this attempt is open
    deadline,       \* it has a deadline
    acked,          \* firecracker's answer: "none", "OK" or "bad"
    stream,         \* bytes written by the peer and not yet read, in order
    sent,           \* number of bytes the guest has written
    received,       \* the bytes the caller has read
    orphans         \* answers got on connections left open and unreferenced

dialVars == <<pc, ctxDone, open, deadline, acked, stream, sent, received, orphans>>

\* 0 is the answer line, ended by its newline; k > 0 the guest's k-th byte.
Line == 0
DialEnds == {"conn", "ctxErr", "fatalErr"}

DialInit ==
    /\ pc = "select" /\ ctxDone = FALSE
    /\ open = FALSE /\ deadline = FALSE /\ acked = "none"
    /\ stream = <<>> /\ sent = 0 /\ received = <<>>
    /\ orphans = {}

-------------------------------------------------------------------------------
(* The loop of dial. *)

\* Mutant: the loop does not look at the context.
SelectDoneNever == FALSE

SelectDone ==
    /\ pc = "select" /\ ctxDone
    /\ pc' = "ctxErr"
    /\ UNCHANGED <<ctxDone, open, deadline, acked, stream, sent, received, orphans>>

\* A tick: net.DialTimeout.  Its error is temporary (the loop continues) or not.
SelectTick ==
    /\ pc = "select"
    /\ \/ pc' = "write" /\ open' = TRUE
       \/ pc' \in {"select", "fatalErr"} /\ UNCHANGED open
    /\ UNCHANGED <<ctxDone, deadline, acked, stream, sent, received, orphans>>

-------------------------------------------------------------------------------
(* tryConnect. *)

\* The attempt is over, its connection no longer referred to.
Forget(next) ==
    /\ pc' = next
    /\ open' = FALSE /\ deadline' = FALSE /\ acked' = "none"
    /\ stream' = <<>> /\ sent' = 0

\* err is nil in the deferred function: the connection stays open.
LeaveOpen(next) == Forget(next) /\ orphans' = orphans \cup {acked}

\* err is not nil in the deferred function: the connection is closed.
\* Mutant: LeaveOpen.
CloseConn(next) == Forget(next) /\ UNCHANGED orphans

\* tryConnWrite: the deadline covers the write only.  A failure is a
\* connectMsgError, which is not temporary.
tryConnWrite ==
    /\ pc = "write"
    /\ \/ pc' = "read" /\ deadline' = TRUE
          /\ UNCHANGED <<open, acked, stream, sent, orphans>>
       \/ CloseConn("fatalErr")
    /\ UNCHANGED <<ctxDone, received>>

\* Mutant: the deadline of the handshake stays on the connection.
KeepDeadline == UNCHANGED deadline

\* The deferred conn.SetDeadline(time.Time{}).
ResetDeadline == deadline' = FALSE

\* Mutant: the last byte read is not consumed.
RestFromLast(k) == SubSeq(stream, k, Len(stream))

\* What is left for the caller when a read has taken k elements.
Rest(k) == SubSeq(stream, k + 1, Len(stream))

\* tryConnReadUntil: one read takes whatever is there, up to the size of the
\* buffer; what follows the line is dropped with the reader.  A failed read is
\* an ackError, which is temporary.  On a wrong answer tryConnect returns an
\* ackError too, but its variable err is nil and the deferred function leaves
\* the connection open.
tryConnReadUntil ==
    /\ pc = "read"
    /\ \/ /\ stream # <<>> /\ acked = "OK"
          /\ pc' = "conn" /\ ResetDeadline
          /\ stream' = Rest(IF Len(stream) <= 1 + BufferRoom
                            THEN Len(stream) ELSE 1 + BufferRoom)
          /\ UNCHANGED <<open, acked, sent, orphans>>
       \/ stream # <<>> /\ acked = "bad" /\ LeaveOpen("select")
       \/ CloseConn("select")
    /\ UNCHANGED <<ctxDone, received>>

-------------------------------------------------------------------------------
(* The environment: the caller, firecracker and the guest. *)

CancelDial ==
    /\ ~ctxDone
    /\ ctxDone' = TRUE
    /\ UNCHANGED <<pc, open, deadline, acked, stream, sent, received, orphans>>

AnswerConnect ==
    /\ pc = "read" /\ acked = "none"
    /\ acked' \in IF BadAcks THEN {"OK", "bad"} ELSE {"OK"}
    /\ stream' = Append(stream, Line)
    /\ UNCHANGED <<pc, ctxDone, open, deadline, sent, received, orphans>>

GuestWrites ==
    /\ open /\ acked = "OK" /\ sent < GuestBytes
    /\ sent' = sent + 1
    /\ stream' = Append(stream, sent')
    /\ UNCHANGED <<pc, ctxDone, open, deadline, acked, received, orphans>>

CallerReads ==
    /\ pc = "conn" /\ stream # <<>>
    /\ received' = Append(received, Head(stream))
    /\ stream' = Tail(stream)
    /\ UNCHANGED <<pc, ctxDone, open, deadline, acked, sent, orphans>>

-------------------------------------------------------------------------------
Attempt == tryConnWrite \/ tryConnReadUntil

\* Everything but AnswerConnect and GuestWrites, in which the guest's side takes part.
DialerNext == SelectDone \/ SelectTick \/ Attempt \/ CancelDial \/ CallerReads

-------------------------------------------------------------------------------
\* A connection is handed out only after firecracker's OK, open, and with the
\* deadlines of the handshake removed.
HandedOutReady == pc = "conn" => open /\ ~deadline /\ acked = "OK"

\* The caller never reads the answer line: what it reads is guest bytes in the
\* order they were written.
ReadsGuestOnly ==
    \A j, k \in DOMAIN received : received[j] # Line
                                    /\ (j < k => received[j] < received[k])

\* An attempt that fails leaves its connection open only after a wrong answer.
OrphansOnlyWrong == orphans \subseteq {"bad"}

\* A dial whose context is done returns.
CancelReturns == ctxDone ~> pc \in DialEnds

===============================================================================
