------------------------------ MODULE FifoCapture ------------------------------
(***************************************************************************)
(* captureFifoToFile (machine.go): the goroutine that copies a log or      *)
(* metrics fifo to a writer, the goroutine that closes the fifo when       *)
(* exitCh is closed, the cleanup function that removes the fifo, and the   *)
(* process that writes to it.  The kernel's pipe and the containerd fifo   *)
(* package are modelled from how they are used.                            *)
(***************************************************************************)
EXTENDS Integers, Sequences

CONSTANTS
    MaxBytes    \* bound: what firecracker writes

ASSUME BytesAssumption == MaxBytes \in Nat

VARIABLES
    writer,     \* firecracker's end: "none", "open" or "gone"
    pipe,       \* our end: "opening", "open" or "closed"
    buffer,     \* bytes in the pipe, in order
    written,    \* how many bytes firecracker has written
    captured,   \* the bytes given to the io.Writer
    copier,     \* the copying goroutine: "off", "copy", "defer" or "done"
    copyErr,    \* io.Copy returned an error, which went to the channel done
    exitCh,     \* exitCh is closed
    closer,     \* the goroutine waiting for it: "off", "wait" or "done"
    path        \* whose fifo is at the path: "ours", "none" or "later"

fifoVars == <<writer, pipe, buffer, written, captured, copier, copyErr, exitCh,
              closer, path>>

\* captureFifoToFile has returned, and the fifo is opened in the background; or
\* no fifo is configured.
FifoInit ==
    /\ writer = "none" /\ buffer = <<>> /\ written = 0
    /\ captured = <<>> /\ copyErr = FALSE /\ exitCh = FALSE
    /\ \/ pipe = "opening" /\ copier = "copy" /\ closer = "wait" /\ path = "ours"
       \/ pipe = "closed" /\ copier = "off" /\ closer = "off" /\ path = "none"

-------------------------------------------------------------------------------
(* The goroutines of captureFifoToFileWithChannel. *)

\* io.Copy: one read and one write.
Copy ==
    /\ copier = "copy" /\ pipe = "open" /\ buffer # <<>>
    /\ captured' = Append(captured, Head(buffer))
    /\ buffer' = Tail(buffer)
    /\ UNCHANGED <<writer, pipe, written, copier, copyErr, exitCh, closer, path>>

\* Mutant: the copy ends as soon as the writer is gone.
CopyEndsEarly ==
    /\ copier = "copy"
    /\ \/ pipe = "open" /\ writer = "gone" /\ copyErr' = FALSE
       \/ pipe = "closed" /\ copyErr' = TRUE
    /\ copier' = "defer"
    /\ UNCHANGED <<writer, pipe, buffer, written, captured, exitCh, closer, path>>

\* io.Copy returns nil at the end of the file, and an error once the pipe has
\* been closed under it, which drops what is still in the pipe.
CopyEnds ==
    /\ copier = "copy"
    /\ \/ pipe = "open" /\ writer = "gone" /\ buffer = <<>> /\ copyErr' = FALSE
       \/ pipe = "closed" /\ copyErr' = TRUE
    /\ copier' = "defer"
    /\ UNCHANGED <<writer, pipe, buffer, written, captured, exitCh, closer, path>>

\* The deferred Close and Unlink: the path is removed, whoever has made it.
CopyDeferred ==
    /\ copier = "defer"
    /\ copier' = "done" /\ pipe' = "closed" /\ path' = "none"
    /\ UNCHANGED <<writer, buffer, written, captured, copyErr, exitCh, closer>>

\* Mutant: the goroutine waits and does nothing.
CloserIdle ==
    /\ closer = "wait" /\ exitCh
    /\ closer' = "done"
    /\ UNCHANGED <<writer, pipe, buffer, written, captured, copier, copyErr, exitCh, path>>

CloseOnExit ==
    /\ closer = "wait" /\ exitCh
    /\ closer' = "done" /\ pipe' = "closed"
    /\ UNCHANGED <<writer, buffer, written, captured, copier, copyErr, exitCh, path>>

-------------------------------------------------------------------------------
(* The environment. *)

\* Both ends meet in open(2).
WriterOpens ==
    /\ writer = "none" /\ pipe = "opening" /\ path = "ours"
    /\ writer' = "open" /\ pipe' = "open"
    /\ UNCHANGED <<buffer, written, captured, copier, copyErr, exitCh, closer, path>>

Write ==
    /\ writer = "open" /\ pipe = "open" /\ written < MaxBytes
    /\ written' = written + 1 /\ buffer' = Append(buffer, written')
    /\ UNCHANGED <<writer, pipe, captured, copier, copyErr, exitCh, closer, path>>

\* The context is done while the fifo is still being opened.
OpenCancelled ==
    /\ pipe = "opening" /\ pipe' = "closed"
    /\ UNCHANGED <<writer, buffer, written, captured, copier, copyErr, exitCh, closer, path>>

\* Firecracker exits.
WriterExits ==
    /\ writer # "gone" /\ writer' = "gone"
    /\ UNCHANGED <<pipe, buffer, written, captured, copier, copyErr, exitCh, closer, path>>

\* doCleanup runs os.Remove, then exitCh is closed.
CleanupAndReport ==
    /\ writer = "gone" /\ ~exitCh
    /\ path' = "none" /\ exitCh' = TRUE
    /\ UNCHANGED <<writer, pipe, buffer, written, captured, copier, copyErr, closer>>

\* The user starts the next machine with the same LogFifo.
NextMachine ==
    /\ exitCh /\ path = "none" /\ closer # "off"
    /\ path' = "later"
    /\ UNCHANGED <<writer, pipe, buffer, written, captured, copier, copyErr, exitCh, closer>>

-------------------------------------------------------------------------------
Copier == Copy \/ CopyEnds \/ CopyDeferred
Reporting == CloseOnExit \/ CleanupAndReport

\* Everything but WriterExits.
FifoNext == Copier \/ Reporting \/ WriterOpens \/ Write \/ OpenCancelled \/ NextMachine

-------------------------------------------------------------------------------
\* What is captured is what firecracker wrote, from the first byte, in order and
\* each byte once; and all of it, when the copy ended without an error.
CapturedAll ==
    /\ captured = [j \in 1 .. Len(captured) |-> j]
    /\ copier \in {"defer", "done"} /\ ~copyErr => Len(captured) = written

\* Once firecracker is gone, both goroutines end and the pipe is closed, even if
\* firecracker never opened the fifo.
CaptureEnds ==
    writer = "gone" ~> copier \in {"off", "done"} /\ closer \in {"off", "done"}
                        /\ pipe = "closed"

===============================================================================
