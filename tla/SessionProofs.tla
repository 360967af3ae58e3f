----------------------------- MODULE SessionProofs -----------------------------
(***************************************************************************)
(* Theorems about Session: about the calls of any number of goroutines and *)
(* about the capture of a fifo with any number of bytes.                   *)
(***************************************************************************)
EXTENDS Session, GuestProofs

-------------------------------------------------------------------------------
(* The calls. *)

\* The invariant holds in every behaviour.
LEMMA GuestInvariant == Spec => []GuestInv
<1>1. Init => GuestInv
  <2> SUFFICES ASSUME Init PROVE GuestInv
      OBVIOUS
  <2>1. \A c \in Callers : call[c] = Idle /\ ~InProgress(c)
      BY DEF Init, GuestInit, InProgress, Idle
  <2>2. call \in [Callers -> Calls]
      BY IdleRecord DEF Init, GuestInit
  <2> QED
      BY <2>1, <2>2 DEF GuestInv, CallsOK, AloneOK, BeliefOK, Setting, Init, GuestInit
<1>2. GuestInv /\ [Next]_sessionVars => GuestInv'
    BY GuestStep DEF Next, Die, sessionVars
<1> QED
    BY <1>1, <1>2, PTL DEF Spec

\* Whatever operations any number of goroutines call, and whatever declared answer
\* firecracker gives, the type assertions of the generated client hold.
THEOREM NeverPanics == Spec => []NoPanic
<1>1. GuestInv => NoPanic
    BY DEF GuestInv, CallsOK, Calls, NoPanic, Nil, Direct!Nil
<1> QED
    BY <1>1, GuestInvariant, PTL

\* PauseVM and ResumeVM tell the truth to any number of goroutines: a nil returned
\* with no other such call under way and none left over is the guest's state until
\* the next one.
THEOREM TellsState == Spec => []ToldState
<1>1. GuestInv => ToldState
    BY DEF GuestInv, BeliefOK, ToldState
<1> QED
    BY <1>1, GuestInvariant, PTL

\* A call of any operation but the two whose limiters are mixed up that returns nil
\* has had firecracker do exactly what the operation is for, however many goroutines
\* call, requests fail, limits expire and contexts end.
THEOREM DoneAsAsked ==
    ASSUME \A c \in Callers : Menu[c] \subseteq AsAsked
    PROVE  Spec => []NilMeansDone
<1>1. Init => ServedInv
    BY DEF Init, GuestInit, Idle, ServedInv
<1>2. GuestInv /\ ServedInv /\ [Next]_sessionVars => ServedInv'
    BY ServedStep DEF Next, Die, sessionVars
<1>3. GuestInv /\ ServedInv => NilMeansDone
    BY ServedMeansDone DEF NilMeansDone
<1> QED
    BY <1>1, <1>2, <1>3, GuestInvariant, PTL DEF Spec

-------------------------------------------------------------------------------
(* The capture of a fifo. *)

\* The bytes written are those captured followed by those still in the pipe; an
\* end of file is only seen when the writer is gone and the pipe is empty.
CaptureInv ==
    /\ written \in Nat /\ captured \in Seq(Nat) /\ buffer \in Seq(Nat)
    /\ Len(captured) + Len(buffer) = written
    /\ \A j \in 1 .. Len(captured) : captured[j] = j
    /\ \A j \in 1 .. Len(buffer) : buffer[j] = Len(captured) + j
    /\ copier \in {"defer", "done"} /\ ~copyErr => writer = "gone" /\ buffer = <<>>

\* Every step of the capture preserves it.
LEMMA FifoCaptureInv ==
    CaptureInv /\ (FifoNext \/ WriterExits \/ UNCHANGED fifoVars) => CaptureInv'
<1> SUFFICES ASSUME CaptureInv, FifoNext \/ WriterExits \/ UNCHANGED fifoVars
             PROVE  CaptureInv'
    OBVIOUS
<1> USE DEF CaptureInv
<1>1. CASE Copy
  <2>1. /\ captured' = Append(captured, Head(buffer)) /\ buffer' = Tail(buffer)
        /\ buffer # <<>> /\ UNCHANGED <<written, copier, copyErr, writer>>
      BY <1>1 DEF Copy
  <2>2. /\ Head(buffer) = Len(captured) + 1 /\ Tail(buffer) \in Seq(Nat)
        /\ Len(Tail(buffer)) = Len(buffer) - 1
        /\ \A j \in 1 .. Len(Tail(buffer)) : Tail(buffer)[j] = buffer[j + 1]
    <3>1. Len(buffer) \in Nat \ {0}
        BY <2>1, EmptySeq
    <3> QED
        BY <2>1, <3>1, HeadTailProperties
  <2>3. /\ captured' \in Seq(Nat) /\ Len(captured') = Len(captured) + 1
        /\ \A j \in 1 .. Len(captured) : captured'[j] = captured[j]
        /\ captured'[Len(captured) + 1] = Len(captured) + 1
      BY <2>1, <2>2, AppendProperties
  <2>4. ASSUME NEW j \in 1 .. Len(captured') PROVE captured'[j] = j
    <3>1. j \in 1 .. Len(captured) \/ j = Len(captured) + 1
        BY <2>3
    <3> QED
        BY <2>3, <3>1
  <2>5. \A j \in 1 .. Len(buffer') : buffer'[j] = Len(captured') + j
      BY <2>1, <2>2, <2>3
  <2>6. ~(copier' \in {"defer", "done"})
      BY <1>1 DEF Copy
  <2>7. Len(captured') + Len(buffer') = written' /\ written' \in Nat
    <3>1. Len(captured) \in Nat /\ Len(buffer) \in Nat
        BY LenProperties
    <3>2. Len(captured') = Len(captured) + 1 /\ Len(buffer') = Len(buffer) - 1
        BY <2>1, <2>2, <2>3
    <3>3. Len(captured) + Len(buffer) = written /\ written' = written
        BY <2>1
    <3> HIDE DEF CaptureInv
    <3> QED
        BY <3>1, <3>2, <3>3
  <2> QED
      BY <2>1, <2>2, <2>3, <2>4, <2>5, <2>6, <2>7
<1>2. CASE CopyEnds
    BY <1>2 DEF CopyEnds
<1>3. CASE Write
  <2>1. /\ written' = written + 1 /\ buffer' = Append(buffer, written + 1)
        /\ writer = "open" /\ UNCHANGED <<captured, copier, copyErr, writer>>
      BY <1>3 DEF Write
  <2>2. /\ buffer' \in Seq(Nat) /\ Len(buffer') = Len(buffer) + 1
        /\ \A j \in 1 .. Len(buffer) : buffer'[j] = buffer[j]
        /\ buffer'[Len(buffer) + 1] = written + 1
      BY <2>1, AppendProperties
  <2>3. ASSUME NEW j \in 1 .. Len(buffer') PROVE buffer'[j] = Len(captured') + j
    <3>1. j \in 1 .. Len(buffer) \/ j = Len(buffer) + 1
        BY <2>2
    <3> QED
        BY <2>1, <2>2, <3>1
  <2> QED
      BY <2>1, <2>2, <2>3
<1>4. CASE CopyDeferred \/ CloseOnExit \/ CleanupAndReport
    BY <1>4 DEF CopyDeferred, CloseOnExit, CleanupAndReport
<1>5. CASE WriterOpens \/ OpenCancelled \/ NextMachine \/ WriterExits
    BY <1>5 DEF WriterOpens, OpenCancelled, NextMachine, WriterExits
<1>6. CASE UNCHANGED fifoVars
    BY <1>6 DEF fifoVars
<1> QED
    BY <1>1, <1>2, <1>3, <1>4, <1>5, <1>6 DEF FifoNext, Copier, Reporting

\* What is captured is a prefix of what firecracker wrote, and all of it when the
\* copy ended without an error, whatever closes the pipe under the copier.
THEOREM CaptureFaithful == Spec => []CapturedAll
<1>1. Init => CaptureInv
    BY DEF Init, FifoInit, CaptureInv
<1>2. CaptureInv /\ [Next]_sessionVars => CaptureInv'
    BY FifoCaptureInv DEF Next, Die, sessionVars
<1>3. CaptureInv => CapturedAll
    BY DEF CaptureInv, CapturedAll
<1> QED
    BY <1>1, <1>2, <1>3, PTL DEF Spec
===============================================================================
