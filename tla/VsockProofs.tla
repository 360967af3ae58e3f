------------------------------ MODULE VsockProofs ------------------------------
(***************************************************************************)
(* Theorems about Vsock, for every number of bytes and connections, every  *)
(* size of the buffer and every length of the listener's queue.            *)
(***************************************************************************)
EXTENDS Vsock, SequenceTheorems, FiniteSetTheorems, TLAPS

Increasing(s) == \A j, k \in 1 .. Len(s) : j < k => s[j] < s[k]

AtMost(s, n) == \A j \in 1 .. Len(s) : s[j] <= n

-------------------------------------------------------------------------------
(* Sequences. *)

\* Appending something larger than every element.
LEMMA AppendLarger ==
    ASSUME NEW s \in Seq(Nat), NEW n \in Nat, AtMost(s, n), Increasing(s),
           NEW m \in Nat, n < m
    PROVE  /\ Append(s, m) \in Seq(Nat) /\ Len(Append(s, m)) = Len(s) + 1
           /\ Append(s, m)[Len(s) + 1] = m
           /\ \A j \in 1 .. Len(s) : Append(s, m)[j] = s[j]
           /\ AtMost(Append(s, m), m) /\ Increasing(Append(s, m))
<1>2. \A j \in 1 .. Len(s) : s[j] \in Nat /\ s[j] < m
    BY DEF AtMost
<1>3. AtMost(Append(s, m), m)
    BY <1>2 DEF AtMost
<1>4. Increasing(Append(s, m))
    <2> SUFFICES ASSUME NEW j \in 1 .. Len(s) + 1, NEW k \in 1 .. Len(s) + 1, j < k
                 PROVE  Append(s, m)[j] < Append(s, m)[k]
        BY DEF Increasing
    <2>1. j \in 1 .. Len(s) /\ Append(s, m)[j] = s[j]
        OBVIOUS
    <2>2. CASE k \in 1 .. Len(s)
        <3>1. s[j] < s[k] /\ Append(s, m)[k] = s[k]
            BY <2>1, <2>2 DEF Increasing
        <3> QED
            BY <2>1, <3>1
    <2>3. CASE k = Len(s) + 1
        BY <2>1, <2>3, <1>2
    <2> QED
        BY <2>2, <2>3
<1> QED
    BY <1>3, <1>4

\* What is left of a sequence when its first k elements are taken.
LEMMA RestOf ==
    ASSUME NEW s \in Seq(Nat), NEW k \in 0 .. Len(s)
    PROVE  /\ SubSeq(s, k + 1, Len(s)) \in Seq(Nat)
           /\ Len(SubSeq(s, k + 1, Len(s))) = Len(s) - k
           /\ \A j \in 1 .. Len(s) - k : SubSeq(s, k + 1, Len(s))[j] = s[k + j]
<1>1. k + 1 \in Int /\ Len(s) \in Int /\ \A i \in k + 1 .. Len(s) : s[i] \in Nat
    OBVIOUS
<1>2. /\ SubSeq(s, k + 1, Len(s)) \in Seq(Nat)
      /\ Len(SubSeq(s, k + 1, Len(s)))
            = IF k + 1 <= Len(s) THEN Len(s) - (k + 1) + 1 ELSE 0
      /\ \A i \in 1 .. Len(s) - (k + 1) + 1 :
            SubSeq(s, k + 1, Len(s))[i] = s[(k + 1) + i - 1]
    BY <1>1, SubSeqProperties
<1>3. Len(SubSeq(s, k + 1, Len(s))) = Len(s) - k
    BY <1>2
<1>4. \A j \in 1 .. Len(s) - k : (k + 1) + j - 1 = k + j
    OBVIOUS
<1>5. \A j \in 1 .. Len(s) - k : SubSeq(s, k + 1, Len(s))[j] = s[k + j]
    BY <1>2, <1>4
<1> QED
    BY <1>2, <1>3, <1>5

\* The concatenation of two sequences, element by element.
LEMMA Concat ==
    ASSUME NEW s \in Seq(Nat), NEW t \in Seq(Nat)
    PROVE  /\ s \o t \in Seq(Nat) /\ Len(s \o t) = Len(s) + Len(t)
           /\ \A j \in 1 .. Len(s) + Len(t) :
                (s \o t)[j] = IF j <= Len(s) THEN s[j] ELSE t[j - Len(s)]
    BY ConcatProperties

\* Concatenation is associative.
LEMMA Associative ==
    ASSUME NEW s \in Seq(Nat), NEW t \in Seq(Nat), NEW u \in Seq(Nat)
    PROVE  (s \o t) \o u = s \o (t \o u)
    BY ConcatAssociative, SMTT(60)

\* Appending to the second of two sequences.
LEMMA AppendToSecond ==
    ASSUME NEW s \in Seq(Nat), NEW t \in Seq(Nat), NEW m \in Nat
    PROVE  s \o Append(t, m) = Append(s \o t, m)
<1>1. <<m>> \in Seq(Nat) /\ s \o t \in Seq(Nat)
    BY Concat
<1>2. Append(t, m) = t \o <<m>> /\ Append(s \o t, m) = (s \o t) \o <<m>>
    BY <1>1, AppendIsConcat
<1>3. (s \o t) \o <<m>> = s \o (t \o <<m>>)
    BY <1>1, Associative
<1> QED
    BY <1>2, <1>3

\* Moving the head of one sequence to the end of another.
LEMMA MoveHead ==
    ASSUME NEW s \in Seq(Nat), NEW t \in Seq(Nat), t # <<>>
    PROVE  /\ Append(s, Head(t)) \in Seq(Nat) /\ Tail(t) \in Seq(Nat)
           /\ Append(s, Head(t)) \o Tail(t) = s \o t
<1>1. /\ Append(s, Head(t)) \in Seq(Nat) /\ Tail(t) \in Seq(Nat)
      /\ Head(t) \in Nat /\ Len(t) \in Nat \ {0} /\ Len(s) \in Nat
    OBVIOUS
<1>2. t = <<Head(t)>> \o Tail(t)
    <2>1. SubSeq(t, 1, Len(t)) = <<t[1]>> \o SubSeq(t, 1 + 1, Len(t))
        BY <1>1, SubSeqRecursiveFirst
    <2>2. SubSeq(t, 1, Len(t)) = t /\ Tail(t) = SubSeq(t, 2, Len(t)) /\ Head(t) = t[1]
        BY <1>1, SubSeqFull, TailIsSubSeq
    <2> QED
        BY <2>1, <2>2
<1>3. Append(s, Head(t)) = s \o <<Head(t)>> /\ <<Head(t)>> \in Seq(Nat)
    BY <1>1, AppendIsConcat
<1>4. (s \o <<Head(t)>>) \o Tail(t) = s \o (<<Head(t)>> \o Tail(t))
    BY <1>1, <1>3, Associative
<1> QED
    BY <1>1, <1>2, <1>3, <1>4

-------------------------------------------------------------------------------
(* The dialer. *)

Labels == {"select", "write", "read"} \cup DialEnds

\* An attempt has its connection from the tick on, and an answer only after its
\* request.
AttemptInv ==
    /\ pc \in Labels /\ acked \in {"none", "OK", "bad"}
    /\ pc \in {"write", "read", "conn"} => open
    /\ pc \in {"select", "write"} => acked = "none"
    /\ pc = "conn" => ~deadline /\ acked = "OK"
    /\ orphans \subseteq {"bad"}

\* The bytes, read and unread, are in order and have been written; the answer
\* line is the first of those unread until it is consumed.
StreamInv ==
    /\ stream \in Seq(Nat) /\ received \in Seq(Nat) /\ sent \in Nat
    /\ Increasing(stream) /\ Increasing(received)
    /\ AtMost(stream, sent) /\ AtMost(received, sent)
    /\ acked = "none" => stream = <<>>
    /\ pc # "conn" => received = <<>>
    /\ pc = "conn" => \A j \in 1 .. Len(stream) : stream[j] > 0
    /\ \A j \in 1 .. Len(received) :
        /\ received[j] > 0
        /\ \A k \in 1 .. Len(stream) : received[j] < stream[k]

DialInv == AttemptInv /\ StreamInv

(* The guest. *)

\* Connections are numbered; the dialer's, if acknowledged, is the last one and
\* waits or has been accepted.
PeerInv ==
    LET peers == accepted \o backlog IN
    /\ conns \in Nat /\ accepted \in Seq(Nat) /\ backlog \in Seq(Nat)
    /\ Increasing(peers) /\ AtMost(peers, conns)
    /\ acked = "OK" /\ listening => \E j \in 1 .. Len(peers) : peers[j] = conns

Inv == DialInv /\ PeerInv

-------------------------------------------------------------------------------
(* What the invariant implies. *)

\* The properties of the dialer are part of its invariant.
LEMMA DialSafe ==
    DialInv => HandedOutReady /\ OrphansOnlyWrong /\ ReadsGuestOnly
<1> SUFFICES ASSUME DialInv PROVE HandedOutReady /\ OrphansOnlyWrong /\ ReadsGuestOnly
    OBVIOUS
<1>1. HandedOutReady /\ OrphansOnlyWrong
    BY DEF DialInv, AttemptInv, HandedOutReady, OrphansOnlyWrong
<1>2. DOMAIN received = 1 .. Len(received)
    BY DEF DialInv, StreamInv
<1>3. ReadsGuestOnly
    BY <1>2 DEF DialInv, StreamInv, Increasing, ReadsGuestOnly, Line
<1> QED
    BY <1>1, <1>3

\* A number occurs in an increasing sequence at most once.
LEMMA PeerIsOne == DialInv /\ PeerInv => OnePeer
<1> DEFINE peers == accepted \o backlog
<1> SUFFICES ASSUME DialInv, PeerInv PROVE OnePeer
    OBVIOUS
<1>1. peers \in Seq(Nat)
    BY Concat DEF PeerInv
<1>2. DOMAIN peers = 1 .. Len(peers) /\ \A j \in 1 .. Len(peers) : peers[j] \in Nat
    BY <1>1
<1>3. Increasing(peers)
    BY DEF PeerInv
<1>4. pc = "conn" /\ listening => \E j \in 1 .. Len(peers) : peers[j] = conns
    BY DEF DialInv, AttemptInv, PeerInv
<1> HIDE DEF peers
<1>5. ASSUME pc = "conn", listening
      PROVE  Cardinality({j \in DOMAIN peers : peers[j] = conns}) = 1
    <2>1. PICK i \in 1 .. Len(peers) : peers[i] = conns
        BY <1>4, <1>5
    <2>2. \A j \in 1 .. Len(peers) : peers[j] = conns => j = i
        BY <2>1, <1>1, <1>2, <1>3 DEF Increasing
    <2>3. {j \in DOMAIN peers : peers[j] = conns} = {i}
        BY <2>1, <2>2, <1>2
    <2> QED
        BY <2>3, FS_Singleton
<1>6. \A j, k \in DOMAIN peers : j < k => peers[j] < peers[k]
    BY <1>2, <1>3 DEF Increasing
<1> QED
    BY <1>5, <1>6 DEF OnePeer, peers

-------------------------------------------------------------------------------
(* The invariant holds. *)

\* Initially nothing has been written, read, answered or accepted.
LEMMA InitInv == VsockInit => Inv
<1> SUFFICES ASSUME VsockInit PROVE Inv
    OBVIOUS
<1>1. DialInv
    BY DEF VsockInit, DialInit, DialInv, AttemptInv, StreamInv, Labels, DialEnds,
           Increasing, AtMost
<1>2. accepted = <<>> /\ backlog = <<>> /\ accepted \o backlog = <<>>
      /\ conns = 0 /\ acked = "none"
    BY DEF VsockInit, ListenerInit, DialInit
<1>3. PeerInv
    BY <1>2 DEF PeerInv, Increasing, AtMost
<1> QED
    BY <1>1, <1>3 DEF Inv

\* Every step of the dialer, of firecracker and of the guest keeps what is said
\* of an attempt.
LEMMA AttemptStep ==
    ASSUME AttemptInv,
           DialerNext \/ AnswerConnect \/ GuestWrites \/ UNCHANGED dialVars
    PROVE  AttemptInv'
<1> USE DEF AttemptInv, Labels, DialEnds
<1>1. CASE SelectDone
    BY <1>1 DEF SelectDone
<1>2. CASE SelectTick
    BY <1>2 DEF SelectTick
<1>3. CASE tryConnWrite
    BY <1>3 DEF tryConnWrite, CloseConn, Forget
<1>4. CASE tryConnReadUntil
    BY <1>4 DEF tryConnReadUntil, ResetDeadline, LeaveOpen, CloseConn, Forget
<1>5. CASE CancelDial
    BY <1>5 DEF CancelDial
<1>6. CASE CallerReads
    BY <1>6 DEF CallerReads
<1>7. CASE AnswerConnect
    BY <1>7 DEF AnswerConnect
<1>8. CASE GuestWrites
    BY <1>8 DEF GuestWrites
<1>9. CASE UNCHANGED dialVars
    BY <1>9 DEF dialVars
<1> QED
    BY <1>1, <1>2, <1>3, <1>4, <1>5, <1>6, <1>7, <1>8, <1>9 DEF DialerNext, Attempt

\* A read takes the line and whatever of the guest's bytes fits behind it.
LEMMA TakenBytes ==
    ASSUME StreamInv, stream # <<>>
    PROVE  LET k == IF Len(stream) <= 1 + BufferRoom
                    THEN Len(stream) ELSE 1 + BufferRoom
           IN  k \in 1 .. Len(stream)
    BY DialAssumption DEF StreamInv

\* The attempt's stream is dropped.
LEMMA ForgetStep ==
    ASSUME StreamInv, pc # "conn", NEW next, next # "conn", Forget(next),
           received' = received
    PROVE  StreamInv'
    BY DEF StreamInv, Forget, Increasing, AtMost

\* Every step keeps the order of the bytes.
LEMMA StreamStep ==
    ASSUME DialInv, DialerNext \/ AnswerConnect \/ GuestWrites \/ UNCHANGED dialVars
    PROVE  StreamInv'
<1> USE DEF DialInv
<1>1. CASE SelectDone
    BY <1>1 DEF SelectDone, StreamInv, AttemptInv
<1>2. CASE SelectTick
    BY <1>2 DEF SelectTick, StreamInv, AttemptInv
<1>3. CASE tryConnWrite
    <2>1. CASE pc' = "read" /\ UNCHANGED <<acked, stream, sent, received>>
        BY <2>1, <1>3 DEF tryConnWrite, StreamInv
    <2>2. CASE Forget("fatalErr") /\ received' = received
        BY <2>2, <1>3, ForgetStep DEF tryConnWrite
    <2> QED
        BY <2>1, <2>2, <1>3 DEF tryConnWrite, CloseConn
<1>4. CASE tryConnReadUntil
    <2>1. CASE Forget("select") /\ received' = received
        BY <2>1, <1>4, ForgetStep DEF tryConnReadUntil
    <2>2. CASE stream # <<>> /\ pc' = "conn"
        <3>1. PICK k \in 1 .. Len(stream) :
                stream' = SubSeq(stream, k + 1, Len(stream))
            BY <1>4, <2>2, TakenBytes DEF tryConnReadUntil, Rest, LeaveOpen,
                CloseConn, Forget
        <3>2. pc = "read" /\ UNCHANGED <<acked, sent, received>> /\ acked = "OK"
            BY <1>4, <2>2 DEF tryConnReadUntil, LeaveOpen, CloseConn, Forget
        <3>3. stream \in Seq(Nat) /\ Len(stream) \in Nat /\ k \in 0 .. Len(stream)
            BY <3>1 DEF StreamInv
        <3>4. /\ stream' \in Seq(Nat) /\ Len(stream') = Len(stream) - k
              /\ \A j \in 1 .. Len(stream) - k : stream'[j] = stream[k + j]
            BY <3>1, <3>3, RestOf
        <3>5. \A j \in 1 .. Len(stream) - k :
                /\ k + j \in 1 .. Len(stream) /\ 1 \in 1 .. Len(stream) /\ 1 < k + j
                /\ stream[1] \in Nat /\ stream[k + j] \in Nat
            BY <3>1, <3>3
        <3>6. \A j \in 1 .. Len(stream') : stream'[j] > 0 /\ stream'[j] <= sent
            <4> SUFFICES ASSUME NEW j \in 1 .. Len(stream) - k
                         PROVE  stream[k + j] > 0 /\ stream[k + j] <= sent
                BY <3>4
            <4>1. stream[1] < stream[k + j] /\ stream[k + j] <= sent
                BY <3>5 DEF StreamInv, Increasing, AtMost
            <4>2. stream[1] \in Nat /\ stream[k + j] \in Nat
                BY <3>5
            <4> QED
                BY <4>1, <4>2
        <3>7. Increasing(stream')
            BY <3>1, <3>3, <3>4, <3>5 DEF StreamInv, Increasing
        <3>8. received = <<>> /\ received' = <<>>
            BY <3>2 DEF StreamInv
        <3> QED
            <4>1. Len(received') = 0 /\ received' \in Seq(Nat)
                BY <3>8
            <4>2. Increasing(received') /\ AtMost(received', sent)
                BY <4>1 DEF Increasing, AtMost
            <4>3. AtMost(stream', sent)
                BY <3>6 DEF AtMost
            <4>4. sent' = sent /\ sent \in Nat /\ acked' = "OK"
                BY <3>2 DEF StreamInv
            <4>5. \A j \in 1 .. Len(received') : FALSE
                BY <4>1
            <4> QED
                BY <2>2, <3>4, <3>6, <3>7, <4>1, <4>2, <4>3, <4>4, <4>5
                   DEF StreamInv
    <2> QED
        BY <2>1, <2>2, <1>4 DEF tryConnReadUntil, CloseConn, LeaveOpen
<1>5. CASE CancelDial
    BY <1>5 DEF CancelDial, StreamInv
<1>6. CASE CallerReads
    <2>1. /\ pc = "conn" /\ pc' = pc /\ stream # <<>> /\ stream' = Tail(stream)
          /\ received' = Append(received, Head(stream))
          /\ UNCHANGED <<acked, sent>>
        BY <1>6 DEF CallerReads
    <2>2. /\ stream \in Seq(Nat) /\ received \in Seq(Nat) /\ sent \in Nat
          /\ Len(stream) \in Nat \ {0} /\ Head(stream) = stream[1]
          /\ Head(stream) \in Nat
        BY <2>1 DEF StreamInv
    <2>3. /\ stream' \in Seq(Nat) /\ Len(stream') = Len(stream) - 1
          /\ \A j \in 1 .. Len(stream') : stream'[j] = stream[j + 1]
        BY <2>1, <2>2, HeadTailProperties
    <2>4. /\ received' \in Seq(Nat) /\ Len(received') = Len(received) + 1
          /\ received'[Len(received) + 1] = stream[1]
          /\ \A j \in 1 .. Len(received) : received'[j] = received[j]
        BY <2>1, <2>2
    <2>5. \A j \in 1 .. Len(stream') :
            /\ j + 1 \in 1 .. Len(stream) /\ 1 \in 1 .. Len(stream) /\ 1 < j + 1
            /\ stream[j + 1] \in Nat
        BY <2>2, <2>3
    <2>6. \A j \in 1 .. Len(received') : j \in 1 .. Len(received) \/ j = Len(received) + 1
        BY <2>2, <2>4
    <2>7. \A j \in 1 .. Len(received) : received[j] \in Nat /\ received[j] < stream[1]
        BY <2>2 DEF StreamInv
    <2>8. stream[1] > 0 /\ stream[1] <= sent
        BY <2>1, <2>2 DEF StreamInv, AtMost
    <2>9. Increasing(stream') /\ AtMost(stream', sent)
          /\ \A j \in 1 .. Len(stream') : stream'[j] > 0 /\ stream[1] < stream'[j]
        BY <2>1, <2>2, <2>3, <2>5 DEF StreamInv, Increasing, AtMost
    <2>10. Increasing(received')
        <3> SUFFICES ASSUME NEW j \in 1 .. Len(received'),
                            NEW k \in 1 .. Len(received'), j < k
                     PROVE  received'[j] < received'[k]
            BY DEF Increasing
        <3>1. j \in 1 .. Len(received)
            BY <2>2, <2>4
        <3>2. CASE k \in 1 .. Len(received)
            <4>1. received[j] < received[k]
                BY <3>1, <3>2 DEF StreamInv, Increasing
            <4> QED
                BY <3>1, <3>2, <4>1, <2>4
        <3>3. CASE k = Len(received) + 1
            BY <3>1, <3>3, <2>4, <2>7
        <3> QED
            BY <2>6, <3>2, <3>3
    <2>11. AtMost(received', sent)
        BY <2>4, <2>6, <2>8 DEF StreamInv, AtMost
    <2>12. \A j \in 1 .. Len(received') : received'[j] > 0
        BY <2>4, <2>6, <2>8 DEF StreamInv
    <2>13. \A j \in 1 .. Len(received'), k \in 1 .. Len(stream') :
                received'[j] < stream'[k]
        BY <2>2, <2>3, <2>4, <2>5, <2>6, <2>7, <2>9 DEF StreamInv
    <2>14. acked' = "OK"
        BY <2>1 DEF AttemptInv
    <2> QED
        BY <2>1, <2>2, <2>3, <2>4, <2>9, <2>10, <2>11, <2>12, <2>13, <2>14
           DEF StreamInv
<1>7. CASE AnswerConnect
    <2>1. stream = <<>> /\ received = <<>> /\ received' = <<>> /\ pc' = "read"
        BY <1>7 DEF AnswerConnect, StreamInv
    <2>2. stream' = <<0>> /\ sent' = sent /\ acked' # "none"
        BY <1>7, <2>1 DEF AnswerConnect, Line
    <2>3. stream' \in Seq(Nat) /\ Len(stream') = 1 /\ stream'[1] = 0
        BY <2>2
    <2> QED
        BY <2>1, <2>2, <2>3 DEF StreamInv, Increasing, AtMost
<1>8. CASE GuestWrites
    <2>1. /\ sent' = sent + 1 /\ stream' = Append(stream, sent + 1)
          /\ UNCHANGED <<pc, acked, received>> /\ acked = "OK"
        BY <1>8 DEF GuestWrites
    <2>2. /\ stream \in Seq(Nat) /\ sent \in Nat /\ sent + 1 \in Nat
          /\ AtMost(stream, sent) /\ Increasing(stream) /\ sent < sent + 1
        BY DEF StreamInv
    <2>3. /\ stream' \in Seq(Nat) /\ Len(stream') = Len(stream) + 1
          /\ stream'[Len(stream) + 1] = sent + 1
          /\ \A j \in 1 .. Len(stream) : stream'[j] = stream[j]
          /\ AtMost(stream', sent + 1) /\ Increasing(stream')
        BY <2>1, <2>2, AppendLarger
    <2>4. \A j \in 1 .. Len(stream') : j \in 1 .. Len(stream) \/ j = Len(stream) + 1
        BY <2>2, <2>3
    <2>5. \A j \in 1 .. Len(received) :
            /\ received[j] \in Nat /\ received[j] <= sent /\ received[j] <= sent + 1
            /\ received[j] < sent + 1
        BY <2>2 DEF StreamInv, AtMost
    <2>6. AtMost(received, sent + 1)
        BY <2>5 DEF AtMost
    <2>7. pc = "conn" => \A j \in 1 .. Len(stream') : stream'[j] > 0
        <3> SUFFICES ASSUME pc = "conn", NEW j \in 1 .. Len(stream')
                     PROVE  stream'[j] > 0
            OBVIOUS
        <3>1. CASE j \in 1 .. Len(stream)
            <4>1. stream[j] > 0
                BY <3>1 DEF StreamInv
            <4> QED
                BY <3>1, <4>1, <2>3
        <3>2. CASE j = Len(stream) + 1
            <4>1. sent + 1 > 0
                BY <2>2
            <4> QED
                BY <3>2, <4>1, <2>3
        <3> QED
            BY <2>4, <3>1, <3>2
    <2>8. \A j \in 1 .. Len(received), k \in 1 .. Len(stream') :
            received[j] < stream'[k]
        BY <2>3, <2>4, <2>5 DEF StreamInv
    <2> QED
        BY <2>1, <2>2, <2>3, <2>6, <2>7, <2>8 DEF StreamInv
<1>9. CASE UNCHANGED dialVars
    BY <1>9 DEF dialVars, StreamInv
<1> QED
    BY <1>1, <1>2, <1>3, <1>4, <1>5, <1>6, <1>7, <1>8, <1>9 DEF DialerNext, Attempt

\* A connection that is queued is the last one answered.
LEMMA ConnectKeepsPeers ==
    ASSUME PeerInv, conns' = conns + 1, Enqueue(conns')
    PROVE  PeerInv'
<1>1. /\ conns \in Nat /\ conns + 1 \in Nat /\ conns < conns + 1
      /\ accepted \in Seq(Nat) /\ backlog \in Seq(Nat)
      /\ Increasing(accepted \o backlog) /\ AtMost(accepted \o backlog, conns)
    BY DEF PeerInv
<1>2. /\ accepted' = accepted /\ backlog' = Append(backlog, conns + 1)
      /\ backlog' \in Seq(Nat)
    BY <1>1 DEF Enqueue
<1>3. accepted' \o backlog' = Append(accepted \o backlog, conns + 1)
    BY <1>1, <1>2, AppendToSecond
<1>4. accepted \o backlog \in Seq(Nat) /\ Len(accepted \o backlog) \in Nat
    BY <1>1, Concat
<1>5. /\ Len(accepted' \o backlog') = Len(accepted \o backlog) + 1
      /\ (accepted' \o backlog')[Len(accepted \o backlog) + 1] = conns + 1
      /\ AtMost(accepted' \o backlog', conns + 1)
      /\ Increasing(accepted' \o backlog')
    <2> DEFINE Longer(t) ==
            /\ Len(t) = Len(accepted \o backlog) + 1
            /\ t[Len(accepted \o backlog) + 1] = conns + 1
            /\ AtMost(t, conns + 1) /\ Increasing(t)
    <2>1. Longer(Append(accepted \o backlog, conns + 1))
        BY <1>1, <1>4, AppendLarger
    <2> HIDE DEF Longer
    <2>2. Longer(accepted' \o backlog')
        BY <2>1, <1>3
    <2> QED
        BY <2>2 DEF Longer
<1>6. Len(accepted \o backlog) + 1 \in 1 .. Len(accepted' \o backlog')
    BY <1>4, <1>5
<1> QED
    BY <1>1, <1>2, <1>5, <1>6 DEF PeerInv

\* Accept moves a connection from the queue to the caller, and Close drops the
\* queue: neither changes the order.
LEMMA ListenerKeepsPeers ==
    ASSUME PeerInv, ListenerNext, UNCHANGED <<dialVars, conns>>
    PROVE  PeerInv'
<1>1. CASE UNCHANGED <<listening, backlog, accepted>>
    BY <1>1 DEF PeerInv, dialVars
<1>2. CASE tryAccept
    <2>1. /\ backlog # <<>> /\ accepted' = Append(accepted, Head(backlog))
          /\ backlog' = Tail(backlog) /\ UNCHANGED <<listening, acked, conns>>
        BY <1>2 DEF tryAccept, dialVars
    <2>2. accepted \in Seq(Nat) /\ backlog \in Seq(Nat)
        BY DEF PeerInv
    <2>3. /\ accepted' \in Seq(Nat) /\ backlog' \in Seq(Nat)
          /\ accepted' \o backlog' = accepted \o backlog
        BY <2>1, <2>2, MoveHead
    <2> QED
        BY <2>1, <2>3 DEF PeerInv
<1>3. CASE Close
    <2>1. /\ backlog' = <<>> /\ ~listening' /\ accepted' = accepted /\ conns' = conns
        BY <1>3 DEF Close
    <2>2. /\ accepted \in Seq(Nat) /\ backlog \in Seq(Nat) /\ conns \in Nat
          /\ Len(accepted) \in Nat /\ Len(backlog) \in Nat
        BY DEF PeerInv
    <2>3. /\ Len(accepted \o backlog) = Len(accepted) + Len(backlog)
          /\ \A j \in 1 .. Len(accepted) : /\ j \in 1 .. Len(accepted \o backlog)
                                          /\ (accepted \o backlog)[j] = accepted[j]
        BY <2>2, Concat
    <2>4. Increasing(accepted) /\ AtMost(accepted, conns)
        BY <2>3 DEF PeerInv, Increasing, AtMost
    <2>5. accepted' \o backlog' = accepted /\ backlog' \in Seq(Nat)
        BY <2>1, <2>2, ConcatEmptySeq
    <2> QED
        BY <2>1, <2>2, <2>4, <2>5 DEF PeerInv
<1> QED
    BY <1>1, <1>2, <1>3 DEF ListenerNext, CallAccept, AcceptDone, AcceptTick,
        Accepting, tryAcceptFails, tryAcceptClosed, AcceptExpires, ListenerCancel

\* The invariant is inductive.
LEMMA NextInv == Inv /\ [VsockNext]_vsockVars => Inv'
<1> SUFFICES ASSUME Inv, [VsockNext]_vsockVars PROVE Inv'
    OBVIOUS
<1>1. DialInv /\ PeerInv
    BY DEF Inv
<1>2. DialerNext \/ AnswerConnect \/ GuestWrites \/ UNCHANGED dialVars
    BY DEF VsockNext, Connect, Talk, vsockVars
<1>3. DialInv'
    BY <1>1, <1>2, AttemptStep, StreamStep DEF DialInv
<1>4. PeerInv'
    <2>1. CASE DialerNext /\ UNCHANGED <<listenerVars, conns>>
        <3>1. acked' \in {acked, "none"}
            BY <2>1 DEF DialerNext, SelectDone, SelectTick, Attempt, tryConnWrite,
                tryConnReadUntil, LeaveOpen, CloseConn, Forget, CancelDial, CallerReads
        <3> QED
            BY <2>1, <3>1, <1>1 DEF PeerInv, listenerVars
    <2>2. CASE ListenerNext /\ UNCHANGED <<dialVars, conns>>
        BY <2>2, <1>1, ListenerKeepsPeers
    <2>3. CASE Connect
        <3>1. CASE conns' = conns + 1 /\ Enqueue(conns')
            BY <3>1, <1>1, ConnectKeepsPeers
        <3>2. CASE acked' = "bad" /\ UNCHANGED <<listenerVars, conns>>
            BY <3>2, <1>1 DEF PeerInv, listenerVars
        <3> QED
            BY <2>3, <3>1, <3>2 DEF Connect
    <2>4. CASE Talk
        BY <2>4, <1>1 DEF Talk, GuestWrites, PeerInv, listenerVars
    <2>5. CASE UNCHANGED vsockVars
        BY <2>5, <1>1 DEF vsockVars, dialVars, PeerInv, listenerVars
    <2> QED
        BY <2>1, <2>2, <2>3, <2>4, <2>5 DEF VsockNext
<1> QED
    BY <1>3, <1>4 DEF Inv

-------------------------------------------------------------------------------
\* The invariant holds in every behaviour.
LEMMA AlwaysInv == VsockSpec => []Inv
    BY InitInv, NextInv, PTL DEF VsockSpec

\* The dialer (dial, tryConnect) hands out open, acknowledged connections from
\* which the handshake's deadlines have been removed.
THEOREM DialReady == VsockSpec => []HandedOutReady
<1>1. Inv => HandedOutReady
    BY DialSafe DEF Inv
<1> QED
    BY <1>1, AlwaysInv, PTL

\* The caller of Dial never reads the answer line, and reads the guest's bytes
\* in order, whatever was lost in tryConnReadUntil's buffer.
THEOREM DialReadsInOrder == VsockSpec => []ReadsGuestOnly
<1>1. Inv => ReadsGuestOnly
    BY DialSafe DEF Inv
<1> QED
    BY <1>1, AlwaysInv, PTL

\* tryConnect's deferred function closes the connection of every failed attempt
\* but those with a wrong answer.
THEOREM DialCloses == VsockSpec => []OrphansOnlyWrong
<1>1. Inv => OrphansOnlyWrong
    BY DialSafe DEF Inv
<1> QED
    BY <1>1, AlwaysInv, PTL

\* A connection that Dial hands out has exactly one peer at the listener, which
\* Accept returns after those answered before it.
THEOREM PeersMatch == VsockSpec => []OnePeer
<1>1. Inv => OnePeer
    BY PeerIsOne DEF Inv
<1> QED
    BY <1>1, AlwaysInv, PTL
===============================================================================
