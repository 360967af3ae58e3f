------------------------------ MODULE CommandProofs ----------------------------
(***************************************************************************)
(* Theorems about the command lines of Commands, for any Config: what the  *)
(* programs make of the options that the builders put together.            *)
(***************************************************************************)
EXTENDS Commands, SequenceTheorems, FiniteSetTheorems, TLAPS

-------------------------------------------------------------------------------
(* Sets of indices. *)

UpTo(S, j) == {l \in S : l <= j}

\* Numbering the elements of a set of indices upwards leaves no number out.
LEMMA Ranks ==
    ASSUME NEW n \in Nat, NEW S \in SUBSET (1 .. n)
    PROVE  /\ IsFiniteSet(S) /\ Cardinality(S) \in Nat
           /\ \A j \in S : Cardinality(UpTo(S, j)) \in 1 .. Cardinality(S)
           /\ \A j, l \in S :
                j < l => Cardinality(UpTo(S, j)) < Cardinality(UpTo(S, l))
           /\ \A k \in 1 .. Cardinality(S) :
                \E j \in S : Cardinality(UpTo(S, j)) = k
<1>1. IsFiniteSet(S) /\ Cardinality(S) \in Nat
  <2>1. IsFiniteSet(1 .. n)
      BY FS_Interval
  <2> QED
      BY <2>1, FS_Subset, FS_CardinalityType
<1>2. ASSUME NEW j \in S
      PROVE  /\ IsFiniteSet(UpTo(S, j))
             /\ Cardinality(UpTo(S, j)) \in 1 .. Cardinality(S)
  <2>1. UpTo(S, j) \in SUBSET S
      BY DEF UpTo
  <2>2. /\ IsFiniteSet(UpTo(S, j)) /\ Cardinality(UpTo(S, j)) \in Nat
        /\ Cardinality(UpTo(S, j)) <= Cardinality(S)
      BY <2>1, <1>1, FS_Subset, FS_CardinalityType
  <2>3. Cardinality(UpTo(S, j)) # 0
      BY <2>2, FS_EmptySet DEF UpTo
  <2> QED
      BY <1>1, <2>2, <2>3
<1>3. ASSUME NEW j \in S, NEW l \in S, j < l
      PROVE  Cardinality(UpTo(S, j)) < Cardinality(UpTo(S, l))
  <2>0. \A x \in S : x \in Nat
      OBVIOUS
  <2>1. \A x \in UpTo(S, j) : x \in UpTo(S, l)
      BY <2>0, <1>3 DEF UpTo
  <2>2. l \in UpTo(S, l) /\ l \notin UpTo(S, j)
      BY <1>3 DEF UpTo
  <2> QED
      BY <2>1, <2>2, <1>2, FS_Subset, FS_CardinalityType
<1>4. ASSUME NEW k \in 1 .. Cardinality(S)
      PROVE  \E j \in S : Cardinality(UpTo(S, j)) = k
  <2> DEFINE f == [j \in S |-> Cardinality(UpTo(S, j))]
             T == 1 .. Cardinality(S)
  <2>1. f \in [S -> T]
      BY <1>2
  <2>2. \A j, l \in S : f[j] = f[l] => j = l
    <3> SUFFICES ASSUME NEW j \in S, NEW l \in S, f[j] = f[l], j # l PROVE FALSE
        OBVIOUS
    <3>1. j < l \/ l < j
        OBVIOUS
    <3> QED
        BY <3>1, <1>2, <1>3
  <2>3. IsFiniteSet(T) /\ Cardinality(T) = Cardinality(S)
      BY <1>1, FS_Interval
  <2>4. f \in Injection(S, T)
      BY <2>1, <2>2 DEF Injection, IsInjective
  <2>5. f \in Surjection(S, T)
      BY <2>3, <2>4, FS_Injection
  <2> QED
      BY <2>5 DEF Surjection
<1> QED
    BY <1>1, <1>2, <1>3, <1>4

\* A set of indices that is not empty has a greatest one.
LEMMA MaxOf ==
    ASSUME NEW n \in Nat, NEW S \in SUBSET (1 .. n), S # {}
    PROVE  Max(S) \in S /\ \A l \in S : l <= Max(S)
<1>1. IsFiniteSet(S) /\ Cardinality(S) \in Nat /\ Cardinality(S) # 0
    BY Ranks, FS_EmptySet
<1>2. PICK j \in S : Cardinality(UpTo(S, j)) = Cardinality(S)
    BY <1>1, Ranks
<1>3. UpTo(S, j) = S
    BY <1>1, <1>2, FS_Subset DEF UpTo
<1>4. \A y \in S : j >= y
    BY <1>3 DEF UpTo
<1> QED
    BY <1>4 DEF Max

-------------------------------------------------------------------------------
(* Sequences of whatever elements. *)

IsSeq(s) == s \in Seq(Range(s))

LEMMA SeqFacts ==
    ASSUME NEW s, IsSeq(s)
    PROVE  /\ Len(s) \in Nat /\ DOMAIN s = 1 .. Len(s)
           /\ s = <<>> <=> Len(s) = 0
    BY LenProperties, EmptySeq DEF IsSeq

LEMMA JoinedSeqs ==
    ASSUME NEW s, NEW t, IsSeq(s), IsSeq(t)
    PROVE  /\ IsSeq(s \o t) /\ Len(s \o t) = Len(s) + Len(t)
           /\ \A j \in 1 .. Len(s) : (s \o t)[j] = s[j]
           /\ \A j \in Len(s) + 1 .. Len(s) + Len(t) :
                (s \o t)[j] = t[j - Len(s)]
<1> DEFINE T == Range(s) \cup Range(t)
<1>1. s \in Seq(T) /\ t \in Seq(T)
    BY SeqMonotonic DEF IsSeq
<1>2. s \o t \in Seq(T) /\ Len(s \o t) = Len(s) + Len(t)
      /\ \A j \in 1 .. Len(s) + Len(t) :
            (s \o t)[j] = IF j <= Len(s) THEN s[j] ELSE t[j - Len(s)]
    BY <1>1, ConcatProperties
<1>3. IsSeq(s \o t)
    BY <1>2, SeqOfRange DEF IsSeq
<1> QED
    BY <1>2, <1>3, SeqFacts

LEMMA Singles ==
    /\ IsSeq(<<>>) /\ Len(<<>>) = 0 /\ Range(<<>>) = {}
    /\ \A r : IsSeq(<<r>>) /\ Len(<<r>>) = 1 /\ Range(<<r>>) = {r}
    /\ \A r, t : IsSeq(<<r, t>>) /\ Len(<<r, t>>) = 2 /\ Range(<<r, t>>) = {r, t}
    BY DEF IsSeq, Range

LEMMA JoinedRange ==
    ASSUME NEW s, NEW t, IsSeq(s), IsSeq(t)
    PROVE  Range(s \o t) = Range(s) \cup Range(t)
<1> DEFINE T == Range(s) \cup Range(t)
<1>1. s \in Seq(T) /\ t \in Seq(T)
    BY SeqMonotonic DEF IsSeq
<1> QED
    BY <1>1, RangeConcatenation

-------------------------------------------------------------------------------
(* The value of an option. *)

\* The option f is given at j, and not again.
LastAt(s, f, j) ==
    /\ j \in DOMAIN s /\ s[j][1] = f
    /\ \A k \in DOMAIN s : s[k][1] = f => k <= j

Absent(s, f) == \A k \in DOMAIN s : s[k][1] # f

LEMMA ValueAbsent ==
    ASSUME NEW s, NEW f, NEW d, Absent(s, f)
    PROVE  Value(s, f, d) = d
    BY DEF Value, Absent

LEMMA ValueAt ==
    ASSUME NEW s, IsSeq(s), NEW f, NEW d, NEW j, LastAt(s, f, j)
    PROVE  Value(s, f, d) = s[j][2]
<1> DEFINE given == {k \in DOMAIN s : s[k][1] = f}
<1>1. Len(s) \in Nat /\ DOMAIN s = 1 .. Len(s)
    BY SeqFacts
<1>2. j \in given /\ given \in SUBSET (1 .. Len(s)) /\ \A k \in given : k <= j
    BY <1>1 DEF LastAt
<1>3. Value(s, f, d) = IF given = {} THEN d ELSE s[Max(given)][2]
    BY DEF Value
<1> HIDE DEF given
<1>4. Max(given) \in given /\ \A l \in given : l <= Max(given)
    BY <1>1, <1>2, MaxOf
<1>5. \A k \in given : k \in Nat
    BY <1>1, <1>2
<1>6. Max(given) <= j /\ j <= Max(given) /\ Max(given) \in Nat /\ j \in Nat
    BY <1>2, <1>4, <1>5
<1>7. Max(given) = j
    BY <1>6
<1> QED
    BY <1>2, <1>3, <1>7

\* An option is absent, or given for the last time somewhere.
LEMMA LastOrAbsent ==
    ASSUME NEW s, IsSeq(s), NEW f
    PROVE  Absent(s, f) \/ \E j : LastAt(s, f, j)
<1> DEFINE given == {k \in DOMAIN s : s[k][1] = f}
<1>1. Len(s) \in Nat /\ DOMAIN s = 1 .. Len(s)
    BY SeqFacts
<1>2. given \in SUBSET (1 .. Len(s))
    BY <1>1
<1>3. CASE given = {}
    BY <1>3 DEF Absent
<1>4. CASE given # {}
  <2>1. \A k : k \in given <=> k \in DOMAIN s /\ s[k][1] = f
      OBVIOUS
  <2> HIDE DEF given
  <2>2. Max(given) \in given /\ \A l \in given : l <= Max(given)
      BY <1>1, <1>2, <1>4, MaxOf
  <2>3. LastAt(s, f, Max(given))
      BY <2>1, <2>2 DEF LastAt
  <2> QED
      BY <2>3
<1> QED
    BY <1>3, <1>4

\* Options behind others override them.
LEMMA ValueJoined ==
    ASSUME NEW s, NEW t, IsSeq(s), IsSeq(t), NEW f, NEW d
    PROVE  Value(s \o t, f, d) = Value(t, f, Value(s, f, d))
<1>1. /\ Len(s) \in Nat /\ DOMAIN s = 1 .. Len(s)
      /\ Len(t) \in Nat /\ DOMAIN t = 1 .. Len(t)
    BY SeqFacts
<1> DEFINE u == s \o t
<1>2. /\ IsSeq(u) /\ Len(u) = Len(s) + Len(t)
      /\ \A j \in 1 .. Len(s) : u[j] = s[j]
      /\ \A j \in Len(s) + 1 .. Len(s) + Len(t) : u[j] = t[j - Len(s)]
    BY JoinedSeqs
<1> HIDE DEF u
<1>3. DOMAIN u = 1 .. Len(s) + Len(t)
    BY <1>2, SeqFacts
<1>4. \A j \in DOMAIN u : \/ j \in DOMAIN s /\ u[j] = s[j]
                          \/ j - Len(s) \in DOMAIN t /\ u[j] = t[j - Len(s)]
                             /\ j > Len(s) /\ j \in Nat
    BY <1>1, <1>2, <1>3
<1>5. ASSUME NEW j, LastAt(t, f, j)
      PROVE  Value(u, f, d) = Value(t, f, Value(s, f, d))
  <2>1. j \in 1 .. Len(t) /\ t[j][1] = f /\ \A k \in DOMAIN t : t[k][1] = f => k <= j
      BY <1>1, <1>5 DEF LastAt
  <2>2. Len(s) + j \in DOMAIN u /\ u[Len(s) + j] = t[j]
    <3> DEFINE x == Len(s) + j
    <3>1. /\ x \in Len(s) + 1 .. Len(s) + Len(t) /\ x - Len(s) = j
          /\ x \in 1 .. Len(s) + Len(t)
        BY <1>1, <2>1
    <3> HIDE DEF x
    <3>2. x \in DOMAIN u /\ u[x] = t[j]
        BY <3>1, <1>2, <1>3
    <3> QED
        BY <3>2 DEF x
  <2>3. ASSUME NEW k \in DOMAIN u, u[k][1] = f PROVE k <= Len(s) + j
      BY <2>1, <2>3, <1>1, <1>4
  <2>4. LastAt(u, f, Len(s) + j)
      BY <2>1, <2>2, <2>3 DEF LastAt
  <2> QED
      BY <2>2, <2>4, <1>2, <1>5, ValueAt
<1>6. ASSUME Absent(t, f), NEW j, LastAt(s, f, j)
      PROVE  Value(u, f, d) = Value(t, f, Value(s, f, d))
  <2>1. j \in 1 .. Len(s) /\ s[j][1] = f /\ \A k \in DOMAIN s : s[k][1] = f => k <= j
      BY <1>1, <1>6 DEF LastAt
  <2>2. j \in DOMAIN u /\ u[j] = s[j]
      BY <2>1, <1>1, <1>2, <1>3
  <2>3. ASSUME NEW k \in DOMAIN u, u[k][1] = f PROVE k <= j
      BY <2>1, <2>3, <1>4, <1>6 DEF Absent
  <2>4. LastAt(u, f, j)
      BY <2>1, <2>2, <2>3 DEF LastAt
  <2> QED
      BY <2>2, <2>4, <1>2, <1>6, ValueAt, ValueAbsent
<1>7. ASSUME Absent(t, f), Absent(s, f)
      PROVE  Value(u, f, d) = Value(t, f, Value(s, f, d))
  <2>1. Absent(u, f)
      BY <1>4, <1>7 DEF Absent
  <2> QED
      BY <2>1, <1>7, ValueAbsent
<1>8. Value(u, f, d) = Value(t, f, Value(s, f, d))
    BY <1>5, <1>6, <1>7, LastOrAbsent
<1> QED
    BY <1>8 DEF u

\* The value of an option that may be left out.
LEMMA ValueOptional ==
    ASSUME NEW g, NEW v, NEW f, NEW d
    PROVE  /\ IsSeq(Optional(g, v))
           /\ f # g \/ v = Unset => Value(Optional(g, v), f, d) = d
           /\ f = g /\ v # Unset => Value(Optional(g, v), f, d) = v
<1>1. IsSeq(Optional(g, v))
    BY Singles DEF Optional
<1>2. CASE v = Unset
  <2>1. Absent(Optional(g, v), f)
      BY <1>2 DEF Optional, Absent
  <2> QED
      BY <1>1, <1>2, <2>1, ValueAbsent
<1>3. CASE v # Unset
  <2>1. Optional(g, v) = << <<g, v>> >>
      BY <1>3 DEF Optional
  <2>2. DOMAIN Optional(g, v) = {1} /\ Optional(g, v)[1][1] = g
        /\ Optional(g, v)[1][2] = v
      BY <2>1
  <2>3. f # g => Absent(Optional(g, v), f)
      BY <2>2 DEF Absent
  <2>4. f = g => LastAt(Optional(g, v), f, 1)
      BY <2>2 DEF LastAt
  <2> QED
      BY <1>1, <1>3, <2>2, <2>3, <2>4, ValueAt, ValueAbsent
<1> QED
    BY <1>1, <1>2, <1>3

-------------------------------------------------------------------------------
(* The jailer's command line. *)

\* The parts of its options.
Identity(c) ==
    << <<"--id", jailBuilder(c).id>>, <<"--exec-file", jailBuilder(c).execFile>> >>
Numa(c) ==
    IF c.cpus = Unset THEN <<>>
    ELSE << <<"--cgroup", <<"cpuset.mems", jailBuilder(c).node>> >>,
            <<"--cgroup", <<"cpuset.cpus", c.cpus>> >> >>
Settings(c) == [j \in DOMAIN c.cgroup |-> <<"--cgroup", c.cgroup[j]>>]

LEMMA JailerParts ==
    ASSUME NEW c, IsSeq(c.cgroup)
    PROVE  /\ JailerArgs(jailBuilder(c)).options =
                Identity(c) \o Numa(c) \o Settings(c)
                    \o Optional("--chroot-base-dir", c.baseDir)
                    \o Optional("--netns", c.netns)
           /\ IsSeq(Identity(c)) /\ IsSeq(Numa(c)) /\ IsSeq(Settings(c))
           /\ DOMAIN Settings(c) = DOMAIN c.cgroup
           /\ \A j \in DOMAIN Settings(c) : /\ Settings(c)[j][1] = "--cgroup"
                                            /\ Settings(c)[j][2] = c.cgroup[j]
           /\ \A j \in DOMAIN Numa(c) : Numa(c)[j][1] = "--cgroup"
<1>1. JailerArgs(jailBuilder(c)).options =
            Identity(c) \o Numa(c) \o Settings(c)
                \o Optional("--chroot-base-dir", c.baseDir)
                \o Optional("--netns", c.netns)
    BY DEF JailerArgs, jailBuilder, Identity, Numa, Settings
<1>2. IsSeq(Identity(c)) /\ IsSeq(Numa(c))
    BY Singles DEF Identity, Numa
<1>3. /\ DOMAIN Settings(c) = DOMAIN c.cgroup
      /\ \A j \in DOMAIN Settings(c) : /\ Settings(c)[j][1] = "--cgroup"
                                       /\ Settings(c)[j][2] = c.cgroup[j]
    BY DEF Settings
<1>4. IsSeq(Settings(c))
  <2>1. Len(c.cgroup) \in Nat /\ DOMAIN c.cgroup = 1 .. Len(c.cgroup)
      BY SeqFacts
  <2>2. \A j \in 1 .. Len(c.cgroup) : Settings(c)[j] \in Range(Settings(c))
      BY <1>3, <2>1 DEF Range
  <2>3. Settings(c) = [j \in 1 .. Len(c.cgroup) |-> Settings(c)[j]]
      BY <2>1 DEF Settings
  <2> QED
      BY <2>1, <2>2, <2>3, IsASeq DEF IsSeq
<1>5. \A j \in DOMAIN Numa(c) : Numa(c)[j][1] = "--cgroup"
    BY DEF Numa
<1> QED
    BY <1>1, <1>2, <1>3, <1>4, <1>5

LEMMA IdentityValues ==
    ASSUME NEW c, NEW d
    PROVE  /\ Value(Identity(c), "--id", d) = "jail"
           /\ Value(Identity(c), "--exec-file", d) = "firecracker"
           /\ Value(Identity(c), "--chroot-base-dir", d) = d
           /\ Value(Identity(c), "--netns", d) = d
<1>1. IsSeq(Identity(c))
    BY Singles DEF Identity
<1>2. /\ DOMAIN Identity(c) = 1 .. 2
      /\ Identity(c)[1][1] = "--id" /\ Identity(c)[1][2] = "jail"
      /\ Identity(c)[2][1] = "--exec-file" /\ Identity(c)[2][2] = "firecracker"
    BY DEF Identity, jailBuilder
<1>3. LastAt(Identity(c), "--id", 1) /\ LastAt(Identity(c), "--exec-file", 2)
    BY <1>2 DEF LastAt
<1>4. Absent(Identity(c), "--chroot-base-dir") /\ Absent(Identity(c), "--netns")
    BY <1>2 DEF Absent
<1> QED
    BY <1>1, <1>2, <1>3, <1>4, ValueAt, ValueAbsent

\* What the jailer reads from its options.
LEMMA JailerValues ==
    ASSUME NEW c, IsSeq(c.cgroup), NEW d
    PROVE  LET options == JailerArgs(jailBuilder(c)).options
           IN  /\ Value(options, "--id", d) = "jail"
               /\ Value(options, "--exec-file", d) = "firecracker"
               /\ Value(options, "--chroot-base-dir", d) =
                    IF c.baseDir = Unset THEN d ELSE c.baseDir
               /\ Value(options, "--netns", d) =
                    IF c.netns = Unset THEN d ELSE c.netns
<1> DEFINE A == Identity(c)
           N == Numa(c)
           G == Settings(c)
           C == Optional("--chroot-base-dir", c.baseDir)
           O == Optional("--netns", c.netns)
           options == JailerArgs(jailBuilder(c)).options
<1>1. /\ options = A \o N \o G \o C \o O
      /\ IsSeq(A) /\ IsSeq(N) /\ IsSeq(G) /\ IsSeq(C) /\ IsSeq(O)
    BY JailerParts, ValueOptional
<1>2. ASSUME NEW f, f # "--cgroup", NEW e
      PROVE  Value(N, f, e) = e /\ Value(G, f, e) = e
  <2>1. Absent(N, f) /\ Absent(G, f)
      BY <1>2, JailerParts DEF Absent
  <2> QED
      BY <2>1, ValueAbsent
<1>3. /\ \A f, e : f # "--chroot-base-dir" => Value(C, f, e) = e
      /\ \A f, e : f # "--netns" => Value(O, f, e) = e
      /\ \A e : c.baseDir = Unset => Value(C, "--chroot-base-dir", e) = e
      /\ \A e : c.netns = Unset => Value(O, "--netns", e) = e
      /\ \A e : c.baseDir # Unset => Value(C, "--chroot-base-dir", e) = c.baseDir
      /\ \A e : c.netns # Unset => Value(O, "--netns", e) = c.netns
    BY ValueOptional
<1>4. /\ Value(A, "--id", d) = "jail" /\ Value(A, "--exec-file", d) = "firecracker"
      /\ Value(A, "--chroot-base-dir", d) = d /\ Value(A, "--netns", d) = d
    BY IdentityValues
<1> HIDE DEF A, N, G, C, O, options
<1>5. /\ IsSeq(A \o N) /\ IsSeq(A \o N \o G) /\ IsSeq(A \o N \o G \o C)
    BY <1>1, JoinedSeqs
<1>6. ASSUME NEW f
      PROVE  Value(options, f, d)
                = Value(O, f, Value(C, f, Value(G, f, Value(N, f, Value(A, f, d)))))
  <2>1. Value(options, f, d) = Value(O, f, Value(A \o N \o G \o C, f, d))
      BY <1>1, <1>5, ValueJoined
  <2>2. Value(A \o N \o G \o C, f, d) = Value(C, f, Value(A \o N \o G, f, d))
      BY <1>1, <1>5, ValueJoined
  <2>3. Value(A \o N \o G, f, d) = Value(G, f, Value(A \o N, f, d))
      BY <1>1, <1>5, ValueJoined
  <2>4. Value(A \o N, f, d) = Value(N, f, Value(A, f, d))
      BY <1>1, ValueJoined
  <2> QED
      BY <2>1, <2>2, <2>3, <2>4
<1>7. ASSUME NEW f, f # "--cgroup"
      PROVE  Value(options, f, d) = Value(O, f, Value(C, f, Value(A, f, d)))
    BY <1>2, <1>6, <1>7
<1>8. Value(options, "--id", d) = "jail"
    BY <1>3, <1>4, <1>7
<1>9. Value(options, "--exec-file", d) = "firecracker"
    BY <1>3, <1>4, <1>7
<1>10. Value(options, "--chroot-base-dir", d) =
            IF c.baseDir = Unset THEN d ELSE c.baseDir
    BY <1>3, <1>4, <1>7
<1>11. Value(options, "--netns", d) = IF c.netns = Unset THEN d ELSE c.netns
    BY <1>3, <1>4, <1>7
<1> QED
    BY <1>8, <1>9, <1>10, <1>11 DEF options

LEMMA SeccompParts ==
    ASSUME NEW s
    PROVE  IsSeq(seccompArgs(s)) /\ Absent(seccompArgs(s), "--api-sock")
<1>1. ASSUME NEW v, NEW f, f # "--api-sock"
      PROVE  IsSeq(<< <<f, v>> >>) /\ Absent(<< <<f, v>> >>, "--api-sock")
    BY <1>1, Singles DEF Absent
<1>2. IsSeq(<<>>) /\ Absent(<<>>, "--api-sock")
    BY Singles DEF Absent
<1>3. \/ seccompArgs(s) = <<>> \/ seccompArgs(s) = << <<"--no-seccomp", Unset>> >>
      \/ seccompArgs(s) = << <<"--seccomp-filter", s>> >>
    BY DEF seccompArgs
<1> QED
    BY <1>1, <1>2, <1>3

\* With a jailer, the client dials where firecracker will listen: the path of
\* the socket on the host that jail computes is the one that follows from the
\* chroot directory and the --api-sock option on the command line.
THEOREM JailerListens ==
    ASSUME NEW c, IsSeq(c.cgroup)
    PROVE  Listens(JailerArgs(jailBuilder(c)), TRUE)
                = Append(jailerWorkspaceDir(c), machineSocketPath(c))
<1> DEFINE cmd == JailerArgs(jailBuilder(c))
           dir == IF c.baseDir = Unset THEN defaultJailerPath ELSE c.baseDir
           sock == machineSocketPath(c)
           last == << <<"--api-sock", sock>> >>
<1>1. Chroot(cmd) = <<dir, "firecracker", "jail", "root">>
  <2>1. /\ Value(cmd.options, "--id", Unset) = "jail"
        /\ Value(cmd.options, "--exec-file", Unset) = "firecracker"
        /\ Value(cmd.options, "--chroot-base-dir", defaultJailerPath) = dir
      BY JailerValues
  <2>2. defaultJailerPath = "/srv/jailer"
      BY DEF defaultJailerPath
  <2> HIDE DEF cmd, dir
  <2> QED
      BY <2>1, <2>2 DEF Chroot
<1>2. jailerWorkspaceDir(c) = <<dir, "firecracker", "jail", "root">>
    BY DEF jailerWorkspaceDir
<1>3. Value(cmd.behind, "--api-sock", defaultSocketPath) = sock
  <2>1. cmd.behind = seccompArgs(c.seccomp) \o last
      BY DEF JailerArgs, jailBuilder
  <2>2. IsSeq(last) /\ LastAt(last, "--api-sock", 1) /\ last[1][2] = sock
      BY Singles DEF LastAt
  <2> HIDE DEF cmd, sock, last
  <2>3. \A d : Value(last, "--api-sock", d) = sock
      BY <2>2, ValueAt
  <2> QED
      BY <2>1, <2>2, <2>3, SeccompParts, ValueJoined
<1>4. Listens(cmd, TRUE) = <<dir, "firecracker", "jail", "root">> \o <<sock>>
    BY <1>1, <1>3 DEF Listens
<1> HIDE DEF cmd, dir, sock
<1>5. Append(<<dir, "firecracker", "jail", "root">>, sock)
            = <<dir, "firecracker", "jail", "root">> \o <<sock>>
  <2> DEFINE S == {dir, "firecracker", "jail", "root", sock}
  <2>1. <<dir, "firecracker", "jail", "root">> \in Seq(S) /\ sock \in S
      OBVIOUS
  <2> QED
      BY <2>1, AppendIsConcat
<1>6. Listens(cmd, TRUE) = Append(jailerWorkspaceDir(c), sock)
    BY <1>2, <1>4, <1>5
<1> QED
    BY <1>6 DEF cmd, sock

\* Without one, the client dials the socket that the Config names, if it names
\* one.
THEOREM PlainListens ==
    ASSUME NEW c, NEW id, c.socket # Unset
    PROVE  Listens(Build(configureBuilder(defaultFirecrackerVMMCommandBuilder,
                                          c, id)), FALSE) = <<c.socket>>
<1> DEFINE cmd == Build(configureBuilder(defaultFirecrackerVMMCommandBuilder, c, id))
           first == Optional("--api-sock", c.socket)
           name == << <<"--id", id>> >>
           rest == seccompArgs(c.seccomp)
<1>1. cmd.options = first \o ((<<>> \o name) \o rest)
    BY DEF Build, configureBuilder, AddArgs, WithSocketPath,
           defaultFirecrackerVMMCommandBuilder
<1>2. IsSeq(first) /\ \A d : Value(first, "--api-sock", d) = c.socket
    BY ValueOptional
<1>3. /\ IsSeq(name) /\ Absent(name, "--api-sock")
      /\ IsSeq(rest) /\ Absent(rest, "--api-sock") /\ IsSeq(<<>>)
    BY Singles, SeccompParts DEF Absent
<1> HIDE DEF cmd, first, name, rest
<1>4. <<>> \o name = name
    BY <1>3, ConcatEmptySeq DEF IsSeq
<1>5. /\ IsSeq(name \o rest)
      /\ \A d : Value(name \o rest, "--api-sock", d) = d
  <2>1. IsSeq(name \o rest)
      BY <1>3, JoinedSeqs
  <2>2. ASSUME NEW d PROVE Value(name \o rest, "--api-sock", d) = d
    <3>1. Value(name \o rest, "--api-sock", d)
            = Value(rest, "--api-sock", Value(name, "--api-sock", d))
        BY <1>3, ValueJoined
    <3> QED
        BY <3>1, <1>3, ValueAbsent
  <2> QED
      BY <2>1, <2>2
<1>6. Value(cmd.options, "--api-sock", defaultSocketPath) = c.socket
    BY <1>1, <1>2, <1>4, <1>5, ValueJoined
<1>7. Listens(cmd, FALSE) = <<c.socket>>
    BY <1>6 DEF Listens
<1> QED
    BY <1>7 DEF cmd

\* The caller's last setting of a cgroup file is the one in force, whatever the
\* SDK derives from the NUMA node.
THEOREM CallersCgroup ==
    ASSUME NEW c, IsSeq(c.cgroup), NEW j \in DOMAIN c.cgroup,
           \A k \in DOMAIN c.cgroup : k > j => c.cgroup[k][1] # c.cgroup[j][1]
    PROVE  Cgroup(JailerArgs(jailBuilder(c)), c.cgroup[j][1]) = c.cgroup[j][2]
<1> DEFINE cmd == JailerArgs(jailBuilder(c))
           file == c.cgroup[j][1]
           a == Identity(c) \o Numa(c)
           g == Settings(c)
           x == Optional("--chroot-base-dir", c.baseDir)
           y == Optional("--netns", c.netns)
           s == cmd.options
           given == {k \in DOMAIN s : s[k][1] = "--cgroup" /\ s[k][2][1] = file}
<1>1. /\ s = a \o g \o x \o y
      /\ IsSeq(a) /\ IsSeq(g) /\ IsSeq(x) /\ IsSeq(y)
      /\ DOMAIN g = DOMAIN c.cgroup
      /\ \A k \in DOMAIN g : g[k][1] = "--cgroup" /\ g[k][2] = c.cgroup[k]
    BY JailerParts, JoinedSeqs, ValueOptional
<1>2. Absent(x, "--cgroup") /\ Absent(y, "--cgroup")
    BY DEF Optional, Absent
<1>3. Cgroup(cmd, file) = IF given = {} THEN Unset ELSE s[Max(given)][2][2]
    BY DEF Cgroup
<1>4. \A k : k \in given <=> k \in DOMAIN s /\ s[k][1] = "--cgroup"
                                            /\ s[k][2][1] = file
    OBVIOUS
<1> HIDE DEF cmd, a, g, x, y, s, given
<1>5. /\ Len(a) \in Nat /\ Len(g) \in Nat /\ Len(x) \in Nat /\ Len(y) \in Nat
      /\ DOMAIN g = 1 .. Len(g) /\ DOMAIN x = 1 .. Len(x) /\ DOMAIN y = 1 .. Len(y)
    BY <1>1, SeqFacts
<1> DEFINE u == a \o g
           v == u \o x
<1>6. /\ IsSeq(u) /\ Len(u) = Len(a) + Len(g)
      /\ \A k \in Len(a) + 1 .. Len(a) + Len(g) : u[k] = g[k - Len(a)]
    BY <1>1, JoinedSeqs
<1>7. s = v \o y
    BY <1>1
<1> HIDE DEF u
<1>8. /\ IsSeq(v) /\ Len(v) = Len(u) + Len(x)
      /\ \A k \in 1 .. Len(u) : v[k] = u[k]
      /\ \A k \in Len(u) + 1 .. Len(u) + Len(x) : v[k] = x[k - Len(u)]
    BY <1>1, <1>6, JoinedSeqs
<1> HIDE DEF v
<1>9. /\ IsSeq(s) /\ Len(s) = Len(v) + Len(y)
      /\ \A k \in 1 .. Len(v) : s[k] = v[k]
      /\ \A k \in Len(v) + 1 .. Len(v) + Len(y) : s[k] = y[k - Len(v)]
  <2>1. IsSeq(v) /\ IsSeq(y)
      BY <1>1, <1>8
  <2> QED
      BY <2>1, <1>7, JoinedSeqs
<1>10. DOMAIN s = 1 .. Len(s) /\ Len(s) \in Nat
    BY <1>9, SeqFacts
<1> DEFINE at == Len(a) + j
<1>11. /\ at \in Len(a) + 1 .. Len(a) + Len(g) /\ at - Len(a) = j /\ j \in DOMAIN g
       /\ at \in 1 .. Len(u) /\ at \in 1 .. Len(v) /\ at \in DOMAIN s /\ at \in Nat
    BY <1>1, <1>5, <1>6, <1>8, <1>9, <1>10
<1>12. s[at] = g[j]
  <2> HIDE DEF at
  <2> QED
      BY <1>6, <1>8, <1>9, <1>11
<1>13. at \in given
    BY <1>1, <1>4, <1>11, <1>12
<1>14. ASSUME NEW k \in given PROVE k <= at
  <2> SUFFICES ASSUME k > at PROVE FALSE
      BY <1>4, <1>10, <1>11
  <2>1. k \in 1 .. Len(s) /\ s[k][1] = "--cgroup" /\ s[k][2][1] = file
      BY <1>4, <1>10
  <2>2. CASE k \in 1 .. Len(u)
    <3>1. /\ k \in 1 .. Len(v) /\ k \in Len(a) + 1 .. Len(a) + Len(g)
          /\ k - Len(a) \in DOMAIN g /\ k - Len(a) > j
        BY <2>2, <1>5, <1>6, <1>8, <1>11
    <3>2. s[k] = g[k - Len(a)]
        BY <3>1, <2>2, <1>6, <1>8, <1>9
    <3>3. g[k - Len(a)][2][1] = file /\ g[k - Len(a)][2] = c.cgroup[k - Len(a)]
        BY <3>1, <3>2, <2>1, <1>1
    <3> QED
        BY <3>1, <3>3, <1>1
  <2>3. CASE k \in Len(u) + 1 .. Len(v)
    <3>1. /\ k \in 1 .. Len(v) /\ k \in Len(u) + 1 .. Len(u) + Len(x)
          /\ k - Len(u) \in DOMAIN x
        BY <2>3, <1>5, <1>6, <1>8
    <3>2. s[k] = x[k - Len(u)]
        BY <3>1, <1>8, <1>9
    <3> QED
        BY <3>1, <3>2, <2>1, <1>2 DEF Absent
  <2>4. CASE k \in Len(v) + 1 .. Len(s)
    <3>1. k \in Len(v) + 1 .. Len(v) + Len(y) /\ k - Len(v) \in DOMAIN y
        BY <2>4, <1>5, <1>6, <1>8, <1>9
    <3>2. s[k] = y[k - Len(v)]
        BY <3>1, <1>9
    <3> QED
        BY <3>1, <3>2, <2>1, <1>2 DEF Absent
  <2> QED
      BY <2>1, <2>2, <2>3, <2>4, <1>5, <1>6, <1>8, <1>9
<1>15. Max(given) = at
  <2>1. given \in SUBSET (1 .. Len(s)) /\ given # {}
      BY <1>4, <1>10, <1>13
  <2>2. Max(given) \in given /\ \A k \in given : k <= Max(given)
      BY <2>1, <1>10, MaxOf
  <2> HIDE DEF at
  <2>3. \A k \in given : k \in Nat
      BY <2>1
  <2>4. Max(given) <= at /\ at <= Max(given) /\ Max(given) \in Nat
      BY <2>2, <2>3, <1>13, <1>14
  <2> QED
      BY <2>4, <1>11
<1>16. Cgroup(cmd, file) = c.cgroup[j][2]
    BY <1>1, <1>3, <1>11, <1>12, <1>13, <1>15
<1> QED
    BY <1>16 DEF cmd

================================================================================
