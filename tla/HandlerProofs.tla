----------------------------- MODULE HandlerProofs -----------------------------
(***************************************************************************)
(* HandlerList implements IndependentLists: for any number of machines and *)
(* lists of any length, no operation on one machine's list can be seen     *)
(* through another's or through the default.                               *)
(***************************************************************************)
EXTENDS HandlerList, SequenceTheorems, FiniteSetTheorems, WellFoundedInduction,
        TLAPS

-------------------------------------------------------------------------------
(* Loops over a sequence. *)

\* Induction on the passes of a loop, stated for the set of those that are done
\* right.
LEMMA Counting ==
    ASSUME NEW n \in Nat, NEW S, 0 \in S,
           \A k \in 1 .. n : k - 1 \in S => k \in S
    PROVE  \A k \in 0 .. n : k \in S
<1> SUFFICES ASSUME {k \in 0 .. n : k \notin S} # {} PROVE FALSE
    OBVIOUS
<1> DEFINE T == {k \in 0 .. n : k \notin S}
<1>1. T \subseteq Nat /\ T # {}
    OBVIOUS
<1> HIDE DEF T
<1>2. \E x \in T : \A y \in T : <<y, x>> \notin OpToRel(<, Nat)
    BY <1>1, NatLessThanWellFounded, WFMin
<1>3. PICK x \in T : \A y \in T : <<y, x>> \notin OpToRel(<, Nat)
    BY <1>2
<1>4. \A y \in T : ~(y < x)
    BY <1>1, <1>3 DEF OpToRel
<1> QED
    BY <1>4 DEF T

\* f[k] is what the loop has put together after its k-th pass.
Joins(f, seqs, n) ==
    /\ DOMAIN f = 1 .. n
    /\ f = [i \in DOMAIN f |-> f[i]]
    /\ \A i \in 1 .. n : f[i] = IF i = 1 THEN seqs[i] ELSE f[i - 1] \o seqs[i]

\* There is such an f, so that the recursive function of FlattenSeq is one.
LEMMA JoinsExists ==
    ASSUME NEW seqs, NEW n \in Nat
    PROVE  \E f : Joins(f, seqs, n)
<1> DEFINE D == {k \in 0 .. n : \E f : Joins(f, seqs, k)}
<1>1. 0 \in D
  <2> DEFINE f == [i \in 1 .. 0 |-> <<>>]
  <2>1. Joins(f, seqs, 0)
      BY DEF Joins
  <2> QED
      BY <2>1
<1>2. ASSUME NEW k \in 1 .. n, k - 1 \in D PROVE k \in D
  <2>1. PICK f : Joins(f, seqs, k - 1)
      BY <1>2
  <2> DEFINE e == IF k = 1 THEN seqs[k] ELSE f[k - 1] \o seqs[k]
             g == [i \in 1 .. k |-> IF i = k THEN e ELSE f[i]]
  <2>2. ASSUME NEW i \in 1 .. k
        PROVE  g[i] = IF i = 1 THEN seqs[i] ELSE g[i - 1] \o seqs[i]
    <3>1. CASE i = k
        BY <3>1
    <3>2. CASE i # k
      <4>1. i \in 1 .. k - 1 /\ g[i] = f[i] /\ (i # 1 => g[i - 1] = f[i - 1])
          BY <3>2
      <4> QED
          BY <4>1, <2>1 DEF Joins
    <3> QED
        BY <3>1, <3>2
  <2>3. Joins(g, seqs, k)
      BY <2>2 DEF Joins
  <2> QED
      BY <2>3
<1>3. \A k \in 0 .. n : k \in D
    BY <1>1, <1>2, Counting
<1> QED
    BY <1>3

\* FlattenSeq returns what the loop has after its last pass.
LEMMA FlattenJoins ==
    ASSUME NEW seqs, NEW n \in Nat \ {0}, Len(seqs) = n
    PROVE  \E f : Joins(f, seqs, n) /\ FlattenSeq(seqs) = f[n]
<1> DEFINE P(f) == f = [i \in 1 .. n |->
                            IF i = 1 THEN seqs[i] ELSE f[i - 1] \o seqs[i]]
           h == CHOOSE f : P(f)
<1>1. FlattenSeq(seqs) = h[n]
    BY DEF FlattenSeq
<1>2. PICK f : Joins(f, seqs, n)
    BY JoinsExists
<1>3. P(f)
    BY <1>2 DEF Joins
<1>4. P(h)
    BY <1>3
<1>5. Joins(h, seqs, n)
    BY <1>4 DEF Joins
<1> QED
    BY <1>1, <1>5

\* What is where in s \o t.
LEMMA Joined ==
    ASSUME NEW S, NEW s \in Seq(S), NEW t \in Seq(S)
    PROVE  /\ s \o t \in Seq(S) /\ Len(s \o t) = Len(s) + Len(t)
           /\ Len(s) \in Nat /\ Len(t) \in Nat
           /\ \A i \in 1 .. Len(s) : (s \o t)[i] = s[i]
           /\ \A i \in 1 .. Len(t) : (s \o t)[Len(s) + i] = t[i]
    OBVIOUS

\* What the loop builds, if total[j] is the length of its list after j passes:
\* every part stands where the list ended before it.
LEMMA Flattened ==
    ASSUME NEW S, NEW seqs \in Seq(Seq(S)), NEW total \in [0 .. Len(seqs) -> Nat],
           total[0] = 0,
           \A j \in 1 .. Len(seqs) : total[j] = total[j - 1] + Len(seqs[j])
    PROVE  /\ FlattenSeq(seqs) \in Seq(S)
           /\ Len(FlattenSeq(seqs)) = total[Len(seqs)]
           /\ \A j \in 1 .. Len(seqs) : \A k \in 1 .. Len(seqs[j]) :
                FlattenSeq(seqs)[total[j - 1] + k] = seqs[j][k]
<1> DEFINE n == Len(seqs)
<1>1. n \in Nat /\ \A j \in 1 .. n : seqs[j] \in Seq(S) /\ Len(seqs[j]) \in Nat
    OBVIOUS
<1>2. \A j \in 1 .. n : /\ total[j] \in Nat /\ total[j - 1] \in Nat
                        /\ total[j] = total[j - 1] + Len(seqs[j])
  <2> SUFFICES ASSUME NEW j \in 1 .. n
               PROVE  total[j] \in Nat /\ total[j - 1] \in Nat
      OBVIOUS
  <2>1. j \in 0 .. n /\ j - 1 \in 0 .. n
      BY <1>1
  <2> QED
      BY <2>1
<1>3. \A s, t \in Seq(S) :
        /\ s \o t \in Seq(S) /\ Len(s \o t) = Len(s) + Len(t)
        /\ \A i \in 1 .. Len(s) : (s \o t)[i] = s[i]
        /\ \A i \in 1 .. Len(t) : (s \o t)[Len(s) + i] = t[i]
    BY Joined
<1>4. CASE n = 0
  <2>1. FlattenSeq(seqs) = seqs /\ seqs = <<>>
      BY <1>4 DEF FlattenSeq
  <2> QED
      BY <1>4, <2>1
<1>5. CASE n # 0
  <2>1. PICK f : Joins(f, seqs, n) /\ FlattenSeq(seqs) = f[n]
      BY <1>1, <1>5, FlattenJoins
  <2> DEFINE Right(s, k) ==
                /\ s \in Seq(S) /\ Len(s) = total[k]
                /\ \A j \in 1 .. k : \A l \in 1 .. Len(seqs[j]) :
                        /\ total[j - 1] + l \in 1 .. total[k]
                        /\ s[total[j - 1] + l] = seqs[j][l]
             D == {k \in 0 .. n : k = 0 \/ Right(f[k], k)}
  <2>2. ASSUME NEW k \in 1 .. n, k - 1 \in D PROVE k \in D
    <3>1. seqs[k] \in Seq(S) /\ Len(seqs[k]) \in Nat /\ total[k - 1] \in Nat
          /\ total[k] = total[k - 1] + Len(seqs[k])
      <4> HIDE DEF D
      <4> QED
          BY <1>2, <1>1
    <3>2. CASE k = 1
      <4>1. f[k] = seqs[k]
          BY <2>1, <3>2 DEF Joins
      <4> QED
          BY <4>1, <3>1, <3>2
    <3>3. CASE k # 1
      <4> DEFINE s == f[k - 1]
                 t == seqs[k]
                 a == total[k - 1]
      <4>1. f[k] = s \o t
          BY <2>1, <3>3 DEF Joins
      <4>2. Right(s, k - 1)
          BY <2>2, <3>3
      <4>3. /\ s \o t \in Seq(S) /\ Len(s \o t) = a + Len(t)
            /\ \A i \in 1 .. a : (s \o t)[i] = s[i]
            /\ \A i \in 1 .. Len(t) : (s \o t)[a + i] = t[i]
        <5>1. /\ s \in Seq(S) /\ t \in Seq(S) /\ Len(s) = a
              /\ a \in Nat /\ Len(t) \in Nat
            BY <4>2, <3>1
        <5> HIDE DEF s, t, a, D
        <5>2. /\ s \o t \in Seq(S) /\ Len(s \o t) = Len(s) + Len(t)
              /\ \A i \in 1 .. Len(s) : (s \o t)[i] = s[i]
              /\ \A i \in 1 .. Len(t) : (s \o t)[Len(s) + i] = t[i]
            BY <5>1, <1>3
        <5> QED
            BY <5>1, <5>2
      <4>4. ASSUME NEW j \in 1 .. k, NEW l \in 1 .. Len(seqs[j])
            PROVE  /\ total[j - 1] + l \in 1 .. total[k]
                   /\ (s \o t)[total[j - 1] + l] = seqs[j][l]
        <5>1. CASE j = k
          <6>1. l \in 1 .. Len(t) /\ total[j - 1] = a /\ seqs[j] = t
              BY <5>1
          <6>2. a \in Nat /\ Len(t) \in Nat /\ total[k] = a + Len(t)
              BY <3>1
          <6>3. (s \o t)[a + l] = t[l]
              BY <6>1, <4>3
          <6> HIDE DEF s, t, a, D
          <6>4. a + l \in 1 .. total[k]
              BY <6>1, <6>2
          <6> QED
              BY <6>1, <6>3, <6>4
        <5>2. CASE j # k
          <6>1. /\ j \in 1 .. k - 1 /\ total[j - 1] + l \in 1 .. a
                /\ s[total[j - 1] + l] = seqs[j][l]
              BY <5>2, <4>2
          <6>2. a \in Nat /\ Len(t) \in Nat /\ total[k] = a + Len(t)
              BY <3>1
          <6> DEFINE p == total[j - 1] + l
          <6>3. p \in 1 .. a /\ s[p] = seqs[j][l]
              BY <6>1
          <6> HIDE DEF s, t, a, D, p
          <6>4. p \in 1 .. total[k]
              BY <6>2, <6>3
          <6>5. (s \o t)[p] = seqs[j][l]
              BY <6>3, <4>3
          <6> QED
              BY <6>4, <6>5 DEF p
        <5> QED
            BY <5>1, <5>2
      <4>5. Right(s \o t, k)
          BY <4>3, <4>4, <3>1
      <4>6. Right(f[k], k)
          BY <4>1, <4>5
      <4> HIDE DEF Right
      <4> QED
          BY <4>6
    <3> QED
        BY <3>2, <3>3
  <2>3. \A k \in 0 .. n : k \in D
    <3>1. 0 \in D
        BY <1>1
    <3> HIDE DEF D
    <3> QED
        BY <2>2, <3>1, <1>1, Counting
  <2> QED
      BY <2>1, <2>3, <1>1, <1>5
<1> QED
    BY <1>1, <1>4, <1>5

UpTo(K, j) == {i \in K : i <= j}

\* The elements of a set of indices, counted upwards one by one.
LEMMA Counted ==
    ASSUME NEW n \in Nat, NEW K \in SUBSET (1 .. n)
    PROVE  /\ \A j \in 0 .. n : Cardinality(UpTo(K, j)) \in Nat
           /\ Cardinality(UpTo(K, 0)) = 0
           /\ Cardinality(UpTo(K, n)) = Cardinality(K)
           /\ \A j \in 1 .. n :
                /\ j \in K => Cardinality(UpTo(K, j)) = Cardinality(UpTo(K, j - 1)) + 1
                /\ j \notin K => Cardinality(UpTo(K, j)) = Cardinality(UpTo(K, j - 1))
<1>1. IsFiniteSet(K) /\ \A j \in K : j \in Nat /\ j <= n /\ j >= 1
  <2>1. IsFiniteSet(1 .. n)
      BY FS_Interval
  <2>2. IsFiniteSet(K)
      BY <2>1, FS_Subset
  <2>3. \A j \in K : j \in 1 .. n
      OBVIOUS
  <2> QED
      BY <2>2, <2>3
<1>2. \A j : UpTo(K, j) \in SUBSET K
    BY DEF UpTo
<1>3. \A j : IsFiniteSet(UpTo(K, j)) /\ Cardinality(UpTo(K, j)) \in Nat
    BY <1>1, <1>2, FS_Subset, FS_CardinalityType
<1>4. UpTo(K, 0) = {} /\ UpTo(K, n) = K
  <2>1. \A x \in K : ~(x <= 0) /\ x <= n
      BY <1>1
  <2> QED
      BY <2>1 DEF UpTo
<1>5. ASSUME NEW j \in 1 .. n, j \in K
      PROVE  Cardinality(UpTo(K, j)) = Cardinality(UpTo(K, j - 1)) + 1
  <2>1. \A x \in K : x <= j <=> x <= j - 1 \/ x = j
      BY <1>1
  <2>2. ~(j <= j - 1)
      OBVIOUS
  <2>3. UpTo(K, j) = UpTo(K, j - 1) \cup {j} /\ j \notin UpTo(K, j - 1)
      BY <1>5, <2>1, <2>2, Zenon DEF UpTo
  <2> QED
      BY <1>3, <2>3, FS_AddElement
<1>6. ASSUME NEW j \in 1 .. n, j \notin K
      PROVE  UpTo(K, j) = UpTo(K, j - 1)
  <2>1. \A x \in K : x <= j <=> x <= j - 1
    <3> SUFFICES ASSUME NEW x \in K PROVE x <= j <=> x <= j - 1
        OBVIOUS
    <3>1. x # j /\ x \in Nat
        BY <1>1, <1>6
    <3> QED
        BY <3>1
  <2> QED
      BY <2>1 DEF UpTo
<1> QED
    BY <1>3, <1>4, <1>5, <1>6, FS_EmptySet

Kept(l, name) == {j \in DOMAIN l : l[j].name # name}
Named(l, name) == {j \in DOMAIN l : l[j].name = name}

\* Remove leaves the handlers with other names in their order.
LEMMA Removed ==
    ASSUME NEW S, NEW l \in Seq(S), NEW name
    PROVE  /\ RemoveLoop(l, name) \in Seq(S)
           /\ Len(RemoveLoop(l, name)) = Cardinality(Kept(l, name))
           /\ \A j \in Kept(l, name) :
                RemoveLoop(l, name)[Cardinality(UpTo(Kept(l, name), j))] = l[j]
<1> DEFINE kept == {j \in DOMAIN l : l[j].name # name}
           parts == [j \in DOMAIN l |->
                        IF l[j].name # name THEN <<l[j]>> ELSE <<>>]
           total == [j \in 0 .. Len(l) |-> Cardinality(UpTo(kept, j))]
<1>1. Len(l) \in Nat /\ DOMAIN l = 1 .. Len(l) /\ \A j \in DOMAIN l : l[j] \in S
    OBVIOUS
<1>2. kept \in SUBSET (1 .. Len(l))
    BY <1>1
<1>3. /\ parts \in Seq(Seq(S)) /\ Len(parts) = Len(l)
      /\ \A j \in kept : parts[j] = <<l[j]>>
      /\ \A j \in 1 .. Len(l) : j \notin kept => parts[j] = <<>>
    BY <1>1
<1> HIDE DEF kept, parts
<1>4. /\ \A j \in 0 .. Len(l) : Cardinality(UpTo(kept, j)) \in Nat
      /\ Cardinality(UpTo(kept, 0)) = 0
      /\ Cardinality(UpTo(kept, Len(l))) = Cardinality(kept)
      /\ \A j \in 1 .. Len(l) :
            /\ j \in kept => Cardinality(UpTo(kept, j)) = Cardinality(UpTo(kept, j - 1)) + 1
            /\ j \notin kept => Cardinality(UpTo(kept, j)) = Cardinality(UpTo(kept, j - 1))
    BY <1>1, <1>2, Counted
<1>5. total \in [0 .. Len(parts) -> Nat] /\ total[0] = 0
    BY <1>1, <1>3, <1>4
<1>6. ASSUME NEW j \in 1 .. Len(parts)
      PROVE  /\ total[j] = total[j - 1] + Len(parts[j])
             /\ j \in kept => total[j] = total[j - 1] + 1
  <2>1. /\ total[j] = Cardinality(UpTo(kept, j)) /\ total[j - 1] \in Nat
        /\ total[j - 1] = Cardinality(UpTo(kept, j - 1)) /\ j \in 1 .. Len(l)
      BY <1>1, <1>3, <1>4
  <2>2. (j \in kept => Len(parts[j]) = 1) /\ (j \notin kept => Len(parts[j]) = 0)
      BY <1>3, <2>1
  <2>3. /\ j \in kept => total[j] = total[j - 1] + 1
        /\ j \notin kept => total[j] = total[j - 1]
      BY <2>1, <1>4
  <2>4. CASE j \in kept
      BY <2>2, <2>3, <2>4
  <2>5. CASE j \notin kept
    <3> DEFINE t == total[j - 1]
    <3>1. t \in Nat /\ total[j] = t /\ Len(parts[j]) = 0
        BY <2>1, <2>2, <2>3, <2>5
    <3> HIDE DEF t, total
    <3>2. total[j] = t + Len(parts[j])
        BY <3>1
    <3> QED
        BY <2>5, <3>2 DEF t
  <2> QED
      BY <2>4, <2>5
<1>7. total[Len(l)] = Cardinality(kept)
    BY <1>1, <1>2, Counted
<1>8. RemoveLoop(l, name) = FlattenSeq(parts)
    BY DEF RemoveLoop, parts
<1> HIDE DEF total
<1>9. /\ FlattenSeq(parts) \in Seq(S)
      /\ Len(FlattenSeq(parts)) = total[Len(parts)]
      /\ \A j \in 1 .. Len(parts) : \A k \in 1 .. Len(parts[j]) :
            FlattenSeq(parts)[total[j - 1] + k] = parts[j][k]
    BY <1>3, <1>5, <1>6, Flattened
<1>10. ASSUME NEW j \in kept
      PROVE  FlattenSeq(parts)[Cardinality(UpTo(kept, j))] = l[j]
  <2>1. j \in 1 .. Len(parts) /\ parts[j] = <<l[j]>>
      BY <1>2, <1>3
  <2>2. FlattenSeq(parts)[total[j - 1] + 1] = l[j]
    <3>1. 1 \in 1 .. Len(parts[j]) /\ parts[j][1] = l[j]
        BY <2>1
    <3> QED
        BY <2>1, <3>1, <1>9
  <2>3. Cardinality(UpTo(kept, j)) = total[j - 1] + 1
    <3>1. j \in 0 .. Len(l)
        BY <2>1, <1>3
    <3>2. total[j] = Cardinality(UpTo(kept, j))
        BY <3>1 DEF total
    <3> QED
        BY <2>1, <3>2, <1>6
  <2> QED
      BY <2>2, <2>3
<1> QED
    BY <1>3, <1>7, <1>8, <1>9, <1>10 DEF kept, Kept

\* AppendAfter puts h behind every handler with the name.
LEMMA AppendedAfter ==
    ASSUME NEW S, NEW l \in Seq(S), NEW name, NEW h \in S
    PROVE  /\ AppendAfterLoop(l, name, h) \in Seq(S)
           /\ Len(AppendAfterLoop(l, name, h))
                = Len(l) + Cardinality(Named(l, name))
           /\ \A j \in DOMAIN l :
                AppendAfterLoop(l, name, h)
                    [j + Cardinality(UpTo(Named(l, name), j - 1))] = l[j]
           /\ \A j \in Named(l, name) :
                AppendAfterLoop(l, name, h)
                    [j + Cardinality(UpTo(Named(l, name), j - 1)) + 1] = h
<1> DEFINE named == {j \in DOMAIN l : l[j].name = name}
           parts == [j \in DOMAIN l |-> IF l[j].name = name THEN <<l[j], h>>
                                                            ELSE <<l[j]>>]
           total == [j \in 0 .. Len(l) |-> j + Cardinality(UpTo(named, j))]
<1>1. Len(l) \in Nat /\ DOMAIN l = 1 .. Len(l) /\ \A j \in DOMAIN l : l[j] \in S
    OBVIOUS
<1>2. named \in SUBSET (1 .. Len(l))
    BY <1>1
<1>3. /\ parts \in Seq(Seq(S)) /\ Len(parts) = Len(l)
      /\ \A j \in named : parts[j] = <<l[j], h>>
      /\ \A j \in 1 .. Len(l) : j \notin named => parts[j] = <<l[j]>>
    BY <1>1
<1> HIDE DEF named, parts
<1>4. /\ \A j \in 0 .. Len(l) : Cardinality(UpTo(named, j)) \in Nat
      /\ Cardinality(UpTo(named, 0)) = 0
      /\ Cardinality(UpTo(named, Len(l))) = Cardinality(named)
      /\ \A j \in 1 .. Len(l) :
            /\ j \in named => Cardinality(UpTo(named, j))
                                = Cardinality(UpTo(named, j - 1)) + 1
            /\ j \notin named => Cardinality(UpTo(named, j))
                                    = Cardinality(UpTo(named, j - 1))
    BY <1>1, <1>2, Counted
<1>5. total \in [0 .. Len(parts) -> Nat] /\ total[0] = 0
    BY <1>1, <1>3, <1>4
<1>6. ASSUME NEW j \in 1 .. Len(parts)
      PROVE  /\ total[j] = total[j - 1] + Len(parts[j])
             /\ j + Cardinality(UpTo(named, j - 1)) = total[j - 1] + 1
  <2>1. /\ total[j] = j + Cardinality(UpTo(named, j))
        /\ total[j - 1] = (j - 1) + Cardinality(UpTo(named, j - 1))
        /\ Cardinality(UpTo(named, j - 1)) \in Nat /\ j \in 1 .. Len(l)
    <3>1. j \in 0 .. Len(l) /\ j - 1 \in 0 .. Len(l) /\ j \in 1 .. Len(l)
        BY <1>1, <1>3
    <3> QED
        BY <3>1, <1>4
  <2>2. j \in named => Len(parts[j]) = 2
    <3>1. j \in named => parts[j] = <<l[j], h>>
        BY <1>3
    <3> QED
        BY <3>1
  <2>3. j \notin named => Len(parts[j]) = 1
    <3> SUFFICES ASSUME j \notin named PROVE Len(parts[j]) = 1
        OBVIOUS
    <3>1. parts[j] = <<l[j]>>
        BY <1>3, <2>1
    <3> QED
        BY <3>1
  <2>4. /\ j \in named => Cardinality(UpTo(named, j))
                            = Cardinality(UpTo(named, j - 1)) + 1
        /\ j \notin named => Cardinality(UpTo(named, j))
                                = Cardinality(UpTo(named, j - 1))
      BY <2>1, <1>4
  <2> DEFINE t == total[j - 1]
             c == Cardinality(UpTo(named, j - 1))
             d == Cardinality(UpTo(named, j))
             k == Len(parts[j])
  <2>5. /\ total[j] = j + d /\ t = (j - 1) + c /\ c \in Nat /\ j \in Nat
        /\ (d = c + 1 /\ k = 2) \/ (d = c /\ k = 1)
      BY <2>1, <2>2, <2>3, <2>4
  <2> HIDE DEF total, t, c, d, k
  <2>6. total[j] = t + k /\ j + c = t + 1
      BY <2>5
  <2> QED
      BY <2>6 DEF t, c, k
<1>7. total[Len(l)] = Len(l) + Cardinality(named)
    BY <1>1, <1>4
<1>8. AppendAfterLoop(l, name, h) = FlattenSeq(parts)
    BY DEF AppendAfterLoop, parts
<1> HIDE DEF total
<1>9. /\ FlattenSeq(parts) \in Seq(S)
      /\ Len(FlattenSeq(parts)) = total[Len(parts)]
      /\ \A j \in 1 .. Len(parts) : \A k \in 1 .. Len(parts[j]) :
            FlattenSeq(parts)[total[j - 1] + k] = parts[j][k]
    BY <1>3, <1>5, <1>6, Flattened
<1>10. ASSUME NEW j \in DOMAIN l
       PROVE  FlattenSeq(parts)[j + Cardinality(UpTo(named, j - 1))] = l[j]
  <2>1. j \in 1 .. Len(parts)
      BY <1>1, <1>3
  <2>2. 1 \in 1 .. Len(parts[j]) /\ parts[j][1] = l[j]
    <3>1. parts[j] = <<l[j], h>> \/ parts[j] = <<l[j]>>
        BY <2>1, <1>3
    <3>2. CASE parts[j] = <<l[j], h>>
        BY <3>2
    <3>3. CASE parts[j] = <<l[j]>>
        BY <3>3
    <3> QED
        BY <3>1, <3>2, <3>3
  <2>3. FlattenSeq(parts)[total[j - 1] + 1] = l[j]
      BY <2>1, <2>2, <1>9
  <2> QED
      BY <2>1, <2>3, <1>6
<1>11. ASSUME NEW j \in named
       PROVE  FlattenSeq(parts)[j + Cardinality(UpTo(named, j - 1)) + 1] = h
  <2>1. j \in 1 .. Len(parts) /\ parts[j] = <<l[j], h>>
      BY <1>2, <1>3
  <2>2. 2 \in 1 .. Len(parts[j]) /\ parts[j][2] = h
      BY <2>1
  <2>3. FlattenSeq(parts)[total[j - 1] + 2] = h
      BY <2>1, <2>2, <1>9
  <2>4. j + Cardinality(UpTo(named, j - 1)) + 1 = total[j - 1] + 2
    <3>1. j - 1 \in 0 .. Len(parts)
        BY <2>1, <1>1, <1>3
    <3>2. total[j - 1] \in Nat
        BY <3>1, <1>5
    <3> QED
        BY <3>2, <2>1, <1>6
  <2> QED
      BY <2>3, <2>4
<1> QED
    BY <1>3, <1>7, <1>8, <1>9, <1>10, <1>11 DEF named, Named

\* Swap replaces every handler with the name in its place.
LEMMA Swapped ==
    ASSUME NEW S, NEW l \in Seq(S), NEW h \in S
    PROVE  /\ SwapLoop(l, h) \in Seq(S)
           /\ SwapLoop(l, h) = [j \in DOMAIN l |->
                                    IF l[j].name = h.name THEN h ELSE l[j]]
<1> DEFINE new == [j \in DOMAIN l |-> IF l[j].name = h.name THEN h ELSE l[j]]
           parts == [j \in DOMAIN l |-> <<new[j]>>]
           total == [j \in 0 .. Len(l) |-> j]
<1>1. Len(l) \in Nat /\ DOMAIN l = 1 .. Len(l) /\ \A j \in DOMAIN l : l[j] \in S
    OBVIOUS
<1>2. new \in Seq(S) /\ Len(new) = Len(l) /\ \A j \in DOMAIN l : new[j] \in S
    BY <1>1
<1>3. SwapLoop(l, h) = FlattenSeq(parts)
    BY DEF SwapLoop
<1> HIDE DEF new
<1>4. /\ parts \in Seq(Seq(S)) /\ Len(parts) = Len(l)
      /\ \A j \in 1 .. Len(l) : Len(parts[j]) = 1 /\ parts[j][1] = new[j]
    BY <1>1, <1>2
<1>5. total \in [0 .. Len(parts) -> Nat] /\ total[0] = 0
    BY <1>1, <1>4
<1>6. \A j \in 1 .. Len(parts) : total[j] = total[j - 1] + Len(parts[j])
    BY <1>1, <1>4
<1>7. total[Len(l)] = Len(l) /\ \A j \in 1 .. Len(l) : total[j - 1] + 1 = j
    BY <1>1
<1> HIDE DEF parts, total
<1>8. /\ FlattenSeq(parts) \in Seq(S)
      /\ Len(FlattenSeq(parts)) = total[Len(parts)]
      /\ \A j \in 1 .. Len(parts) : \A k \in 1 .. Len(parts[j]) :
            FlattenSeq(parts)[total[j - 1] + k] = parts[j][k]
    BY <1>4, <1>5, <1>6, Flattened
<1>9. ASSUME NEW j \in 1 .. Len(l) PROVE FlattenSeq(parts)[j] = new[j]
  <2>1. 1 \in 1 .. Len(parts[j]) /\ j \in 1 .. Len(parts)
      BY <1>4
  <2>2. FlattenSeq(parts)[total[j - 1] + 1] = new[j]
      BY <2>1, <1>4, <1>8
  <2> QED
      BY <2>2, <1>7
<1>10. FlattenSeq(parts) = new
    BY <1>2, <1>4, <1>7, <1>8, <1>9, SeqEqual
<1> QED
    BY <1>3, <1>8, <1>10 DEF new

-------------------------------------------------------------------------------
(* Arrays and slices. *)

Elements == Handlers \cup {Zero}

\* The default list fills its array, and two machines share no array but the
\* empty one.
ListInv ==
    /\ heap \in [Arrays -> Seq(Elements)] /\ heap[0] = <<>>
    /\ default = [arr |-> 1, len |-> Len(DefaultList)] /\ heap[1] = DefaultList
    /\ lists \in [Machines -> [arr : Arrays \ {1}, len : Nat]]
    /\ \A m \in Machines : lists[m].len <= Len(heap[lists[m].arr])
    /\ \A b, m \in Machines :
        b # m /\ lists[b].arr = lists[m].arr => lists[m].arr = 0

\* There are three more arrays than machines.
LEMMA ArraysNumbered ==
    /\ 0 \in Arrays /\ 1 \in Arrays /\ Arrays \subseteq Nat
    /\ IsFiniteSet(Arrays) /\ Cardinality(Arrays) = Cardinality(Machines) + 3
<1>1. Cardinality(Machines) \in Nat
    BY ListsAssumption, FS_CardinalityType
<1> DEFINE n == Cardinality(Machines) + 2
<1>2. n \in Nat /\ n >= 2 /\ n + 1 = Cardinality(Machines) + 3 /\ Arrays = 0 .. n
    BY <1>1 DEF Arrays
<1> HIDE DEF n
<1>3. IsFiniteSet(0 .. n) /\ Cardinality(0 .. n) = n + 1
    BY <1>2, FS_Interval
<1> QED
    BY <1>2, <1>3

\* There is always an array for a new list.
LEMMA FreeArray ==
    ASSUME ListInv
    PROVE  \E a \in Arrays : a \notin InUse(lists)
<1> DEFINE T == {lists[m].arr : m \in Machines}
           f == [m \in Machines |-> lists[m].arr]
           n == Cardinality(Machines)
<1>1. InUse(lists) = (T \cup {0}) \cup {1}
    BY DEF InUse, ListInv
<1>2. f \in Surjection(Machines, T)
    BY DEF Surjection
<1> HIDE DEF T, f
<1>3. IsFiniteSet(Machines) /\ n \in Nat
    BY ListsAssumption, FS_CardinalityType
<1>4. IsFiniteSet(T) /\ Cardinality(T) <= n
    BY <1>2, <1>3, FS_Surjection
<1> HIDE DEF n
<1>5. Cardinality(T) \in Nat
    BY <1>4, FS_CardinalityType
<1>6. IsFiniteSet(T \cup {0}) /\ Cardinality(T \cup {0}) <= n + 1
      /\ Cardinality(T \cup {0}) \in Nat
    BY <1>3, <1>4, <1>5, FS_AddElement
<1>7. IsFiniteSet((T \cup {0}) \cup {1}) /\ Cardinality((T \cup {0}) \cup {1}) <= n + 2
      /\ Cardinality((T \cup {0}) \cup {1}) \in Nat
  <2> DEFINE U == T \cup {0}
  <2>1. IsFiniteSet(U) /\ Cardinality(U) <= n + 1 /\ Cardinality(U) \in Nat
      BY <1>6
  <2> HIDE DEF U
  <2>2. IsFiniteSet(U \cup {1}) /\ Cardinality(U \cup {1}) <= n + 2
        /\ Cardinality(U \cup {1}) \in Nat
    <3>1. /\ IsFiniteSet(U \cup {1})
          /\ \/ Cardinality(U \cup {1}) = Cardinality(U)
             \/ Cardinality(U \cup {1}) = Cardinality(U) + 1
        BY <2>1, FS_AddElement
    <3> DEFINE c == Cardinality(U)
               d == Cardinality(U \cup {1})
    <3>2. c \in Nat /\ c <= n + 1 /\ (d = c \/ d = c + 1)
        BY <2>1, <3>1
    <3> HIDE DEF c, d
    <3>3. d <= n + 2 /\ d \in Nat
        BY <1>3, <3>2
    <3> QED
        BY <3>1, <3>3 DEF d
  <2> QED
      BY <2>2 DEF U
<1>8. SUFFICES ASSUME Arrays \subseteq InUse(lists) PROVE FALSE
    OBVIOUS
<1>9. Cardinality(Arrays) <= Cardinality(InUse(lists))
    BY <1>1, <1>7, <1>8, FS_Subset
<1> QED
    BY <1>1, <1>3, <1>7, <1>9, ArraysNumbered DEF n

\* What an assignment of one machine's list shows to the others.
LEMMA AssignEffect ==
    ASSUME ListInv, NEW m \in Machines, NEW l \in [arr : Arrays \ {1}, len : Nat],
           NEW h \in [Arrays -> Seq(Elements)], h[0] = <<>>, h[1] = heap[1],
           l.len <= Len(h[l.arr]),
           \A b \in Machines : b # m =>
                /\ lists[b].arr = l.arr => l.arr = 0
                /\ h[lists[b].arr] = heap[lists[b].arr],
           Assign(m, l, h)
    PROVE  ListInv' /\ Abstract!Becomes(m, SubSeq(h[l.arr], 1, l.len))
<1>1. lists' = [lists EXCEPT ![m] = l] /\ default' = default
    BY DEF Assign
<1>2. /\ lists' \in [Machines -> [arr : Arrays \ {1}, len : Nat]] /\ lists'[m] = l
      /\ \A b \in Machines : b # m => lists'[b] = lists[b]
    BY <1>1 DEF ListInv
<1>3. InUse(lists)' = {0, 1} \cup {lists'[b].arr : b \in Machines}
    BY <1>1 DEF InUse, ListInv
<1>4. heap' = [a \in Arrays |-> IF a \in InUse(lists)' THEN h[a] ELSE <<>>]
    BY DEF Assign, InUse
<1>5. heap' \in [Arrays -> Seq(Elements)]
    BY <1>4
<1>6. heap'[0] = <<>> /\ heap'[1] = DefaultList
    BY <1>3, <1>4, ArraysNumbered DEF ListInv
<1>7. \A b \in Machines : heap'[lists'[b].arr] = h[lists'[b].arr]
    BY <1>2, <1>3, <1>4
<1>8. \A b \in Machines : b # m => heap'[lists'[b].arr] = heap[lists[b].arr]
    BY <1>2, <1>7
<1>9. ListInv'
  <2>1. default' = [arr |-> 1, len |-> Len(DefaultList)]
      BY <1>1 DEF ListInv
  <2>2. \A b \in Machines : lists'[b].len <= Len(heap'[lists'[b].arr])
      BY <1>2, <1>7, <1>8 DEF ListInv
  <2>3. \A b, c \in Machines :
            b # c /\ lists'[b].arr = lists'[c].arr => lists'[c].arr = 0
    <3> SUFFICES ASSUME NEW b \in Machines, NEW c \in Machines, b # c,
                        lists'[b].arr = lists'[c].arr
                 PROVE  lists'[c].arr = 0
        OBVIOUS
    <3>1. CASE b = m
      <4>1. lists'[b].arr = l.arr /\ lists'[c].arr = lists[c].arr /\ c # m
          BY <3>1, <1>2
      <4> QED
          BY <4>1
    <3>2. CASE c = m
      <4>1. lists'[c].arr = l.arr /\ lists'[b].arr = lists[b].arr /\ b # m
          BY <3>2, <1>2
      <4> QED
          BY <4>1
    <3>3. CASE b # m /\ c # m
        BY <3>3, <1>2 DEF ListInv
    <3> QED
        BY <3>1, <3>2, <3>3
  <2> QED
      BY <1>2, <1>5, <1>6, <2>1, <2>2, <2>3 DEF ListInv
<1>10. Contents(default)' = Contents(default)
    BY <1>1, <1>6 DEF Contents, ListInv
<1>11. \A b \in Machines : b # m => Contents(lists[b])' = Contents(lists[b])
    BY <1>2, <1>8 DEF Contents
<1>12. Contents(lists[m])' = SubSeq(h[l.arr], 1, l.len)
    BY <1>2, <1>7 DEF Contents
<1> QED
    BY <1>9, <1>10, <1>11, <1>12 DEF Abstract!Becomes

\* A slice of the old length still shows the old contents.
LEMMA Prefix ==
    ASSUME NEW S, NEW s \in Seq(S), NEW t \in Seq(S)
    PROVE  SubSeq(s \o t, 1, Len(s)) = s
    OBVIOUS

\* append into the unused part of an array.
LEMMA InPlace ==
    ASSUME NEW S, NEW u \in Seq(S), NEW hs \in Seq(S), NEW k \in Nat,
           k + Len(hs) <= Len(u)
    PROVE  LET rest == SubSeq(u, k + Len(hs) + 1, Len(u))
               v == SubSeq(u, 1, k) \o hs \o rest
           IN  /\ v \in Seq(S) /\ Len(v) = Len(u)
               /\ SubSeq(v, 1, k + Len(hs)) = SubSeq(u, 1, k) \o hs
<1> DEFINE rest == SubSeq(u, k + Len(hs) + 1, Len(u))
           pre == SubSeq(u, 1, k)
           w == pre \o hs
<1>1. Len(hs) \in Nat /\ Len(u) \in Nat /\ k <= Len(u)
    OBVIOUS
<1>2. pre \in Seq(S) /\ Len(pre) = k
    BY <1>1
<1>3. rest \in Seq(S) /\ Len(rest) = Len(u) - (k + Len(hs))
    BY <1>1
<1> HIDE DEF rest, pre
<1>4. w \in Seq(S) /\ Len(w) = k + Len(hs)
    BY <1>2, Joined
<1> HIDE DEF w
<1>5. w \o rest \in Seq(S) /\ Len(w \o rest) = Len(u)
    BY <1>1, <1>3, <1>4, Joined
<1>6. SubSeq(w \o rest, 1, k + Len(hs)) = w
    BY <1>3, <1>4, Prefix
<1> QED
    BY <1>5, <1>6 DEF w, pre, rest

\* A list built in a new array shows to its own machine only.
LEMMA BuildEffect ==
    ASSUME ListInv, NEW m \in Machines, NEW s \in Seq(Elements), Build(m, s)
    PROVE  ListInv' /\ Abstract!Becomes(m, s)
<1>1. CASE s = <<>>
  <2>1. Assign(m, Nil, heap)
      BY <1>1 DEF Build
  <2>2. /\ Nil \in [arr : Arrays \ {1}, len : Nat] /\ Nil.arr = 0 /\ Nil.len = 0
      BY ArraysNumbered DEF Nil
  <2>3. /\ heap \in [Arrays -> Seq(Elements)] /\ heap[0] = <<>>
        /\ Nil.len <= Len(heap[Nil.arr])
      BY <2>2 DEF ListInv
  <2>4. ListInv' /\ Abstract!Becomes(m, SubSeq(heap[Nil.arr], 1, Nil.len))
    <3> HIDE DEF Nil
    <3> QED
        BY <2>1, <2>2, <2>3, AssignEffect
  <2>5. SubSeq(heap[Nil.arr], 1, Nil.len) = s
      BY <1>1, <2>2, <2>3
  <2> QED
      BY <2>4, <2>5
<1>2. CASE s # <<>>
  <2> DEFINE a == CHOOSE b \in Arrays : b \notin InUse(lists)
             l == [arr |-> a, len |-> Len(s)]
  <2>1. PICK slack \in 0 .. Slack :
            Assign(m, l, [heap EXCEPT ![a] = s \o Zeros(slack)])
      BY <1>2 DEF Build
  <2> DEFINE z == Zeros(slack)
             h == [heap EXCEPT ![a] = s \o z]
  <2>2. a \in Arrays /\ a \notin InUse(lists)
      BY FreeArray
  <2> HIDE DEF a
  <2>3. a # 0 /\ a # 1 /\ \A b \in Machines : lists[b].arr # a
      BY <2>2 DEF InUse, ListInv
  <2>4. z \in Seq(Elements)
    <3>1. Zero \in Elements
        BY DEF Elements
    <3>2. slack \in Nat
        BY ListsAssumption
    <3> HIDE DEF z
    <3> QED
        BY <3>1, <3>2 DEF z, Zeros
  <2> HIDE DEF z
  <2>5. s \o z \in Seq(Elements) /\ Len(s) <= Len(s \o z) /\ Len(s) \in Nat
    <3>1. s \o z \in Seq(Elements) /\ Len(s \o z) = Len(s) + Len(z)
          /\ Len(s) \in Nat /\ Len(z) \in Nat
        BY <2>4, Joined
    <3> QED
        BY <3>1
  <2>6. /\ h \in [Arrays -> Seq(Elements)] /\ h[a] = s \o z
        /\ \A b \in Arrays : b # a => h[b] = heap[b]
      BY <2>2, <2>5 DEF ListInv
  <2> HIDE DEF h
  <2>7. h[0] = <<>> /\ h[1] = heap[1]
      BY <2>3, <2>6, ArraysNumbered DEF ListInv
  <2>8. l \in [arr : Arrays \ {1}, len : Nat] /\ l.arr = a /\ l.len = Len(s)
      BY <2>2, <2>3, <2>5
  <2>9. \A b \in Machines : b # m =>
            /\ lists[b].arr = l.arr => l.arr = 0
            /\ h[lists[b].arr] = heap[lists[b].arr]
      BY <2>3, <2>6, <2>8 DEF ListInv
  <2>10. l.len <= Len(h[l.arr])
      BY <2>5, <2>6, <2>8
  <2>11. Assign(m, l, h)
      BY <2>1 DEF h, z
  <2> HIDE DEF l
  <2>12. ListInv' /\ Abstract!Becomes(m, SubSeq(h[l.arr], 1, l.len))
      BY <2>6, <2>7, <2>8, <2>9, <2>10, <2>11, AssignEffect
  <2>13. SubSeq(h[l.arr], 1, l.len) = s
      BY <2>4, <2>6, <2>8, Prefix
  <2> QED
      BY <2>12, <2>13
<1> QED
    BY <1>1, <1>2

\* append writes in place only into an array that is the machine's own.
LEMMA AppendEffect ==
    ASSUME ListInv, NEW m \in Machines, NEW hs \in Seq(Elements), hs # <<>>,
           AppendTo(m, lists[m], hs)
    PROVE  ListInv' /\ Abstract!Becomes(m, Contents(lists[m]) \o hs)
<1> DEFINE l == lists[m]
           u == heap[l.arr]
           len == l.len + Len(hs)
<1>1. /\ l.arr \in Arrays \ {1} /\ l.len \in Nat /\ l.len <= Len(u)
      /\ u \in Seq(Elements) /\ Len(u) \in Nat
      /\ Len(hs) \in Nat /\ Len(hs) > 0
      /\ \A b \in Machines : b # m /\ lists[b].arr = l.arr => l.arr = 0
    BY DEF ListInv
<1>2. Contents(l) = SubSeq(u, 1, l.len) /\ Contents(l) \in Seq(Elements)
    BY <1>1 DEF Contents
<1>3. CASE len <= Len(u)
  <2> DEFINE v == SubSeq(u, 1, l.len) \o hs \o SubSeq(u, len + 1, Len(u))
             h == [heap EXCEPT ![l.arr] = v]
             new == [l EXCEPT !.len = len]
  <2>1. Assign(m, new, h)
      BY <1>3 DEF AppendTo
  <2>2. l.arr # 0
      BY <1>1, <1>3 DEF ListInv
  <2>3. v \in Seq(Elements) /\ Len(v) = Len(u)
        /\ SubSeq(v, 1, len) = SubSeq(u, 1, l.len) \o hs
    <3> HIDE DEF u, l
    <3> QED
        BY <1>1, <1>3, InPlace
  <2> HIDE DEF v
  <2>4. /\ h \in [Arrays -> Seq(Elements)] /\ h[l.arr] = v
        /\ \A b \in Arrays : b # l.arr => h[b] = heap[b]
      BY <1>1, <2>3 DEF ListInv
  <2>5. new \in [arr : Arrays \ {1}, len : Nat] /\ new.arr = l.arr /\ new.len = len
    <3>1. l \in [arr : Arrays \ {1}, len : Nat] /\ len \in Nat
        BY <1>1 DEF ListInv
    <3> HIDE DEF l, len
    <3> QED
        BY <3>1
  <2> HIDE DEF h, new, u, len
  <2>6. h[0] = <<>> /\ h[1] = heap[1]
      BY <1>1, <2>2, <2>4, ArraysNumbered DEF ListInv
  <2>7. \A b \in Machines : b # m =>
            /\ lists[b].arr = new.arr => new.arr = 0
            /\ h[lists[b].arr] = heap[lists[b].arr]
      BY <1>1, <2>2, <2>4, <2>5 DEF ListInv
  <2>8. new.len <= Len(h[new.arr])
      BY <1>3, <2>3, <2>4, <2>5
  <2>9. ListInv' /\ Abstract!Becomes(m, SubSeq(h[new.arr], 1, new.len))
      BY <2>1, <2>4, <2>5, <2>6, <2>7, <2>8, AssignEffect
  <2>10. SubSeq(h[new.arr], 1, new.len) = Contents(l) \o hs
      BY <1>2, <2>3, <2>4, <2>5
  <2> QED
      BY <2>9, <2>10
<1>4. CASE ~(len <= Len(u))
  <2>1. Build(m, Contents(l) \o hs)
      BY <1>4 DEF AppendTo
  <2>2. Contents(l) \o hs \in Seq(Elements)
      BY <1>2, Joined
  <2> QED
      BY <2>1, <2>2, BuildEffect
<1> QED
    BY <1>3, <1>4

-------------------------------------------------------------------------------
(* The operations, one by one. *)

\* A machine's list is a sequence.
LEMMA ContentsTyped ==
    ASSUME ListInv, NEW m \in Machines
    PROVE  Contents(lists[m]) \in Seq(Elements)
<1>1. /\ lists[m].len \in Nat /\ lists[m].len <= Len(heap[lists[m].arr])
      /\ heap[lists[m].arr] \in Seq(Elements)
    BY DEF ListInv
<1> QED
    BY <1>1 DEF Contents

\* The list after an operation, as IndependentLists sees it.
LEMMA BecomesIs ==
    ASSUME NEW m \in Machines, NEW s, Abstract!Becomes(m, s)
    PROVE  /\ Contents(lists[m])' = s
           /\ Abstract!Becomes(m, Contents(lists[m])')
    BY DEF Abstract!Becomes

\* The default list fills its array, so what NewMachine appends makes a new one.
LEMMA NewMachineStep ==
    ASSUME ListInv, OnNew # <<>>, NEW m \in Machines, NewMachine(m)
    PROVE  ListInv' /\ Abstract!NewMachine(m)
<1>1. /\ DefaultList \in Seq(Elements) /\ OnNew \in Seq(Elements)
      /\ Len(DefaultList) \in Nat /\ Len(OnNew) \in Nat /\ Len(OnNew) > 0
    BY ListsAssumption DEF Elements
<1>2. Contents(default) = DefaultList
    BY <1>1 DEF Contents, ListInv
<1>3. default.arr = 1 /\ default.len = Len(DefaultList) /\ heap[1] = DefaultList
    BY DEF ListInv
<1>4. Build(m, Contents(default) \o OnNew)
  <2>1. ~(default.len + Len(OnNew) <= Len(heap[default.arr]))
      BY <1>1, <1>3
  <2> QED
      BY <2>1 DEF NewMachine, AppendTo
<1>5. Contents(default) \o OnNew \in Seq(Elements)
    BY <1>1, <1>2, Joined
<1> QED
    BY <1>4, <1>5, BuildEffect DEF Abstract!NewMachine

\* Append adds a handler to the end of the machine's own list.
LEMMA Append1Step ==
    ASSUME ListInv, NEW m \in Machines, NEW h \in Handlers, Append1(m, h)
    PROVE  ListInv' /\ Abstract!Append1(m, h)
<1>1. h \in Elements /\ <<h>> \in Seq(Elements) /\ <<h>> # <<>>
    BY DEF Elements
<1>2. ListInv' /\ Abstract!Becomes(m, Contents(lists[m]) \o <<h>>)
    BY <1>1, AppendEffect DEF Append1
<1>3. Contents(lists[m]) \o <<h>> = Append(Contents(lists[m]), h)
    BY <1>1, ContentsTyped, AppendIsConcat
<1> QED
    BY <1>2, <1>3 DEF Abstract!Append1

\* Prepend copies the list behind the new handler.
LEMMA PrependStep ==
    ASSUME ListInv, NEW m \in Machines, NEW h \in Handlers, Prepend(m, h)
    PROVE  ListInv' /\ Abstract!Prepend(m, h)
<1>1. <<h>> \in Seq(Elements)
    BY DEF Elements
<1>2. <<h>> \o Contents(lists[m]) \in Seq(Elements)
    BY <1>1, ContentsTyped, Joined
<1>3. Build(m, <<h>> \o Contents(lists[m]))
    BY DEF Prepend
<1> QED
    BY <1>2, <1>3, BuildEffect DEF Abstract!Prepend

\* Clear keeps the array and shows nothing of it.
LEMMA ClearStep ==
    ASSUME ListInv, NEW m \in Machines, Clear(m)
    PROVE  ListInv' /\ Abstract!Clear(m)
<1> DEFINE l == [lists[m] EXCEPT !.len = 0]
<1>1. Assign(m, l, heap)
    BY DEF Clear
<1>2. /\ l \in [arr : Arrays \ {1}, len : Nat] /\ l.arr = lists[m].arr /\ l.len = 0
    BY DEF ListInv
<1>3. /\ heap \in [Arrays -> Seq(Elements)] /\ heap[0] = <<>>
      /\ l.len <= Len(heap[l.arr]) /\ heap[l.arr] \in Seq(Elements)
    BY <1>2 DEF ListInv
<1>4. \A b \in Machines : b # m /\ lists[b].arr = l.arr => l.arr = 0
    BY <1>2 DEF ListInv
<1> HIDE DEF l
<1>5. ListInv' /\ Abstract!Becomes(m, SubSeq(heap[l.arr], 1, l.len))
    BY <1>1, <1>2, <1>3, <1>4, AssignEffect
<1>6. SubSeq(heap[l.arr], 1, l.len) = <<>>
    BY <1>2, <1>3
<1> QED
    BY <1>5, <1>6 DEF Abstract!Clear

\* Swap builds a copy with the handlers replaced in their places.
LEMMA SwapStep ==
    ASSUME ListInv, NEW m \in Machines, NEW h \in Handlers, Swap(m, h)
    PROVE  ListInv' /\ Abstract!Swap(m, h)
<1> DEFINE l == Contents(lists[m])
<1>1. l \in Seq(Elements) /\ h \in Elements
    BY ContentsTyped DEF Elements
<1>2. Build(m, SwapLoop(l, h))
    BY DEF Swap
<1>3. ListInv' /\ Abstract!Becomes(m, SwapLoop(l, h))
  <2> HIDE DEF l
  <2> QED
      BY <1>1, <1>2, Swapped, BuildEffect
<1>4. SwapLoop(l, h) = [j \in DOMAIN l |-> IF l[j].name = h.name THEN h ELSE l[j]]
  <2> HIDE DEF l
  <2> QED
      BY <1>1, Swapped
<1> QED
    BY <1>3, <1>4 DEF Abstract!Swap

\* Swappend finds a handler in the slice iff the list has it.
LEMMA SwappendStep ==
    ASSUME ListInv, NEW m \in Machines, NEW h \in Handlers, Swappend(m, h)
    PROVE  ListInv' /\ Abstract!Swappend(m, h)
<1>1. HasIn(Contents(lists[m]), h.name) <=> Abstract!Has(m, h.name)
    BY DEF HasIn, Abstract!Has
<1>2. CASE HasIn(Contents(lists[m]), h.name)
    BY <1>1, <1>2, SwapStep DEF Swappend, Abstract!Swappend
<1>3. CASE ~HasIn(Contents(lists[m]), h.name)
    BY <1>1, <1>3, Append1Step DEF Swappend, Abstract!Swappend
<1> QED
    BY <1>2, <1>3

\* The Cardinality of IndependentLists is that of HandlerList.
LEMMA SameCardinality == \A S : Abstract!Cardinality(S) = Cardinality(S)
    BY DEF Abstract!Cardinality, Cardinality

\* Remove builds the list that RemoveNamed describes by positions.
LEMMA RemoveStep ==
    ASSUME ListInv, NEW m \in Machines, NEW name, RemoveNamed(m, name)
    PROVE  ListInv' /\ Abstract!RemoveNamed(m, name)
<1> DEFINE l == Contents(lists[m])
           new == RemoveLoop(l, name)
           kept == Kept(l, name)
           old == [b \in Machines |-> Contents(lists[b])]
<1>1. l \in Seq(Elements)
    BY ContentsTyped
<1>2. Build(m, new)
    BY DEF RemoveNamed
<1>3. /\ new \in Seq(Elements) /\ Len(new) = Cardinality(kept)
      /\ \A j \in kept : new[Cardinality(UpTo(kept, j))] = l[j]
  <2> HIDE DEF l
  <2> QED
      BY <1>1, Removed
<1>4. ListInv' /\ Abstract!Becomes(m, new)
  <2> HIDE DEF new
  <2> QED
      BY <1>2, <1>3, BuildEffect
<1>5. Contents(lists[m])' = new /\ Abstract!Becomes(m, Contents(lists[m])')
    BY <1>4, BecomesIs
<1> HIDE DEF new
<1>6. DOMAIN new = 1 .. Cardinality(kept)
    BY <1>3
<1>7. old[m] = l /\ old'[m] = new
    BY <1>5
<1> HIDE DEF l
<1>8. /\ DOMAIN old'[m] = 1 .. Cardinality(Kept(old[m], name))
      /\ \A j \in Kept(old[m], name) :
            old'[m][Cardinality(UpTo(Kept(old[m], name), j))] = old[m][j]
  <2> HIDE DEF old
  <2> QED
      BY <1>3, <1>6, <1>7
<1>9. Abstract!Becomes(m, old'[m])
    BY <1>4, <1>7
<1> QED
    BY <1>4, <1>8, <1>9, SameCardinality, Zenon DEF Abstract!RemoveNamed, Kept, UpTo

\* AppendAfter builds the list that is described by positions.
LEMMA AppendAfterStep ==
    ASSUME ListInv, NEW m \in Machines, NEW name, NEW h \in Handlers,
           AppendAfter(m, name, h)
    PROVE  ListInv' /\ Abstract!AppendAfter(m, name, h)
<1> DEFINE l == Contents(lists[m])
           new == AppendAfterLoop(l, name, h)
           named == Named(l, name)
           old == [b \in Machines |-> Contents(lists[b])]
<1>1. l \in Seq(Elements) /\ h \in Elements
    BY ContentsTyped DEF Elements
<1>2. Build(m, new)
    BY DEF AppendAfter
<1>3. /\ new \in Seq(Elements) /\ Len(new) = Len(l) + Cardinality(named)
      /\ \A j \in DOMAIN l : new[j + Cardinality(UpTo(named, j - 1))] = l[j]
      /\ \A j \in named : new[j + Cardinality(UpTo(named, j - 1)) + 1] = h
  <2> HIDE DEF l
  <2> QED
      BY <1>1, AppendedAfter
<1>4. ListInv' /\ Abstract!Becomes(m, new)
  <2> HIDE DEF new
  <2> QED
      BY <1>2, <1>3, BuildEffect
<1>5. Contents(lists[m])' = new /\ Abstract!Becomes(m, Contents(lists[m])')
    BY <1>4, BecomesIs
<1> HIDE DEF new
<1>6. DOMAIN new = 1 .. Len(l) + Cardinality(named)
    BY <1>3
<1>7. DOMAIN l = 1 .. Len(l) /\ Len(l) \in Nat /\ named \subseteq DOMAIN l
    BY <1>1 DEF Named
<1>8. \A j \in DOMAIN l : UpTo(named, j - 1) = {i \in named : i < j}
  <2> HIDE DEF l, named
  <2>1. \A i \in named, j \in DOMAIN l : i <= j - 1 <=> i < j
      BY <1>7
  <2> QED
      BY <2>1 DEF UpTo
<1>9. old[m] = l /\ old'[m] = new
    BY <1>5
<1>10. /\ \A j \in DOMAIN l : new[j + Cardinality({i \in named : i < j})] = l[j]
       /\ \A j \in named : new[j + Cardinality({i \in named : i < j}) + 1] = h
  <2> HIDE DEF l, named
  <2> QED
      BY <1>3, <1>7, <1>8
<1> HIDE DEF l
<1>11. /\ DOMAIN old'[m] = 1 .. Len(old[m]) + Cardinality(Named(old[m], name))
       /\ \A j \in DOMAIN old[m] :
            old'[m][j + Cardinality({i \in Named(old[m], name) : i < j})] = old[m][j]
       /\ \A j \in Named(old[m], name) :
            old'[m][j + Cardinality({i \in Named(old[m], name) : i < j}) + 1] = h
  <2> HIDE DEF old
  <2> QED
      BY <1>6, <1>9, <1>10
<1>12. Abstract!Becomes(m, old'[m])
    BY <1>4, <1>9
<1> QED
    BY <1>4, <1>11, <1>12, SameCardinality, Zenon DEF Abstract!AppendAfter, Named

\* Every step is the operation that IndependentLists describes, on one machine's
\* list, and keeps arrays apart.
LEMMA ListStep ==
    ASSUME ListInv, OnNew # <<>>, [ListNext]_listVars
    PROVE  ListInv' /\ [Abstract!Next]_Abstract!vars
<1>1. CASE UNCHANGED listVars
  <2>1. ListInv'
      BY <1>1 DEF listVars, ListInv
  <2>2. UNCHANGED Abstract!vars
      BY <1>1 DEF listVars, Abstract!vars, Contents
  <2> QED
      BY <2>1, <2>2
<1>2. CASE ListNext
  <2>1. PICK m \in Machines :
            \/ NewMachine(m) \/ Clear(m)
            \/ \E h \in Handlers :
                \/ Append1(m, h) \/ Prepend(m, h) \/ Swappend(m, h) \/ Swap(m, h)
                \/ \E name \in Names : AppendAfter(m, name, h)
            \/ \E name \in Names : RemoveNamed(m, name)
      BY <1>2, Zenon DEF ListNext, Grow
  <2>2. Names = Abstract!Names
      BY DEF Names, Abstract!Names
  <2> SUFFICES ListInv' /\ Abstract!Next
      OBVIOUS
  <2>3. CASE NewMachine(m)
      BY <2>3, NewMachineStep, Zenon DEF Abstract!Next
  <2>4. CASE Clear(m)
      BY <2>4, ClearStep, Zenon DEF Abstract!Next
  <2>5. ASSUME NEW h \in Handlers,
               \/ Append1(m, h) \/ Prepend(m, h) \/ Swappend(m, h) \/ Swap(m, h)
        PROVE  ListInv' /\ Abstract!Next
    <3>1. ListInv' /\ (\/ Abstract!Append1(m, h) \/ Abstract!Prepend(m, h)
                       \/ Abstract!Swap(m, h) \/ Abstract!Swappend(m, h))
        BY <2>5, Append1Step, PrependStep, SwapStep, SwappendStep, Zenon
    <3> QED
        BY <3>1, Zenon DEF Abstract!Next
  <2>6. ASSUME NEW h \in Handlers, NEW name \in Names, AppendAfter(m, name, h)
        PROVE  ListInv' /\ Abstract!Next
    <3>1. ListInv' /\ Abstract!AppendAfter(m, name, h) /\ name \in Abstract!Names
        BY <2>2, <2>6, AppendAfterStep
    <3> QED
        BY <3>1, Zenon DEF Abstract!Next
  <2>7. ASSUME NEW name \in Names, RemoveNamed(m, name)
        PROVE  ListInv' /\ Abstract!Next
    <3>1. ListInv' /\ Abstract!RemoveNamed(m, name) /\ name \in Abstract!Names
        BY <2>2, <2>7, RemoveStep
    <3> QED
        BY <3>1, Zenon DEF Abstract!Next
  <2> QED
      BY <2>1, <2>3, <2>4, <2>5, <2>6, <2>7, Zenon
<1> QED
    BY <1>1, <1>2

\* The lists of a fresh program.
LEMMA InitLists ==
    ASSUME Spare = 0, ListInit
    PROVE  ListInv /\ Abstract!Init
<1>1. DefaultList \in Seq(Elements) /\ Len(DefaultList) \in Nat
    BY ListsAssumption DEF Elements
<1>2. DefaultList \o Zeros(Spare) = DefaultList
  <2>1. Zeros(Spare) = <<>>
      BY DEF Zeros
  <2> QED
      BY <2>1, <1>1
<1>3. heap = [a \in Arrays |-> IF a = 1 THEN DefaultList ELSE <<>>]
    BY <1>2 DEF ListInit
<1>4. /\ heap \in [Arrays -> Seq(Elements)] /\ heap[0] = <<>>
      /\ heap[1] = DefaultList
    BY <1>1, <1>3, ArraysNumbered
<1>5. default = [arr |-> 1, len |-> Len(DefaultList)]
    BY DEF ListInit
<1>6. Nil \in [arr : Arrays \ {1}, len : Nat] /\ Nil.arr = 0 /\ Nil.len = 0
    BY ArraysNumbered DEF Nil
<1>7. lists = [m \in Machines |-> Nil]
    BY DEF ListInit
<1>8. ListInv
    BY <1>4, <1>5, <1>6, <1>7 DEF ListInv
<1>9. Contents(default) = DefaultList
    BY <1>1, <1>4, <1>5 DEF Contents
<1>10. \A m \in Machines : Contents(lists[m]) = <<>>
    BY <1>4, <1>6, <1>7 DEF Contents
<1> QED
    BY <1>8, <1>9, <1>10 DEF Abstract!Init

\* If the default list has no room left and NewMachine appends to it, as with the
\* validation handlers, then whatever any number of machines do to their lists,
\* each sees only what it did itself.
THEOREM ListsIndependent ==
    ASSUME Spare = 0, OnNew # <<>>
    PROVE  ListSpec => Independent
<1>1. ListInit => ListInv /\ Abstract!Init
    BY InitLists
<1>2. ListInv /\ [ListNext]_listVars => ListInv' /\ [Abstract!Next]_Abstract!vars
    BY ListStep
<1> QED
    BY <1>1, <1>2, PTL DEF ListSpec, Independent, Abstract!Spec
===============================================================================
