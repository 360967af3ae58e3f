------------------------------- MODULE BootProofs ------------------------------
(***************************************************************************)
(* Theorems about Boot, for any Config and any number of machines made     *)
(* from it.                                                                *)
(***************************************************************************)
EXTENDS Boot, CommandProofs, TLAPS

-------------------------------------------------------------------------------
(* The handler lists. *)

\* f picks the elements of w from list: in the same order, none of names, and
\* every other one.
Picks(f, w, list, names) ==
    /\ f \in [DOMAIN w -> DOMAIN list]
    /\ \A k \in DOMAIN w : w[k] = list[f[k]] /\ w[k] \notin names
    /\ \A j, k \in DOMAIN w : j < k => f[j] < f[k]
    /\ \A l \in DOMAIN list :
        list[l] \notin names => \E k \in DOMAIN w : f[k] = l

\* What Remove leaves of a handler list.
LEMMA WithoutKeeps ==
    ASSUME NEW T, NEW list \in Seq(T), NEW names
    PROVE  /\ Without(list, names) \in Seq(T)
           /\ \E f : Picks(f, Without(list, names), list, names)
<1> DEFINE kept == {j \in DOMAIN list : list[j] \notin names}
           nth(k) == CHOOSE j \in kept : Cardinality({l \in kept : l <= j}) = k
           w == [k \in 1 .. Cardinality(kept) |-> list[nth(k)]]
           f == [k \in 1 .. Cardinality(kept) |-> nth(k)]
<1>1. Len(list) \in Nat /\ DOMAIN list = 1 .. Len(list)
    BY LenProperties
<1>2. /\ kept \in SUBSET (1 .. Len(list)) /\ Cardinality(kept) \in Nat
      /\ \A j \in kept : j \in Nat
  <2>1. kept \in SUBSET (1 .. Len(list))
      BY <1>1
  <2> HIDE DEF kept
  <2>2. Cardinality(kept) \in Nat
      BY <2>1, <1>1, Ranks
  <2>3. \A j \in kept : j \in 1 .. Len(list)
      BY <2>1
  <2> QED
      BY <2>1, <2>2, <2>3, <1>1
<1>3. \A k \in 1 .. Cardinality(kept) :
        nth(k) \in kept /\ Cardinality(UpTo(kept, nth(k))) = k
  <2> SUFFICES ASSUME NEW k \in 1 .. Cardinality(kept)
               PROVE  nth(k) \in kept /\ Cardinality(UpTo(kept, nth(k))) = k
      OBVIOUS
  <2>1. \E j \in kept : Cardinality(UpTo(kept, j)) = k
      BY <1>1, <1>2, Ranks
  <2> QED
      BY <2>1 DEF UpTo
<1>4. Without(list, names) = w
    BY DEF Without
<1> HIDE DEF nth, kept
<1>5. \A j, k \in 1 .. Cardinality(kept) : j < k => nth(j) < nth(k)
  <2> SUFFICES ASSUME NEW j \in 1 .. Cardinality(kept),
                      NEW k \in 1 .. Cardinality(kept), j < k, ~(nth(j) < nth(k))
               PROVE  FALSE
      OBVIOUS
  <2>1. nth(j) \in kept /\ nth(k) \in kept /\ nth(j) \in Nat /\ nth(k) \in Nat
      BY <1>1, <1>2, <1>3
  <2>2. nth(k) < nth(j) \/ nth(k) = nth(j)
      BY <2>1
  <2>3. CASE nth(k) = nth(j)
      BY <2>3, <1>3
  <2>4. CASE nth(k) < nth(j)
    <3>1. Cardinality(UpTo(kept, nth(k))) < Cardinality(UpTo(kept, nth(j)))
        BY <2>1, <2>4, <1>1, <1>2, Ranks
    <3> QED
        BY <3>1, <1>3
  <2> QED
      BY <2>2, <2>3, <2>4
<1>6. \A i \in kept : \E k \in 1 .. Cardinality(kept) : nth(k) = i
  <2> SUFFICES ASSUME NEW i \in kept
               PROVE  \E k \in 1 .. Cardinality(kept) : nth(k) = i
      OBVIOUS
  <2> DEFINE k == Cardinality(UpTo(kept, i))
  <2>1. k \in 1 .. Cardinality(kept)
      BY <1>1, <1>2, Ranks
  <2>2. nth(k) \in kept /\ Cardinality(UpTo(kept, nth(k))) = k
      BY <2>1, <1>3
  <2>3. nth(k) = i
    <3> HIDE DEF k
    <3>1. i \in Nat /\ nth(k) \in Nat
        BY <1>1, <1>2, <2>2
    <3>2. /\ nth(k) < i => Cardinality(UpTo(kept, nth(k)))
                            < Cardinality(UpTo(kept, i))
          /\ i < nth(k) => Cardinality(UpTo(kept, i))
                            < Cardinality(UpTo(kept, nth(k)))
        BY <1>1, <1>2, <2>2, Ranks
    <3>3. Cardinality(UpTo(kept, nth(k))) = Cardinality(UpTo(kept, i))
          /\ Cardinality(UpTo(kept, i)) \in Nat
        BY <1>2, <2>1, <2>2 DEF k
    <3> QED
        BY <3>1, <3>2, <3>3
  <2> QED
      BY <2>1, <2>3
<1>7. w \in Seq(T) /\ DOMAIN w = 1 .. Cardinality(kept)
  <2>1. \A k \in 1 .. Cardinality(kept) : list[nth(k)] \in T
      BY <1>1, <1>2, <1>3, ElementOfSeq
  <2> QED
      BY <2>1, <1>2, IsASeq
<1>8. f \in [DOMAIN w -> DOMAIN list]
    BY <1>1, <1>2, <1>3, <1>7
<1>9. \A k \in DOMAIN w : w[k] = list[f[k]] /\ w[k] \notin names
    BY <1>3, <1>7 DEF kept
<1>10. \A j, k \in DOMAIN w : j < k => f[j] < f[k]
    BY <1>5, <1>7
<1>11. \A i \in DOMAIN list :
        list[i] \notin names => \E k \in DOMAIN w : f[k] = i
  <2> SUFFICES ASSUME NEW i \in DOMAIN list, list[i] \notin names
               PROVE  \E k \in DOMAIN w : f[k] = i
      OBVIOUS
  <2>1. i \in kept
      BY DEF kept
  <2> QED
      BY <2>1, <1>6, <1>7
<1>12. Picks(f, w, list, names)
    BY <1>8, <1>9, <1>10, <1>11 DEF Picks
<1> QED
    BY <1>4, <1>7, <1>12

\* The place of a handler in every list.
Place(h) ==
    CASE h = "ValidateNetworkCfg" -> 1
      [] h = "ValidateJailerCfg" -> 2
      [] h = "ValidateCfg" -> 3
      [] h = "ValidateLoadSnapshotCfg" -> 4
      [] h = "SetupNetwork" -> 5
      [] h = "SetupKernelArgs" -> 6
      [] h = "StartVMM" -> 7
      [] h = "CreateLogFiles" -> 8
      [] h = "LinkFilesToRootFS" -> 9
      [] h = "BootstrapLogging" -> 10
      [] h = "CreateMachine" -> 11
      [] h = "CreateBootSource" -> 12
      [] h = "AttachDrives" -> 13
      [] h = "CreateNetworkInterfaces" -> 14
      [] h = "AddVsocks" -> 15
      [] h = "ConfigMmds" -> 16
      [] OTHER -> 17

Names == {"ValidateNetworkCfg", "ValidateJailerCfg", "ValidateCfg",
          "ValidateLoadSnapshotCfg", "SetupNetwork", "SetupKernelArgs", "StartVMM",
          "CreateLogFiles", "LinkFilesToRootFS", "BootstrapLogging",
          "CreateMachine", "CreateBootSource", "AttachDrives",
          "CreateNetworkInterfaces", "AddVsocks", "ConfigMmds", "LoadSnapshot"}

LEMMA Places == \A h \in Names : Place(h) \in 1 .. 17
BY DEF Names, Place

InOrder(l) ==
    /\ l \in Seq(Names)
    /\ \A j, k \in DOMAIN l : j < k => Place(l[j]) < Place(l[k])

\* What is left of a list once its first handler has run.
LEMMA TailInOrder ==
    ASSUME NEW l, InOrder(l), l # <<>>
    PROVE  /\ InOrder(Tail(l)) /\ Head(l) \in Names
           /\ \A h \in Range(l) : h = Head(l) \/ Place(Head(l)) < Place(h)
           /\ Range(Tail(l)) = Range(l) \ {Head(l)}
           /\ Head(l) \in Range(l)
<1>1. /\ l \in Seq(Names) /\ Len(l) \in Nat /\ DOMAIN l = 1 .. Len(l)
      /\ Len(l) # 0
    BY LenProperties, EmptySeq DEF InOrder
<1>2. /\ Tail(l) \in Seq(Names) /\ Head(l) \in Names
      /\ DOMAIN Tail(l) = 1 .. Len(l) - 1
      /\ \A k \in 1 .. Len(l) - 1 : Tail(l)[k] = l[k + 1]
    BY <1>1, HeadTailProperties, LenProperties
<1>3. Head(l) = l[1] /\ 1 \in DOMAIN l
    BY <1>1
<1>4. InOrder(Tail(l))
    BY <1>1, <1>2 DEF InOrder
<1>5. \A j \in DOMAIN l : j = 1 \/ Place(l[1]) < Place(l[j])
    BY <1>1 DEF InOrder
<1>6. \A j \in DOMAIN l : j # 1 => l[j] # l[1]
  <2> SUFFICES ASSUME NEW j \in DOMAIN l, j # 1, l[j] = l[1] PROVE FALSE
      OBVIOUS
  <2>1. Place(l[1]) < Place(l[1])
      BY <1>5
  <2>2. Place(l[1]) \in Int
      BY <1>2, <1>3, Places
  <2> QED
      BY <2>1, <2>2
<1>7. Range(Tail(l)) = Range(l) \ {Head(l)}
  <2>1. ASSUME NEW h \in Range(Tail(l)) PROVE h \in Range(l) \ {Head(l)}
    <3>1. PICK k \in 1 .. Len(l) - 1 : h = l[k + 1]
        BY <1>2, <2>1 DEF Range
    <3>2. k + 1 \in DOMAIN l /\ k + 1 # 1
        BY <1>1
    <3> QED
        BY <3>1, <3>2, <1>3, <1>6 DEF Range
  <2>2. ASSUME NEW h \in Range(l) \ {Head(l)} PROVE h \in Range(Tail(l))
    <3>1. PICK j \in DOMAIN l : h = l[j]
        BY DEF Range
    <3>2. j # 1 /\ j - 1 \in 1 .. Len(l) - 1 /\ (j - 1) + 1 = j
        BY <1>1, <1>3, <3>1
    <3> QED
        BY <3>1, <3>2, <1>2 DEF Range
  <2> QED
      BY <2>1, <2>2
<1> QED
    BY <1>2, <1>3, <1>4, <1>5, <1>7 DEF Range

\* Two lists, one behind the other.
LEMMA ConcatInOrder ==
    ASSUME NEW s, NEW t, InOrder(s), InOrder(t),
           \A g \in Range(s), h \in Range(t) : Place(g) < Place(h)
    PROVE  InOrder(s \o t) /\ Range(s \o t) = Range(s) \cup Range(t)
<1>1. /\ s \in Seq(Names) /\ t \in Seq(Names)
      /\ Len(s) \in Nat /\ DOMAIN s = 1 .. Len(s)
      /\ Len(t) \in Nat /\ DOMAIN t = 1 .. Len(t)
    BY LenProperties DEF InOrder
<1>2. /\ s \o t \in Seq(Names) /\ DOMAIN (s \o t) = 1 .. Len(s) + Len(t)
      /\ \A k \in 1 .. Len(s) + Len(t) :
            (s \o t)[k] = IF k <= Len(s) THEN s[k] ELSE t[k - Len(s)]
    BY <1>1, ConcatProperties, LenProperties
<1>3. ASSUME NEW j \in DOMAIN (s \o t), NEW k \in DOMAIN (s \o t), j < k
      PROVE  Place((s \o t)[j]) < Place((s \o t)[k])
  <2>1. CASE k <= Len(s)
    <3>1. (s \o t)[j] = s[j] /\ (s \o t)[k] = s[k] /\ j \in DOMAIN s /\ k \in DOMAIN s
        BY <1>1, <1>2, <1>3, <2>1
    <3> QED
        BY <1>3, <3>1 DEF InOrder
  <2>2. CASE j > Len(s)
    <3>1. /\ (s \o t)[j] = t[j - Len(s)] /\ (s \o t)[k] = t[k - Len(s)]
          /\ j - Len(s) \in DOMAIN t /\ k - Len(s) \in DOMAIN t
          /\ j - Len(s) < k - Len(s)
        BY <1>1, <1>2, <1>3, <2>2
    <3> QED
        BY <3>1 DEF InOrder
  <2>3. CASE j <= Len(s) /\ k > Len(s)
    <3>1. /\ (s \o t)[j] = s[j] /\ (s \o t)[k] = t[k - Len(s)]
          /\ j \in DOMAIN s /\ k - Len(s) \in DOMAIN t
        BY <1>1, <1>2, <1>3, <2>3
    <3> QED
        BY <3>1 DEF Range
  <2> QED
      BY <1>1, <1>2, <2>1, <2>2, <2>3
<1> QED
    BY <1>1, <1>2, <1>3, RangeConcatenation DEF InOrder

\* Handlers removed from a list.
LEMMA WithoutInOrder ==
    ASSUME NEW l, InOrder(l), NEW names
    PROVE  /\ InOrder(Without(l, names))
           /\ Range(Without(l, names)) = Range(l) \ names
<1> DEFINE w == Without(l, names)
<1> HIDE DEF w
<1>1. w \in Seq(Names)
    BY WithoutKeeps DEF InOrder, w
<1>2. PICK f : Picks(f, w, l, names)
    BY WithoutKeeps DEF InOrder, w
<1>3. InOrder(w)
    BY <1>1, <1>2 DEF InOrder, Picks
<1>4. \A h \in Range(w) : h \in Range(l) \ names
    BY <1>2 DEF Picks, Range
<1>5. \A h \in Range(l) \ names : h \in Range(w)
    BY <1>2 DEF Picks, Range
<1>6. Range(w) = Range(l) \ names
    BY <1>4, <1>5
<1> QED
    BY <1>3, <1>6 DEF w

Early == {"SetupNetwork", "SetupKernelArgs", "StartVMM", "CreateLogFiles"}
Late == {"BootstrapLogging", "CreateMachine", "CreateBootSource", "AttachDrives",
         "CreateNetworkInterfaces", "AddVsocks", "ConfigMmds"}

LEMMA DefaultInOrder ==
    /\ InOrder(defaultFcInitHandlerList)
    /\ Range(defaultFcInitHandlerList) = Early \cup Late
<1> DEFINE l == defaultFcInitHandlerList
<1>1. l \in Seq(Names) /\ DOMAIN l = 1 .. 11
    BY DEF defaultFcInitHandlerList, Names
<1>2. \A j \in 1 .. 11 : Place(l[j]) = IF j <= 4 THEN j + 4 ELSE j + 5
    BY DEF defaultFcInitHandlerList, Place
<1>3. InOrder(l)
  <2> HIDE DEF l
  <2> QED
      BY <1>1, <1>2 DEF InOrder
<1>4. Range(l) = {l[j] : j \in 1 .. 11}
    BY <1>1 DEF Range
<1>5. {l[j] : j \in 1 .. 11} = Early \cup Late
    BY DEF defaultFcInitHandlerList, Early, Late
<1> QED
    BY <1>3, <1>4, <1>5

\* The jailer's handler gets its place behind CreateLogFiles.
LEMMA AdaptInOrder ==
    LET l == AdaptHandlers(defaultFcInitHandlerList)
    IN  InOrder(l) /\ Range(l) = Early \cup {"LinkFilesToRootFS"} \cup Late
<1> DEFINE l == defaultFcInitHandlerList
           at == CHOOSE j \in DOMAIN l : l[j] = "CreateLogFiles"
           a == SubSeq(l, 1, 4)
           b == SubSeq(l, 5, 11)
<1>1. l \in Seq(Names) /\ DOMAIN l = 1 .. 11 /\ Len(l) = 11
    BY DEF defaultFcInitHandlerList, Names
<1>2. at = 4
  <2>1. \A j \in 1 .. 11 : l[j] = "CreateLogFiles" <=> j = 4
      BY DEF defaultFcInitHandlerList
  <2> QED
      BY <1>1, <2>1
<1>3. AdaptHandlers(l) = a \o <<"LinkFilesToRootFS">> \o b
  <2>1. AdaptHandlers(l) = SubSeq(l, 1, at) \o <<"LinkFilesToRootFS">>
                                \o SubSeq(l, at + 1, Len(l))
      BY DEF AdaptHandlers
  <2> HIDE DEF l, at
  <2> QED
      BY <2>1, <1>1, <1>2
<1>4. InOrder(a) /\ Range(a) = Early
  <2>1. \A j \in 1 .. 4 : l[j] \in Names
      BY DEF defaultFcInitHandlerList, Names
  <2>2. a \in Seq(Names) /\ DOMAIN a = 1 .. 4 /\ \A j \in 1 .. 4 : a[j] = l[j]
      BY <2>1, SubSeqProperties, LenProperties
  <2>3. \A j \in 1 .. 4 : Place(l[j]) = j + 4
      BY DEF defaultFcInitHandlerList, Place
  <2>4. {l[j] : j \in 1 .. 4} = Early
      BY DEF defaultFcInitHandlerList, Early
  <2> HIDE DEF a, l
  <2>5. InOrder(a)
      BY <2>2, <2>3 DEF InOrder
  <2> QED
      BY <2>2, <2>4, <2>5 DEF Range
<1>5. InOrder(b) /\ Range(b) = Late
  <2>1. \A j \in 5 .. 11 : l[j] \in Names
      BY DEF defaultFcInitHandlerList, Names
  <2>2. b \in Seq(Names) /\ DOMAIN b = 1 .. 7 /\ \A j \in 1 .. 7 : b[j] = l[j + 4]
      BY <2>1, SubSeqProperties, LenProperties
  <2>3. \A j \in 1 .. 7 : Place(l[j + 4]) = j + 9
      BY DEF defaultFcInitHandlerList, Place
  <2>4. {l[j + 4] : j \in 1 .. 7} = Late
      BY DEF defaultFcInitHandlerList, Late
  <2> HIDE DEF b, l
  <2>5. InOrder(b)
      BY <2>2, <2>3 DEF InOrder
  <2> QED
      BY <2>2, <2>4, <2>5 DEF Range
<1> HIDE DEF a, b, l
<1>6. /\ InOrder(<<"LinkFilesToRootFS">>)
      /\ Range(<<"LinkFilesToRootFS">>) = {"LinkFilesToRootFS"}
    BY DEF InOrder, Names, Range
<1>7. \A g \in Early : Place(g) < 9
    BY DEF Early, Place
<1>8. \A h \in Late : Place(h) \in 10 .. 16
    BY DEF Late, Place
<1>9. Place("LinkFilesToRootFS") = 9 /\ \A g \in Early : Place(g) \in Int
    BY DEF Place, Early
<1>10. /\ InOrder(a \o <<"LinkFilesToRootFS">>)
       /\ Range(a \o <<"LinkFilesToRootFS">>) = Early \cup {"LinkFilesToRootFS"}
    BY <1>4, <1>6, <1>7, <1>9, ConcatInOrder
<1>11. \A g \in Early \cup {"LinkFilesToRootFS"}, h \in Late : Place(g) < Place(h)
    BY <1>7, <1>8, <1>9
<1> QED
    BY <1>3, <1>5, <1>10, <1>11, ConcatInOrder DEF l

\* The handlers that Start runs.
HandlersOf == (IF cfg.unchecked THEN <<>> ELSE Validation) \o FcInit

\* Which handlers are in the list depends on the Config; their order does not.
LEMMA ListInOrder ==
    ASSUME cfg \in ConfigFields
    PROVE  /\ InOrder(HandlersOf)
           /\ {"SetupNetwork", "StartVMM"} \subseteq Range(HandlersOf)
           /\ ~cfg.unchecked => "ValidateNetworkCfg" \in Range(HandlersOf)
           /\ "CreateBootSource" \in Range(HandlersOf)
                => "SetupKernelArgs" \in Range(HandlersOf)
           /\ cfg.snapshot = "option"
                => Range(HandlersOf) \cap loadSnapshotRemoveHandlerList = {}
           /\ "LoadSnapshot" \in Range(HandlersOf) => cfg.snapshot = "option"
           /\ "LinkFilesToRootFS" \in Range(HandlersOf) <=> cfg.jailed
           /\ ~cfg.jailed /\ ~cfg.unchecked
                => Range(HandlersOf)
                        \cap {"ValidateCfg", "ValidateLoadSnapshotCfg"} # {}
<1> DEFINE full == IF cfg.jailed THEN AdaptHandlers(defaultFcInitHandlerList)
                                 ELSE defaultFcInitHandlerList
           link == IF cfg.jailed THEN {"LinkFilesToRootFS"} ELSE {}
           checks == <<"ValidateNetworkCfg",
                       IF cfg.jailed THEN "ValidateJailerCfg" ELSE "ValidateCfg">>
           looks == {"ValidateNetworkCfg",
                     IF cfg.jailed THEN "ValidateJailerCfg" ELSE "ValidateCfg"}
<1>1. InOrder(full) /\ Range(full) = Early \cup link \cup Late
    BY DefaultInOrder, AdaptInOrder
<1>2. InOrder(checks) /\ Range(checks) = looks
  <2>1. checks \in Seq(Names) /\ DOMAIN checks = 1 .. 2
      BY DEF Names
  <2>2. Place(checks[1]) = 1 /\ Place(checks[2]) \in 2 .. 3
      BY DEF Place
  <2>3. checks[1] = "ValidateNetworkCfg"
        /\ checks[2] = IF cfg.jailed THEN "ValidateJailerCfg" ELSE "ValidateCfg"
      OBVIOUS
  <2> HIDE DEF checks
  <2> QED
      BY <2>1, <2>2, <2>3 DEF InOrder, Range
<1> HIDE DEF full, checks
<1>3. /\ InOrder(<<>>) /\ Range(<<>>) = {}
      /\ InOrder(<<"LoadSnapshot">>) /\ Range(<<"LoadSnapshot">>) = {"LoadSnapshot"}
      /\ InOrder(<<"ValidateLoadSnapshotCfg">>)
      /\ Range(<<"ValidateLoadSnapshotCfg">>) = {"ValidateLoadSnapshotCfg"}
    BY DEF InOrder, Names, Range
<1>4. /\ \A g \in Early \cup {"LinkFilesToRootFS"} \cup Late :
            Place(g) \in 5 .. 16
      /\ Place("LoadSnapshot") = 17 /\ Place("ValidateLoadSnapshotCfg") = 4
      /\ \A g \in looks : Place(g) \in 1 .. 3
    BY DEF Early, Late, Place
<1>5. /\ InOrder(FcInit)
      /\ Range(FcInit) = IF cfg.snapshot = "option"
            THEN ((Early \cup link \cup Late) \ loadSnapshotRemoveHandlerList)
                    \cup {"LoadSnapshot"}
            ELSE Early \cup link \cup Late
  <2> DEFINE w == Without(full, loadSnapshotRemoveHandlerList)
  <2>1. /\ InOrder(w)
        /\ Range(w) = (Early \cup link \cup Late) \ loadSnapshotRemoveHandlerList
      BY <1>1, WithoutInOrder
  <2>2. FcInit = IF cfg.snapshot = "option" THEN Append(w, "LoadSnapshot") ELSE full
      BY DEF FcInit, modifyHandlersForLoadSnapshot, full
  <2> HIDE DEF w
  <2>3. Append(w, "LoadSnapshot") = w \o <<"LoadSnapshot">>
      BY <2>1, AppendIsConcat DEF InOrder, Names
  <2>4. /\ InOrder(w \o <<"LoadSnapshot">>)
        /\ Range(w \o <<"LoadSnapshot">>) = Range(w) \cup {"LoadSnapshot"}
    <3>1. \A g \in Range(w), h \in {"LoadSnapshot"} : Place(g) < Place(h)
        BY <2>1, <1>4
    <3> QED
        BY <3>1, <2>1, <1>3, ConcatInOrder
  <2> QED
      BY <2>1, <2>2, <2>3, <2>4, <1>1
<1>6. /\ InOrder(Validation)
      /\ Range(Validation) = IF cfg.snapshot = "option"
            THEN (looks \ {"ValidateCfg"}) \cup {"ValidateLoadSnapshotCfg"}
            ELSE looks
  <2> DEFINE w == Without(checks, {"ValidateCfg"})
             v == "ValidateLoadSnapshotCfg"
  <2>1. InOrder(w) /\ Range(w) = looks \ {"ValidateCfg"}
      BY <1>2, WithoutInOrder
  <2>2. Validation = IF cfg.snapshot = "option" THEN Append(w, v) ELSE checks
      BY DEF Validation, checks
  <2> HIDE DEF w
  <2>3. Append(w, v) = w \o <<v>>
      BY <2>1, AppendIsConcat DEF InOrder, Names
  <2>4. InOrder(w \o <<v>>) /\ Range(w \o <<v>>) = Range(w) \cup {v}
    <3>1. \A g \in Range(w), h \in {v} : Place(g) < Place(h)
        BY <2>1, <1>4
    <3> QED
        BY <3>1, <2>1, <1>3, ConcatInOrder
  <2> QED
      BY <2>1, <2>2, <2>3, <2>4, <1>2
<1> DEFINE front == IF cfg.unchecked THEN <<>> ELSE Validation
<1>7. /\ InOrder(front)
      /\ Range(front) = IF cfg.unchecked THEN {} ELSE Range(Validation)
    BY <1>3, <1>6
<1>8. HandlersOf = front \o FcInit
    BY DEF HandlersOf
<1> HIDE DEF front
<1>9. \A g \in Range(front), h \in Range(FcInit) : Place(g) < Place(h)
  <2>1. \A g \in Range(front) : Place(g) \in 1 .. 4
      BY <1>4, <1>6, <1>7
  <2>2. \A h \in Range(FcInit) : Place(h) \in 5 .. 17
      BY <1>4, <1>5
  <2> QED
      BY <2>1, <2>2
<1>10. InOrder(HandlersOf) /\ Range(HandlersOf) = Range(front) \cup Range(FcInit)
    BY <1>5, <1>7, <1>8, <1>9, ConcatInOrder
<1>11. cfg.jailed \in BOOLEAN /\ cfg.unchecked \in BOOLEAN
    BY DEF ConfigFields
<1> QED
    BY <1>5, <1>6, <1>7, <1>10, <1>11
       DEF Early, Late, loadSnapshotRemoveHandlerList

-------------------------------------------------------------------------------
(* How a step changes the lists and the requests. *)

LEMMA FrontSeq ==
    ASSUME NEW s, IsSeq(s), NEW k \in 0 .. Len(s)
    PROVE  /\ IsSeq(SubSeq(s, 1, k)) /\ Len(SubSeq(s, 1, k)) = k
           /\ \A j \in 1 .. k : SubSeq(s, 1, k)[j] = s[j]
<1>1. Len(s) \in Nat /\ DOMAIN s = 1 .. Len(s)
    BY SeqFacts
<1>2. \A j \in 1 .. k : s[j] \in Range(s)
    BY <1>1 DEF Range
<1>3. /\ SubSeq(s, 1, k) \in Seq(Range(s))
      /\ Len(SubSeq(s, 1, k)) = IF 1 <= k THEN k - 1 + 1 ELSE 0
      /\ \A j \in 1 .. k - 1 + 1 : SubSeq(s, 1, k)[j] = s[1 + j - 1]
    BY <1>1, <1>2, SubSeqProperties
<1>4. IsSeq(SubSeq(s, 1, k))
    BY <1>3, SeqOfRange DEF IsSeq
<1>5. k \in Nat /\ k - 1 + 1 = k
    BY <1>1
<1>6. \A j \in 1 .. k : 1 + j - 1 = j
    BY <1>5
<1> QED
    BY <1>3, <1>4, <1>5, <1>6

\* The step adds at most n requests to those of m, all of them in R; it adds one
\* only if somebody listens.
Adds(m, R, n) ==
    /\ DOMAIN reqs' = DOMAIN reqs /\ IsSeq(reqs'[m])
    /\ Len(reqs'[m]) \in Len(reqs[m]) .. Len(reqs[m]) + n
    /\ \A j \in 1 .. Len(reqs[m]) : reqs'[m][j] = reqs[m][j]
    /\ \A j \in Len(reqs[m]) + 1 .. Len(reqs'[m]) :
        reqs'[m][j] \in R /\ server \in Machines
    /\ \A o \in DOMAIN reqs \ {m} : reqs'[o] = reqs[o]

ReqsOK == DOMAIN reqs = Machines /\ \A m \in Machines : IsSeq(reqs[m])

LEMMA PrefixAdds ==
    ASSUME ReqsOK, NEW m \in Machines, NEW rs, IsSeq(rs), NEW k \in 0 .. Len(rs),
           k > 0 => server \in Machines,
           reqs' = [reqs EXCEPT ![m] = @ \o SubSeq(rs, 1, k)]
    PROVE  Adds(m, Range(rs), Len(rs))
<1> DEFINE t == SubSeq(rs, 1, k)
<1>1. IsSeq(t) /\ Len(t) = k /\ \A j \in 1 .. k : t[j] = rs[j]
    BY FrontSeq
<1>2. Len(rs) \in Nat /\ DOMAIN rs = 1 .. Len(rs) /\ k \in Nat
    BY SeqFacts
<1>3. IsSeq(reqs[m]) /\ Len(reqs[m]) \in Nat
    BY SeqFacts DEF ReqsOK
<1>4. /\ reqs'[m] = reqs[m] \o t /\ DOMAIN reqs' = DOMAIN reqs
      /\ \A o \in DOMAIN reqs \ {m} : reqs'[o] = reqs[o]
    BY DEF ReqsOK
<1> HIDE DEF t
<1>5. /\ IsSeq(reqs'[m]) /\ Len(reqs'[m]) = Len(reqs[m]) + k
      /\ \A j \in 1 .. Len(reqs[m]) : reqs'[m][j] = reqs[m][j]
      /\ \A j \in Len(reqs[m]) + 1 .. Len(reqs[m]) + k :
            reqs'[m][j] = t[j - Len(reqs[m])]
  <2>1. /\ IsSeq(reqs[m] \o t) /\ Len(reqs[m] \o t) = Len(reqs[m]) + Len(t)
        /\ \A j \in 1 .. Len(reqs[m]) : (reqs[m] \o t)[j] = reqs[m][j]
        /\ \A j \in Len(reqs[m]) + 1 .. Len(reqs[m]) + Len(t) :
            (reqs[m] \o t)[j] = t[j - Len(reqs[m])]
      BY <1>1, <1>3, JoinedSeqs
  <2> QED
      BY <2>1, <1>1, <1>4
<1>6. ASSUME NEW j \in Len(reqs[m]) + 1 .. Len(reqs'[m])
      PROVE  reqs'[m][j] \in Range(rs) /\ server \in Machines
  <2>1. /\ j - Len(reqs[m]) \in 1 .. k /\ j - Len(reqs[m]) \in DOMAIN rs /\ k > 0
        /\ j \in Len(reqs[m]) + 1 .. Len(reqs[m]) + k
      BY <1>2, <1>3, <1>5
  <2> QED
      BY <2>1, <1>1, <1>5 DEF Range
<1> QED
    BY <1>2, <1>3, <1>4, <1>5, <1>6 DEF Adds

\* A handler has run to its end: the next one is up, or Start has failed.
Ended(m) ==
    \/ Done(m)
    \/ st' = [st EXCEPT ![m] = "err"] /\ todo' = [todo EXCEPT ![m] = <<>>]

LEMMA FailsAdds ==
    ASSUME ReqsOK, NEW m \in Machines, NEW rs, IsSeq(rs), SendFails(m, rs)
    PROVE  Adds(m, Range(rs), Len(rs)) /\ Ended(m)
<1>1. PICK k \in 0 .. Len(rs) :
            /\ k > 0 => server \in Machines
            /\ reqs' = [reqs EXCEPT ![m] = @ \o SubSeq(rs, 1, k)]
            /\ Fail(m)
    BY DEF SendFails
<1> QED
    BY <1>1, PrefixAdds DEF Fail, Ended

LEMMA SendAdds ==
    ASSUME ReqsOK, NEW m \in Machines, NEW rs, IsSeq(rs), Send(m, rs)
    PROVE  Adds(m, Range(rs), Len(rs)) /\ Ended(m)
<1>1. CASE rs # <<>> /\ SendFails(m, rs)
    BY <1>1, FailsAdds
<1>2. CASE /\ rs = <<>> \/ server \in Machines
           /\ reqs' = [reqs EXCEPT ![m] = @ \o rs]
           /\ Done(m)
  <2>1. SubSeq(rs, 1, Len(rs)) = rs
      BY SubSeqFull DEF IsSeq
  <2>2. Len(rs) \in 0 .. Len(rs) /\ (Len(rs) > 0 => server \in Machines)
      BY <1>2, SeqFacts
  <2> QED
      BY <1>2, <2>1, <2>2, PrefixAdds DEF Ended
<1> QED
    BY <1>1, <1>2 DEF Send

\* The requests that a handler may send.
Asked(m, h) ==
    CASE h = "BootstrapLogging" /\ cfg.log # "none" ->
            {Request("logger", own[m].log), Request("metrics", own[m].metrics)}
      [] h = "CreateMachine" -> {Request("machine", "config")}
      [] h = "CreateBootSource" ->
            {Request("boot", [kernel |-> own[m].kernel, initrd |-> own[m].initrd,
                              args |-> own[m].args])}
      [] h = "AttachDrives" ->
            {Request("drive", drives[j].path) : j \in DOMAIN drives}
      [] h = "CreateNetworkInterfaces" ->
            {Request("iface", [dev |-> ifaces[j].dev, mac |-> ifaces[j].mac,
                               ip |-> ifaces[j].ip]) : j \in DOMAIN ifaces}
      [] h = "AddVsocks" -> {Request("vsock", UdsPath)}
      [] h = "ConfigMmds" ->
            {Request("mmds", {j \in DOMAIN ifaces : ifaces[j].mmds})}
      [] h = "LoadSnapshot" -> {Request("load", SnapshotPaths)}
      [] OTHER -> {}

SharedOK == IsSeq(ifaces) /\ IsSeq(drives)

LEMMA AddsMore ==
    ASSUME NEW m, NEW R, NEW Q, R \subseteq Q, NEW n, Adds(m, R, n)
    PROVE  Adds(m, Q, n)
    BY DEF Adds

LEMMA AddsLonger ==
    ASSUME NEW m, NEW R, NEW n \in Nat, NEW p \in Nat, n <= p, Adds(m, R, n),
           Len(reqs[m]) \in Nat
    PROVE  Adds(m, R, p)
<1>1. Len(reqs'[m]) \in Len(reqs[m]) .. Len(reqs[m]) + n
    BY DEF Adds
<1>2. Len(reqs'[m]) \in Len(reqs[m]) .. Len(reqs[m]) + p
    BY <1>1
<1> QED
    BY <1>2 DEF Adds

LEMMA NothingAdded ==
    ASSUME ReqsOK, NEW m \in Machines, UNCHANGED reqs, NEW R, NEW n \in Nat
    PROVE  Adds(m, R, n)
<1>1. IsSeq(reqs[m]) /\ Len(reqs[m]) \in Nat
    BY SeqFacts DEF ReqsOK
<1> QED
    BY <1>1 DEF Adds

\* A handler that sends requests.
Sends(m, h) == /\ Runs(m, h) /\ Ended(m)
               /\ \E n \in Nat : Adds(m, Asked(m, h), n)
               /\ h = "LoadSnapshot" => Adds(m, Asked(m, h), 1)

LEMMA HandlerSends ==
    ASSUME ReqsOK, SharedOK, NEW m \in Machines
    PROVE  /\ BootstrapLogging(m) => Sends(m, "BootstrapLogging")
           /\ createMachine(m) => Sends(m, "CreateMachine")
           /\ createBootSource(m) => Sends(m, "CreateBootSource")
           /\ attachDrives(m) => Sends(m, "AttachDrives")
           /\ createNetworkInterfaces(m) => Sends(m, "CreateNetworkInterfaces")
           /\ addVsocks(m) => Sends(m, "AddVsocks")
           /\ setMmdsConfig(m) => Sends(m, "ConfigMmds")
           /\ loadSnapshot(m) => Sends(m, "LoadSnapshot")
<1>1. ASSUME NEW h, NEW rs, IsSeq(rs), Runs(m, h), h # "LoadSnapshot",
             Send(m, rs) \/ SendFails(m, rs), Range(rs) \subseteq Asked(m, h)
      PROVE  Sends(m, h)
  <2>1. Adds(m, Range(rs), Len(rs)) /\ Ended(m) /\ Len(rs) \in Nat
      BY <1>1, SendAdds, FailsAdds, SeqFacts
  <2> QED
      BY <1>1, <2>1, AddsMore DEF Sends
<1>2. ASSUME BootstrapLogging(m) PROVE Sends(m, "BootstrapLogging")
  <2> DEFINE rs == IF cfg.log = "none" THEN <<>>
                   ELSE <<Request("logger", own[m].log),
                          Request("metrics", own[m].metrics)>>
  <2>1. IsSeq(rs) /\ Range(rs) \subseteq Asked(m, "BootstrapLogging")
      BY Singles DEF Asked
  <2>2. Runs(m, "BootstrapLogging") /\ Send(m, rs)
      BY <1>2 DEF BootstrapLogging
  <2> HIDE DEF rs
  <2> QED
      BY <1>1, <2>1, <2>2
<1>3. ASSUME createMachine(m) PROVE Sends(m, "CreateMachine")
  <2> DEFINE rs == <<Request("machine", "config")>>
  <2>1. IsSeq(rs) /\ Range(rs) \subseteq Asked(m, "CreateMachine")
      BY Singles DEF Asked
  <2>2. Runs(m, "CreateMachine") /\ Send(m, rs)
      BY <1>3 DEF createMachine
  <2> HIDE DEF rs
  <2> QED
      BY <1>1, <2>1, <2>2
<1>4. ASSUME createBootSource(m) PROVE Sends(m, "CreateBootSource")
  <2> DEFINE rs == <<Request("boot", [kernel |-> own[m].kernel,
                                      initrd |-> own[m].initrd,
                                      args |-> own[m].args])>>
  <2>1. IsSeq(rs) /\ Range(rs) \subseteq Asked(m, "CreateBootSource")
      BY Singles DEF Asked
  <2>2. Runs(m, "CreateBootSource") /\ Send(m, rs)
      BY <1>4 DEF createBootSource
  <2> HIDE DEF rs
  <2> QED
      BY <1>1, <2>1, <2>2
<1>5. ASSUME attachDrives(m) PROVE Sends(m, "AttachDrives")
  <2> DEFINE rs == [j \in DOMAIN drives |-> Request("drive", drives[j].path)]
  <2>1. Len(drives) \in Nat /\ DOMAIN drives = 1 .. Len(drives)
      BY SeqFacts DEF SharedOK
  <2>2. Range(rs) = Asked(m, "AttachDrives")
      BY DEF Asked, Range
  <2>3. IsSeq(rs)
    <3>1. \A j \in 1 .. Len(drives) : Request("drive", drives[j].path) \in Range(rs)
        BY <2>1 DEF Range
    <3> QED
        BY <3>1, <2>1, IsASeq DEF IsSeq
  <2>4. Runs(m, "AttachDrives") /\ Send(m, rs)
      BY <1>5 DEF attachDrives
  <2> HIDE DEF rs
  <2> QED
      BY <1>1, <2>2, <2>3, <2>4
<1>6. ASSUME createNetworkInterfaces(m) PROVE Sends(m, "CreateNetworkInterfaces")
  <2> DEFINE rs == [j \in DOMAIN ifaces |->
                    Request("iface", [dev |-> ifaces[j].dev, mac |-> ifaces[j].mac,
                                      ip |-> ifaces[j].ip])]
             lacking == {j \in DOMAIN ifaces : ifaces[j].dev = <<>>}
  <2>1. Len(ifaces) \in Nat /\ DOMAIN ifaces = 1 .. Len(ifaces)
      BY SeqFacts DEF SharedOK
  <2>2. Range(rs) = Asked(m, "CreateNetworkInterfaces")
      BY DEF Asked, Range
  <2>3. IsSeq(rs)
    <3>1. \A j \in 1 .. Len(ifaces) : rs[j] \in Range(rs)
        BY <2>1 DEF Range
    <3>2. rs = [j \in 1 .. Len(ifaces) |-> rs[j]]
        BY <2>1
    <3> HIDE DEF rs
    <3> QED
        BY <3>1, <3>2, <2>1, IsASeq DEF IsSeq
  <2>4. /\ Runs(m, "CreateNetworkInterfaces")
        /\ \/ Send(m, rs)
           \/ \E j \in lacking : SendFails(m, SubSeq(rs, 1, j - 1))
      BY <1>6 DEF createNetworkInterfaces
  <2>5. Len(rs) = Len(ifaces)
    <3>1. DOMAIN rs = DOMAIN ifaces
        OBVIOUS
    <3> HIDE DEF rs
    <3> QED
        BY <3>1, <2>1, <2>3, SeqFacts
  <2>6. \A j \in lacking : j \in 1 .. Len(ifaces)
      BY <2>1
  <2> HIDE DEF rs, lacking
  <2>7. CASE Send(m, rs)
      BY <1>1, <2>2, <2>3, <2>4, <2>7
  <2>8. CASE \E j \in lacking : SendFails(m, SubSeq(rs, 1, j - 1))
    <3>1. PICK j \in lacking : SendFails(m, SubSeq(rs, 1, j - 1))
        BY <2>8
    <3> DEFINE t == SubSeq(rs, 1, j - 1)
    <3>2. j - 1 \in 0 .. Len(rs)
        BY <2>1, <2>5, <2>6
    <3>3. IsSeq(t) /\ Len(t) = j - 1 /\ \A k \in 1 .. j - 1 : t[k] = rs[k]
        BY <3>2, <2>3, FrontSeq
    <3>4. SendFails(m, t)
        BY <3>1
    <3> HIDE DEF t
    <3>5. Range(t) \subseteq Range(rs)
      <4>1. DOMAIN t = 1 .. j - 1 /\ DOMAIN rs = 1 .. Len(rs) /\ Len(rs) \in Nat
          BY <3>3, <2>3, SeqFacts
      <4> QED
          BY <4>1, <3>2, <3>3 DEF Range
    <3> QED
        BY <1>1, <2>2, <2>4, <3>3, <3>4, <3>5
  <2> QED
      BY <2>4, <2>7, <2>8
<1>7. ASSUME addVsocks(m) PROVE Sends(m, "AddVsocks")
  <2> DEFINE rs == IF cfg.vsock THEN <<Request("vsock", UdsPath)>> ELSE <<>>
  <2>1. IsSeq(rs) /\ Range(rs) \subseteq Asked(m, "AddVsocks")
      BY Singles DEF Asked
  <2>2. Runs(m, "AddVsocks") /\ Send(m, rs)
      BY <1>7 DEF addVsocks
  <2> HIDE DEF rs
  <2> QED
      BY <1>1, <2>1, <2>2
<1>8. ASSUME setMmdsConfig(m) PROVE Sends(m, "ConfigMmds")
  <2> DEFINE allowed == {j \in DOMAIN ifaces : ifaces[j].mmds}
             rs == IF allowed = {} THEN <<>> ELSE <<Request("mmds", allowed)>>
  <2>1. IsSeq(rs) /\ Range(rs) \subseteq Asked(m, "ConfigMmds")
      BY Singles DEF Asked
  <2>2. Runs(m, "ConfigMmds") /\ Send(m, rs)
      BY <1>8 DEF setMmdsConfig
  <2> HIDE DEF rs
  <2> QED
      BY <1>1, <2>1, <2>2
<1>9. ASSUME loadSnapshot(m) PROVE Sends(m, "LoadSnapshot")
  <2> DEFINE rs == <<Request("load", SnapshotPaths)>>
  <2>1. IsSeq(rs) /\ Range(rs) = Asked(m, "LoadSnapshot") /\ Len(rs) = 1
      BY Singles DEF Asked
  <2>2. Runs(m, "LoadSnapshot") /\ Send(m, rs)
      BY <1>9 DEF loadSnapshot
  <2> HIDE DEF rs
  <2>3. Adds(m, Asked(m, "LoadSnapshot"), 1) /\ Ended(m)
      BY <2>1, <2>2, SendAdds
  <2> QED
      BY <2>2, <2>3 DEF Sends
<1> QED
    BY <1>2, <1>3, <1>4, <1>5, <1>6, <1>7, <1>8, <1>9

\* A handler that ends without a request.
LEMMA HandlerQuiet ==
    ASSUME ReqsOK, NEW m \in Machines,
           \/ ValidateNetwork(m) \/ ValidateJailer(m) \/ Validate(m)
           \/ ValidateLoadSnapshot(m) \/ setupNetwork(m) \/ setupKernelArgs(m)
           \/ startVMM(m) \/ CreateLogFiles(m) \/ LinkFiles(m)
    PROVE  \E h \in Names : h # "LoadSnapshot" /\ Sends(m, h)
<1>1. UNCHANGED reqs /\ Ended(m)
    BY DEF ValidateNetwork, ValidateJailer, Validate, ValidateLoadSnapshot, Check,
           setupNetwork, setupKernelArgs, startVMM, CreateLogFiles, LinkFiles, Fail,
           Ended
<1>2. \E h \in {"ValidateNetworkCfg", "ValidateJailerCfg", "ValidateCfg",
                "ValidateLoadSnapshotCfg", "SetupNetwork", "SetupKernelArgs",
                "StartVMM", "CreateLogFiles", "LinkFilesToRootFS"} : Runs(m, h)
    BY Zenon DEF ValidateNetwork, ValidateJailer, Validate, ValidateLoadSnapshot,
           setupNetwork, setupKernelArgs, startVMM, CreateLogFiles, LinkFiles
<1>3. \E h \in Names : h # "LoadSnapshot" /\ Runs(m, h)
    BY <1>2 DEF Names
<1> QED
    BY <1>1, <1>3, NothingAdded DEF Sends

\* Every handler is one of the list, and adds what it may ask for.
LEMMA HandlerShape ==
    ASSUME ReqsOK, SharedOK, NEW m \in Machines, Handler(m)
    PROVE  (\E h \in Names : Sends(m, h)) /\ UNCHANGED <<cfg, cmd>>
<1>1. \E h \in Names : Sends(m, h)
    BY HandlerQuiet, HandlerSends DEF Handler, Names
<1>2. UNCHANGED <<cfg, cmd>>
  <2>1. ASSUME NEW ok, Check(m, ok) PROVE UNCHANGED <<cfg, cmd>>
      BY <2>1 DEF Check
  <2>2. ASSUME NEW rs, Send(m, rs) PROVE UNCHANGED <<cfg, cmd>>
      BY <2>2 DEF Send
  <2>3. CASE \/ ValidateNetwork(m) \/ ValidateJailer(m) \/ Validate(m)
             \/ ValidateLoadSnapshot(m)
      BY <2>1, <2>3, Zenon DEF ValidateNetwork, ValidateJailer, Validate,
                               ValidateLoadSnapshot
  <2>4. CASE \/ BootstrapLogging(m) \/ createMachine(m) \/ createBootSource(m)
             \/ attachDrives(m) \/ addVsocks(m) \/ setMmdsConfig(m)
             \/ loadSnapshot(m)
      BY <2>2, <2>4, Zenon DEF BootstrapLogging, createMachine, createBootSource,
           attachDrives, addVsocks, setMmdsConfig, loadSnapshot
  <2>5. CASE \/ setupNetwork(m) \/ setupKernelArgs(m) \/ startVMM(m)
             \/ CreateLogFiles(m) \/ LinkFiles(m) \/ createNetworkInterfaces(m)
      BY <2>2, <2>5 DEF setupNetwork, setupKernelArgs, startVMM, CreateLogFiles,
           LinkFiles, createNetworkInterfaces
  <2> QED
      BY <2>3, <2>4, <2>5 DEF Handler
<1> QED
    BY <1>1, <1>2

\* Only two handlers write the caller's arrays.
LEMMA SharedKept ==
    ASSUME NEW m, Handler(m), ~setupNetwork(m), ~LinkFiles(m)
    PROVE  UNCHANGED sharedVars
<1>1. ASSUME NEW ok, Check(m, ok) PROVE UNCHANGED sharedVars
    BY <1>1 DEF Check
<1>2. ASSUME NEW rs, Send(m, rs) PROVE UNCHANGED sharedVars
    BY <1>2 DEF Send
<1>3. CASE \/ ValidateNetwork(m) \/ ValidateJailer(m) \/ Validate(m)
           \/ ValidateLoadSnapshot(m)
    BY <1>1, <1>3, Zenon DEF ValidateNetwork, ValidateJailer, Validate,
                             ValidateLoadSnapshot
<1>4. CASE \/ BootstrapLogging(m) \/ createMachine(m) \/ createBootSource(m)
           \/ attachDrives(m) \/ addVsocks(m) \/ setMmdsConfig(m)
           \/ loadSnapshot(m)
    BY <1>2, <1>4, Zenon DEF BootstrapLogging, createMachine, createBootSource,
         attachDrives, addVsocks, setMmdsConfig, loadSnapshot
<1>5. CASE \/ setupKernelArgs(m) \/ startVMM(m) \/ CreateLogFiles(m)
           \/ createNetworkInterfaces(m)
    BY <1>2, <1>5 DEF setupKernelArgs, startVMM, CreateLogFiles,
         createNetworkInterfaces
<1> QED
    BY <1>3, <1>4, <1>5 DEF Handler

\* The last step of Start adds the request for the guest's start, unless the
\* Config has a snapshot.
LEMMA InstanceShape ==
    ASSUME ReqsOK, NEW m \in Machines, startInstance(m)
    PROVE  /\ st[m] = "starting" /\ todo[m] = <<>>
           /\ \/ st' = [st EXCEPT ![m] = "ok"] /\ UNCHANGED todo
              \/ /\ st' = [st EXCEPT ![m] = "err"]
                 /\ todo' = [todo EXCEPT ![m] = <<>>]
           /\ Adds(m, IF hasSnapshot THEN {} ELSE {Request("start", "instance")}, 1)
           /\ UNCHANGED <<cfg, sharedVars, own, cmd, cni, ns, late, chroot>>
<1> DEFINE r == Request("start", "instance")
           rs == IF hasSnapshot THEN <<>> ELSE <<r>>
<1>1. /\ IsSeq(rs) /\ Len(rs) \in Nat /\ Len(rs) <= 1 /\ (rs = <<>> => Len(rs) = 0)
      /\ Range(rs) = IF hasSnapshot THEN {} ELSE {r}
  <2> HIDE DEF r
  <2>1. CASE hasSnapshot
      BY <2>1, Singles
  <2>2. CASE ~hasSnapshot
    <3>1. rs = <<r>>
        BY <2>2
    <3>2. IsSeq(<<r>>) /\ Len(<<r>>) = 1 /\ Range(<<r>>) = {r}
        BY Singles
    <3>3. <<r>> # <<>>
        OBVIOUS
    <3> QED
        BY <2>2, <3>1, <3>2, <3>3
  <2> QED
      BY <2>1, <2>2
<1>2. /\ st[m] = "starting" /\ todo[m] = <<>>
      /\ \/ st' = [st EXCEPT ![m] = "ok"] /\ UNCHANGED todo
         \/ /\ st' = [st EXCEPT ![m] = "err"]
            /\ todo' = [todo EXCEPT ![m] = <<>>]
      /\ UNCHANGED <<cfg, sharedVars, own, cmd, cni, ns, late, chroot>>
    BY DEF startInstance, Fail, hostVars
<1>3. \/ UNCHANGED reqs
      \/ /\ rs = <<>> \/ server \in Machines
         /\ reqs' = [reqs EXCEPT ![m] = @ \o rs]
    BY DEF startInstance
<1> HIDE DEF rs
<1>4. Adds(m, Range(rs), 1)
  <2>1. CASE UNCHANGED reqs
      BY <2>1, NothingAdded
  <2>2. CASE /\ rs = <<>> \/ server \in Machines
             /\ reqs' = [reqs EXCEPT ![m] = @ \o rs]
    <3>1. SubSeq(rs, 1, Len(rs)) = rs
        BY <1>1, SubSeqFull DEF IsSeq
    <3>2. Len(rs) \in 0 .. Len(rs) /\ (Len(rs) > 0 => server \in Machines)
        BY <1>1, <2>2
    <3>3. Adds(m, Range(rs), Len(rs))
        BY <1>1, <2>2, <3>1, <3>2, PrefixAdds
    <3>4. Len(reqs[m]) \in Nat
        BY SeqFacts DEF ReqsOK
    <3> QED
        BY <1>1, <3>3, <3>4, AddsLonger
  <2> QED
      BY <2>1, <2>2, <1>3
<1> QED
    BY <1>1, <1>2, <1>4

-------------------------------------------------------------------------------
(* Every list is an end of the list that Start was given. *)

StatesOK ==
    /\ cfg \in ConfigFields /\ ReqsOK /\ SharedOK
    /\ st \in [Machines -> {"none", "new", "starting", "ok", "err", "down"}]
    /\ DOMAIN todo = Machines

ListInv(m) ==
    /\ InOrder(todo[m])
    /\ st[m] # "starting" => todo[m] = <<>>
    /\ st[m] \in {"none", "new"} => reqs[m] = <<>>
    /\ "LoadSnapshot" \in Range(todo[m]) => cfg.snapshot = "option"
    /\ cfg.snapshot = "option"
        => Range(todo[m]) \cap loadSnapshotRemoveHandlerList = {}

OneStarts ==
    \A m, o \in Machines : st[m] = "starting" /\ st[o] = "starting" => m = o

ListsInv == StatesOK /\ OneStarts /\ \A m \in Machines : ListInv(m)

\* The lists of the other machines, and their requests, do not change.
Local(m) == \A o \in Machines \ {m} : /\ st'[o] = st[o] /\ todo'[o] = todo[o]
                                      /\ reqs'[o] = reqs[o]

\* A step of a machine.
Step(m) ==
    \/ NewMachine(m) \/ Start(m) \/ Handler(m) \/ startInstance(m) \/ Stop(m)

\* A step that leaves all of that alone, and the files too.
Resting ==
    UNCHANGED <<cfg, sharedVars, chroot, fifos, st, todo, own, cmd, cni, ns, made,
                reqs>>

\* A firecracker that comes up late or exits again changes the socket only.
LEMMA StepOrRest == [Next]_vars => Resting \/ \E m \in Machines : Step(m)
<1>1. ASSUME UNCHANGED vars PROVE Resting
    BY <1>1 DEF vars, hostVars, machineVars, Resting
<1>2. ASSUME NEW m \in Machines, LateBinds(m) \/ LateExits(m) PROVE Resting
    BY <1>2 DEF LateBinds, LateExits, machineVars, Resting
<1> QED
    BY <1>1, <1>2, Zenon DEF Next, Step

LEMMA EmptyList == InOrder(<<>>) /\ Range(<<>>) = {}
    BY DEF InOrder, Range

\* A handler leaves an end of its list.
LEMMA EndedList ==
    ASSUME ListsInv, NEW m \in Machines, NEW h, Runs(m, h), Ended(m)
    PROVE  /\ InOrder(todo'[m]) /\ st' \in [Machines -> {"none", "new", "starting",
                                                          "ok", "err", "down"}]
           /\ DOMAIN todo' = Machines
           /\ \A o \in Machines \ {m} : st'[o] = st[o] /\ todo'[o] = todo[o]
           /\ \/ st'[m] = "err" /\ todo'[m] = <<>>
              \/ /\ st'[m] = "starting" /\ todo'[m] = Tail(todo[m])
                 /\ Range(todo'[m]) = Range(todo[m]) \ {h}
           /\ h \in Range(todo[m]) /\ h \in Names /\ st[m] = "starting"
           /\ \A g \in Range(todo[m]) : g = h \/ Place(h) < Place(g)
<1>1. /\ InOrder(todo[m]) /\ todo[m] # <<>> /\ Head(todo[m]) = h
      /\ st[m] = "starting" /\ DOMAIN todo = Machines
      /\ st \in [Machines -> {"none", "new", "starting", "ok", "err", "down"}]
    BY DEF ListsInv, ListInv, StatesOK, Runs
<1>2. /\ InOrder(Tail(todo[m])) /\ h \in Names /\ h \in Range(todo[m])
      /\ \A g \in Range(todo[m]) : g = h \/ Place(h) < Place(g)
      /\ Range(Tail(todo[m])) = Range(todo[m]) \ {h}
    BY <1>1, TailInOrder
<1>3. CASE Done(m)
  <2>1. st' = st /\ todo' = [todo EXCEPT ![m] = Tail(todo[m])]
      BY <1>3 DEF Done
  <2> QED
      BY <1>1, <1>2, <2>1
<1>4. CASE st' = [st EXCEPT ![m] = "err"] /\ todo' = [todo EXCEPT ![m] = <<>>]
    BY <1>1, <1>2, <1>4, EmptyList
<1> QED
    BY <1>3, <1>4 DEF Ended

LEMMA InitListsInv == Init => ListsInv
<1> SUFFICES ASSUME Init PROVE ListsInv
    OBVIOUS
<1>1. cfg \in ConfigFields
    BY ConfigsAssumption DEF Init
<1>2. ReqsOK
    BY Singles DEF Init, ReqsOK
<1>3. SharedOK
  <2>1. \E T, U : cfg.ifaces \in Seq(T) /\ cfg.drives \in Seq(U)
      BY <1>1 DEF ConfigFields
  <2> QED
      BY <2>1, SeqOfRange DEF Init, SharedOK, IsSeq
<1> QED
    BY <1>1, <1>2, <1>3, EmptyList DEF Init, ListsInv, StatesOK, OneStarts, ListInv

\* The caller's arrays stay sequences.
LEMMA SharedStep ==
    ASSUME ListsInv, NEW m \in Machines, Step(m)
    PROVE  SharedOK'
<1>1. CASE setupNetwork(m)
  <2>1. UNCHANGED drives
      BY <1>1 DEF setupNetwork
  <2>2. CASE UNCHANGED ifaces
      BY <2>1, <2>2 DEF ListsInv, StatesOK, SharedOK, IsSeq
  <2>3. CASE \E x : ifaces' = [ifaces EXCEPT ![cniInterface] = x]
    <3>1. /\ Len(ifaces) \in Nat /\ DOMAIN ifaces = 1 .. Len(ifaces)
          /\ DOMAIN ifaces' = DOMAIN ifaces
          /\ ifaces' = [j \in 1 .. Len(ifaces) |-> ifaces'[j]]
        BY <2>3, SeqFacts DEF ListsInv, StatesOK, SharedOK
    <3>2. \A j \in 1 .. Len(ifaces) : ifaces'[j] \in Range(ifaces')
        BY <3>1 DEF Range
    <3>3. IsSeq(ifaces')
        BY <3>1, <3>2, IsASeq DEF IsSeq
    <3> QED
        BY <3>3, <2>1 DEF ListsInv, StatesOK, SharedOK, IsSeq
  <2> QED
      BY <1>1, <2>2, <2>3 DEF setupNetwork
<1>2. CASE LinkFiles(m)
  <2>1. PICK k : Relinked(m, k)
      BY <1>2 DEF LinkFiles
  <2>2. UNCHANGED ifaces
      BY <1>2 DEF LinkFiles
  <2>3. /\ Len(drives) \in Nat /\ DOMAIN drives = 1 .. Len(drives)
        /\ DOMAIN drives' = DOMAIN drives
        /\ drives' = [j \in 1 .. Len(drives) |-> drives'[j]]
    <3>1. Len(drives) \in Nat /\ DOMAIN drives = 1 .. Len(drives)
        BY SeqFacts DEF ListsInv, StatesOK, SharedOK
    <3> QED
        BY <2>1, <3>1 DEF Relinked
  <2>4. \A j \in 1 .. Len(drives) : drives'[j] \in Range(drives')
      BY <2>3 DEF Range
  <2>5. IsSeq(drives')
      BY <2>3, <2>4, IsASeq DEF IsSeq
  <2> QED
      BY <2>2, <2>5 DEF ListsInv, StatesOK, SharedOK, IsSeq
<1>3. CASE ~setupNetwork(m) /\ ~LinkFiles(m)
  <2>1. UNCHANGED sharedVars
    <3>1. CASE Handler(m)
        BY <1>3, <3>1, SharedKept
    <3>2. CASE NewMachine(m) \/ Start(m) \/ startInstance(m) \/ Stop(m)
        BY <3>2, Zenon DEF NewMachine, Start, Stop, startInstance
    <3> QED
        BY <3>1, <3>2 DEF Step
  <2> QED
      BY <2>1 DEF sharedVars, ListsInv, StatesOK, SharedOK, IsSeq
<1> QED
    BY <1>1, <1>2, <1>3

\* After a handler the lists are as they should be.
LEMMA HandlerListsInv ==
    ASSUME ListsInv, NEW m \in Machines, Handler(m)
    PROVE  ListsInv'
<1>1. ReqsOK /\ SharedOK /\ cfg \in ConfigFields
    BY DEF ListsInv, StatesOK
<1>2. PICK h \in Names : Sends(m, h)
    BY <1>1, HandlerShape
<1>3. UNCHANGED cfg
    BY <1>1, HandlerShape
<1>4. SharedOK'
    BY SharedStep DEF Step
<1>5. PICK n \in Nat : Adds(m, Asked(m, h), n)
    BY <1>2 DEF Sends
<1>6. ReqsOK'
    BY <1>1, <1>5 DEF Adds, ReqsOK
<1>7. Runs(m, h) /\ Ended(m)
    BY <1>2 DEF Sends
<1>8. /\ InOrder(todo'[m]) /\ DOMAIN todo' = Machines
      /\ st' \in [Machines -> {"none", "new", "starting", "ok", "err", "down"}]
      /\ \A o \in Machines \ {m} : st'[o] = st[o] /\ todo'[o] = todo[o]
      /\ \/ st'[m] = "err" /\ todo'[m] = <<>>
         \/ st'[m] = "starting" /\ Range(todo'[m]) \subseteq Range(todo[m])
      /\ st[m] = "starting"
    BY <1>7, EndedList
<1>9. StatesOK'
    BY <1>1, <1>3, <1>4, <1>6, <1>8 DEF StatesOK
<1>10. OneStarts'
    BY <1>8 DEF ListsInv, OneStarts
<1>11. ASSUME NEW o \in Machines PROVE ListInv(o)'
  <2>1. CASE o = m
      BY <2>1, <1>3, <1>8, EmptyList DEF ListsInv, ListInv
  <2>2. CASE o # m
    <3>1. reqs'[o] = reqs[o] /\ st'[o] = st[o] /\ todo'[o] = todo[o]
        BY <2>2, <1>1, <1>5, <1>8 DEF Adds, ReqsOK
    <3> QED
        BY <3>1, <1>3 DEF ListsInv, ListInv
  <2> QED
      BY <2>1, <2>2
<1> QED
    BY <1>9, <1>10, <1>11 DEF ListsInv

LEMMA NextListsInv == ListsInv /\ [Next]_vars => ListsInv'
<1> SUFFICES ASSUME ListsInv, [Next]_vars PROVE ListsInv'
    OBVIOUS
<1>1. /\ ReqsOK /\ SharedOK /\ cfg \in ConfigFields /\ DOMAIN todo = Machines
      /\ st \in [Machines -> {"none", "new", "starting", "ok", "err", "down"}]
    BY DEF ListsInv, StatesOK
<1>2. ASSUME NEW m \in Machines, NewMachine(m) PROVE ListsInv'
  <2>1. /\ UNCHANGED <<cfg, reqs, ifaces, drives, todo>>
        /\ st[m] = "none" /\ st' = [st EXCEPT ![m] = "new"]
      BY <1>2 DEF NewMachine, sharedVars
  <2> QED
      BY <1>1, <2>1 DEF ListsInv, StatesOK, OneStarts, ListInv, ReqsOK, SharedOK
<1>3. ASSUME NEW m \in Machines, Start(m) PROVE ListsInv'
  <2>1. /\ UNCHANGED <<cfg, reqs, ifaces, drives>>
        /\ \A o \in Machines : st[o] # "starting"
        /\ st' = [st EXCEPT ![m] = "starting"]
        /\ todo' = [todo EXCEPT ![m] = HandlersOf]
      BY <1>3 DEF Start, sharedVars, HandlersOf
  <2>2. /\ InOrder(HandlersOf)
        /\ "LoadSnapshot" \in Range(HandlersOf) => cfg.snapshot = "option"
        /\ cfg.snapshot = "option"
            => Range(HandlersOf) \cap loadSnapshotRemoveHandlerList = {}
      BY <1>1, ListInOrder
  <2>3. StatesOK' /\ OneStarts'
      BY <1>1, <2>1 DEF ListsInv, StatesOK, OneStarts, ReqsOK, SharedOK
  <2>4. ASSUME NEW o \in Machines PROVE ListInv(o)'
      BY <1>1, <2>1, <2>2 DEF ListsInv, ListInv
  <2> QED
      BY <2>3, <2>4 DEF ListsInv
<1>4. ASSUME NEW m \in Machines, Handler(m) PROVE ListsInv'
    BY <1>4, HandlerListsInv
<1>5. ASSUME NEW m \in Machines, startInstance(m) PROVE ListsInv'
  <2>1. /\ st[m] = "starting" /\ todo[m] = <<>>
        /\ \/ st' = [st EXCEPT ![m] = "ok"] /\ UNCHANGED todo
           \/ /\ st' = [st EXCEPT ![m] = "err"]
              /\ todo' = [todo EXCEPT ![m] = <<>>]
        /\ Adds(m, IF hasSnapshot THEN {} ELSE {Request("start", "instance")}, 1)
        /\ UNCHANGED <<cfg, sharedVars>>
      BY <1>1, <1>5, InstanceShape
  <2>2. /\ DOMAIN reqs' = Machines /\ IsSeq(reqs'[m])
        /\ \A o \in Machines \ {m} : reqs'[o] = reqs[o]
      BY <1>1, <2>1 DEF Adds, ReqsOK
  <2>3. /\ DOMAIN todo' = Machines /\ todo'[m] = <<>> /\ st'[m] \in {"ok", "err"}
        /\ \A o \in Machines \ {m} : st'[o] = st[o] /\ todo'[o] = todo[o]
        /\ st' \in [Machines -> {"none", "new", "starting", "ok", "err", "down"}]
      BY <1>1, <2>1
  <2>4. StatesOK' /\ OneStarts'
      BY <1>1, <2>1, <2>2, <2>3
         DEF ListsInv, StatesOK, OneStarts, ReqsOK, SharedOK, sharedVars, IsSeq
  <2>5. ASSUME NEW o \in Machines PROVE ListInv(o)'
    <3>1. CASE o = m
        BY <2>1, <2>3, <3>1, EmptyList DEF ListInv
    <3>2. CASE o # m
        BY <2>1, <2>2, <2>3, <3>2 DEF ListsInv, ListInv
    <3> QED
        BY <3>1, <3>2
  <2> QED
      BY <2>4, <2>5 DEF ListsInv
<1>6. ASSUME NEW m \in Machines, Stop(m) PROVE ListsInv'
  <2>1. /\ UNCHANGED <<cfg, reqs, ifaces, drives, todo>>
        /\ st[m] = "ok" /\ st' = [st EXCEPT ![m] = "down"]
      BY <1>6 DEF Stop, sharedVars
  <2> QED
      BY <1>1, <2>1 DEF ListsInv, StatesOK, OneStarts, ListInv, ReqsOK, SharedOK
<1>7. CASE Resting
    BY <1>7 DEF Resting, sharedVars, ListsInv, StatesOK, OneStarts, ListInv, ReqsOK,
                SharedOK, IsSeq
<1> QED
    BY <1>2, <1>3, <1>4, <1>5, <1>6, <1>7, StepOrRest DEF Step

LEMMA ListsInvariant == Spec => []ListsInv
    BY InitListsInv, NextListsInv, PTL DEF Spec

-------------------------------------------------------------------------------
(* The order of the requests. *)

\* The requests by their names.
LEMMA AskedOps ==
    ASSUME NEW m, NEW h, NEW r \in Asked(m, h)
    PROVE  /\ r.to = server /\ r.op # "start"
           /\ r.op = "load" => h = "LoadSnapshot"
           /\ r.op \in {"machine", "boot", "drive", "iface", "mmds"}
                => h \in loadSnapshotRemoveHandlerList
    BY DEF Asked, Request, loadSnapshotRemoveHandlerList

\* A guest that is started or restored is so by the last request, and nothing is
\* left to do.
StartedInv ==
    \A m \in Machines : \A j \in Sent(m, "start") \cup Sent(m, "load") :
        /\ j = Len(reqs[m])
        /\ st[m] = "starting" => todo[m] = <<>> /\ hasSnapshot

\* Nothing that belongs to a fresh guest is sent for a snapshot.
FreshInv ==
    \A m \in Machines : \A j \in DOMAIN reqs[m] :
        /\ reqs[m][j].op = "load" => cfg.snapshot = "option"
        /\ cfg.snapshot = "option" =>
            reqs[m][j].op \notin {"machine", "boot", "drive", "iface", "mmds"}

\* The requests of the machines that do not step.
LEMMA OthersKept ==
    ASSUME ListsInv, NEW m \in Machines, Step(m)
    PROVE  /\ UNCHANGED cfg
           /\ \A o \in Machines \ {m} :
                reqs'[o] = reqs[o] /\ st'[o] = st[o] /\ todo'[o] = todo[o]
<1>1. /\ ReqsOK /\ SharedOK /\ DOMAIN reqs = Machines /\ DOMAIN todo = Machines
      /\ DOMAIN st = Machines
    BY DEF ListsInv, StatesOK, ReqsOK
<1>2. CASE Handler(m)
  <2>1. PICK h \in Names : Sends(m, h)
      BY <1>1, <1>2, HandlerShape
  <2>2. UNCHANGED cfg
      BY <1>1, <1>2, HandlerShape
  <2>3. \A o \in Machines \ {m} : st'[o] = st[o] /\ todo'[o] = todo[o]
      BY <2>1, EndedList DEF Sends
  <2> QED
      BY <1>1, <2>1, <2>2, <2>3 DEF Sends, Adds
<1>3. CASE startInstance(m)
    BY <1>1, <1>3, InstanceShape DEF Adds
<1>4. CASE NewMachine(m) \/ Start(m) \/ Stop(m)
    BY <1>1, <1>4 DEF NewMachine, Start, Stop
<1> QED
    BY <1>2, <1>3, <1>4 DEF Step

\* After LoadSnapshot there is nothing left to do.
LEMMA LoadIsLast ==
    ASSUME ListsInv, NEW m \in Machines, Runs(m, "LoadSnapshot"), Ended(m)
    PROVE  todo'[m] = <<>> /\ hasSnapshot
<1>1. /\ InOrder(todo'[m])
      /\ \/ todo'[m] = <<>>
         \/ Range(todo'[m]) = Range(todo[m]) \ {"LoadSnapshot"}
      /\ "LoadSnapshot" \in Range(todo[m])
      /\ \A g \in Range(todo[m]) :
            g = "LoadSnapshot" \/ Place("LoadSnapshot") < Place(g)
    BY EndedList
<1>2. hasSnapshot
    BY <1>1 DEF ListsInv, ListInv, hasSnapshot
<1>3. \A g \in Range(todo'[m]) : g \in Names
    BY <1>1, RangeOfSeq DEF InOrder
<1>4. Place("LoadSnapshot") = 17
    BY DEF Place
<1>5. CASE Range(todo'[m]) = Range(todo[m]) \ {"LoadSnapshot"}
  <2>1. Range(todo'[m]) = {}
    <3> SUFFICES ASSUME NEW g \in Range(todo'[m]) PROVE FALSE
        OBVIOUS
    <3>1. Place("LoadSnapshot") < Place(g) /\ Place(g) \in 1 .. 17
        BY <1>1, <1>3, <1>5, Places
    <3> QED
        BY <3>1, <1>4
  <2>2. /\ todo'[m] \in Seq(Names) /\ DOMAIN todo'[m] = 1 .. Len(todo'[m])
        /\ Len(todo'[m]) \in Nat
      BY <1>1, LenProperties DEF InOrder
  <2>3. Len(todo'[m]) = 0
    <3>1. 1 \in DOMAIN todo'[m] => todo'[m][1] \in Range(todo'[m])
        BY DEF Range
    <3> QED
        BY <2>1, <2>2, <3>1
  <2>4. todo'[m] = <<>>
      BY <2>2, <2>3, EmptySeq
  <2> QED
      BY <2>4, <1>2
<1> QED
    BY <1>1, <1>2, <1>5

LEMMA InitRequests == Init => \A m \in Machines : DOMAIN reqs[m] = {}
<1>1. Init => reqs = [m \in Machines |-> <<>>]
    BY Zenon DEF Init
<1>2. DOMAIN <<>> = {}
    OBVIOUS
<1> QED
    BY <1>1, <1>2

LEMMA NextStartedInv == ListsInv /\ StartedInv /\ [Next]_vars => StartedInv'
<1> SUFFICES ASSUME ListsInv, StartedInv, [Next]_vars PROVE StartedInv'
    OBVIOUS
<1>1. CASE Resting
    BY <1>1 DEF Resting, StartedInv, Sent, hasSnapshot
<1>2. ASSUME NEW m \in Machines, Step(m) PROVE StartedInv'
  <2>1. ReqsOK /\ SharedOK
      BY DEF ListsInv, StatesOK
  <2>2. /\ UNCHANGED cfg
        /\ \A o \in Machines \ {m} :
            reqs'[o] = reqs[o] /\ st'[o] = st[o] /\ todo'[o] = todo[o]
      BY <1>2, OthersKept
  <2> SUFFICES ASSUME NEW j \in (Sent(m, "start") \cup Sent(m, "load"))'
               PROVE  /\ j = Len(reqs'[m])
                      /\ st'[m] = "starting" => todo'[m] = <<>> /\ hasSnapshot
      BY <2>2 DEF StartedInv, Sent, hasSnapshot
  <2>3. j \in DOMAIN reqs'[m] /\ reqs'[m][j].op \in {"start", "load"}
      BY DEF Sent
  <2>4. /\ Len(reqs[m]) \in Nat /\ DOMAIN reqs[m] = 1 .. Len(reqs[m])
      BY <2>1, SeqFacts DEF ReqsOK
  <2>5. CASE Handler(m)
    <3>1. PICK h \in Names : Sends(m, h)
        BY <2>1, <2>5, HandlerShape
    <3>2. PICK n \in Nat : Adds(m, Asked(m, h), n)
        BY <3>1 DEF Sends
    <3>3. /\ Len(reqs'[m]) \in Nat /\ DOMAIN reqs'[m] = 1 .. Len(reqs'[m])
        BY <3>2, SeqFacts DEF Adds
    <3>4. st[m] = "starting" /\ todo[m] # <<>>
        BY <3>1 DEF Sends, Runs
    <3>5. j \notin 1 .. Len(reqs[m])
      <4> SUFFICES ASSUME j \in 1 .. Len(reqs[m]) PROVE FALSE
          OBVIOUS
      <4>1. reqs'[m][j] = reqs[m][j]
          BY <3>2 DEF Adds
      <4>2. j \in Sent(m, "start") \cup Sent(m, "load")
          BY <4>1, <2>3, <2>4 DEF Sent
      <4> QED
          BY <4>2, <3>4 DEF StartedInv
    <3>6. j \in Len(reqs[m]) + 1 .. Len(reqs'[m])
        BY <2>3, <2>4, <3>3, <3>5
    <3>7. reqs'[m][j] \in Asked(m, h)
        BY <3>6, <3>2 DEF Adds
    <3>8. h = "LoadSnapshot"
        BY <3>7, <2>3, AskedOps
    <3>9. Len(reqs'[m]) \in Len(reqs[m]) .. Len(reqs[m]) + 1
        BY <3>1, <3>8 DEF Sends, Adds
    <3>10. j = Len(reqs'[m])
        BY <2>4, <3>3, <3>6, <3>9
    <3> QED
        BY <3>1, <3>8, <3>10, LoadIsLast DEF Sends
  <2>6. CASE startInstance(m)
    <3>1. /\ st[m] = "starting" /\ st' \in {[st EXCEPT ![m] = "ok"], [st EXCEPT ![m] = "err"]}
          /\ Adds(m, IF hasSnapshot THEN {} ELSE {Request("start", "instance")}, 1)
        BY <2>1, <2>6, InstanceShape
    <3>2. st'[m] # "starting"
        BY <3>1 DEF ListsInv, StatesOK
    <3>3. /\ Len(reqs'[m]) \in Nat /\ DOMAIN reqs'[m] = 1 .. Len(reqs'[m])
          /\ Len(reqs'[m]) \in Len(reqs[m]) .. Len(reqs[m]) + 1
        BY <3>1, SeqFacts DEF Adds
    <3>4. CASE j \in 1 .. Len(reqs[m])
      <4>1. reqs'[m][j] = reqs[m][j]
          BY <3>1, <3>4 DEF Adds
      <4>2. j \in Sent(m, "start") \cup Sent(m, "load")
          BY <4>1, <2>3, <2>4, <3>4 DEF Sent
      <4>3. j = Len(reqs[m]) /\ hasSnapshot
          BY <4>2, <3>1 DEF StartedInv
      <4>4. \A k \in Len(reqs[m]) + 1 .. Len(reqs'[m]) : FALSE
          BY <3>1, <4>3 DEF Adds
      <4>5. Len(reqs'[m]) = Len(reqs[m])
          BY <4>4, <3>3, <2>4
      <4> QED
          BY <3>2, <4>3, <4>5
    <3>5. CASE j \notin 1 .. Len(reqs[m])
        BY <2>3, <2>4, <3>2, <3>3, <3>5
    <3> QED
        BY <3>4, <3>5
  <2>7. CASE NewMachine(m) \/ Start(m) \/ Stop(m)
    <3>1. UNCHANGED reqs /\ (st[m] \in {"none", "new"} \/ st'[m] = "down")
        BY <2>7 DEF NewMachine, Start, Stop, ListsInv, StatesOK
    <3>2. reqs[m] # <<>>
        BY <2>3, <2>4, <3>1
    <3>3. st'[m] = "down"
        BY <3>1, <3>2 DEF ListsInv, ListInv
    <3> QED
        BY <3>1, <3>3, <2>3 DEF StartedInv, Sent
  <2> QED
      BY <1>2, <2>5, <2>6, <2>7 DEF Step
<1> QED
    BY <1>1, <1>2, StepOrRest

\* Whatever fails and whatever is configured, nothing is sent to firecracker
\* behind the request that starts or restores the guest.
THEOREM StartsLast == Spec => []GuestStartedLast
<1>1. Init => StartedInv
  <2> SUFFICES ASSUME Init PROVE StartedInv
      OBVIOUS
  <2>1. \A m \in Machines : DOMAIN reqs[m] = {}
      BY InitRequests
  <2> QED
      BY <2>1 DEF StartedInv, Sent
<1>2. StartedInv => GuestStartedLast
    BY DEF StartedInv, GuestStartedLast
<1> QED
    BY <1>1, <1>2, ListsInvariant, NextStartedInv, PTL DEF Spec

LEMMA NextFreshInv == ListsInv /\ FreshInv /\ [Next]_vars => FreshInv'
<1> SUFFICES ASSUME ListsInv, FreshInv, [Next]_vars PROVE FreshInv'
    OBVIOUS
<1>1. CASE Resting
    BY <1>1 DEF Resting, FreshInv
<1>2. ASSUME NEW m \in Machines, Step(m) PROVE FreshInv'
  <2>1. ReqsOK /\ SharedOK
      BY DEF ListsInv, StatesOK
  <2>2. /\ UNCHANGED cfg
        /\ \A o \in Machines \ {m} : reqs'[o] = reqs[o]
      BY <1>2, OthersKept
  <2> SUFFICES ASSUME NEW j \in DOMAIN reqs'[m]
               PROVE  /\ reqs'[m][j].op = "load" => cfg.snapshot = "option"
                      /\ cfg.snapshot = "option" => reqs'[m][j].op \notin
                            {"machine", "boot", "drive", "iface", "mmds"}
      BY <2>2 DEF FreshInv
  <2>3. Len(reqs[m]) \in Nat /\ DOMAIN reqs[m] = 1 .. Len(reqs[m])
      BY <2>1, SeqFacts DEF ReqsOK
  <2>4. CASE j \in DOMAIN reqs[m] /\ reqs'[m][j] = reqs[m][j]
      BY <2>4 DEF FreshInv
  <2>5. CASE Handler(m)
    <3>1. PICK h \in Names : Sends(m, h)
        BY <2>1, <2>5, HandlerShape
    <3>2. PICK n \in Nat : Adds(m, Asked(m, h), n)
        BY <3>1 DEF Sends
    <3>3. Len(reqs'[m]) \in Nat /\ DOMAIN reqs'[m] = 1 .. Len(reqs'[m])
        BY <3>2, SeqFacts DEF Adds
    <3>4. h \in Range(todo[m])
        BY <3>1, EndedList DEF Sends
    <3>5. CASE j \in 1 .. Len(reqs[m])
        BY <2>3, <2>4, <3>2, <3>5 DEF Adds
    <3>6. CASE j \notin 1 .. Len(reqs[m])
      <4>1. j \in Len(reqs[m]) + 1 .. Len(reqs'[m])
          BY <2>3, <3>3, <3>6
      <4>2. reqs'[m][j] \in Asked(m, h)
          BY <3>2, <4>1 DEF Adds
      <4> QED
          BY <4>2, <3>4, AskedOps DEF ListsInv, ListInv
    <3> QED
        BY <3>5, <3>6
  <2>6. CASE startInstance(m)
    <3>1. Adds(m, IF hasSnapshot THEN {} ELSE {Request("start", "instance")}, 1)
        BY <2>1, <2>6, InstanceShape
    <3>2. Len(reqs'[m]) \in Nat /\ DOMAIN reqs'[m] = 1 .. Len(reqs'[m])
        BY <3>1, SeqFacts DEF Adds
    <3>3. CASE j \in 1 .. Len(reqs[m])
        BY <2>3, <2>4, <3>1, <3>3 DEF Adds
    <3>4. CASE j \notin 1 .. Len(reqs[m])
      <4>1. j \in Len(reqs[m]) + 1 .. Len(reqs'[m])
          BY <2>3, <3>2, <3>4
      <4>2. reqs'[m][j] = Request("start", "instance")
          BY <3>1, <4>1 DEF Adds
      <4> QED
          BY <4>2 DEF Request
    <3> QED
        BY <3>3, <3>4
  <2>7. CASE NewMachine(m) \/ Start(m) \/ Stop(m)
      BY <2>4, <2>7 DEF NewMachine, Start, Stop
  <2> QED
      BY <1>2, <2>5, <2>6, <2>7 DEF Step
<1> QED
    BY <1>1, <1>2, StepOrRest

\* A snapshot is only loaded into a firecracker that was told nothing of a fresh
\* guest before, whichever other handlers ran.
THEOREM LoadsFresh == Spec => []SnapshotIntoFresh
<1>1. Init => FreshInv
  <2> SUFFICES ASSUME Init PROVE FreshInv
      OBVIOUS
  <2>1. \A m \in Machines : DOMAIN reqs[m] = {}
      BY InitRequests
  <2> QED
      BY <2>1 DEF FreshInv
<1>2. FreshInv => SnapshotIntoFresh
    BY DEF FreshInv, SnapshotIntoFresh, Sent
<1> QED
    BY <1>1, <1>2, ListsInvariant, NextFreshInv, PTL DEF Spec

-------------------------------------------------------------------------------
(* The chroot and the socket, which the machines of a Config share. *)

InChroot(p) == p.dir = "name" /\ p.file \in chroot

\* The files are in the chroot, and the paths are the names they have there.
Linked(m) ==
    /\ InChroot(own[m].kernel)
    /\ own[m].initrd # NoPath => InChroot(own[m].initrd)
    /\ \A j \in DOMAIN drives : InChroot(drives[j].path)
    /\ cfg.log = "fifo" => InChroot(own[m].log) /\ InChroot(own[m].metrics)

\* The copies and the drives are records, the kernel keeps its file's name, and
\* LogPath and MetricsPath stay as they are.
FieldsOK ==
    /\ DOMAIN own = Machines
    /\ \A m \in Machines :
        /\ DOMAIN own[m] = {"kernel", "initrd", "log", "metrics", "netns",
                            "args", "socket"}
        /\ st[m] # "none" =>
            /\ own[m].kernel.file = "kernel"
            /\ cfg.log = "path" => /\ own[m].log = LogFile("log")
                                  /\ own[m].metrics = LogFile("metrics")
    /\ \A j \in DOMAIN drives : DOMAIN drives[j] = {"path", "root"}

\* What is still to be linked has not been sent.
ChrootInv ==
    /\ FieldsOK
    /\ cfg.jailed => \A m \in Machines :
        /\ st[m] = "starting" /\ "LinkFilesToRootFS" \notin Range(todo[m])
            => Linked(m)
        /\ \A j \in DOMAIN reqs[m] : \A p \in Told(reqs[m][j]) :
                InChroot(p) \/ p \in PassedOn(reqs[m][j])

\* The machine has made sure that the socket is its own: by the validation or,
\* with a jailer, by linking its kernel.
Claimed(m) ==
    Range(todo[m]) \cap (IF cfg.jailed THEN {"LinkFilesToRootFS"}
                         ELSE {"ValidateCfg", "ValidateLoadSnapshotCfg"}) = {}

\* The machine m may meet the firecracker of o: its own, or one that came up late.
Meets(m, o) == o = m \/ late[o] = "bound"

\* Whose firecracker listens: its cleanup will remove the socket unless it came
\* up late, which only those do whose Start has failed.
ServerInv ==
    /\ DOMAIN made = Machines /\ DOMAIN late = Machines
    /\ server \in Machines \cup {"none", "stale"}
    /\ \A m \in Machines :
        /\ late[m] # "no" => st[m] = "err"
        /\ server = m /\ late[m] # "bound" =>
            /\ "sock" \in made[m]
            /\ cfg.jailed => st[m] = "starting" \/ "kernel" \in chroot
    /\ ~cfg.unchecked => \A m \in Machines :
        /\ st[m] = "starting" /\ Claimed(m)
            => \A o \in Machines : server = o => Meets(m, o)
        /\ \A j \in DOMAIN reqs[m] :
            reqs[m][j].to \in Machines /\ Meets(m, reqs[m][j].to)

\* What LinkFiles links.
LEMMA LinksShape ==
    ASSUME SharedOK, NEW m
    PROVE  /\ IsSeq(Links(m)) /\ Len(Links(m)) \in Nat \ {0}
           /\ DOMAIN Links(m) = 1 .. Len(Links(m))
           /\ Links(m)[1] = own[m].kernel
           /\ Range(Links(m)) =
                {own[m].kernel}
                \cup (IF own[m].initrd = NoPath THEN {} ELSE {own[m].initrd})
                \cup {drives[j].path : j \in DOMAIN drives}
                \cup (IF cfg.log = "fifo" THEN {own[m].log, own[m].metrics} ELSE {})
<1> DEFINE a == <<own[m].kernel>>
           b == IF own[m].initrd = NoPath THEN <<>> ELSE <<own[m].initrd>>
           c == [j \in DOMAIN drives |-> drives[j].path]
           d == IF cfg.log = "fifo" THEN <<own[m].log, own[m].metrics>> ELSE <<>>
<1>1. IsSeq(a) /\ Len(a) = 1 /\ Range(a) = {own[m].kernel} /\ a[1] = own[m].kernel
    BY Singles
<1>2. /\ IsSeq(b)
      /\ Range(b) = IF own[m].initrd = NoPath THEN {} ELSE {own[m].initrd}
    BY Singles
<1>3. IsSeq(c) /\ Range(c) = {drives[j].path : j \in DOMAIN drives}
  <2>1. Len(drives) \in Nat /\ DOMAIN drives = 1 .. Len(drives)
      BY SeqFacts DEF SharedOK
  <2>2. Range(c) = {drives[j].path : j \in DOMAIN drives}
      BY DEF Range
  <2>3. \A j \in 1 .. Len(drives) : drives[j].path \in Range(c)
      BY <2>1, <2>2
  <2> QED
      BY <2>1, <2>2, <2>3, IsASeq DEF IsSeq
<1>4. /\ IsSeq(d)
      /\ Range(d) = IF cfg.log = "fifo" THEN {own[m].log, own[m].metrics} ELSE {}
    BY Singles
<1>5. Links(m) = a \o b \o c \o d
    BY DEF Links
<1> DEFINE R == {own[m].kernel}
                \cup (IF own[m].initrd = NoPath THEN {} ELSE {own[m].initrd})
                \cup {drives[j].path : j \in DOMAIN drives}
                \cup (IF cfg.log = "fifo" THEN {own[m].log, own[m].metrics} ELSE {})
<1>6. R = Range(a) \cup Range(b) \cup Range(c) \cup Range(d)
    BY <1>1, <1>2, <1>3, <1>4
<1> HIDE DEF a, b, c, d, R
<1>7. Len(b) \in Nat /\ Len(c) \in Nat /\ Len(d) \in Nat
    BY <1>2, <1>3, <1>4, SeqFacts
<1>8. /\ IsSeq(a \o b) /\ Len(a \o b) = 1 + Len(b) /\ (a \o b)[1] = a[1]
      /\ Range(a \o b) = Range(a) \cup Range(b)
  <2>1. /\ IsSeq(a \o b) /\ Len(a \o b) = Len(a) + Len(b)
        /\ \A j \in 1 .. Len(a) : (a \o b)[j] = a[j]
    <3>1. IsSeq(a) /\ IsSeq(b)
        BY <1>1, <1>2
    <3> QED
        BY <3>1, JoinedSeqs
  <2>2. Range(a \o b) = Range(a) \cup Range(b)
      BY <1>1, <1>2, JoinedRange
  <2> QED
      BY <1>1, <1>7, <2>1, <2>2
<1>9. /\ IsSeq(a \o b \o c) /\ Len(a \o b \o c) = 1 + Len(b) + Len(c)
      /\ (a \o b \o c)[1] = a[1]
      /\ Range(a \o b \o c) = Range(a) \cup Range(b) \cup Range(c)
    BY <1>3, <1>7, <1>8, JoinedSeqs, JoinedRange
<1>10. /\ IsSeq(Links(m)) /\ Len(Links(m)) = 1 + Len(b) + Len(c) + Len(d)
       /\ Links(m)[1] = a[1]
       /\ Range(Links(m)) = Range(a) \cup Range(b) \cup Range(c) \cup Range(d)
  <2> DEFINE t == a \o b \o c
  <2>1. IsSeq(t) /\ Len(t) = 1 + Len(b) + Len(c) /\ t[1] = a[1]
        /\ Range(t) = Range(a) \cup Range(b) \cup Range(c)
      BY <1>9
  <2>2. Links(m) = t \o d
      BY <1>5
  <2> HIDE DEF t
  <2>3. /\ IsSeq(t \o d) /\ Len(t \o d) = Len(t) + Len(d)
        /\ \A j \in 1 .. Len(t) : (t \o d)[j] = t[j]
      BY <1>4, <2>1, JoinedSeqs
  <2>4. Range(t \o d) = Range(t) \cup Range(d)
      BY <1>4, <2>1, JoinedRange
  <2> QED
      BY <1>7, <2>1, <2>2, <2>3, <2>4
<1>11. /\ IsSeq(Links(m)) /\ Len(Links(m)) \in Nat \ {0}
       /\ DOMAIN Links(m) = 1 .. Len(Links(m))
       /\ Links(m)[1] = own[m].kernel /\ Range(Links(m)) = R
    BY <1>1, <1>6, <1>7, <1>10, SeqFacts
<1> QED
    BY <1>11 DEF R

\* How Start ends with an error: what was made is removed.
Failed(m, things) ==
    /\ st' = [st EXCEPT ![m] = "err"] /\ todo' = [todo EXCEPT ![m] = <<>>]
    /\ doCleanup(m, things)

\* The links are made in order, and the names of all of them are known at the
\* end.  Whichever are made, the paths stay paths.
LEMMA LinkStep ==
    ASSUME ListsInv, FieldsOK, NEW m \in Machines, LinkFiles(m)
    PROVE  /\ FieldsOK' /\ chroot \subseteq chroot' /\ UNCHANGED <<cfg, reqs>>
           /\ Runs(m, "LinkFilesToRootFS")
           /\ \/ /\ Done(m) /\ UNCHANGED <<server, made>>
                 /\ Linked(m)' /\ "kernel" \in chroot' /\ "kernel" \notin chroot
              \/ Failed(m, made[m])
<1>0. PICK n \in 0 .. Len(Links(m)) : \E k \in {n - 1, n} :
        /\ \A j \in 1 .. n : Linkable(m, j)
        /\ chroot' = chroot \cup {Links(m)[j].file : j \in 1 .. n}
        /\ Relinked(m, k)
        /\ \/ k = Len(Links(m)) /\ Done(m) /\ UNCHANGED <<fifos, server, made>>
           \/ Failed(m, made[m])
    BY DEF LinkFiles, Failed
<1>1. PICK k \in {n - 1, n} :
        /\ \A j \in 1 .. n : Linkable(m, j)
        /\ chroot' = chroot \cup {Links(m)[j].file : j \in 1 .. n}
        /\ Relinked(m, k)
        /\ \/ k = Len(Links(m)) /\ Done(m) /\ UNCHANGED <<fifos, server, made>>
           \/ Failed(m, made[m])
    BY <1>0
<1>2. UNCHANGED <<cfg, reqs>> /\ Runs(m, "LinkFilesToRootFS")
    BY DEF LinkFiles
<1>3. SharedOK /\ DOMAIN st = Machines
    BY DEF ListsInv, StatesOK
<1>4. /\ IsSeq(Links(m)) /\ Len(Links(m)) \in Nat \ {0}
      /\ DOMAIN Links(m) = 1 .. Len(Links(m))
      /\ Links(m)[1] = own[m].kernel
      /\ Range(Links(m)) =
            {own[m].kernel}
            \cup (IF own[m].initrd = NoPath THEN {} ELSE {own[m].initrd})
            \cup {drives[j].path : j \in DOMAIN drives}
            \cup (IF cfg.log = "fifo" THEN {own[m].log, own[m].metrics} ELSE {})
    BY <1>3, LinksShape
<1>5. st[m] = "starting" /\ own[m].kernel.file = "kernel"
    BY <1>2 DEF FieldsOK, Runs
<1>6. /\ DOMAIN own' = Machines
      /\ \A o \in Machines \ {m} : own'[o] = own[o]
      /\ DOMAIN own'[m] = DOMAIN own[m]
      /\ own'[m].kernel = Renamed(own[m].kernel, k >= BeforeFifos(m))
      /\ own'[m].initrd = Renamed(own[m].initrd, k >= BeforeFifos(m)
                                                    /\ own[m].initrd # NoPath)
      /\ own'[m].log = Renamed(own[m].log, k > BeforeFifos(m))
      /\ own'[m].metrics = Renamed(own[m].metrics, k > BeforeFifos(m) + 1)
  <2> DEFINE K == Renamed(own[m].kernel, k >= BeforeFifos(m))
             I == Renamed(own[m].initrd, k >= BeforeFifos(m)
                                            /\ own[m].initrd # NoPath)
             L == Renamed(own[m].log, k > BeforeFifos(m))
             M == Renamed(own[m].metrics, k > BeforeFifos(m) + 1)
  <2>2. /\ DOMAIN own = Machines
        /\ DOMAIN own[m] = {"kernel", "initrd", "log", "metrics", "netns",
                            "args", "socket"}
      BY DEF FieldsOK
  <2>1. own' = [own EXCEPT ![m] = [own[m] EXCEPT !.kernel = K, !.initrd = I,
                                                 !.log = L, !.metrics = M]]
      BY <1>1 DEF Relinked
  <2> HIDE DEF K, I, L, M
  <2>3. /\ DOMAIN own' = Machines /\ \A o \in Machines \ {m} : own'[o] = own[o]
        /\ own'[m] = [own[m] EXCEPT !.kernel = K, !.initrd = I, !.log = L,
                                    !.metrics = M]
      BY <2>1, <2>2
  <2>4. /\ DOMAIN own'[m] = DOMAIN own[m] /\ own'[m].kernel = K
        /\ own'[m].initrd = I /\ own'[m].log = L /\ own'[m].metrics = M
      BY <2>2, <2>3
  <2> QED
      BY <2>3, <2>4 DEF K, I, L, M
<1>7. /\ DOMAIN drives' = DOMAIN drives
      /\ \A j \in DOMAIN drives :
            /\ DOMAIN drives'[j] = DOMAIN drives[j]
            /\ drives'[j].path = Renamed(drives[j].path,
                                         BeforeFifos(m) - Len(drives) + j <= k)
    BY <1>1 DEF Relinked, FieldsOK
<1>8. \A p, linked :
        /\ Renamed(p, linked).file = p.file
        /\ linked => Renamed(p, linked).dir = "name"
    BY DEF Renamed, Base, Path
<1>9. FieldsOK'
  <2>1. \A o \in Machines \ {m} : st'[o] = st[o]
      BY <1>1, <1>3 DEF Done, Failed
  <2>2. own'[m].kernel.file = "kernel"
      BY <1>5, <1>6, <1>8
  <2>3. cfg.log = "path" =>
            own'[m].log = own[m].log /\ own'[m].metrics = own[m].metrics
    <3>1. cfg.log = "path" => ~(k > BeforeFifos(m)) /\ ~(k > BeforeFifos(m) + 1)
        BY <1>4 DEF BeforeFifos
    <3> QED
        BY <3>1, <1>6, Zenon DEF Renamed
  <2>4. cfg.log = "path" => /\ own[m].log = LogFile("log")
                            /\ own[m].metrics = LogFile("metrics")
      BY <1>5 DEF FieldsOK
  <2>5. UNCHANGED <<LogFile("log"), LogFile("metrics"), cfg>>
      BY <1>2 DEF LogFile
  <2> QED
      BY <2>1, <2>2, <2>3, <2>4, <2>5, <1>6, <1>7 DEF FieldsOK
<1>10. CASE k = Len(Links(m))
  <2>0. n = k
    <3>1. n \in 0 .. Len(Links(m)) /\ k \in {n - 1, n} /\ Len(Links(m)) \in Nat
        BY <1>4
    <3> QED
        BY <3>1, <1>10
  <2>1. "kernel" \notin chroot
    <3>1. Linkable(m, 1)
        BY <1>1, <1>4, <1>10, <2>0
    <3>2. Links(m)[1].file \notin chroot
        BY <3>1, Zenon DEF Linkable
    <3> QED
        BY <3>2, <1>4, <1>5
  <2>2. \A p \in Range(Links(m)) : p.file \in chroot'
      BY <1>1, <1>4, <1>10, <2>0 DEF Range
  <2>3. /\ BeforeFifos(m) \in Int /\ BeforeFifos(m) <= k /\ k \in Nat
        /\ cfg.log = "fifo" => k > BeforeFifos(m) + 1 /\ k > BeforeFifos(m)
    <3>1. Len(Links(m)) \in Nat
        BY <1>4
    <3> QED
        BY <3>1, <1>10 DEF BeforeFifos
  <2>4. \A j \in DOMAIN drives : BeforeFifos(m) - Len(drives) + j <= k
    <3>1. Len(drives) \in Nat /\ DOMAIN drives = 1 .. Len(drives)
        BY <1>3, SeqFacts DEF SharedOK
    <3> QED
        BY <2>3, <3>1
  <2>5. InChroot(own[m].kernel)'
      BY <2>2, <2>3, <1>4, <1>6, <1>8 DEF InChroot, Renamed
  <2>6. own'[m].initrd # NoPath => InChroot(own[m].initrd)'
      BY <2>2, <2>3, <1>4, <1>6, <1>8 DEF InChroot, Renamed
  <2>7. \A j \in DOMAIN drives : InChroot(drives[j].path)'
      BY <2>2, <2>4, <1>4, <1>7, <1>8 DEF InChroot, Renamed
  <2>8. cfg.log = "fifo" => InChroot(own[m].log)' /\ InChroot(own[m].metrics)'
      BY <2>2, <2>3, <1>4, <1>6, <1>8 DEF InChroot, Renamed
  <2>9. Linked(m)'
      BY <2>5, <2>6, <2>7, <2>8, <1>2, <1>7 DEF Linked, InChroot
  <2>10. "kernel" \in chroot'
      BY <2>2, <1>4, <1>5
  <2> QED
      BY <1>1, <1>2, <1>9, <2>1, <2>9, <2>10
<1> QED
    BY <1>1, <1>2, <1>9, <1>10

\* The handlers that talk to firecracker leave the host alone unless they fail.
LEMMA ApiHost ==
    ASSUME NEW m,
           \/ BootstrapLogging(m) \/ createMachine(m) \/ createBootSource(m)
           \/ attachDrives(m) \/ createNetworkInterfaces(m) \/ addVsocks(m)
           \/ setMmdsConfig(m) \/ loadSnapshot(m)
    PROVE  /\ Fail(m) \/ (Done(m) /\ UNCHANGED <<hostVars, made>>)
           /\ UNCHANGED <<cfg, sharedVars, own, cmd, cni, ns, late>>
<1>1. ASSUME NEW rs, Send(m, rs) \/ SendFails(m, rs)
      PROVE  Fail(m) \/ (Done(m) /\ UNCHANGED <<hostVars, made>>)
    BY <1>1, Zenon DEF Send, SendFails
<1>2. ASSUME NEW rs, Send(m, rs)
      PROVE  UNCHANGED <<cfg, sharedVars, own, cmd, cni, ns, late>>
    BY <1>2 DEF Send
<1>3. CASE createNetworkInterfaces(m)
  <2> DEFINE rs == [j \in DOMAIN ifaces |->
                    Request("iface", [dev |-> ifaces[j].dev, mac |-> ifaces[j].mac,
                                      ip |-> ifaces[j].ip])]
             lacking == {j \in DOMAIN ifaces : ifaces[j].dev = <<>>}
  <2>1. \/ Send(m, rs)
        \/ /\ \E j \in lacking : SendFails(m, SubSeq(rs, 1, j - 1))
           /\ UNCHANGED <<cfg, sharedVars, own, cmd, cni, ns, late>>
      BY <1>3 DEF createNetworkInterfaces
  <2> HIDE DEF rs, lacking
  <2> QED
      BY <2>1, <1>1, <1>2
<1>4. CASE ~createNetworkInterfaces(m)
  <2>1. \E rs : Send(m, rs)
      BY <1>4, Zenon DEF BootstrapLogging, createMachine, createBootSource,
                attachDrives, addVsocks, setMmdsConfig, loadSnapshot
  <2> QED
      BY <2>1, <1>1, <1>2
<1> QED
    BY <1>3, <1>4

LEMMA NewShape ==
    ASSUME NEW m, NewMachine(m)
    PROVE  /\ st[m] = "none" /\ st' = [st EXCEPT ![m] = "new"]
           /\ UNCHANGED <<cfg, sharedVars, hostVars, todo, cni, ns, made, late, reqs>>
           /\ \E initrd, netns, socket :
                own' = [own EXCEPT ![m] =
                    [kernel |-> Path("host", "kernel"), initrd |-> initrd,
                     log |-> LogFile("log"), metrics |-> LogFile("metrics"),
                     netns |-> netns, args |-> cfg.args, socket |-> socket]]
    BY Zenon DEF NewMachine

\* Only LinkFiles and NewMachine write the paths.
LEMMA PathsKept ==
    ASSUME FieldsOK, NEW m \in Machines, Step(m), ~LinkFiles(m), ~NewMachine(m)
    PROVE  /\ UNCHANGED <<drives, chroot>> /\ DOMAIN own' = Machines
           /\ \A o \in Machines :
                /\ DOMAIN own'[o] = DOMAIN own[o]
                /\ own'[o].kernel = own[o].kernel /\ own'[o].log = own[o].log
                /\ own'[o].initrd = own[o].initrd
                /\ own'[o].metrics = own[o].metrics
<1>1. UNCHANGED <<drives, chroot>>
  <2>1. CASE setupNetwork(m)
      BY <2>1 DEF setupNetwork, Fail, hostVars
  <2>2. CASE setupKernelArgs(m)
      BY <2>2 DEF setupKernelArgs, sharedVars, hostVars
  <2>3. CASE startInstance(m)
      BY <2>3 DEF startInstance, Fail, sharedVars, hostVars
  <2>4. CASE \/ ValidateNetwork(m) \/ ValidateJailer(m) \/ Validate(m)
             \/ ValidateLoadSnapshot(m) \/ startVMM(m) \/ CreateLogFiles(m)
             \/ Start(m) \/ Stop(m)
      BY <2>4
         DEF Start, Stop, ValidateNetwork, ValidateJailer, Validate,
             ValidateLoadSnapshot, Check, startVMM, CreateLogFiles, Fail,
             sharedVars, hostVars
  <2> QED
      BY <2>1, <2>2, <2>3, <2>4, ApiHost
         DEF Step, Handler, Fail, sharedVars, hostVars
<1>2. CASE setupKernelArgs(m)
  <2>1. PICK args : own' = [own EXCEPT ![m].args = args]
      BY <1>2, Zenon DEF setupKernelArgs
  <2> QED
      BY <1>1, <2>1 DEF FieldsOK
<1>3. CASE ~setupKernelArgs(m)
  <2>1. UNCHANGED own
      BY <1>3, ApiHost DEF Step, Start, Stop, startInstance, Handler,
           ValidateNetwork, ValidateJailer, Validate, ValidateLoadSnapshot, Check,
           setupNetwork, startVMM, CreateLogFiles, machineVars
  <2> QED
      BY <1>1, <2>1 DEF FieldsOK
<1> QED
    BY <1>2, <1>3

\* Nothing is left to do that validates, sets up the network or the arguments,
\* runs firecracker or links files.
Settled(m) ==
    Range(todo[m]) \cap {"ValidateNetworkCfg", "ValidateCfg",
                         "ValidateLoadSnapshotCfg", "SetupNetwork",
                         "SetupKernelArgs", "StartVMM", "LinkFilesToRootFS"} = {}

\* A request that the step has added: the machine was settled, and somebody
\* listened.
NewRequest(m, r) ==
    /\ st[m] = "starting" /\ Settled(m) /\ server \in Machines
    /\ \/ \E h \in Names : h \in Range(todo[m]) /\ r \in Asked(m, h)
       \/ r = Request("start", "instance")

\* The API handlers come behind the ones that make firecracker ready.
LEMMA AskedWhenSettled ==
    ASSUME ListsInv, NEW m \in Machines, NEW h \in Names, Runs(m, h), Ended(m),
           Asked(m, h) # {}
    PROVE  Settled(m)
<1>1. h \in {"BootstrapLogging", "CreateMachine", "CreateBootSource",
             "AttachDrives", "CreateNetworkInterfaces", "AddVsocks", "ConfigMmds",
             "LoadSnapshot"}
    BY DEF Asked
<1>2. \A g \in Range(todo[m]) : g = h \/ Place(h) < Place(g)
    BY EndedList
<1>3. Place(h) \in Nat /\ Place(h) >= 10
    BY <1>1 DEF Place
<1>4. /\ Place("ValidateNetworkCfg") = 1 /\ Place("ValidateCfg") = 3
      /\ Place("ValidateLoadSnapshotCfg") = 4 /\ Place("SetupNetwork") = 5
      /\ Place("SetupKernelArgs") = 6
      /\ Place("StartVMM") = 7 /\ Place("LinkFilesToRootFS") = 9
    BY DEF Place
<1> QED
    BY <1>1, <1>2, <1>3, <1>4 DEF Settled

LEMMA RequestStep ==
    ASSUME ListsInv, NEW m \in Machines, Step(m), NEW j \in DOMAIN reqs'[m]
    PROVE  \/ j \in DOMAIN reqs[m] /\ reqs'[m][j] = reqs[m][j]
           \/ NewRequest(m, reqs'[m][j])
<1>1. ReqsOK /\ SharedOK
    BY DEF ListsInv, StatesOK
<1>2. Len(reqs[m]) \in Nat /\ DOMAIN reqs[m] = 1 .. Len(reqs[m])
    BY <1>1, SeqFacts DEF ReqsOK
<1>3. ASSUME NEW R, NEW n, Adds(m, R, n)
      PROVE  \/ j \in DOMAIN reqs[m] /\ reqs'[m][j] = reqs[m][j]
             \/ reqs'[m][j] \in R /\ server \in Machines
  <2>1. Len(reqs'[m]) \in Nat /\ DOMAIN reqs'[m] = 1 .. Len(reqs'[m])
      BY <1>3, SeqFacts DEF Adds
  <2>2. CASE j \in 1 .. Len(reqs[m])
      BY <1>2, <1>3, <2>2 DEF Adds
  <2>3. CASE j \notin 1 .. Len(reqs[m])
    <3>1. j \in Len(reqs[m]) + 1 .. Len(reqs'[m])
        BY <1>2, <2>1, <2>3
    <3> QED
        BY <1>3, <3>1 DEF Adds
  <2> QED
      BY <2>2, <2>3
<1>4. CASE Handler(m)
  <2>1. PICK h \in Names : Sends(m, h)
      BY <1>1, <1>4, HandlerShape
  <2>2. /\ Runs(m, h) /\ Ended(m) /\ st[m] = "starting" /\ h \in Range(todo[m])
        /\ \E n \in Nat : Adds(m, Asked(m, h), n)
      BY <2>1, EndedList DEF Sends
  <2>3. \/ j \in DOMAIN reqs[m] /\ reqs'[m][j] = reqs[m][j]
        \/ reqs'[m][j] \in Asked(m, h) /\ server \in Machines
      BY <2>2, <1>3
  <2>4. reqs'[m][j] \in Asked(m, h) => Settled(m)
      BY <2>2, AskedWhenSettled
  <2> QED
      BY <2>2, <2>3, <2>4 DEF NewRequest
<1>5. CASE startInstance(m)
  <2> DEFINE R == IF hasSnapshot THEN {} ELSE {Request("start", "instance")}
  <2>1. st[m] = "starting" /\ todo[m] = <<>> /\ Adds(m, R, 1)
      BY <1>1, <1>5, InstanceShape
  <2>2. Settled(m)
      BY <2>1, EmptyList DEF Settled
  <2>3. \A r \in R : r = Request("start", "instance")
      OBVIOUS
  <2> HIDE DEF R
  <2>4. \/ j \in DOMAIN reqs[m] /\ reqs'[m][j] = reqs[m][j]
        \/ reqs'[m][j] \in R /\ server \in Machines
      BY <2>1, <1>3
  <2> QED
      BY <2>1, <2>2, <2>3, <2>4 DEF NewRequest
<1>6. CASE NewMachine(m) \/ Start(m) \/ Stop(m)
  <2>1. UNCHANGED reqs
      BY <1>6, Zenon DEF NewMachine, Start, Stop
  <2> QED
      BY <2>1
<1> QED
    BY <1>4, <1>5, <1>6 DEF Step

\* A request that is sent now names files that have been linked, or what the
\* caller wrote.
LEMMA ToldLinked ==
    ASSUME cfg \in ConfigFields, FieldsOK, cfg.jailed, NEW m \in Machines,
           Linked(m), NEW r, NewRequest(m, r), NEW p \in Told(r)
    PROVE  InChroot(p) \/ p \in PassedOn(r)
<1>1. CASE r = Request("start", "instance")
    BY <1>1 DEF Request, Told
<1>2. ASSUME NEW h \in Names, r \in Asked(m, h)
      PROVE  InChroot(p) \/ p \in PassedOn(r)
  <2>1. CASE h = "BootstrapLogging"
    <3>1. /\ r.op \in {"logger", "metrics"} /\ cfg.log # "none"
          /\ r.arg = own[m].log \/ r.arg = own[m].metrics
        BY <1>2, <2>1 DEF Asked, Request
    <3>2. p = own[m].log \/ p = own[m].metrics
        BY <3>1 DEF Told
    <3>3. cfg.log = "fifo" => InChroot(p)
        BY <3>2 DEF Linked
    <3>4. cfg.log = "path" => p \in {LogFile("log"), LogFile("metrics")}
      <4>1. st[m] # "none"
          BY DEF NewRequest
      <4> QED
          BY <3>2, <4>1 DEF FieldsOK
    <3>5. cfg.log = "path" => PassedOn(r) = {LogFile("log"), LogFile("metrics")}
        BY <3>1 DEF PassedOn
    <3>6. cfg.log = "path" \/ cfg.log = "fifo"
        BY <3>1 DEF ConfigFields
    <3> QED
        BY <3>3, <3>4, <3>5, <3>6
  <2>2. CASE h = "CreateBootSource"
    <3>1. /\ r.op = "boot" /\ r.arg.kernel = own[m].kernel
          /\ r.arg.initrd = own[m].initrd
        BY <1>2, <2>2 DEF Asked, Request
    <3> QED
        BY <3>1 DEF Told, Linked
  <2>3. CASE h = "AttachDrives"
    <3>1. r.op = "drive" /\ \E j \in DOMAIN drives : r.arg = drives[j].path
        BY <1>2, <2>3 DEF Asked, Request
    <3> QED
        BY <3>1 DEF Told, Linked
  <2>4. CASE h = "AddVsocks"
    <3>1. r.op = "vsock" /\ r.arg = UdsPath
        BY <1>2, <2>4 DEF Asked, Request
    <3> QED
        BY <3>1 DEF Told, PassedOn
  <2>5. CASE h = "LoadSnapshot"
    <3>1. r.op = "load" /\ r.arg = SnapshotPaths
        BY <1>2, <2>5 DEF Asked, Request
    <3> QED
        BY <3>1 DEF Told, PassedOn
  <2>6. CASE h \notin {"BootstrapLogging", "CreateBootSource", "AttachDrives",
                      "AddVsocks", "LoadSnapshot"}
    <3>1. r.op \in {"machine", "iface", "mmds"}
        BY <1>2, <2>6 DEF Asked, Request
    <3> QED
        BY <3>1 DEF Told
  <2> QED
      BY <2>1, <2>2, <2>3, <2>4, <2>5, <2>6
<1> QED
    BY <1>1, <1>2 DEF NewRequest

LEMMA NextChrootInv == ListsInv /\ ChrootInv /\ [Next]_vars => ChrootInv'
<1> SUFFICES ASSUME ListsInv, ChrootInv, [Next]_vars PROVE ChrootInv'
    OBVIOUS
<1>1. CASE Resting
  <2>1. UNCHANGED <<cfg, drives, chroot, st, todo, own, reqs>>
      BY <1>1 DEF Resting, sharedVars
  <2> QED
      BY <2>1 DEF ChrootInv, FieldsOK, Linked, InChroot, Told, PassedOn, LogFile
<1>2. ASSUME NEW m \in Machines, Step(m) PROVE ChrootInv'
  <2>1. /\ UNCHANGED cfg /\ cfg \in ConfigFields
        /\ \A o \in Machines \ {m} :
            reqs'[o] = reqs[o] /\ st'[o] = st[o] /\ todo'[o] = todo[o]
      BY <1>2, OthersKept DEF ListsInv, StatesOK
  <2>2. FieldsOK' /\ chroot \subseteq chroot'
    <3>1. CASE LinkFiles(m)
        BY <3>1, LinkStep DEF ChrootInv
    <3>2. CASE NewMachine(m)
      <4>1. /\ UNCHANGED <<drives, chroot>> /\ DOMAIN own' = Machines
            /\ \A o \in Machines \ {m} : own'[o] = own[o]
            /\ DOMAIN own'[m] = {"kernel", "initrd", "log", "metrics", "netns",
                                 "args", "socket"}
            /\ own'[m].kernel.file = "kernel"
            /\ own'[m].log = LogFile("log") /\ own'[m].metrics = LogFile("metrics")
          BY <3>2, NewShape DEF ChrootInv, FieldsOK, sharedVars, hostVars, Path
      <4>2. UNCHANGED <<LogFile("log"), LogFile("metrics")>>
          BY <2>1 DEF LogFile
      <4> QED
          BY <4>1, <4>2, <2>1 DEF ChrootInv, FieldsOK
    <3>3. CASE ~LinkFiles(m) /\ ~NewMachine(m)
      <4>1. /\ UNCHANGED <<drives, chroot>> /\ DOMAIN own' = Machines
            /\ \A o \in Machines : /\ DOMAIN own'[o] = DOMAIN own[o]
                                   /\ own'[o].kernel = own[o].kernel
                                   /\ own'[o].log = own[o].log
                                   /\ own'[o].metrics = own[o].metrics
          BY <1>2, <3>3, PathsKept DEF ChrootInv
      <4>2. st'[m] # "none" => st[m] # "none"
        <5>1. Start(m) \/ Handler(m) \/ startInstance(m) \/ Stop(m)
            BY <1>2, <3>3 DEF Step
        <5>2. Handler(m) => \E h \in Names : Sends(m, h)
            BY HandlerShape DEF ListsInv, StatesOK
        <5> QED
            BY <5>1, <5>2 DEF Start, startInstance, Stop, Sends, Runs
      <4>3. UNCHANGED <<LogFile("log"), LogFile("metrics")>>
          BY <2>1 DEF LogFile
      <4> QED
          BY <4>1, <4>2, <4>3, <2>1 DEF ChrootInv, FieldsOK
    <3> QED
        BY <3>1, <3>2, <3>3
  <2>3. ASSUME cfg.jailed, NEW o \in Machines, st'[o] = "starting",
               "LinkFilesToRootFS" \notin Range(todo'[o])
        PROVE  Linked(o)'
    <3>1. ASSUME NEW h, Runs(m, h), Ended(m), h # "LinkFilesToRootFS",
                 o = m
          PROVE  st[o] = "starting" /\ "LinkFilesToRootFS" \notin Range(todo[o])
        BY <2>3, <3>1, EndedList
    <3>2. CASE LinkFiles(m)
      <4>1. o = m
        <5>1. st[m] = "starting"
            BY <3>2 DEF LinkFiles, Runs
        <5> QED
            BY <5>1, <2>1, <2>3 DEF ListsInv, OneStarts
      <4>2. ~Failed(m, made[m])
          BY <2>3, <4>1 DEF Failed, ListsInv, StatesOK
      <4> QED
          BY <3>2, <4>1, <4>2, LinkStep DEF ChrootInv
    <3>3. CASE ~LinkFiles(m)
      <4>1. st[o] = "starting" /\ "LinkFilesToRootFS" \notin Range(todo[o])
        <5>1. CASE o # m
            BY <5>1, <2>1, <2>3
        <5>2. CASE o = m
          <6>1. ~NewMachine(m) /\ ~Stop(m) /\ ~startInstance(m)
            <7>1. st \in [Machines -> {"none", "new", "starting", "ok", "err",
                                       "down"}]
                BY DEF ListsInv, StatesOK
            <7>2. NewMachine(m) => st' = [st EXCEPT ![m] = "new"]
                BY NewShape
            <7>3. Stop(m) => st' = [st EXCEPT ![m] = "down"]
                BY DEF Stop
            <7>4. startInstance(m) => \/ st' = [st EXCEPT ![m] = "ok"]
                                      \/ st' = [st EXCEPT ![m] = "err"]
                BY DEF startInstance, Fail
            <7> QED
                BY <7>1, <7>2, <7>3, <7>4, <5>2, <2>3
          <6>2. ~Start(m)
            <7>1. Start(m) => todo'[m] = HandlersOf
                BY DEF Start, HandlersOf, ListsInv, StatesOK
            <7> QED
                BY <7>1, <5>2, <2>1, <2>3, ListInOrder
          <6>3. Handler(m)
              BY <1>2, <6>1, <6>2 DEF Step
          <6>4. PICK h \in Names : Sends(m, h)
              BY <6>3, HandlerShape DEF ListsInv, StatesOK
          <6>5. Runs(m, h) /\ Ended(m)
              BY <6>4 DEF Sends
          <6>6. h # "LinkFilesToRootFS"
            <7> SUFFICES ASSUME Runs(m, "LinkFilesToRootFS") PROVE FALSE
                BY <6>5
            <7>1. \A g \in Names : Runs(m, g) => g = "LinkFilesToRootFS"
                BY DEF Runs
            <7> QED
                BY <7>1, <6>3, <3>3
                   DEF Handler, ValidateNetwork, ValidateJailer, Validate,
                       ValidateLoadSnapshot, setupNetwork, setupKernelArgs, startVMM,
                       CreateLogFiles, BootstrapLogging, createMachine,
                       createBootSource, attachDrives, createNetworkInterfaces,
                       addVsocks, setMmdsConfig, loadSnapshot, Names
          <6> QED
              BY <6>5, <6>6, <5>2, <3>1
        <5> QED
            BY <5>1, <5>2
      <4>2. Linked(o)
          BY <2>3, <4>1 DEF ChrootInv
      <4>3. CASE NewMachine(m)
        <5>1. o # m /\ own'[o] = own[o] /\ UNCHANGED <<drives, chroot>>
            BY <4>1, <4>3, NewShape DEF sharedVars, hostVars, ChrootInv, FieldsOK
        <5> QED
            BY <4>2, <5>1, <2>1 DEF Linked, InChroot
      <4>4. CASE ~NewMachine(m)
        <5>1. /\ UNCHANGED <<drives, chroot>>
              /\ own'[o].kernel = own[o].kernel /\ own'[o].log = own[o].log
              /\ own'[o].initrd = own[o].initrd
              /\ own'[o].metrics = own[o].metrics
            BY <1>2, <3>3, <4>4, PathsKept DEF ChrootInv
        <5> QED
            BY <4>2, <5>1, <2>1 DEF Linked, InChroot
      <4> QED
          BY <4>3, <4>4
    <3> QED
        BY <3>2, <3>3
  <2>4. ASSUME cfg.jailed, NEW o \in Machines, NEW j \in DOMAIN reqs'[o],
               NEW p \in Told(reqs'[o][j])
        PROVE  (p.dir = "name" /\ p.file \in chroot') \/ p \in PassedOn(reqs'[o][j])
    <3>1. \/ j \in DOMAIN reqs[o] /\ reqs'[o][j] = reqs[o][j]
          \/ NewRequest(o, reqs'[o][j])
      <4>1. CASE o # m
          BY <4>1, <2>1, <2>4
      <4>2. CASE o = m
          BY <4>2, <1>2, <2>4, RequestStep
      <4> QED
          BY <4>1, <4>2
    <3>2. CASE j \in DOMAIN reqs[o] /\ reqs'[o][j] = reqs[o][j]
        BY <3>2, <2>2, <2>4 DEF ChrootInv, InChroot
    <3>3. CASE NewRequest(o, reqs'[o][j])
      <4>1. Linked(o)
          BY <3>3, <2>4 DEF ChrootInv, NewRequest, Settled
      <4>2. InChroot(p) \/ p \in PassedOn(reqs'[o][j])
          BY <4>1, <3>3, <2>1, <2>4, ToldLinked DEF ChrootInv
      <4> QED
          BY <4>2, <2>2 DEF InChroot
    <3> QED
        BY <3>1, <3>2, <3>3
  <2>5. ASSUME cfg.jailed, NEW o \in Machines, NEW j \in DOMAIN reqs'[o],
               NEW p \in Told(reqs[o][j])'
        PROVE  InChroot(p)' \/ p \in PassedOn(reqs[o][j])'
    <3>1. p \in Told(reqs'[o][j])
        BY <2>5 DEF Told
    <3>2. PassedOn(reqs'[o][j]) = PassedOn(reqs[o][j])'
        BY <2>1 DEF PassedOn, LogFile
    <3> QED
        BY <2>4, <2>5, <3>1, <3>2 DEF InChroot
  <2> QED
      BY <2>1, <2>2, <2>3, <2>5 DEF ChrootInv
<1> QED
    BY <1>1, <1>2, StepOrRest

LEMMA InitRecords ==
    Init => /\ DOMAIN own = Machines /\ DOMAIN made = Machines
            /\ \A m \in Machines : st[m] = "none" /\ own[m] = NoConfig
            /\ drives = cfg.drives /\ server = "none" /\ cfg \in Configs
            /\ chroot = {}
            /\ DOMAIN late = Machines /\ \A m \in Machines : late[m] = "no"
<1>1. Init => /\ own = [m \in Machines |-> NoConfig]
              /\ made = [m \in Machines |-> {}] /\ st = [m \in Machines |-> "none"]
              /\ drives = cfg.drives /\ server = "none" /\ cfg \in Configs
              /\ chroot = {} /\ late = [m \in Machines |-> "no"]
    BY Zenon DEF Init
<1> QED
    BY <1>1

LEMMA InitChrootInv == Init => ChrootInv
<1> SUFFICES ASSUME Init PROVE ChrootInv
    OBVIOUS
<1>1. /\ DOMAIN own = Machines /\ \A m \in Machines : DOMAIN reqs[m] = {}
      /\ \A m \in Machines : st[m] = "none" /\ own[m] = NoConfig
      /\ drives = cfg.drives /\ cfg \in ConfigFields
    BY InitRecords, InitRequests, ConfigsAssumption
<1>2. DOMAIN NoConfig = {"kernel", "initrd", "log", "metrics", "netns", "args",
                         "socket"}
    BY DEF NoConfig
<1> DEFINE D == [path : [dir : {"host"}, file : Files], root : BOOLEAN]
<1>3. cfg.drives \in Seq(D) /\ \A d \in D : DOMAIN d = {"path", "root"}
    BY <1>1 DEF ConfigFields
<1>4. \A j \in DOMAIN drives : DOMAIN drives[j] = {"path", "root"}
  <2> HIDE DEF D
  <2>1. \A j \in DOMAIN cfg.drives : cfg.drives[j] \in D
      BY <1>3
  <2> QED
      BY <1>1, <1>3, <2>1
<1> QED
    BY <1>1, <1>2, <1>4 DEF ChrootInv, FieldsOK

\* However many machines are made from a jailed Config, and whichever handlers
\* fail on the way, every path that firecracker is told is the name of a file that
\* the SDK has put into its chroot, or LogPath, MetricsPath, the path of a vsock
\* or of a snapshot's file, which are passed on as the caller wrote them.
THEOREM LinksBeforeNames == Spec => []PathsInChroot
<1>1. ChrootInv => PathsInChroot
  <2> SUFFICES ASSUME ChrootInv, cfg.jailed, NEW m \in Machines,
                      NEW j \in DOMAIN reqs[m], NEW p \in Told(reqs[m][j])
               PROVE  \/ p.dir = "name" /\ p.file \in chroot
                      \/ p \in PassedOn(reqs[m][j])
      BY DEF PathsInChroot
  <2> QED
      BY DEF ChrootInv, InChroot
<1> QED
    BY <1>1, InitChrootInv, ListsInvariant, NextChrootInv, PTL DEF Spec

\* Only startVMM leaves a firecracker behind.
LEMMA LateKept ==
    ASSUME NEW m \in Machines, Step(m), ~startVMM(m)
    PROVE  UNCHANGED late
<1>1. ASSUME NEW ok, Check(m, ok) PROVE UNCHANGED late
    BY <1>1 DEF Check
<1>2. CASE \/ ValidateNetwork(m) \/ ValidateJailer(m) \/ Validate(m)
           \/ ValidateLoadSnapshot(m)
    BY <1>1, <1>2, Zenon DEF ValidateNetwork, ValidateJailer, Validate,
                             ValidateLoadSnapshot
<1>3. CASE \/ setupNetwork(m) \/ setupKernelArgs(m) \/ CreateLogFiles(m)
           \/ LinkFiles(m)
    BY <1>3, Zenon DEF setupNetwork, setupKernelArgs, CreateLogFiles, LinkFiles
<1>4. CASE NewMachine(m) \/ Start(m) \/ startInstance(m) \/ Stop(m)
    BY <1>4, NewShape DEF Start, Stop, startInstance, machineVars
<1> QED
    BY <1>2, <1>3, <1>4, ApiHost DEF Step, Handler

\* Once up, it stays; and its Start has failed.
LEMMA LateStep ==
    ASSUME ListsInv, ServerInv, NEW m \in Machines, Step(m)
    PROVE  /\ DOMAIN late' = Machines
           /\ \A o \in Machines : /\ late[o] = "bound" => late'[o] = "bound"
                                  /\ late'[o] # "no" => st'[o] = "err"
<1>1. /\ DOMAIN late = Machines /\ \A o \in Machines : late[o] # "no" => st[o] = "err"
      /\ st \in [Machines -> {"none", "new", "starting", "ok", "err", "down"}]
    BY DEF ServerInv, ListsInv, StatesOK
<1>2. st[m] # "err"
  <2>1. Handler(m) => \E h \in Names : Sends(m, h)
      BY HandlerShape DEF ListsInv, StatesOK
  <2> QED
      BY <2>1, NewShape DEF Step, Start, Stop, startInstance, Sends, Runs
<1>3. late[m] = "no"
    BY <1>1, <1>2
<1>4. \A o \in Machines \ {m} : st'[o] = st[o]
    BY OthersKept
<1>5. CASE UNCHANGED late
    BY <1>1, <1>3, <1>4, <1>5
<1>6. CASE late' = [late EXCEPT ![m] = "pending"] /\ st' = [st EXCEPT ![m] = "err"]
    BY <1>1, <1>3, <1>4, <1>6
<1>7. startVMM(m) => \/ UNCHANGED late
                     \/ /\ late' = [late EXCEPT ![m] = "pending"]
                        /\ st' = [st EXCEPT ![m] = "err"]
    BY DEF startVMM
<1> QED
    BY <1>5, <1>6, <1>7, LateKept

\* How a step changes the socket and what is to be cleaned up.
LEMMA ServerStep ==
    ASSUME ListsInv, ServerInv, NEW m \in Machines, Step(m)
    PROVE  /\ DOMAIN made' = Machines
           /\ \A o \in Machines \ {m} : made'[o] = made[o]
           /\ \/ /\ server' = server /\ made[m] \subseteq made'[m]
                 /\ st'[m] \notin {"err", "down"}
              \/ /\ server = "none" /\ server' = m /\ "sock" \in made'[m]
                 /\ st[m] = "starting" /\ st'[m] = "starting"
              \/ /\ server' \in {server, "none"}
                 /\ "sock" \in made[m] => server' = "none"
<1>1. /\ DOMAIN made = Machines
      /\ st \in [Machines -> {"none", "new", "starting", "ok", "err", "down"}]
    BY DEF ServerInv, ListsInv, StatesOK
<1>2. ASSUME NEW things, made[m] \subseteq things, doCleanup(m, things)
      PROVE  /\ DOMAIN made' = Machines
             /\ \A o \in Machines \ {m} : made'[o] = made[o]
             /\ server' \in {server, "none"}
             /\ "sock" \in made[m] => server' = "none"
    BY <1>1, <1>2 DEF doCleanup
<1>3. CASE Fail(m)
    BY <1>2, <1>3 DEF Fail
<1>4. ASSUME UNCHANGED <<server, made>>, st'[m] \notin {"err", "down"}
      PROVE  /\ DOMAIN made' = Machines
             /\ \A o \in Machines \ {m} : made'[o] = made[o]
             /\ server' = server /\ made[m] \subseteq made'[m]
    BY <1>1, <1>4
<1>5. Done(m) /\ st[m] = "starting" => st'[m] = "starting"
    BY DEF Done
<1>6. CASE startVMM(m)
  <2>1. st[m] = "starting"
      BY <1>6 DEF startVMM, Runs
  <2>2. CASE /\ server' = IF server = "none" THEN m ELSE server
             /\ made' = [made EXCEPT ![m] = @ \cup {"sock"}] /\ Done(m)
      BY <2>1, <2>2, <1>1, <1>5
  <2>3. CASE doCleanup(m, made[m] \cup {"sock"})
      BY <2>3, <1>2
  <2> QED
      BY <1>3, <1>6, <2>2, <2>3 DEF startVMM
<1>7. CASE CreateLogFiles(m)
  <2>1. st[m] = "starting"
      BY <1>7 DEF CreateLogFiles, Runs
  <2>2. CASE /\ made' = [made EXCEPT ![m] = @ \cup {"log", "metrics"}]
             /\ Done(m) /\ UNCHANGED server
      BY <2>1, <2>2, <1>1, <1>5
  <2>3. CASE Done(m) /\ UNCHANGED <<hostVars, made>>
      BY <2>1, <2>3, <1>4, <1>5 DEF hostVars
  <2> QED
      BY <1>3, <1>7, <2>2, <2>3 DEF CreateLogFiles
<1>8. CASE LinkFiles(m)
  <2>1. st[m] = "starting"
      BY <1>8 DEF LinkFiles, Runs
  <2>2. CASE Done(m) /\ UNCHANGED <<fifos, server, made>>
      BY <2>1, <2>2, <1>4, <1>5
  <2>3. CASE doCleanup(m, made[m])
      BY <2>3, <1>2
  <2> QED
      BY <1>8, <2>2, <2>3 DEF LinkFiles
<1>9. CASE Handler(m) /\ ~startVMM(m) /\ ~CreateLogFiles(m) /\ ~LinkFiles(m)
  <2>1. st[m] = "starting"
    <3>1. \E h \in Names : Sends(m, h)
        BY <1>9, HandlerShape DEF ListsInv, StatesOK
    <3> QED
        BY <3>1 DEF Sends, Runs
  <2>2. Fail(m) \/ (Done(m) /\ UNCHANGED <<hostVars, made>>)
      BY <1>9, ApiHost, Zenon DEF Handler, ValidateNetwork, ValidateJailer,
           Validate, ValidateLoadSnapshot, Check, setupNetwork, setupKernelArgs
  <2> QED
      BY <1>3, <1>4, <1>5, <2>1, <2>2 DEF hostVars
<1>10. CASE startInstance(m)
  <2>1. \/ Fail(m)
        \/ UNCHANGED <<hostVars, made>> /\ st' = [st EXCEPT ![m] = "ok"]
      BY <1>10, Zenon DEF startInstance
  <2> QED
      BY <1>1, <1>3, <1>4, <2>1 DEF hostVars
<1>11. CASE Stop(m)
    BY <1>2, <1>11 DEF Stop
<1>12. CASE NewMachine(m)
  <2>1. UNCHANGED <<server, made>> /\ st'[m] = "new"
      BY <1>1, <1>12, NewShape DEF hostVars
  <2> QED
      BY <1>4, <2>1
<1>13. CASE Start(m)
  <2>1. UNCHANGED <<server, made>> /\ st'[m] = "starting"
      BY <1>1, <1>13 DEF Start, hostVars, machineVars
  <2> QED
      BY <1>4, <2>1
<1> QED
    BY <1>2, <1>6, <1>7, <1>8, <1>9, <1>10, <1>11, <1>12, <1>13 DEF Step

\* The handler that makes sure that the socket is free has found it so.
LEMMA ClaimStep ==
    ASSUME ListsInv, ChrootInv, ServerInv, ~cfg.unchecked, NEW m \in Machines,
           Step(m), st'[m] = "starting", Claimed(m)'
    PROVE  /\ st[m] = "starting"
           /\ Claimed(m) \/ \A o \in Machines : server = o => Meets(m, o)
<1>1. /\ st \in [Machines -> {"none", "new", "starting", "ok", "err", "down"}]
      /\ cfg \in ConfigFields /\ DOMAIN todo = Machines /\ UNCHANGED cfg
    BY OthersKept DEF ListsInv, StatesOK
<1>2. ~NewMachine(m) /\ ~Stop(m) /\ ~startInstance(m)
  <2>1. NewMachine(m) => st' = [st EXCEPT ![m] = "new"]
      BY NewShape
  <2>2. Stop(m) => st' = [st EXCEPT ![m] = "down"]
      BY DEF Stop
  <2>3. startInstance(m) => \/ st' = [st EXCEPT ![m] = "ok"]
                            \/ st' = [st EXCEPT ![m] = "err"]
      BY DEF startInstance, Fail
  <2> QED
      BY <2>1, <2>2, <2>3, <1>1
<1>3. ~Start(m)
  <2>1. Start(m) => todo'[m] = HandlersOf
      BY <1>1 DEF Start, HandlersOf
  <2>2. /\ "LinkFilesToRootFS" \in Range(HandlersOf) <=> cfg.jailed
        /\ ~cfg.jailed /\ ~cfg.unchecked
            => Range(HandlersOf) \cap {"ValidateCfg", "ValidateLoadSnapshotCfg"}
                    # {}
      BY <1>1, ListInOrder
  <2> QED
      BY <2>1, <2>2, <1>1 DEF Claimed
<1>4. Handler(m)
    BY <1>2, <1>3 DEF Step
<1>5. PICK h \in Names : Sends(m, h)
    BY <1>4, HandlerShape DEF ListsInv, StatesOK
<1>6. Runs(m, h) /\ Ended(m)
    BY <1>5 DEF Sends
<1>7. st[m] = "starting" /\ Range(todo'[m]) = Range(todo[m]) \ {h}
    BY <1>6, EndedList
<1>8. CASE Claimed(m)
    BY <1>7, <1>8
<1>9. CASE LinkFiles(m)
  <2>1. ~Failed(m, made[m])
      BY <1>1 DEF Failed
  <2>2. "kernel" \notin chroot
      BY <1>9, <2>1, LinkStep DEF ChrootInv
  <2>3. CASE cfg.jailed
    <3>1. \A o \in Machines : server = o => Meets(m, o)
        BY <1>7, <2>2, <2>3 DEF ServerInv, ListsInv, OneStarts, Meets
    <3> QED
        BY <1>7, <3>1
  <2>4. CASE ~cfg.jailed
    <3>1. h = "LinkFilesToRootFS"
        BY <1>6, <1>9 DEF LinkFiles, Runs
    <3> QED
        BY <1>1, <1>7, <2>4, <3>1 DEF Claimed
  <2> QED
      BY <2>3, <2>4
<1>10. CASE Validate(m) \/ ValidateLoadSnapshot(m)
  <2>1. ~Fail(m)
      BY <1>1 DEF Fail
  <2>2. SocketFree
      BY <1>10, <2>1, Zenon DEF Validate, ValidateLoadSnapshot, Check
  <2> QED
      BY <1>7, <2>2, MachinesAssumption DEF SocketFree
<1>11. CASE ~LinkFiles(m) /\ ~Validate(m) /\ ~ValidateLoadSnapshot(m)
  <2>1. \A g \in Names : Runs(m, g) => g = h
      BY <1>6 DEF Runs
  <2>2. h \notin {"LinkFilesToRootFS", "ValidateCfg", "ValidateLoadSnapshotCfg"}
      BY <2>1, <1>4, <1>11
         DEF Handler, ValidateNetwork, ValidateJailer, setupNetwork,
             setupKernelArgs, startVMM, CreateLogFiles, BootstrapLogging,
             createMachine, createBootSource, attachDrives,
             createNetworkInterfaces, addVsocks, setMmdsConfig, loadSnapshot, Names
  <2>3. Claimed(m)
      BY <2>2, <1>1, <1>7 DEF Claimed
  <2> QED
      BY <2>3, <1>7
<1> QED
    BY <1>9, <1>10, <1>11

LEMMA NextServerInv ==
    ListsInv /\ ChrootInv /\ ServerInv /\ [Next]_vars => ServerInv'
<1> SUFFICES ASSUME ListsInv, ChrootInv, ServerInv, [Next]_vars PROVE ServerInv'
    OBVIOUS
<1>1. ASSUME UNCHANGED <<cfg, chroot, made, st, todo, reqs>>,
             \/ UNCHANGED <<server, late>>
             \/ \E m \in Machines : /\ late[m] = "pending" /\ server' = m
                                    /\ late' = [late EXCEPT ![m] = "bound"]
             \/ server' = "stale" /\ UNCHANGED late
      PROVE  ServerInv'
  <2>1. DOMAIN late' = Machines /\ server' \in Machines \cup {"none", "stale"}
      BY <1>1 DEF ServerInv
  <2>2. \A o \in Machines : /\ late[o] = "bound" => late'[o] = "bound"
                            /\ late'[o] # "no" => st'[o] = "err"
                            /\ server' = o => server = o \/ late'[o] = "bound"
      BY <1>1, MachinesAssumption DEF ServerInv
  <2>3. \A o \in Machines : Claimed(o)' = Claimed(o)
      BY <1>1 DEF Claimed
  <2> QED
      BY <1>1, <2>1, <2>2, <2>3 DEF ServerInv, Meets
<1>2. ASSUME NEW m \in Machines, Step(m) PROVE ServerInv'
  <2>1. /\ UNCHANGED cfg /\ cfg \in ConfigFields
        /\ \A o \in Machines \ {m} :
            reqs'[o] = reqs[o] /\ st'[o] = st[o] /\ todo'[o] = todo[o]
        /\ st \in [Machines -> {"none", "new", "starting", "ok", "err", "down"}]
      BY <1>2, OthersKept DEF ListsInv, StatesOK
  <2>2. chroot \subseteq chroot'
    <3>1. LinkFiles(m) => chroot \subseteq chroot'
        BY LinkStep DEF ChrootInv
    <3>2. NewMachine(m) => UNCHANGED chroot
        BY NewShape DEF hostVars
    <3>3. ~LinkFiles(m) /\ ~NewMachine(m) => UNCHANGED chroot
        BY <1>2, PathsKept DEF ChrootInv
    <3> QED
        BY <3>1, <3>2, <3>3
  <2>3. /\ DOMAIN made' = Machines
        /\ \A o \in Machines \ {m} : made'[o] = made[o]
        /\ \/ /\ server' = server /\ made[m] \subseteq made'[m]
              /\ st'[m] \notin {"err", "down"}
           \/ /\ server = "none" /\ server' = m /\ "sock" \in made'[m]
              /\ st[m] = "starting" /\ st'[m] = "starting"
           \/ /\ server' \in {server, "none"}
              /\ "sock" \in made[m] => server' = "none"
      BY <1>2, ServerStep
  <2>9. /\ DOMAIN late' = Machines
        /\ \A o \in Machines : /\ late[o] = "bound" => late'[o] = "bound"
                               /\ late'[o] # "no" => st'[o] = "err"
      BY <1>2, LateStep
  <2>4. ASSUME NEW o \in Machines, server' = o, late'[o] # "bound"
        PROVE  "sock" \in made'[o]
      BY <2>3, <2>4, <2>9, MachinesAssumption DEF ServerInv
  <2>5. ASSUME NEW o \in Machines, server' = o, late'[o] # "bound", cfg.jailed,
               st'[o] # "starting"
        PROVE  "kernel" \in chroot'
    <3>1. server = o /\ late[o] # "bound"
        BY <2>3, <2>5, <2>9, MachinesAssumption
    <3>2. CASE st[o] # "starting"
        BY <3>1, <3>2, <2>2, <2>5 DEF ServerInv
    <3>3. CASE st[o] = "starting"
      <4>1. o = m /\ st'[m] \notin {"err", "down"}
          BY <3>1, <3>3, <2>1, <2>3, <2>5, MachinesAssumption DEF ServerInv
      <4>2. startInstance(m)
        <5>1. ~NewMachine(m)
            BY <3>3, <4>1, NewShape
        <5>2. ~Start(m) /\ ~Stop(m)
            BY <3>3, <4>1 DEF Start, Stop
        <5>3. ~Handler(m)
          <6> SUFFICES ASSUME Handler(m) PROVE FALSE
              OBVIOUS
          <6>1. PICK h \in Names : Sends(m, h)
              BY HandlerShape DEF ListsInv, StatesOK
          <6>2. st'[m] \in {"err", "starting"}
              BY <6>1, EndedList DEF Sends
          <6> QED
              BY <6>2, <4>1, <2>5
        <5> QED
            BY <1>2, <5>1, <5>2, <5>3 DEF Step
      <4>3. todo[m] = <<>>
          BY <4>2 DEF startInstance
      <4>4. Linked(m)
          BY <3>3, <4>1, <4>3, <2>5, EmptyList DEF ChrootInv
      <4>5. own[m].kernel.file = "kernel"
          BY <3>3, <4>1 DEF ChrootInv, FieldsOK
      <4> QED
          BY <4>4, <4>5, <2>2 DEF Linked, InChroot
    <3> QED
        BY <3>2, <3>3
  <2>6. ASSUME ~cfg.unchecked, NEW o \in Machines, st'[o] = "starting", Claimed(o)'
        PROVE  \A q \in Machines : server' = q => Meets(o, q)'
    <3>1. st[o] = "starting" /\ \A q \in Machines : server = q => Meets(o, q)
      <4>1. CASE o = m
          BY <1>2, <4>1, <2>6, ClaimStep DEF ServerInv
      <4>2. CASE o # m
        <5>1. st[o] = "starting" /\ Claimed(o)
            BY <4>2, <2>1, <2>6 DEF Claimed
        <5> QED
            BY <5>1, <2>6 DEF ServerInv
      <4> QED
          BY <4>1, <4>2
    <3>2. server = "none" /\ st[m] = "starting" /\ server' = m => m = o
        BY <3>1 DEF ListsInv, OneStarts
    <3> QED
        BY <2>3, <2>9, <3>1, <3>2, MachinesAssumption DEF Meets
  <2>7. ASSUME ~cfg.unchecked, NEW o \in Machines, NEW j \in DOMAIN reqs'[o]
        PROVE  reqs'[o][j].to \in Machines /\ Meets(o, reqs'[o][j].to)
    <3>1. \/ j \in DOMAIN reqs[o] /\ reqs'[o][j] = reqs[o][j]
          \/ NewRequest(o, reqs'[o][j])
      <4>1. CASE o # m
          BY <4>1, <2>1, <2>7
      <4>2. CASE o = m
          BY <4>2, <1>2, <2>7, RequestStep
      <4> QED
          BY <4>1, <4>2
    <3>2. CASE j \in DOMAIN reqs[o] /\ reqs'[o][j] = reqs[o][j]
        BY <3>2, <2>7 DEF ServerInv
    <3>3. CASE NewRequest(o, reqs'[o][j])
      <4>1. reqs'[o][j].to = server
          BY <3>3, AskedOps DEF NewRequest, Request
      <4>2. st[o] = "starting" /\ Claimed(o) /\ server \in Machines
          BY <3>3 DEF NewRequest, Settled, Claimed
      <4> QED
          BY <4>1, <4>2, <2>7 DEF ServerInv
    <3> QED
        BY <3>1, <3>2, <3>3
  <2>8. server' \in Machines \cup {"none", "stale"}
      BY <2>3 DEF ServerInv
  <2>10. \A o \in Machines : \A q \in Machines : Meets(o, q) => Meets(o, q)'
      BY <2>9 DEF Meets
  <2> QED
      BY <2>1, <2>3, <2>4, <2>5, <2>6, <2>7, <2>8, <2>9, <2>10 DEF ServerInv
<1>3. CASE UNCHANGED vars
    BY <1>1, <1>3 DEF vars, hostVars, machineVars
<1>4. ASSUME NEW m \in Machines, LateBinds(m) \/ LateExits(m) PROVE ServerInv'
    BY <1>1, <1>4 DEF LateBinds, LateExits, machineVars
<1> QED
    BY <1>2, <1>3, <1>4 DEF Next, Step

\* With validation, machines that share a Config, and with it a socket and a
\* chroot, and that are started one after the other, never configure each other's
\* firecracker, except one that came up after its Start had given up waiting.
THEOREM TalksToItsOwn == Spec => []OwnFirecracker
<1>1. Init => ServerInv
  <2> SUFFICES ASSUME Init PROVE ServerInv
      OBVIOUS
  <2>1. /\ DOMAIN made = Machines /\ server = "none"
        /\ \A m \in Machines : st[m] = "none" /\ DOMAIN reqs[m] = {}
        /\ DOMAIN late = Machines /\ \A m \in Machines : late[m] = "no"
      BY InitRecords, InitRequests
  <2> QED
      BY <2>1, MachinesAssumption DEF ServerInv
<1>2. ServerInv => OwnFirecracker
    BY DEF ServerInv, OwnFirecracker, Meets
<1> QED
    BY <1>1, <1>2, InitChrootInv, ListsInvariant, NextChrootInv, NextServerInv, PTL
       DEF Spec

-------------------------------------------------------------------------------
(* The command line and the namespace. *)

\* A machine keeps the command line and the socket that NewMachine gave it.
CommandInv ==
    /\ DOMAIN cmd = Machines
    /\ \A m \in Machines : st[m] # "none" =>
        /\ cmd[m] = IF cfg.jailed THEN jail.cmd ELSE plain(m).cmd
        /\ own[m].socket = IF cfg.jailed THEN jail.socket ELSE plain(m).socket
        /\ cfg.netns # Unset => own[m].netns = cfg.netns

\* Once its process runs, it runs in the machine's namespace; nothing is sent
\* before.
NamespaceInv ==
    /\ DOMAIN ns = Machines
    /\ \A m \in Machines : DOMAIN reqs[m] # {} /\ st[m] = "starting"
                                => "StartVMM" \notin Range(todo[m])
    /\ ~cfg.jailed \/ cfg.netns # Unset => \A m \in Machines :
        \/ st[m] = "starting" /\ "StartVMM" \notin Range(todo[m])
        \/ DOMAIN reqs[m] # {}
        => ns[m] = own[m].netns

LEMMA NewCommand ==
    ASSUME FieldsOK, CommandInv, NEW m \in Machines, NewMachine(m)
    PROVE  /\ DOMAIN cmd' = Machines
           /\ \A o \in Machines \ {m} : cmd'[o] = cmd[o] /\ own'[o] = own[o]
           /\ cmd'[m] = IF cfg.jailed THEN jail.cmd ELSE plain(m).cmd
           /\ own'[m].socket = IF cfg.jailed THEN jail.socket ELSE plain(m).socket
           /\ cfg.netns # Unset => own'[m].netns = cfg.netns
<1> DEFINE process == IF cfg.jailed THEN jail ELSE plain(m)
           initrd == IF cfg.initrd THEN Path("host", "initrd") ELSE NoPath
           netns == IF cfg.netns = Unset /\ cniInterface # 0 THEN m ELSE cfg.netns
<1>1. /\ cmd' = [cmd EXCEPT ![m] = process.cmd]
      /\ own' = [own EXCEPT ![m] =
                    [kernel |-> Path("host", "kernel"), initrd |-> initrd,
                     log |-> LogFile("log"), metrics |-> LogFile("metrics"),
                     netns |-> netns, args |-> cfg.args,
                     socket |-> process.socket]]
    BY Zenon DEF NewMachine
<1>2. DOMAIN cmd = Machines /\ DOMAIN own = Machines
    BY DEF FieldsOK, CommandInv
<1>3. /\ process.cmd = IF cfg.jailed THEN jail.cmd ELSE plain(m).cmd
      /\ process.socket = IF cfg.jailed THEN jail.socket ELSE plain(m).socket
      /\ cfg.netns # Unset => netns = cfg.netns
    OBVIOUS
<1> HIDE DEF process, initrd, netns
<1> QED
    BY <1>1, <1>2, <1>3

\* No other step writes these.
LEMMA CommandKept ==
    ASSUME FieldsOK, NEW m \in Machines, Step(m), ~NewMachine(m)
    PROVE  /\ UNCHANGED cmd
           /\ \A o \in Machines : /\ own'[o].socket = own[o].socket
                                  /\ own'[o].netns = own[o].netns
<1>1. CASE LinkFiles(m)
  <2>1. UNCHANGED cmd
      BY <1>1 DEF LinkFiles
  <2>2. PICK k : Relinked(m, k)
      BY <1>1, Zenon DEF LinkFiles
  <2>3. \E K, I, L, M :
            own' = [own EXCEPT ![m] = [own[m] EXCEPT !.kernel = K, !.initrd = I,
                                                     !.log = L, !.metrics = M]]
      BY <2>2, Zenon DEF Relinked
  <2> QED
      BY <2>1, <2>3 DEF FieldsOK
<1>2. CASE setupKernelArgs(m)
  <2>1. PICK args : own' = [own EXCEPT ![m].args = args]
      BY <1>2, Zenon DEF setupKernelArgs
  <2>2. UNCHANGED cmd
      BY <1>2 DEF setupKernelArgs
  <2> QED
      BY <2>1, <2>2 DEF FieldsOK
<1>3. CASE ~LinkFiles(m) /\ ~setupKernelArgs(m)
  <2>1. UNCHANGED <<own, cmd>>
      BY <1>3, ApiHost DEF Step, Start, Stop, startInstance, Handler,
           ValidateNetwork, ValidateJailer, Validate, ValidateLoadSnapshot, Check,
           setupNetwork, startVMM, CreateLogFiles, machineVars
  <2> QED
      BY <2>1
<1> QED
    BY <1>1, <1>2, <1>3

\* A machine that has been made stays made.
LEMMA StaysMade ==
    ASSUME ListsInv, NEW m \in Machines, Step(m), ~NewMachine(m)
    PROVE  st[m] # "none"
<1>1. Handler(m) => \E h \in Names : Sends(m, h)
    BY HandlerShape DEF ListsInv, StatesOK
<1> QED
    BY <1>1 DEF Step, Start, Stop, startInstance, Sends, Runs

LEMMA NextCommandInv ==
    ListsInv /\ ChrootInv /\ CommandInv /\ [Next]_vars => CommandInv'
<1> SUFFICES ASSUME ListsInv, ChrootInv, CommandInv, [Next]_vars PROVE CommandInv'
    OBVIOUS
<1>1. CASE Resting
    BY <1>1 DEF Resting, CommandInv, jail, plain
<1>2. ASSUME NEW m \in Machines, Step(m) PROVE CommandInv'
  <2>1. /\ UNCHANGED cfg
        /\ \A o \in Machines \ {m} : st'[o] = st[o]
      BY <1>2, OthersKept
  <2>2. UNCHANGED jail /\ \A o \in Machines : UNCHANGED plain(o)
      BY <2>1 DEF jail, plain
  <2>3. FieldsOK
      BY DEF ChrootInv
  <2>4. CASE NewMachine(m)
      BY <2>1, <2>2, <2>3, <2>4, NewCommand DEF CommandInv
  <2>5. CASE ~NewMachine(m)
      BY <1>2, <2>1, <2>2, <2>3, <2>5, CommandKept, StaysMade DEF CommandInv
  <2> QED
      BY <2>4, <2>5
<1> QED
    BY <1>1, <1>2, StepOrRest

LEMMA CommandInvariant == Spec => []CommandInv
<1>1. Init => CommandInv
  <2>1. Init => cmd = [m \in Machines |-> NoCommand]
      BY Zenon DEF Init
  <2> QED
      BY <2>1, InitRecords DEF CommandInv
<1> QED
    BY <1>1, InitChrootInv, ListsInvariant, NextChrootInv, NextCommandInv, PTL
       DEF Spec

\* Every machine's client dials where its process listens, unless it has neither
\* a SocketPath nor a jailer, and the jailer is given the caller's cgroup settings,
\* for every Config.
THEOREM DialsWhereItListens == Spec => []CommandAgrees
<1>1. ListsInv /\ CommandInv => CommandAgrees
  <2> SUFFICES ASSUME ListsInv, CommandInv, NEW m \in Machines, st[m] # "none"
               PROVE  /\ cfg.jailed \/ cfg.socket # Unset
                            => own[m].socket = Listens(cmd[m], cfg.jailed)
                      /\ cfg.jailed => \A j \in DOMAIN cfg.cgroup :
                            (\A k \in DOMAIN cfg.cgroup :
                                k > j => cfg.cgroup[k][1] # cfg.cgroup[j][1])
                            => Cgroup(cmd[m], cfg.cgroup[j][1]) = cfg.cgroup[j][2]
      BY DEF CommandAgrees
  <2>1. IsSeq(cfg.cgroup) /\ cfg.jailed \in BOOLEAN
    <3>1. cfg.cgroup \in Seq(STRING \X STRING) /\ cfg.jailed \in BOOLEAN
        BY DEF ListsInv, StatesOK, ConfigFields
    <3> QED
        BY <3>1, SeqOfRange DEF IsSeq
  <2>2. CASE cfg.jailed
    <3>1. cmd[m] = JailerArgs(jailBuilder(cfg))
          /\ own[m].socket = Append(jailerWorkspaceDir(cfg), machineSocketPath(cfg))
        BY <2>2 DEF CommandInv, jail
    <3>2. own[m].socket = Listens(cmd[m], cfg.jailed)
      <4>1. Listens(JailerArgs(jailBuilder(cfg)), TRUE)
                = Append(jailerWorkspaceDir(cfg), machineSocketPath(cfg))
          BY <2>1, JailerListens
      <4> QED
          BY <2>1, <2>2, <3>1, <4>1
    <3>3. ASSUME NEW j \in DOMAIN cfg.cgroup,
                 \A k \in DOMAIN cfg.cgroup :
                    k > j => cfg.cgroup[k][1] # cfg.cgroup[j][1]
          PROVE  Cgroup(cmd[m], cfg.cgroup[j][1]) = cfg.cgroup[j][2]
        BY <2>1, <3>1, <3>3, CallersCgroup
    <3> QED
        BY <3>2, <3>3
  <2>3. CASE ~cfg.jailed
    <3> SUFFICES ASSUME cfg.socket # Unset
                 PROVE  own[m].socket = Listens(cmd[m], cfg.jailed)
        BY <2>3
    <3>1. /\ own[m].socket = <<cfg.socket>>
          /\ cmd[m] = Build(configureBuilder(defaultFirecrackerVMMCommandBuilder,
                                             cfg, m))
        BY <2>3 DEF CommandInv, plain
    <3>2. Listens(Build(configureBuilder(defaultFirecrackerVMMCommandBuilder,
                                         cfg, m)), FALSE) = <<cfg.socket>>
        BY PlainListens
    <3> QED
        BY <2>1, <2>3, <3>1, <3>2
  <2> QED
      BY <2>2, <2>3
<1> QED
    BY <1>1, ListsInvariant, CommandInvariant, PTL

\* The process is started in the machine's namespace.
LEMMA NamespaceRight ==
    ASSUME ListsInv, CommandInv, NEW m \in Machines, st[m] # "none",
           ~cfg.jailed \/ cfg.netns # Unset
    PROVE  Namespace(m) = own[m].netns
<1>1. CASE ~cfg.jailed
    BY <1>1 DEF Namespace
<1>2. CASE cfg.jailed
  <2>1. IsSeq(cfg.cgroup)
    <3>1. cfg.cgroup \in Seq(STRING \X STRING)
        BY DEF ListsInv, StatesOK, ConfigFields
    <3> QED
        BY <3>1, SeqOfRange DEF IsSeq
  <2>2. cmd[m] = JailerArgs(jailBuilder(cfg)) /\ own[m].netns = cfg.netns
      BY <1>2 DEF CommandInv, jail
  <2>3. Value(JailerArgs(jailBuilder(cfg)).options, "--netns", Unset) =
            IF cfg.netns = Unset THEN Unset ELSE cfg.netns
      BY <2>1, JailerValues
  <2> QED
      BY <1>2, <2>2, <2>3 DEF Namespace
<1> QED
    BY <1>1, <1>2

\* Only startVMM joins a namespace.
LEMMA NamespaceKept ==
    ASSUME NEW m \in Machines, Step(m), ~startVMM(m)
    PROVE  UNCHANGED ns
    BY ApiHost, NewShape
       DEF Step, Start, Stop, startInstance, Handler, ValidateNetwork,
           ValidateJailer, Validate, ValidateLoadSnapshot, Check, setupNetwork,
           setupKernelArgs, CreateLogFiles, LinkFiles, machineVars

LEMMA NextNamespaceInv ==
    ListsInv /\ ChrootInv /\ CommandInv /\ NamespaceInv /\ [Next]_vars
        => NamespaceInv'
<1> SUFFICES ASSUME ListsInv, ChrootInv, CommandInv, NamespaceInv, [Next]_vars
             PROVE  NamespaceInv'
    OBVIOUS
<1>1. CASE Resting
  <2>1. UNCHANGED <<cfg, ns, reqs, st, todo, own>>
      BY <1>1 DEF Resting
  <2> QED
      BY <2>1 DEF NamespaceInv
<1>2. ASSUME NEW m \in Machines, Step(m) PROVE NamespaceInv'
  <2>1. /\ UNCHANGED cfg /\ cfg \in ConfigFields
        /\ \A o \in Machines \ {m} :
            reqs'[o] = reqs[o] /\ st'[o] = st[o] /\ todo'[o] = todo[o]
        /\ st \in [Machines -> {"none", "new", "starting", "ok", "err", "down"}]
      BY <1>2, OthersKept DEF ListsInv, StatesOK
  <2>2. /\ DOMAIN ns = Machines /\ DOMAIN ns' = Machines
        /\ \A o \in Machines \ {m} : ns'[o] = ns[o]
    <3>1. startVMM(m) => UNCHANGED ns \/ ns' = [ns EXCEPT ![m] = Namespace(m)]
        BY DEF startVMM
    <3> QED
        BY <1>2, <3>1, NamespaceKept DEF NamespaceInv
  <2>3. \A o \in Machines \ {m} : own'[o].netns = own[o].netns
    <3>1. FieldsOK
        BY DEF ChrootInv
    <3> QED
        BY <1>2, <3>1, NewCommand, CommandKept
  <2>4. ASSUME st'[m] = "starting", "StartVMM" \notin Range(todo'[m])
        PROVE  /\ st[m] = "starting"
               /\ \/ "StartVMM" \notin Range(todo[m]) /\ ~startVMM(m)
                  \/ startVMM(m) /\ ns' = [ns EXCEPT ![m] = Namespace(m)]
    <3>1. ~NewMachine(m) /\ ~Stop(m) /\ ~startInstance(m)
      <4>1. NewMachine(m) => st' = [st EXCEPT ![m] = "new"]
          BY NewShape
      <4>2. Stop(m) => st' = [st EXCEPT ![m] = "down"]
          BY DEF Stop
      <4>3. startInstance(m) => \/ st' = [st EXCEPT ![m] = "ok"]
                                \/ st' = [st EXCEPT ![m] = "err"]
          BY DEF startInstance, Fail
      <4> QED
          BY <4>1, <4>2, <4>3, <2>1, <2>4
    <3>2. ~Start(m)
      <4>1. Start(m) => todo'[m] = HandlersOf
          BY DEF Start, HandlersOf, ListsInv, StatesOK
      <4> QED
          BY <4>1, <2>1, <2>4, ListInOrder
    <3>3. Handler(m)
        BY <1>2, <3>1, <3>2 DEF Step
    <3>4. PICK h \in Names : Sends(m, h)
        BY <3>3, HandlerShape DEF ListsInv, StatesOK
    <3>5. Runs(m, h) /\ Ended(m)
        BY <3>4 DEF Sends
    <3>6. st[m] = "starting" /\ Range(todo'[m]) = Range(todo[m]) \ {h}
        BY <3>5, <2>4, EndedList
    <3>7. CASE startVMM(m)
      <4>1. st' # [st EXCEPT ![m] = "err"]
          BY <2>1, <2>4
      <4> QED
          BY <3>6, <3>7, <4>1 DEF startVMM, Fail
    <3>8. CASE ~startVMM(m)
      <4>1. \A g \in Names : Runs(m, g) => g = h
          BY <3>5 DEF Runs
      <4>2. h # "StartVMM"
          BY <4>1, <3>3, <3>8
             DEF Handler, ValidateNetwork, ValidateJailer, Validate,
                 ValidateLoadSnapshot, setupNetwork, setupKernelArgs,
                 CreateLogFiles, LinkFiles, BootstrapLogging, createMachine,
                 createBootSource, attachDrives, createNetworkInterfaces,
                 addVsocks, setMmdsConfig, loadSnapshot, Names
      <4> QED
          BY <3>6, <3>8, <4>2, <2>4
    <3> QED
        BY <3>7, <3>8
  <2>5. ASSUME DOMAIN reqs'[m] # {}
        PROVE  /\ ~NewMachine(m) /\ ~Start(m) /\ ~startVMM(m)
               /\ \/ DOMAIN reqs[m] # {}
                  \/ st[m] = "starting" /\ "StartVMM" \notin Range(todo[m])
    <3>1. PICK j \in DOMAIN reqs'[m] : TRUE
        BY <2>5
    <3>2. \/ j \in DOMAIN reqs[m] \/ NewRequest(m, reqs'[m][j])
        BY <1>2, RequestStep
    <3>3. NewRequest(m, reqs'[m][j])
            => st[m] = "starting" /\ "StartVMM" \notin Range(todo[m])
        BY DEF NewRequest, Settled
    <3>4. startVMM(m) => st[m] = "starting" /\ "StartVMM" \in Range(todo[m])
      <4>1. startVMM(m) => Runs(m, "StartVMM") /\ Ended(m)
          BY DEF startVMM, Fail, Ended
      <4> QED
          BY <4>1, EndedList
    <3>5. ~startVMM(m)
        BY <3>2, <3>3, <3>4 DEF NamespaceInv
    <3>6. ~NewMachine(m) /\ ~Start(m)
      <4>1. st[m] \in {"none", "new"} => DOMAIN reqs[m] = {}
        <5>1. st[m] \in {"none", "new"} => reqs[m] = <<>>
            BY DEF ListsInv, ListInv
        <5>2. DOMAIN <<>> = {}
            OBVIOUS
        <5> QED
            BY <5>1, <5>2
      <4> QED
          BY <4>1, <3>2, <3>3, NewShape DEF Start
    <3> QED
        BY <3>2, <3>3, <3>5, <3>6
  <2>6. ASSUME NEW o \in Machines, DOMAIN reqs'[o] # {}, st'[o] = "starting"
        PROVE  "StartVMM" \notin Range(todo'[o])
    <3>1. CASE o # m
        BY <3>1, <2>1, <2>6 DEF NamespaceInv
    <3>2. CASE o = m
      <4>1. st[m] = "starting" /\ Handler(m)
        <5>1. ~NewMachine(m) /\ ~Start(m)
            BY <3>2, <2>5, <2>6
        <5>2. Stop(m) => st' = [st EXCEPT ![m] = "down"]
            BY DEF Stop
        <5>3. startInstance(m) => \/ st' = [st EXCEPT ![m] = "ok"]
                                  \/ st' = [st EXCEPT ![m] = "err"]
            BY DEF startInstance, Fail
        <5>4. Handler(m)
            BY <5>1, <5>2, <5>3, <1>2, <2>1, <2>6, <3>2 DEF Step
        <5>5. \E h \in Names : Sends(m, h)
            BY <5>4, HandlerShape DEF ListsInv, StatesOK
        <5> QED
            BY <5>4, <5>5 DEF Sends, Runs
      <4>2. PICK h \in Names : Sends(m, h)
          BY <4>1, HandlerShape DEF ListsInv, StatesOK
      <4>3. Runs(m, h) /\ Ended(m)
          BY <4>2 DEF Sends
      <4>4. Range(todo'[m]) \subseteq Range(todo[m])
          BY <4>3, <2>6, <3>2, EndedList
      <4>5. "StartVMM" \notin Range(todo[m])
          BY <4>1, <2>5, <2>6, <3>2 DEF NamespaceInv
      <4> QED
          BY <4>4, <4>5, <3>2
    <3> QED
        BY <3>1, <3>2
  <2>7. ASSUME ~cfg.jailed \/ cfg.netns # Unset, NEW o \in Machines,
               \/ st'[o] = "starting" /\ "StartVMM" \notin Range(todo'[o])
               \/ DOMAIN reqs'[o] # {}
        PROVE  ns'[o] = own'[o].netns
    <3>1. CASE o # m
        BY <3>1, <2>1, <2>2, <2>3, <2>7 DEF NamespaceInv
    <3>2. CASE o = m
      <4>1. ~NewMachine(m)
        <5>1. NewMachine(m) => st' = [st EXCEPT ![m] = "new"]
            BY NewShape
        <5> QED
            BY <5>1, <2>1, <2>5, <2>7, <3>2
      <4>2. own'[m].netns = own[m].netns
          BY <1>2, <4>1, CommandKept DEF ChrootInv
      <4>3. CASE startVMM(m)
        <5>1. ns' = [ns EXCEPT ![m] = Namespace(m)] /\ st[m] = "starting"
            BY <4>3, <2>4, <2>5, <2>7, <3>2
        <5>2. Namespace(m) = own[m].netns
            BY <5>1, <2>7, NamespaceRight
        <5> QED
            BY <5>1, <5>2, <4>2, <2>2, <3>2
      <4>4. CASE ~startVMM(m)
        <5>1. UNCHANGED ns
            BY <1>2, <4>4, NamespaceKept
        <5>2. \/ st[m] = "starting" /\ "StartVMM" \notin Range(todo[m])
              \/ DOMAIN reqs[m] # {}
            BY <4>4, <2>4, <2>5, <2>7, <3>2
        <5> QED
            BY <5>1, <5>2, <4>2, <2>7, <3>2 DEF NamespaceInv
      <4> QED
          BY <4>3, <4>4
    <3> QED
        BY <3>1, <3>2
  <2> QED
      BY <2>1, <2>2, <2>6, <2>7 DEF NamespaceInv
<1> QED
    BY <1>1, <1>2, StepOrRest

LEMMA NamespaceInvariant == Spec => []NamespaceInv
<1>1. Init => NamespaceInv
  <2>1. Init => ns = [m \in Machines |-> Unset]
      BY Zenon DEF Init
  <2> QED
      BY <2>1, InitRecords, InitRequests DEF NamespaceInv
<1> QED
    BY <1>1, ListsInvariant, InitChrootInv, NextChrootInv, CommandInvariant,
       NextNamespaceInv, PTL DEF Spec

\* Without a jailer, and with one if the Config names a namespace, a firecracker
\* that is given the tap of a CNI network runs in the namespace of that network.
\* (The run jailed_namespace shows what happens in the case that is left.)
THEOREM JoinsItsNetwork ==
    ASSUME \A c \in Configs : ~c.jailed \/ c.netns # Unset
    PROVE  Spec => []RunsWithItsTap
<1>1. Init => cfg \in Configs
    BY InitRecords
<1>2. ListsInv /\ cfg \in Configs /\ [Next]_vars => (cfg \in Configs)'
    BY StepOrRest, OthersKept DEF Resting
<1>3. NamespaceInv /\ cfg \in Configs => RunsWithItsTap
    BY DEF NamespaceInv, RunsWithItsTap, Sent
<1> QED
    BY <1>1, <1>2, <1>3, ListsInvariant, NamespaceInvariant, PTL DEF Spec

-------------------------------------------------------------------------------
(* The interfaces, which the machines of a Config share, and CNI's results. *)

LEMMA OnlyOne == ASSUME NEW S, Single(S) PROVE S = {Only(S)}
    BY DEF Single, Only

\* A result that can be read reports one interface of the VM, its tap and its
\* address.
LEMMA ResultReported ==
    ASSUME NEW result, NEW id, NEW r,
           DOMAIN result.ifaces = 1 .. Len(result.ifaces),
           \A j \in DOMAIN result.ips :
                result.ips[j].iface \in DOMAIN result.ifaces \cup {0},
           StaticNetworkConfFrom(result, id) # Err,
           r.dev = <<StaticNetworkConfFrom(result, id)[1].TapName>>,
           r.mac = StaticNetworkConfFrom(result, id)[1].VMMacAddr,
           r.ip[1] = StaticNetworkConfFrom(result, id)[1].VMIPConfig
    PROVE  Reported(r, result, id)
<1> DEFINE links == result.ifaces
           in == {j \in DOMAIN links : links[j].sandbox = id}
           out == {j \in DOMAIN links : links[j].sandbox # id}
           v == Only(in)
           taps == {j \in out : links[j].name = links[v].name}
           t == Only(taps)
           pair == VMTapPair(result, id)
           ips == InterfaceIPs(result, pair[1].name, pair[1].sandbox)
<1>1. pair = IF ~Single(in) \/ ~Single(taps) THEN Err ELSE <<links[v], links[t]>>
    BY DEF VMTapPair, FilterBySandbox, IfacesWithName
<1>2. StaticNetworkConfFrom(result, id) =
        IF pair = Err \/ ~Single(ips) THEN Err
        ELSE <<[TapName |-> pair[2].name, VMMacAddr |-> pair[1].mac,
                VMIPConfig |-> result.ips[Only(ips)].addr,
                VMNameservers |-> result.nameservers]>>
    BY DEF StaticNetworkConfFrom
<1>3. pair # Err /\ Single(ips)
    BY <1>2
<1>4. Single(in) /\ Single(taps) /\ pair = <<links[v], links[t]>>
  <2> HIDE DEF in, taps, pair, v, t, links
  <2> QED
      BY <1>1, <1>3
<1>5. in = {v} /\ taps = {t} /\ ips = {Only(ips)}
  <2>1. ASSUME NEW S, Single(S) PROVE S = {Only(S)}
      BY <2>1, OnlyOne
  <2> HIDE DEF in, taps, ips
  <2> QED
      BY <1>3, <1>4, <2>1 DEF v, t
<1>6. v \in DOMAIN links /\ links[v].sandbox = id
    BY <1>5
<1>7. /\ t \in DOMAIN links /\ links[t].sandbox # id
      /\ links[t].name = links[v].name
  <2>1. t \in taps
      BY <1>5
  <2> HIDE DEF t
  <2> QED
      BY <2>1
<1>8. \A k \in DOMAIN links \ {v, t} :
        links[k].sandbox # id /\ links[k].name # links[v].name
  <2> SUFFICES ASSUME NEW k \in DOMAIN links, k # v, k # t
               PROVE  links[k].sandbox # id /\ links[k].name # links[v].name
      OBVIOUS
  <2>1. k \notin in /\ k \notin taps
      BY <1>5
  <2> HIDE DEF v, t
  <2> QED
      BY <2>1
<1>9. r.dev = <<links[t].name>> /\ r.mac = links[v].mac
      /\ r.ip[1] = result.ips[Only(ips)].addr
  <2> HIDE DEF v, t, pair, ips, links
  <2>1. StaticNetworkConfFrom(result, id)[1] =
            [TapName |-> pair[2].name, VMMacAddr |-> pair[1].mac,
             VMIPConfig |-> result.ips[Only(ips)].addr,
             VMNameservers |-> result.nameservers]
      BY <1>2, <1>3
  <2> QED
      BY <2>1, <1>4
<1>10. ips = {l \in DOMAIN result.ips : result.ips[l].iface = v}
  <2>1. v # 0
      BY <1>6
  <2>2. ips = {l \in DOMAIN result.ips : LET at == result.ips[l].iface IN
                at # 0 /\ links[at].name = links[v].name
                       /\ links[at].sandbox = links[v].sandbox}
    <3> HIDE DEF v, t, pair
    <3> QED
        BY <1>4 DEF InterfaceIPs
  <2>3. \A k \in DOMAIN links : links[k].sandbox = id => k = v
    <3>1. \A k \in DOMAIN links : links[k].sandbox = id => k \in in
        OBVIOUS
    <3> HIDE DEF in, v
    <3> QED
        BY <3>1, <1>5 DEF v
  <2> HIDE DEF v, ips
  <2> QED
      BY <2>1, <2>2, <2>3, <1>6
<1>11. {<<r.ip[1]>>} = {<<result.ips[k].addr>> :
            k \in {l \in DOMAIN result.ips : result.ips[l].iface = v}}
  <2>1. {<<result.ips[k].addr>> : k \in ips} = {<<result.ips[Only(ips)].addr>>}
    <3> HIDE DEF ips
    <3> QED
        BY <1>5
  <2> HIDE DEF v, ips
  <2> QED
      BY <2>1, <1>9, <1>10
<1> HIDE DEF v, t
<1> QED
    BY <1>6, <1>7, <1>8, <1>9, <1>11 DEF Reported

\* The interfaces are those of the Config, except that setupNetwork writes into
\* the one with a CNI configuration.
KindsKept ==
    /\ DOMAIN cni = Machines /\ DOMAIN ifaces = DOMAIN cfg.ifaces
    /\ \A j \in DOMAIN ifaces :
        /\ DOMAIN ifaces[j] = {"cni", "dev", "mac", "ip", "mmds"}
        /\ ifaces[j].cni = cfg.ifaces[j].cni

IfacesInv ==
    /\ KindsKept
    /\ cniInterface = 0 => \A j \in DOMAIN ifaces : ifaces[j] = cfg.ifaces[j]

\* What is sent of an interface.
Attached(iface) == [dev |-> iface.dev, mac |-> iface.mac, ip |-> iface.ip]

\* Behind the validation the CNI interface is alone and has no tap yet; behind
\* setupNetwork it has what was reported to this machine.
Connected(m) ==
    /\ Len(ifaces) = 1
    /\ "SetupNetwork" \in Range(todo[m]) => ifaces[1].dev = <<>>
    /\ "SetupNetwork" \notin Range(todo[m])
        => cni[m] # <<>> /\ Reported(Attached(ifaces[1]), cni[m][1], m)

\* What was sent of an interface is right.
RightTap(m, r) ==
    /\ cniInterface = 0 => Callers(r)
    /\ cniInterface # 0 => cni[m] # <<>> /\ Reported(r, cni[m][1], m)

TapInv ==
    /\ \A m \in Machines :
        /\ "ValidateNetworkCfg" \in Range(todo[m])
            => "SetupNetwork" \in Range(todo[m])
        /\ "SetupNetwork" \in Range(todo[m]) => "StartVMM" \in Range(todo[m])
    /\ ~cfg.unchecked => \A m \in Machines :
        /\ /\ st[m] = "starting" /\ cniInterface # 0
           /\ "ValidateNetworkCfg" \notin Range(todo[m])
           => Connected(m)
        /\ \A j \in Sent(m, "iface") : RightTap(m, reqs[m][j].arg)

\* What setupNetwork writes.
LEMMA SetupShape ==
    ASSUME NEW m, setupNetwork(m)
    PROVE  \/ UNCHANGED <<ifaces, cni>>
              /\ \/ cniInterface # 0 => ifaces[cniInterface].dev # <<>>
                 \/ st' = [st EXCEPT ![m] = "err"]
           \/ /\ cniInterface # 0
              /\ \E result \in CniResults(m) :
                    /\ StaticNetworkConfFrom(result, m) # Err
                    /\ cni' = [cni EXCEPT ![m] = <<result>>]
                    /\ ifaces' = [ifaces EXCEPT ![cniInterface] =
                            Filled(ifaces[cniInterface],
                                   StaticNetworkConfFrom(result, m)[1])]
    BY Zenon DEF setupNetwork, Fail

LEMMA FilledFields ==
    ASSUME NEW iface, NEW conf,
           DOMAIN iface = {"cni", "dev", "mac", "ip", "mmds"}
    PROVE  /\ DOMAIN Filled(iface, conf) = DOMAIN iface
           /\ Filled(iface, conf).cni = iface.cni
           /\ Filled(iface, conf).dev = <<conf.TapName>>
           /\ Filled(iface, conf).mac = conf.VMMacAddr
           /\ Filled(iface, conf).ip[1] = conf.VMIPConfig
<1> DEFINE few == SubSeq(conf.VMNameservers, 1,
                    IF Len(conf.VMNameservers) > 2 THEN 2
                                                   ELSE Len(conf.VMNameservers))
<1>1. Filled(iface, conf) = [iface EXCEPT !.dev = <<conf.TapName>>,
                                !.mac = conf.VMMacAddr,
                                !.ip = <<conf.VMIPConfig, few>>]
    BY DEF Filled
<1> HIDE DEF few
<1> QED
    BY <1>1

\* No other step writes the interfaces, or what CNI has reported.
LEMMA IfacesKept ==
    ASSUME NEW m \in Machines, Step(m), ~setupNetwork(m)
    PROVE  UNCHANGED <<ifaces, cni>>
    BY ApiHost, NewShape
       DEF Step, Start, Stop, startInstance, Handler, ValidateNetwork,
           ValidateJailer, Validate, ValidateLoadSnapshot, Check, setupKernelArgs,
           startVMM, CreateLogFiles, LinkFiles, sharedVars, machineVars

LEMMA IfacesStep ==
    ASSUME ListsInv, IfacesInv, NEW m \in Machines, Step(m)
    PROVE  /\ IfacesInv' /\ UNCHANGED cniInterface
           /\ \A o \in Machines \ {m} : cni'[o] = cni[o]
<1>1. UNCHANGED cfg
    BY OthersKept
<1>2. \/ UNCHANGED <<ifaces, cni>>
      \/ /\ cniInterface # 0
         /\ \E result, conf :
                /\ cni' = [cni EXCEPT ![m] = <<result>>]
                /\ ifaces' = [ifaces EXCEPT ![cniInterface] =
                                Filled(ifaces[cniInterface], conf)]
    BY IfacesKept, SetupShape
<1>3. KindsKept' /\ \A o \in Machines \ {m} : cni'[o] = cni[o]
  <2>1. CASE UNCHANGED <<ifaces, cni>>
      BY <1>1, <2>1 DEF IfacesInv, KindsKept
  <2>2. ASSUME NEW result, NEW conf,
               cni' = [cni EXCEPT ![m] = <<result>>],
               ifaces' = [ifaces EXCEPT ![cniInterface] =
                                Filled(ifaces[cniInterface], conf)]
        PROVE  KindsKept' /\ \A o \in Machines \ {m} : cni'[o] = cni[o]
    <3> DEFINE i == cniInterface
               x == Filled(ifaces[i], conf)
    <3>1. i \in DOMAIN ifaces =>
            DOMAIN x = DOMAIN ifaces[i] /\ x.cni = ifaces[i].cni
        BY FilledFields DEF IfacesInv, KindsKept
    <3> HIDE DEF i, x
    <3>2. ifaces' = [ifaces EXCEPT ![i] = x]
        BY <2>2 DEF i, x
    <3> QED
        BY <1>1, <2>2, <3>1, <3>2 DEF IfacesInv, KindsKept
  <2> QED
      BY <1>2, <2>1, <2>2
<1>4. UNCHANGED cniInterface
  <2> DEFINE first(S) == IF S = {} THEN 0 ELSE CHOOSE j \in S : \A k \in S : j <= k
             now == {j \in DOMAIN ifaces : ifaces[j].cni # "none"}
             then == {j \in DOMAIN ifaces' : ifaces'[j].cni # "none"}
  <2>1. then = now
      BY <1>1, <1>3 DEF IfacesInv, KindsKept
  <2>2. cniInterface = first(now) /\ cniInterface' = first(then)
      BY DEF cniInterface
  <2> HIDE DEF first, now, then
  <2> QED
      BY <2>1, <2>2
<1> QED
    BY <1>1, <1>2, <1>3, <1>4 DEF IfacesInv

\* What the validation of the network has looked at.
LEMMA NetworkValid ==
    ASSUME ListsInv, NEW m \in Machines, ValidateNetwork(m), st'[m] = "starting",
           cniInterface # 0
    PROVE  Len(ifaces) = 1 /\ ifaces[1].dev = <<>>
<1>1. \A j \in DOMAIN ifaces : OneKind(ifaces[j]) /\ Alone(ifaces[j], own[m].args)
  <2>1. DOMAIN st = Machines
      BY DEF ListsInv, StatesOK
  <2>2. ~Fail(m)
      BY <2>1 DEF Fail
  <2> QED
      BY <2>2 DEF ValidateNetwork, Check
<1>2. PICK j \in DOMAIN ifaces : ifaces[j].cni # "none"
    BY DEF cniInterface
<1>3. Len(ifaces) = 1
    BY <1>1, <1>2 DEF Alone
<1>4. DOMAIN ifaces = 1 .. Len(ifaces)
    BY SeqFacts DEF ListsInv, StatesOK, SharedOK
<1>5. j = 1
    BY <1>2, <1>3, <1>4
<1> QED
    BY <1>1, <1>2, <1>3, <1>5 DEF OneKind

\* A single interface with a CNI configuration is the first.
LEMMA CniIsFirst ==
    ASSUME ListsInv, Len(ifaces) = 1, cniInterface # 0
    PROVE  cniInterface = 1 /\ DOMAIN ifaces = {1}
<1> DEFINE S == {j \in DOMAIN ifaces : ifaces[j].cni # "none"}
<1>1. DOMAIN ifaces = {1}
  <2>1. DOMAIN ifaces = 1 .. Len(ifaces)
      BY SeqFacts DEF ListsInv, StatesOK, SharedOK
  <2> QED
      BY <2>1
<1>2. S # {} /\ cniInterface = CHOOSE j \in S : \A k \in S : j <= k
    BY DEF cniInterface
<1>3. S = {1}
    BY <1>1, <1>2
<1> HIDE DEF S
<1> QED
    BY <1>1, <1>2, <1>3

\* setupNetwork makes the interface the one that CNI has reported.
LEMMA SetupConnects ==
    ASSUME ListsInv, IfacesInv, NEW m \in Machines, setupNetwork(m),
           st'[m] = "starting", cniInterface # 0, Len(ifaces) = 1,
           ifaces[1].dev = <<>>
    PROVE  /\ Len(ifaces') = 1 /\ cni'[m] # <<>>
           /\ Reported(Attached(ifaces'[1]), cni'[m][1], m)
<1>1. cniInterface = 1 /\ DOMAIN ifaces = {1}
    BY CniIsFirst
<1>2. DOMAIN st = Machines /\ DOMAIN cni = Machines
    BY DEF ListsInv, StatesOK, IfacesInv, KindsKept
<1>3. st' # [st EXCEPT ![m] = "err"]
    BY <1>2
<1>4. PICK result \in CniResults(m) :
        /\ StaticNetworkConfFrom(result, m) # Err
        /\ cni' = [cni EXCEPT ![m] = <<result>>]
        /\ ifaces' = [ifaces EXCEPT ![1] =
                Filled(ifaces[1], StaticNetworkConfFrom(result, m)[1])]
    BY <1>1, <1>3, SetupShape
<1> DEFINE conf == StaticNetworkConfFrom(result, m)[1]
           x == Filled(ifaces[1], conf)
<1>5. /\ x.dev = <<conf.TapName>> /\ x.mac = conf.VMMacAddr
      /\ x.ip[1] = conf.VMIPConfig
  <2>1. DOMAIN ifaces[1] = {"cni", "dev", "mac", "ip", "mmds"}
      BY <1>1 DEF IfacesInv, KindsKept
  <2> HIDE DEF conf
  <2> QED
      BY <2>1, FilledFields
<1> HIDE DEF x
<1>6. ifaces'[1] = x /\ cni'[m] = <<result>>
    BY <1>1, <1>2, <1>4 DEF x
<1>7. Reported(Attached(x), result, m)
  <2>1. /\ Attached(x).dev = <<conf.TapName>> /\ Attached(x).mac = conf.VMMacAddr
        /\ Attached(x).ip[1] = conf.VMIPConfig
      BY <1>5 DEF Attached
  <2>2. /\ DOMAIN result.ifaces = 1 .. Len(result.ifaces)
        /\ \A j \in DOMAIN result.ips :
            result.ips[j].iface \in DOMAIN result.ifaces \cup {0}
      BY CniResultsAssumption
  <2> DEFINE y == Attached(x)
  <2> HIDE DEF y
  <2>3. Reported(y, result, m)
      BY <2>1, <2>2, <1>4, ResultReported DEF y
  <2> QED
      BY <2>3 DEF y
<1>8. Len(ifaces') = 1
  <2>1. IsSeq(ifaces')
      BY SharedStep DEF Step, Handler, SharedOK, IsSeq
  <2>2. Len(ifaces') \in Nat /\ DOMAIN ifaces' = 1 .. Len(ifaces')
      BY <2>1, SeqFacts
  <2>3. DOMAIN ifaces' = {1}
      BY <1>1, <1>4
  <2> DEFINE n == Len(ifaces')
             D == DOMAIN ifaces'
  <2>4. n \in Nat /\ D = 1 .. n /\ D = {1}
      BY <2>2, <2>3
  <2> HIDE DEF n, D
  <2>5. 1 \in 1 .. n /\ 2 \notin 1 .. n
      BY <2>4
  <2>6. n = 1
      BY <2>4, <2>5
  <2> QED
      BY <2>6 DEF n
<1> QED
    BY <1>6, <1>7, <1>8

\* The step leaves an end of the list, or starts a machine.
LEMMA StillStarting ==
    ASSUME ListsInv, NEW m \in Machines, Step(m), st'[m] = "starting"
    PROVE  \/ Start(m) /\ todo'[m] = HandlersOf
           \/ /\ Handler(m) /\ st[m] = "starting"
              /\ \E h \in Names : /\ Runs(m, h)
                                  /\ Range(todo'[m]) = Range(todo[m]) \ {h}
                                  /\ h \in Range(todo[m])
                                  /\ \A g \in Range(todo[m]) :
                                        g = h \/ Place(h) < Place(g)
<1>1. DOMAIN st = Machines /\ DOMAIN todo = Machines
    BY DEF ListsInv, StatesOK
<1>2. ~NewMachine(m) /\ ~Stop(m) /\ ~startInstance(m)
  <2>1. NewMachine(m) => st' = [st EXCEPT ![m] = "new"]
      BY NewShape
  <2>2. Stop(m) => st' = [st EXCEPT ![m] = "down"]
      BY DEF Stop
  <2>3. startInstance(m) => \/ st' = [st EXCEPT ![m] = "ok"]
                            \/ st' = [st EXCEPT ![m] = "err"]
      BY DEF startInstance, Fail
  <2> QED
      BY <1>1, <2>1, <2>2, <2>3
<1>3. CASE Start(m)
    BY <1>1, <1>3 DEF Start, HandlersOf
<1>4. CASE Handler(m)
  <2>1. PICK h \in Names : Sends(m, h)
      BY <1>4, HandlerShape DEF ListsInv, StatesOK
  <2>2. Runs(m, h) /\ Ended(m)
      BY <2>1 DEF Sends
  <2> QED
      BY <1>4, <2>2, EndedList
<1> QED
    BY <1>2, <1>3, <1>4 DEF Step

\* The lists keep what has to come.
LEMMA TapLists ==
    ASSUME ListsInv, TapInv, NEW m \in Machines, Step(m), NEW o \in Machines
    PROVE  /\ "ValidateNetworkCfg" \in Range(todo'[o])
                => "SetupNetwork" \in Range(todo'[o])
           /\ "SetupNetwork" \in Range(todo'[o]) => "StartVMM" \in Range(todo'[o])
<1>1. ListsInv'
    BY NextListsInv DEF Next, Step
<1>2. CASE o # m
    BY <1>2, OthersKept DEF TapInv
<1>3. CASE o = m /\ st'[m] # "starting"
    BY <1>1, <1>3, EmptyList DEF ListsInv, ListInv
<1>4. CASE o = m /\ st'[m] = "starting"
  <2>1. CASE todo'[m] = HandlersOf
      BY <1>4, <2>1, ListInOrder DEF ListsInv, StatesOK
  <2>2. ASSUME NEW h \in Names, Range(todo'[m]) = Range(todo[m]) \ {h},
               \A g \in Range(todo[m]) : g = h \/ Place(h) < Place(g)
        PROVE  /\ "ValidateNetworkCfg" \in Range(todo'[m])
                    => "SetupNetwork" \in Range(todo'[m])
               /\ "SetupNetwork" \in Range(todo'[m])
                    => "StartVMM" \in Range(todo'[m])
    <3>1. /\ Place("ValidateNetworkCfg") = 1 /\ Place("SetupNetwork") = 5
          /\ Place("StartVMM") = 7
        BY DEF Place
    <3>2. /\ "ValidateNetworkCfg" \in Range(todo[m])
                => "SetupNetwork" \in Range(todo[m])
          /\ "SetupNetwork" \in Range(todo[m]) => "StartVMM" \in Range(todo[m])
        BY DEF TapInv
    <3> QED
        BY <2>2, <3>1, <3>2
  <2> QED
      BY <1>4, <2>1, <2>2, StillStarting
<1> QED
    BY <1>2, <1>3, <1>4

\* The step leaves a machine that is starting connected.
LEMMA TapConnected ==
    ASSUME ListsInv, IfacesInv, TapInv, ~cfg.unchecked, NEW m \in Machines,
           Step(m), NEW o \in Machines, st'[o] = "starting", cniInterface # 0,
           "ValidateNetworkCfg" \notin Range(todo'[o])
    PROVE  Connected(o)'
<1>1. ~setupNetwork(m) => UNCHANGED <<ifaces, cni>>
    BY IfacesKept
<1>2. ASSUME UNCHANGED <<ifaces, cni>>, Connected(o),
             "SetupNetwork" \in Range(todo'[o])
                <=> "SetupNetwork" \in Range(todo[o])
      PROVE  Connected(o)'
    BY <1>2 DEF Connected
<1>3. CASE o # m
  <2>1. st[o] = "starting" /\ todo'[o] = todo[o]
      BY <1>3, OthersKept
  <2>2. ~setupNetwork(m)
      BY <1>3, <2>1 DEF setupNetwork, Runs, ListsInv, OneStarts
  <2>3. Connected(o)
      BY <2>1 DEF TapInv
  <2> QED
      BY <1>1, <1>2, <2>1, <2>2, <2>3
<1>4. CASE o = m
  <2>1. ~Start(m)
    <3>1. Start(m) => todo'[m] = HandlersOf
        BY DEF Start, HandlersOf, ListsInv, StatesOK
    <3> QED
        BY <1>4, <3>1, ListInOrder DEF ListsInv, StatesOK
  <2>2. Handler(m) /\ st[m] = "starting"
      BY <1>4, <2>1, StillStarting
  <2>3. PICK h \in Names : /\ Runs(m, h) /\ h \in Range(todo[m])
                           /\ Range(todo'[m]) = Range(todo[m]) \ {h}
      BY <1>4, <2>1, StillStarting
  <2>4. CASE h = "ValidateNetworkCfg"
    <3>1. ValidateNetwork(m) /\ ~setupNetwork(m)
        BY <2>2, <2>3, <2>4
           DEF Handler, ValidateNetwork, ValidateJailer, Validate,
               ValidateLoadSnapshot, setupNetwork, setupKernelArgs, startVMM,
               CreateLogFiles, LinkFiles, BootstrapLogging, createMachine,
               createBootSource, attachDrives, createNetworkInterfaces,
               addVsocks, setMmdsConfig, loadSnapshot, Runs
    <3>2. Len(ifaces) = 1 /\ ifaces[1].dev = <<>>
        BY <1>4, <3>1, NetworkValid
    <3>3. "SetupNetwork" \in Range(todo'[m])
        BY <2>3, <2>4 DEF TapInv
    <3> QED
        BY <1>1, <1>4, <3>1, <3>2, <3>3 DEF Connected
  <2>5. CASE h # "ValidateNetworkCfg"
    <3>1. Connected(m)
        BY <1>4, <2>2, <2>3, <2>5 DEF TapInv
    <3>2. CASE setupNetwork(m)
      <4>1. h = "SetupNetwork"
          BY <2>3, <3>2 DEF setupNetwork, Runs
      <4>2. Len(ifaces) = 1 /\ ifaces[1].dev = <<>>
          BY <2>3, <3>1, <4>1 DEF Connected
      <4>3. /\ Len(ifaces') = 1 /\ cni'[m] # <<>>
            /\ Reported(Attached(ifaces'[1]), cni'[m][1], m)
          BY <1>4, <3>2, <4>2, SetupConnects
      <4> QED
          BY <1>4, <2>3, <4>1, <4>3 DEF Connected
    <3>3. CASE ~setupNetwork(m)
      <4>1. h # "SetupNetwork"
          BY <2>2, <2>3, <3>3
             DEF Handler, ValidateNetwork, ValidateJailer, Validate,
                 ValidateLoadSnapshot, setupKernelArgs, startVMM,
                 CreateLogFiles, LinkFiles, BootstrapLogging, createMachine,
                 createBootSource, attachDrives, createNetworkInterfaces,
                 addVsocks, setMmdsConfig, loadSnapshot, Runs
      <4> QED
          BY <1>1, <1>2, <1>4, <2>3, <3>1, <3>3, <4>1
    <3> QED
        BY <3>2, <3>3
  <2> QED
      BY <2>4, <2>5
<1> QED
    BY <1>3, <1>4

\* What a step sends of an interface.
LEMMA IfaceSent ==
    ASSUME NEW m \in Machines, NEW r, NewRequest(m, r), r.op = "iface"
    PROVE  \E k \in DOMAIN ifaces : r.arg = Attached(ifaces[k])
<1>1. r # Request("start", "instance")
    BY DEF Request
<1>2. PICK h \in Names : r \in Asked(m, h)
    BY <1>1 DEF NewRequest
<1>3. h = "CreateNetworkInterfaces"
    BY <1>2 DEF Asked, Request
<1>4. \E k \in DOMAIN ifaces : r = Request("iface", Attached(ifaces[k]))
    BY <1>2, <1>3 DEF Asked, Attached
<1> QED
    BY <1>4 DEF Request

LEMMA TapSent ==
    ASSUME ListsInv, IfacesInv, TapInv, ~cfg.unchecked, NEW m \in Machines,
           NEW r, NewRequest(m, r), r.op = "iface"
    PROVE  RightTap(m, r.arg)
<1>1. /\ st[m] = "starting" /\ "ValidateNetworkCfg" \notin Range(todo[m])
      /\ "SetupNetwork" \notin Range(todo[m])
    BY DEF NewRequest, Settled
<1>2. PICK k \in DOMAIN ifaces : r.arg = Attached(ifaces[k])
    BY IfaceSent
<1>3. CASE cniInterface = 0
  <2>1. ifaces[k] = cfg.ifaces[k] /\ k \in DOMAIN cfg.ifaces
      BY <1>3 DEF IfacesInv, KindsKept
  <2>2. Callers(r.arg)
      BY <1>2, <2>1 DEF Callers, Attached
  <2> QED
      BY <1>3, <2>2 DEF RightTap
<1>4. CASE cniInterface # 0
  <2>1. Connected(m)
      BY <1>1, <1>4 DEF TapInv
  <2>2. k = 1
      BY <1>4, <2>1, CniIsFirst DEF Connected
  <2> QED
      BY <1>1, <1>2, <1>4, <2>1, <2>2 DEF Connected, RightTap
<1> QED
    BY <1>3, <1>4

LEMMA NextTapInv ==
    ListsInv /\ NamespaceInv /\ IfacesInv /\ TapInv /\ [Next]_vars
        => IfacesInv' /\ TapInv'
<1> SUFFICES ASSUME ListsInv, NamespaceInv, IfacesInv, TapInv, [Next]_vars
             PROVE  IfacesInv' /\ TapInv'
    OBVIOUS
<1>1. CASE Resting
  <2>1. UNCHANGED <<cfg, ifaces, cni, st, todo, reqs>>
      BY <1>1 DEF Resting, sharedVars
  <2>2. UNCHANGED cniInterface
      BY <2>1 DEF cniInterface
  <2>3. IfacesInv'
      BY <2>1, <2>2 DEF IfacesInv, KindsKept
  <2>4. \A m \in Machines : UNCHANGED <<Connected(m), Sent(m, "iface")>>
      BY <2>1 DEF Connected, Sent
  <2>5. ASSUME NEW m \in Machines, NEW r PROVE UNCHANGED RightTap(m, r)
    <3>1. UNCHANGED <<cniInterface, cni, cfg>>
        BY <2>1, <2>2
    <3> QED
        BY <3>1 DEF RightTap, Callers
  <2>6. ASSUME TapInv PROVE TapInv'
      BY <2>1, <2>2, <2>4, <2>5, <2>6 DEF TapInv
  <2> QED
      BY <2>3, <2>6
<1>2. ASSUME NEW m \in Machines, Step(m) PROVE IfacesInv' /\ TapInv'
  <2>1. /\ IfacesInv' /\ UNCHANGED cniInterface
        /\ \A o \in Machines \ {m} : cni'[o] = cni[o]
      BY <1>2, IfacesStep
  <2>2. UNCHANGED cfg /\ \A o \in Machines \ {m} : reqs'[o] = reqs[o]
      BY <1>2, OthersKept
  <2>3. ASSUME ~cfg.unchecked, NEW o \in Machines, NEW j \in Sent(o, "iface")'
        PROVE  RightTap(o, reqs[o][j].arg)'
    <3>1. j \in DOMAIN reqs'[o] /\ reqs'[o][j].op = "iface"
        BY <2>3 DEF Sent
    <3>2. ASSUME NEW r, cni'[o] = cni[o], RightTap(o, r), r = reqs'[o][j].arg
          PROVE  RightTap(o, reqs[o][j].arg)'
        BY <2>1, <2>2, <3>2 DEF RightTap, Callers
    <3>3. CASE o # m
        BY <3>1, <3>2, <3>3, <2>1, <2>2, <2>3 DEF TapInv, Sent
    <3>4. CASE o = m /\ j \in DOMAIN reqs[m] /\ reqs'[m][j] = reqs[m][j]
      <4>1. ~setupNetwork(m)
        <5>1. setupNetwork(m) => Runs(m, "SetupNetwork") /\ Ended(m)
            BY DEF setupNetwork, Fail, Ended
        <5>2. setupNetwork(m) => /\ st[m] = "starting"
                                 /\ "SetupNetwork" \in Range(todo[m])
            BY <5>1, EndedList
        <5> QED
            BY <3>4, <5>2 DEF NamespaceInv, TapInv
      <4>2. UNCHANGED cni
          BY <1>2, <4>1, IfacesKept
      <4>3. RightTap(m, reqs[m][j].arg)
          BY <2>3, <3>1, <3>4 DEF TapInv, Sent
      <4> QED
          BY <3>2, <3>4, <4>2, <4>3
    <3>5. CASE o = m /\ NewRequest(m, reqs'[m][j])
      <4>1. ~setupNetwork(m)
        <5>1. setupNetwork(m) => Runs(m, "SetupNetwork") /\ Ended(m)
            BY DEF setupNetwork, Fail, Ended
        <5>2. setupNetwork(m) => "SetupNetwork" \in Range(todo[m])
            BY <5>1, EndedList
        <5> QED
            BY <3>5, <5>2 DEF NewRequest, Settled
      <4>2. UNCHANGED cni
          BY <1>2, <4>1, IfacesKept
      <4>3. RightTap(m, reqs'[m][j].arg)
          BY <2>3, <3>1, <3>5, TapSent
      <4> QED
          BY <3>2, <3>5, <4>2, <4>3
    <3> QED
        BY <1>2, <3>1, <3>3, <3>4, <3>5, RequestStep
  <2>4. \A o \in Machines :
            /\ "ValidateNetworkCfg" \in Range(todo'[o])
                => "SetupNetwork" \in Range(todo'[o])
            /\ "SetupNetwork" \in Range(todo'[o]) => "StartVMM" \in Range(todo'[o])
      BY <1>2, TapLists
  <2>5. ASSUME ~cfg.unchecked, NEW o \in Machines, st'[o] = "starting",
               cniInterface # 0, "ValidateNetworkCfg" \notin Range(todo'[o])
        PROVE  Connected(o)'
      BY <1>2, <2>5, TapConnected
  <2> QED
      BY <2>1, <2>2, <2>3, <2>4, <2>5 DEF TapInv
<1> QED
    BY <1>1, <1>2, StepOrRest

LEMMA InitTapInv == Init => IfacesInv /\ TapInv
<1> SUFFICES ASSUME Init PROVE IfacesInv /\ TapInv
    OBVIOUS
<1>1. /\ cfg \in Configs /\ ifaces = cfg.ifaces
      /\ cni = [m \in Machines |-> <<>>] /\ todo = [m \in Machines |-> <<>>]
      /\ st = [m \in Machines |-> "none"]
    BY Zenon DEF Init
<1>2. IfacesInv
  <2>1. cfg.ifaces \in Seq([cni : {"none", "ok", "bad"}, dev : Seq(STRING),
                            mac : Seq(STRING), ip : Seq(Seq(STRING)),
                            mmds : BOOLEAN])
      BY <1>1, ConfigsAssumption DEF ConfigFields
  <2>2. \A j \in DOMAIN cfg.ifaces : cfg.ifaces[j] \in
            [cni : {"none", "ok", "bad"}, dev : Seq(STRING),
             mac : Seq(STRING), ip : Seq(Seq(STRING)), mmds : BOOLEAN]
      BY <2>1, LenProperties, ElementOfSeq
  <2> QED
      BY <1>1, <2>2 DEF IfacesInv, KindsKept
<1>3. TapInv
    BY <1>1, EmptyList, InitRequests DEF TapInv, Sent
<1> QED
    BY <1>2, <1>3

\* Every interface that is sent is the caller's or the one that CNI has made for
\* this machine, though the machines of a Config share the array it is written to.
THEOREM AttachesItsOwnTap == Spec => []OwnTap
<1>1. TapInv => OwnTap
    BY DEF TapInv, OwnTap, RightTap
<1> QED
    BY <1>1, InitTapInv, ListsInvariant, NamespaceInvariant, NextTapInv, PTL DEF Spec

-------------------------------------------------------------------------------
(* The boot arguments. *)

\* The map written out, and parsed again.
LEMMA WrittenOut ==
    ASSUME NEW map, IsFiniteSet(DOMAIN map), NEW args \in Strings(map)
    PROVE  /\ \A k, l \in DOMAIN args : args[k].key = args[l].key => k = l
           /\ Keys(args) = DOMAIN map
           /\ \A k \in DOMAIN map : parseKernelArgs(args)[k] = map[k]
<1> DEFINE S == {[key |-> k, val |-> map[k]] : k \in DOMAIN map}
           n == Cardinality(S)
           f == [k \in DOMAIN map |-> [key |-> k, val |-> map[k]]]
<1>1. IsFiniteSet(S)
  <2>1. f \in Surjection(DOMAIN map, S)
      BY DEF Surjection
  <2> QED
      BY <2>1, FS_Surjection
<1>2. n \in Nat
    BY <1>1, FS_CardinalityType
<1>3. /\ args \in [1 .. n -> S] /\ DOMAIN args = 1 .. n
      /\ \A i, j \in 1 .. n : i # j => args[i] # args[j]
    BY DEF Strings, SetToSeqs
<1>4. \A s \in S : \E j \in 1 .. n : args[j] = s
  <2>1. args \in Injection(1 .. n, S)
      BY <1>3 DEF Injection, IsInjective
  <2>2. Cardinality(1 .. n) = n
      BY <1>2, FS_Interval
  <2>3. args \in Surjection(1 .. n, S)
      BY <1>1, <2>1, <2>2, FS_Injection
  <2> QED
      BY <2>3 DEF Surjection
<1>5. \A s \in S : s.key \in DOMAIN map /\ s.val = map[s.key]
                   /\ s = [key |-> s.key, val |-> map[s.key]]
    OBVIOUS
<1>6. \A k \in DOMAIN map : \E s \in S : s.key = k
  <2> SUFFICES ASSUME NEW k \in DOMAIN map PROVE \E s \in S : s.key = k
      OBVIOUS
  <2>1. [key |-> k, val |-> map[k]] \in S
      OBVIOUS
  <2>2. [key |-> k, val |-> map[k]].key = k
      OBVIOUS
  <2> HIDE DEF S
  <2> QED
      BY <2>1, <2>2
<1> HIDE DEF S, n
<1>7. \A k, l \in DOMAIN args : args[k].key = args[l].key => k = l
    BY <1>3, <1>5
<1>8. Keys(args) = DOMAIN map
  <2>1. ASSUME NEW k \in Keys(args) PROVE k \in DOMAIN map
    <3>1. PICK j \in DOMAIN args : k = args[j].key
        BY DEF Keys
    <3> QED
        BY <3>1, <1>3, <1>5
  <2>2. ASSUME NEW k \in DOMAIN map PROVE k \in Keys(args)
    <3>1. PICK s \in S : s.key = k
        BY <1>6
    <3>2. PICK j \in 1 .. n : args[j] = s
        BY <1>4
    <3> QED
        BY <3>1, <3>2, <1>3 DEF Keys
  <2> QED
      BY <2>1, <2>2
<1>9. ASSUME NEW k \in DOMAIN map PROVE parseKernelArgs(args)[k] = map[k]
  <2> DEFINE at == CHOOSE j \in DOMAIN args :
                    args[j].key = k /\ \A l \in DOMAIN args :
                                            args[l].key = k => l <= j
  <2>1. parseKernelArgs(args)[k] = args[at].val
      BY <1>8 DEF parseKernelArgs
  <2>2. PICK j \in DOMAIN args : args[j].key = k
      BY <1>8 DEF Keys
  <2>3. \A l \in DOMAIN args : args[l].key = k => l <= j
      BY <1>2, <1>3, <1>7, <2>2
  <2>4. at \in DOMAIN args /\ args[at].key = k
      BY <2>2, <2>3
  <2> HIDE DEF at
  <2> QED
      BY <1>3, <1>5, <2>1, <2>4
<1> QED
    BY <1>7, <1>8, <1>9

LEMMA KeysFinite == ASSUME NEW args, IsSeq(args) PROVE IsFiniteSet(Keys(args))
<1> DEFINE f == [j \in DOMAIN args |-> args[j].key]
<1>1. IsFiniteSet(DOMAIN args)
    BY SeqFacts, FS_Interval
<1>2. f \in Surjection(DOMAIN args, Keys(args))
    BY DEF Surjection, Keys
<1> QED
    BY <1>1, <1>2, FS_Surjection

LEMMA FirstOfBoot ==
    ASSUME NEW addr, NEW servers
    PROVE  IPBootParam(addr, servers)[1] = addr
<1> DEFINE two == [j \in 1 .. 2 |->
                    IF j <= Len(servers) THEN servers[j] ELSE ""]
<1>1. IPBootParam(addr, servers) = <<addr>> \o two
    BY Zenon DEF IPBootParam
<1>2. DOMAIN two = 1 .. 2 /\ two = [j \in 1 .. 2 |-> two[j]]
    BY Zenon
<1> HIDE DEF two
<1>3. IsSeq(two)
  <2>1. \A j \in 1 .. 2 : two[j] \in Range(two)
      BY <1>2 DEF Range
  <2> QED
      BY <1>2, <2>1, IsASeq DEF IsSeq
<1>4. IsSeq(<<addr>>) /\ Len(<<addr>>) = 1
    BY Singles
<1> QED
    BY <1>1, <1>3, <1>4, JoinedSeqs

\* The arguments a are the caller's, with ip= if an interface has an address.
ArgsRight(a) ==
    /\ \A k, l \in DOMAIN a : a[k].key = a[l].key => k = l
    /\ \A k \in Keys(cfg.args) :
        /\ k \in Keys(a)
        /\ parseKernelArgs(a)[k] = parseKernelArgs(cfg.args)[k]
    /\ staticIPInterface = <<>> => Keys(a) \ Keys(cfg.args) = {}
    /\ staticIPInterface # <<>> =>
        /\ Keys(a) \ Keys(cfg.args) = {"ip"}
        /\ parseKernelArgs(a)["ip"][1] = staticIPInterface[1]

\* What the validation has looked at stays so: an interface with an address is
\* alone, without an ip= of the caller's; one without CNI has a tap.
Addressed ==
    \A j \in DOMAIN ifaces :
        /\ Alone(ifaces[j], cfg.args)
        /\ ifaces[j].cni = "none" => ifaces[j].dev # <<>>

\* An interface with the address ip is the one whose address is in ip=.
RightIP(ip) ==
    ip # <<>> => staticIPInterface # <<>> /\ ip[1] = staticIPInterface[1]

ArgsInv ==
    /\ \A m \in Machines :
        /\ "SetupNetwork" \in Range(todo[m]) /\ "CreateBootSource" \in Range(todo[m])
            => "SetupKernelArgs" \in Range(todo[m])
        /\ \/ st[m] = "new"
           \/ /\ st[m] = "starting"
              /\ Range(todo[m]) \cap {"ValidateNetworkCfg", "SetupKernelArgs"} # {}
           => own[m].args = cfg.args
    /\ ~cfg.unchecked => \A m \in Machines :
        /\ st[m] = "starting" /\ "ValidateNetworkCfg" \notin Range(todo[m])
            => Addressed
        /\ /\ st[m] = "starting" /\ "CreateBootSource" \in Range(todo[m])
           /\ "SetupKernelArgs" \notin Range(todo[m])
           => ArgsRight(own[m].args)
        /\ DOMAIN reqs[m] # {} /\ cniInterface # 0 => ifaces[1].dev # <<>>
        /\ \A j \in Sent(m, "boot") : ArgsRight(reqs[m][j].arg.args)
        /\ \A j \in Sent(m, "iface") : RightIP(reqs[m][j].arg.ip)

LEMMA StaticHas ==
    ASSUME staticIPInterface # <<>>
    PROVE  \E j \in DOMAIN ifaces : ifaces[j].dev # <<>> /\ ifaces[j].ip # <<>>
    BY DEF staticIPInterface

LEMMA StaticFirst ==
    ASSUME ListsInv, Len(ifaces) = 1, ifaces[1].dev # <<>>, ifaces[1].ip # <<>>
    PROVE  staticIPInterface = ifaces[1].ip
<1> DEFINE S == {j \in DOMAIN ifaces : ifaces[j].dev # <<>> /\ ifaces[j].ip # <<>>}
<1>1. DOMAIN ifaces = {1}
  <2>1. DOMAIN ifaces = 1 .. Len(ifaces)
      BY SeqFacts DEF ListsInv, StatesOK, SharedOK
  <2> QED
      BY <2>1
<1>2. S = {1}
    BY <1>1
<1>3. staticIPInterface = IF S = {} THEN <<>>
                          ELSE ifaces[CHOOSE j \in S : \A k \in S : j <= k].ip
    BY DEF staticIPInterface
<1> HIDE DEF S
<1>4. (CHOOSE j \in S : \A k \in S : j <= k) = 1
    BY <1>2
<1> QED
    BY <1>2, <1>3, <1>4

\* setupKernelArgs writes the arguments that will be sent.
LEMMA SetupArgs ==
    ASSUME ListsInv, FieldsOK, NEW m \in Machines, setupKernelArgs(m),
           own[m].args = cfg.args, Addressed
    PROVE  ArgsRight(own'[m].args)
<1> DEFINE old == parseKernelArgs(own[m].args)
           ip == staticIPInterface
           map == IF ip = <<>> THEN old
                  ELSE [k \in DOMAIN old \cup {"ip"} |->
                            IF k = "ip" THEN IPBootParam(ip[1], ip[2])
                                        ELSE old[k]]
<1>1. PICK args \in Strings(map) : own' = [own EXCEPT ![m].args = args]
    BY Zenon DEF setupKernelArgs
<1> HIDE DEF map
<1>2. own'[m].args = args
    BY <1>1 DEF FieldsOK
<1>3. old = parseKernelArgs(cfg.args) /\ DOMAIN old = Keys(cfg.args)
    BY DEF parseKernelArgs
<1>4. IsFiniteSet(Keys(cfg.args))
  <2>1. cfg.args \in Seq([key : STRING, val : Seq(STRING)])
      BY DEF ListsInv, StatesOK, ConfigFields
  <2>2. IsSeq(cfg.args)
      BY <2>1, SeqOfRange DEF IsSeq
  <2> QED
      BY <2>2, KeysFinite
<1>5. /\ ip = <<>> => map = old
      /\ ip # <<>> => /\ DOMAIN map = DOMAIN old \cup {"ip"}
                      /\ map["ip"] = IPBootParam(ip[1], ip[2])
                      /\ \A k \in DOMAIN old : k # "ip" => map[k] = old[k]
  <2> HIDE DEF old, ip
  <2> QED
      BY DEF map
<1>6. IsFiniteSet(DOMAIN map)
    BY <1>3, <1>4, <1>5, FS_AddElement
<1>7. /\ \A k, l \in DOMAIN args : args[k].key = args[l].key => k = l
      /\ Keys(args) = DOMAIN map
      /\ \A k \in DOMAIN map : parseKernelArgs(args)[k] = map[k]
    BY <1>1, <1>6, WrittenOut
<1>8. ip # <<>> => "ip" \notin Keys(cfg.args)
    BY StaticHas DEF Addressed, Alone
<1>9. ip # <<>> => IPBootParam(ip[1], ip[2])[1] = ip[1]
    BY FirstOfBoot
<1> HIDE DEF old, ip
<1>10. CASE ip = <<>>
    BY <1>2, <1>3, <1>5, <1>7, <1>10 DEF ArgsRight, ip
<1>11. CASE ip # <<>>
  <2>1. Keys(args) \ Keys(cfg.args) = {"ip"}
      BY <1>3, <1>5, <1>7, <1>8, <1>11
  <2>2. parseKernelArgs(args)["ip"][1] = ip[1]
      BY <1>5, <1>7, <1>9, <1>11
  <2>3. \A k \in Keys(cfg.args) :
            /\ k \in Keys(args)
            /\ parseKernelArgs(args)[k] = parseKernelArgs(cfg.args)[k]
      BY <1>3, <1>5, <1>7, <1>8, <1>11
  <2> QED
      BY <1>2, <1>7, <1>11, <2>1, <2>2, <2>3 DEF ArgsRight, ip
<1> QED
    BY <1>10, <1>11

\* No other step writes a machine's arguments.
LEMMA ArgsKept ==
    ASSUME FieldsOK, NEW m \in Machines, Step(m), NEW o \in Machines,
           o = m => ~NewMachine(m) /\ ~setupKernelArgs(m)
    PROVE  own'[o].args = own[o].args
<1>1. CASE NewMachine(m)
    BY <1>1, NewShape DEF FieldsOK
<1>2. CASE LinkFiles(m)
  <2>1. PICK k : Relinked(m, k)
      BY <1>2, Zenon DEF LinkFiles
  <2>2. \E K, I, L, M :
            own' = [own EXCEPT ![m] = [own[m] EXCEPT !.kernel = K, !.initrd = I,
                                                     !.log = L, !.metrics = M]]
      BY <2>1, Zenon DEF Relinked
  <2> QED
      BY <2>2 DEF FieldsOK
<1>3. CASE setupKernelArgs(m)
  <2>1. PICK args : own' = [own EXCEPT ![m].args = args]
      BY <1>3, Zenon DEF setupKernelArgs
  <2> QED
      BY <1>3, <2>1 DEF FieldsOK
<1>4. CASE ~NewMachine(m) /\ ~LinkFiles(m) /\ ~setupKernelArgs(m)
  <2>1. UNCHANGED own
      BY <1>4, ApiHost DEF Step, Start, Stop, startInstance, Handler,
           ValidateNetwork, ValidateJailer, Validate, ValidateLoadSnapshot, Check,
           setupNetwork, startVMM, CreateLogFiles, machineVars
  <2> QED
      BY <2>1
<1> QED
    BY <1>1, <1>2, <1>3, <1>4

\* How a step of a machine that exists may end.
LEMMA StepStates ==
    ASSUME ListsInv, NEW m \in Machines, Step(m), ~NewMachine(m)
    PROVE  st'[m] # "new"
<1>1. DOMAIN st = Machines
    BY DEF ListsInv, StatesOK
<1>2. CASE Handler(m)
  <2>1. PICK h \in Names : Sends(m, h)
      BY <1>2, HandlerShape DEF ListsInv, StatesOK
  <2>2. Runs(m, h) /\ Ended(m)
      BY <2>1 DEF Sends
  <2> QED
      BY <2>2, EndedList
<1>3. CASE Start(m)
    BY <1>1, <1>3 DEF Start
<1>4. CASE Stop(m)
    BY <1>1, <1>4 DEF Stop
<1>5. CASE startInstance(m)
    BY <1>1, <1>5 DEF startInstance, Fail
<1> QED
    BY <1>2, <1>3, <1>4, <1>5 DEF Step

\* The kernel arguments come before the boot source.
LEMMA ArgsLists ==
    ASSUME ListsInv, ArgsInv, NEW m \in Machines, Step(m), NEW o \in Machines,
           "SetupNetwork" \in Range(todo'[o]), "CreateBootSource" \in Range(todo'[o])
    PROVE  "SetupKernelArgs" \in Range(todo'[o])
<1>1. ListsInv'
    BY NextListsInv DEF Next, Step
<1>2. CASE o # m
    BY <1>2, OthersKept DEF ArgsInv
<1>3. CASE o = m
  <2>1. st'[m] = "starting"
      BY <1>1, <1>3, EmptyList DEF ListsInv, ListInv
  <2>2. CASE todo'[m] = HandlersOf
      BY <1>3, <2>2, ListInOrder DEF ListsInv, StatesOK
  <2>3. ASSUME NEW h \in Names, Range(todo'[m]) = Range(todo[m]) \ {h},
               \A g \in Range(todo[m]) : g = h \/ Place(h) < Place(g)
        PROVE  "SetupKernelArgs" \in Range(todo'[m])
    <3>1. Place("SetupNetwork") = 5 /\ Place("SetupKernelArgs") = 6
        BY DEF Place
    <3>2. "SetupKernelArgs" \in Range(todo[m])
        BY <1>3, <2>3 DEF ArgsInv
    <3> QED
        BY <1>3, <2>3, <3>1, <3>2
  <2> QED
      BY <1>3, <2>1, <2>2, <2>3, StillStarting
<1> QED
    BY <1>2, <1>3

\* Up to setupKernelArgs a machine has the caller's arguments.
LEMMA ArgsCallers ==
    ASSUME ListsInv, FieldsOK, ArgsInv, NEW m \in Machines, Step(m),
           NEW o \in Machines,
           \/ st'[o] = "new"
           \/ /\ st'[o] = "starting"
              /\ Range(todo'[o]) \cap {"ValidateNetworkCfg", "SetupKernelArgs"} # {}
    PROVE  own'[o].args = cfg.args
<1>1. CASE o # m
    BY <1>1, OthersKept, ArgsKept DEF ArgsInv
<1>2. CASE o = m /\ NewMachine(m)
    BY <1>2, NewShape DEF FieldsOK
<1>3. CASE o = m /\ ~NewMachine(m)
  <2>1. st'[m] = "starting"
      BY <1>3, StepStates
  <2>2. CASE Start(m)
    <3>1. ~setupKernelArgs(m) /\ st[m] = "new"
        BY <2>2 DEF Start, setupKernelArgs, Runs
    <3> QED
        BY <1>3, <3>1, ArgsKept DEF ArgsInv
  <2>3. CASE ~Start(m)
    <3>1. PICK h \in Names : /\ Runs(m, h) /\ st[m] = "starting"
                             /\ Range(todo'[m]) = Range(todo[m]) \ {h}
                             /\ \A g \in Range(todo[m]) :
                                    g = h \/ Place(h) < Place(g)
        BY <2>1, <2>3, StillStarting
    <3>2. Place("ValidateNetworkCfg") = 1 /\ Place("SetupKernelArgs") = 6
        BY DEF Place
    <3>3. h # "SetupKernelArgs"
        BY <1>3, <2>1, <3>1, <3>2
    <3>4. ~setupKernelArgs(m)
        BY <3>1, <3>3 DEF setupKernelArgs, Runs
    <3>5. own[m].args = cfg.args
        BY <1>3, <2>1, <3>1 DEF ArgsInv
    <3> QED
        BY <1>3, <3>4, <3>5, ArgsKept
  <2> QED
      BY <2>2, <2>3
<1> QED
    BY <1>1, <1>2, <1>3

\* setupNetwork writes an interface before anything is sent, and leaves what the
\* validation has looked at.
LEMMA SetupBefore ==
    ASSUME ListsInv, IfacesInv, TapInv, ArgsInv, ~cfg.unchecked,
           NEW m \in Machines, setupNetwork(m)
    PROVE  /\ Addressed'
           /\ UNCHANGED ifaces \/ \A o \in Machines : DOMAIN reqs[o] = {}
<1>1. Step(m) /\ UNCHANGED cfg
    BY OthersKept DEF Step, Handler
<1>2. /\ st[m] = "starting" /\ "SetupNetwork" \in Range(todo[m])
      /\ "ValidateNetworkCfg" \notin Range(todo[m])
  <2>1. Runs(m, "SetupNetwork") /\ Ended(m)
      BY DEF setupNetwork, Fail, Ended
  <2>2. Place("ValidateNetworkCfg") = 1 /\ Place("SetupNetwork") = 5
      BY DEF Place
  <2>3. /\ "SetupNetwork" \in Range(todo[m]) /\ st[m] = "starting"
        /\ \A g \in Range(todo[m]) : g = "SetupNetwork" \/ 5 < Place(g)
      BY <2>1, <2>2, EndedList
  <2> QED
      BY <2>2, <2>3
<1>3. Addressed
    BY <1>2 DEF ArgsInv
<1>4. CASE UNCHANGED ifaces
    BY <1>1, <1>3, <1>4 DEF Addressed, Alone
<1>5. CASE ~UNCHANGED ifaces
  <2>1. cniInterface # 0
      BY <1>5, SetupShape
  <2>2. Len(ifaces) = 1 /\ ifaces[1].dev = <<>>
      BY <1>2, <2>1 DEF TapInv, Connected
  <2>3. \A o \in Machines : DOMAIN reqs[o] = {}
      BY <2>1, <2>2 DEF ArgsInv
  <2>4. cniInterface = 1 /\ DOMAIN ifaces = {1}
      BY <2>1, <2>2, CniIsFirst
  <2>5. ifaces[1].cni # "none"
    <3>1. {j \in DOMAIN ifaces : ifaces[j].cni # "none"} # {}
        BY <2>1 DEF cniInterface
    <3> QED
        BY <3>1, <2>4
  <2>6. "ip" \notin Keys(cfg.args)
      BY <1>3, <2>4, <2>5 DEF Addressed, Alone
  <2>7. PICK result : ifaces' = [ifaces EXCEPT ![1] =
                        Filled(ifaces[1], StaticNetworkConfFrom(result, m)[1])]
      BY <1>5, <2>4, SetupShape
  <2>8. Filled(ifaces[1], StaticNetworkConfFrom(result, m)[1]).cni # "none"
    <3>1. DOMAIN ifaces[1] = {"cni", "dev", "mac", "ip", "mmds"}
        BY <2>4 DEF IfacesInv, KindsKept
    <3> QED
        BY <3>1, <2>5, FilledFields
  <2>9. DOMAIN ifaces' = {1} /\ ifaces'[1].cni # "none"
    <3> DEFINE x == Filled(ifaces[1], StaticNetworkConfFrom(result, m)[1])
    <3> HIDE DEF x
    <3>1. ifaces' = [ifaces EXCEPT ![1] = x] /\ x.cni # "none"
        BY <2>7, <2>8 DEF x
    <3> QED
        BY <2>4, <3>1
  <2>10. Len(ifaces') = 1
    <3> DEFINE n == Len(ifaces')
               D == DOMAIN ifaces'
    <3>1. n \in Nat /\ D = 1 .. n /\ D = {1}
      <4>1. IsSeq(ifaces')
          BY <1>1, SharedStep DEF SharedOK, IsSeq
      <4> QED
          BY <2>9, <4>1, SeqFacts
    <3> HIDE DEF n, D
    <3>2. 1 \in 1 .. n /\ 2 \notin 1 .. n
        BY <3>1
    <3>3. n = 1
        BY <3>1, <3>2
    <3> QED
        BY <3>3 DEF n
  <2>11. Addressed'
      BY <1>1, <2>6, <2>9, <2>10 DEF Addressed, Alone
  <2> QED
      BY <2>3, <2>11
<1> QED
    BY <1>4, <1>5

LEMMA ConnectedDevice ==
    ASSUME NEW m, Connected(m), "SetupNetwork" \notin Range(todo[m])
    PROVE  ifaces[1].dev # <<>>
<1>1. PICK name : Attached(ifaces[1]).dev = <<name>>
    BY DEF Connected, Reported
<1> QED
    BY <1>1 DEF Attached

\* What a step sends is right.
LEMMA ArgsSent ==
    ASSUME ListsInv, IfacesInv, TapInv, ArgsInv, ~cfg.unchecked,
           NEW m \in Machines, NEW r, NewRequest(m, r)
    PROVE  /\ cniInterface # 0 => ifaces[1].dev # <<>>
           /\ r.op = "boot" => ArgsRight(r.arg.args)
           /\ r.op = "iface" => RightIP(r.arg.ip)
<1>1. /\ st[m] = "starting" /\ "ValidateNetworkCfg" \notin Range(todo[m])
      /\ "SetupNetwork" \notin Range(todo[m])
      /\ "SetupKernelArgs" \notin Range(todo[m])
    BY DEF NewRequest, Settled
<1>2. cniInterface # 0 => Connected(m) /\ ifaces[1].dev # <<>>
    BY <1>1, ConnectedDevice DEF TapInv
<1>3. ASSUME r.op = "boot" PROVE ArgsRight(r.arg.args)
  <2>1. r # Request("start", "instance")
      BY <1>3 DEF Request
  <2>2. PICK h \in Names : h \in Range(todo[m]) /\ r \in Asked(m, h)
      BY <2>1 DEF NewRequest
  <2>3. h = "CreateBootSource"
      BY <1>3, <2>2 DEF Asked, Request
  <2>4. r.arg.args = own[m].args
      BY <2>2, <2>3 DEF Asked, Request
  <2> QED
      BY <1>1, <2>2, <2>3, <2>4 DEF ArgsInv
<1>4. ASSUME r.op = "iface", r.arg.ip # <<>>
      PROVE  staticIPInterface # <<>> /\ r.arg.ip[1] = staticIPInterface[1]
  <2>1. PICK k \in DOMAIN ifaces : r.arg = Attached(ifaces[k])
      BY <1>4, IfaceSent
  <2>2. r.arg.ip = ifaces[k].ip
      BY <2>1 DEF Attached
  <2>3. Addressed
      BY <1>1 DEF ArgsInv
  <2>4. DOMAIN ifaces = 1 .. Len(ifaces)
      BY SeqFacts DEF ListsInv, StatesOK, SharedOK
  <2>5. Len(ifaces) = 1 /\ k = 1 /\ ifaces[1].dev # <<>>
    <3>1. CASE ifaces[k].cni = "none"
      <4>1. ifaces[k].dev # <<>>
          BY <2>3, <3>1 DEF Addressed
      <4>2. Len(ifaces) = 1
          BY <1>4, <2>2, <2>3, <4>1 DEF Addressed, Alone
      <4> QED
          BY <2>4, <4>1, <4>2
    <3>2. CASE ifaces[k].cni # "none"
      <4>1. Len(ifaces) = 1
          BY <2>3, <3>2 DEF Addressed, Alone
      <4>2. k = 1
          BY <2>4, <4>1
      <4>3. cniInterface # 0
        <5> DEFINE S == {j \in DOMAIN ifaces : ifaces[j].cni # "none"}
        <5>1. S = {1}
            BY <2>4, <3>2, <4>1, <4>2
        <5>2. cniInterface = IF S = {} THEN 0
                             ELSE CHOOSE j \in S : \A l \in S : j <= l
            BY DEF cniInterface
        <5> HIDE DEF S
        <5>3. (CHOOSE j \in S : \A l \in S : j <= l) = 1
            BY <5>1
        <5> QED
            BY <5>1, <5>2, <5>3
      <4> QED
          BY <1>2, <4>1, <4>2, <4>3
    <3> QED
        BY <3>1, <3>2
  <2>6. staticIPInterface = ifaces[1].ip
      BY <1>4, <2>2, <2>5, StaticFirst
  <2> QED
      BY <1>4, <2>2, <2>5, <2>6
<1> QED
    BY <1>2, <1>3, <1>4 DEF RightIP

\* A machine that is starting has been validated.
LEMMA StepAddressed ==
    ASSUME ListsInv, IfacesInv, TapInv, ArgsInv, ~cfg.unchecked,
           NEW m \in Machines, Step(m), NEW o \in Machines, st'[o] = "starting",
           "ValidateNetworkCfg" \notin Range(todo'[o])
    PROVE  Addressed'
<1>1. CASE setupNetwork(m)
    BY <1>1, SetupBefore
<1>2. CASE ~setupNetwork(m)
  <2>1. UNCHANGED <<ifaces, cfg>>
      BY <1>2, IfacesKept, OthersKept
  <2>2. Addressed => Addressed'
      BY <2>1 DEF Addressed, Alone
  <2>3. CASE o # m
      BY <2>2, <2>3, OthersKept DEF ArgsInv
  <2>4. CASE o = m
    <3>1. ~Start(m)
      <4>1. Start(m) => todo'[m] = HandlersOf
          BY DEF Start, HandlersOf, ListsInv, StatesOK
      <4> QED
          BY <2>4, <4>1, ListInOrder DEF ListsInv, StatesOK
    <3>2. Handler(m) /\ st[m] = "starting"
        BY <2>4, <3>1, StillStarting
    <3>3. PICK h \in Names : /\ Runs(m, h) /\ h \in Range(todo[m])
                             /\ Range(todo'[m]) = Range(todo[m]) \ {h}
        BY <2>4, <3>1, StillStarting
    <3>4. CASE h # "ValidateNetworkCfg"
        BY <2>2, <2>4, <3>2, <3>3, <3>4 DEF ArgsInv
    <3>5. CASE h = "ValidateNetworkCfg"
      <4>1. ValidateNetwork(m)
          BY <3>2, <3>3, <3>5
             DEF Handler, ValidateJailer, Validate, ValidateLoadSnapshot,
                 setupNetwork, setupKernelArgs, startVMM, CreateLogFiles,
                 LinkFiles, BootstrapLogging, createMachine, createBootSource,
                 attachDrives, createNetworkInterfaces, addVsocks, setMmdsConfig,
                 loadSnapshot, Runs
      <4>2. own[m].args = cfg.args
          BY <3>2, <3>3, <3>5 DEF ArgsInv
      <4>3. \A j \in DOMAIN ifaces :
                OneKind(ifaces[j]) /\ Alone(ifaces[j], own[m].args)
        <5>1. DOMAIN st = Machines
            BY DEF ListsInv, StatesOK
        <5>2. ~Fail(m)
            BY <2>4, <5>1 DEF Fail
        <5> QED
            BY <4>1, <5>2 DEF ValidateNetwork, Check
      <4>4. Addressed
          BY <4>2, <4>3 DEF Addressed, OneKind
      <4> QED
          BY <2>2, <4>4
    <3> QED
        BY <3>4, <3>5
  <2> QED
      BY <2>3, <2>4
<1> QED
    BY <1>1, <1>2

\* A machine that has its arguments keeps them until they are sent.
LEMMA StepArgsRight ==
    ASSUME ListsInv, FieldsOK, IfacesInv, TapInv, ArgsInv, ~cfg.unchecked,
           NEW m \in Machines, Step(m), NEW o \in Machines, st'[o] = "starting",
           "CreateBootSource" \in Range(todo'[o]),
           "SetupKernelArgs" \notin Range(todo'[o])
    PROVE  /\ ~setupNetwork(m)
           /\ ArgsRight(own'[o].args)
<1>1. CASE o # m
  <2>1. st[o] = "starting" /\ todo'[o] = todo[o] /\ own'[o].args = own[o].args
      BY <1>1, OthersKept, ArgsKept
  <2>2. ~setupNetwork(m)
      BY <1>1, <2>1 DEF setupNetwork, Runs, ListsInv, OneStarts
  <2> QED
      BY <2>1, <2>2 DEF ArgsInv
<1>2. CASE o = m
  <2>1. ~Start(m) /\ ~NewMachine(m)
    <3>1. Start(m) => todo'[m] = HandlersOf
        BY DEF Start, HandlersOf, ListsInv, StatesOK
    <3>2. NewMachine(m) => st' = [st EXCEPT ![m] = "new"] /\ DOMAIN st = Machines
        BY NewShape DEF ListsInv, StatesOK
    <3> QED
        BY <1>2, <3>1, <3>2, ListInOrder DEF ListsInv, StatesOK
  <2>2. PICK h \in Names : /\ Runs(m, h) /\ h \in Range(todo[m])
                           /\ Handler(m) /\ st[m] = "starting"
                           /\ Range(todo'[m]) = Range(todo[m]) \ {h}
                           /\ \A g \in Range(todo[m]) :
                                g = h \/ Place(h) < Place(g)
      BY <1>2, <2>1, StillStarting
  <2>3. /\ Place("ValidateNetworkCfg") = 1 /\ Place("SetupNetwork") = 5
        /\ Place("SetupKernelArgs") = 6
      BY DEF Place
  <2>4. CASE h = "SetupKernelArgs"
    <3>1. setupKernelArgs(m) /\ ~setupNetwork(m)
        BY <2>2, <2>4
           DEF Handler, ValidateNetwork, ValidateJailer, Validate,
               ValidateLoadSnapshot, setupNetwork, startVMM, CreateLogFiles,
               LinkFiles, BootstrapLogging, createMachine, createBootSource,
               attachDrives, createNetworkInterfaces, addVsocks, setMmdsConfig,
               loadSnapshot, Runs
    <3>2. own[m].args = cfg.args
        BY <2>2, <2>4 DEF ArgsInv
    <3>3. Addressed
        BY <2>2, <2>3, <2>4 DEF ArgsInv
    <3> QED
        BY <1>2, <3>1, <3>2, <3>3, SetupArgs
  <2>5. CASE h # "SetupKernelArgs"
    <3>1. ArgsRight(own[m].args)
        BY <1>2, <2>2, <2>5 DEF ArgsInv
    <3>2. ~setupNetwork(m)
      <4>1. setupNetwork(m) => h = "SetupNetwork"
          BY <2>2 DEF setupNetwork, Runs
      <4>2. "SetupNetwork" \notin Range(todo[m])
          BY <1>2, <2>2, <2>5 DEF ArgsInv
      <4> QED
          BY <2>2, <4>1, <4>2
    <3>3. ~setupKernelArgs(m)
        BY <2>2, <2>5 DEF setupKernelArgs, Runs
    <3>4. own'[m].args = own[m].args
        BY <2>1, <3>3, ArgsKept
    <3> QED
        BY <1>2, <3>1, <3>2, <3>4
  <2> QED
      BY <2>4, <2>5
<1> QED
    BY <1>1, <1>2

LEMMA NextArgsInv ==
    ListsInv /\ ChrootInv /\ IfacesInv /\ TapInv /\ ArgsInv /\ [Next]_vars
        => ArgsInv'
<1> SUFFICES ASSUME ListsInv, ChrootInv, IfacesInv, TapInv, ArgsInv, [Next]_vars
             PROVE  ArgsInv'
    OBVIOUS
<1>1. ASSUME UNCHANGED <<cfg, ifaces>>
      PROVE  /\ UNCHANGED <<staticIPInterface, cniInterface>>
             /\ Addressed => Addressed'
    BY <1>1 DEF staticIPInterface, cniInterface, Addressed, Alone
<1>2. CASE Resting
  <2>1. UNCHANGED <<cfg, ifaces, st, todo, reqs, own>>
      BY <1>2 DEF Resting, sharedVars
  <2>2. UNCHANGED <<staticIPInterface, cniInterface>> /\ (Addressed => Addressed')
      BY <1>1, <2>1
  <2>3. ASSUME NEW m \in Machines
        PROVE  /\ ArgsRight(own[m].args) => ArgsRight(own[m].args)'
               /\ Sent(m, "boot")' = Sent(m, "boot")
               /\ Sent(m, "iface")' = Sent(m, "iface")
               /\ \A j : /\ ArgsRight(reqs[m][j].arg.args)
                                => ArgsRight(reqs[m][j].arg.args)'
                         /\ RightIP(reqs[m][j].arg.ip)
                                => RightIP(reqs[m][j].arg.ip)'
      BY <2>1, <2>2 DEF ArgsRight, Sent, RightIP
  <2> QED
      BY <2>1, <2>2, <2>3 DEF ArgsInv
<1>3. ASSUME NEW m \in Machines, Step(m) PROVE ArgsInv'
  <2>1. FieldsOK /\ UNCHANGED <<cfg, cniInterface>>
      BY <1>3, OthersKept, IfacesStep DEF ChrootInv
  <2>2. ASSUME ~cfg.unchecked, ~setupNetwork(m)
        PROVE  UNCHANGED <<cfg, ifaces, staticIPInterface>>
      BY <1>1, <1>3, <2>1, <2>2, IfacesKept
  <2>3. ASSUME ~cfg.unchecked, NEW o \in Machines, DOMAIN reqs[o] # {}
        PROVE  UNCHANGED <<cfg, ifaces, staticIPInterface>>
    <3>1. CASE setupNetwork(m)
        BY <1>1, <2>1, <2>3, <3>1, SetupBefore
    <3> QED
        BY <2>2, <2>3, <3>1
  <2>4. ASSUME ~cfg.unchecked, NEW o \in Machines, NEW j \in DOMAIN reqs'[o]
        PROVE  /\ UNCHANGED <<cfg, ifaces, staticIPInterface>>
               /\ \/ /\ DOMAIN reqs[o] # {} /\ j \in DOMAIN reqs[o]
                     /\ reqs'[o][j] = reqs[o][j]
                  \/ o = m /\ NewRequest(m, reqs'[m][j])
    <3>1. \/ j \in DOMAIN reqs[o] /\ reqs'[o][j] = reqs[o][j]
          \/ o = m /\ NewRequest(m, reqs'[m][j])
        BY <1>3, <2>4, OthersKept, RequestStep
    <3>2. CASE j \in DOMAIN reqs[o] /\ reqs'[o][j] = reqs[o][j]
        BY <2>3, <2>4, <3>2
    <3>3. CASE o = m /\ NewRequest(m, reqs'[m][j])
      <4>1. setupNetwork(m) => Runs(m, "SetupNetwork") /\ Ended(m)
          BY DEF setupNetwork, Fail, Ended
      <4>2. ~setupNetwork(m)
          BY <3>3, <4>1, EndedList DEF NewRequest, Settled
      <4> QED
          BY <2>2, <2>4, <3>3, <4>2
    <3> QED
        BY <3>1, <3>2, <3>3
  <2>5. ASSUME ~cfg.unchecked, NEW o \in Machines, DOMAIN reqs'[o] # {},
               cniInterface # 0
        PROVE  ifaces'[1].dev # <<>>
    <3>1. PICK j \in DOMAIN reqs'[o] : TRUE
        BY <2>5
    <3>2. /\ UNCHANGED ifaces
          /\ DOMAIN reqs[o] # {} \/ NewRequest(m, reqs'[m][j])
        BY <2>4, <2>5
    <3>3. ifaces[1].dev # <<>>
        BY <2>5, <3>2, ArgsSent DEF ArgsInv
    <3> QED
        BY <3>2, <3>3
  <2>6. ASSUME ~cfg.unchecked, NEW o \in Machines, NEW j \in Sent(o, "boot")'
        PROVE  ArgsRight(reqs[o][j].arg.args)'
    <3>1. j \in DOMAIN reqs'[o] /\ reqs'[o][j].op = "boot"
        BY <2>6 DEF Sent
    <3>2. ArgsRight(reqs'[o][j].arg.args)
        BY <2>4, <2>6, <3>1, ArgsSent DEF ArgsInv, Sent
    <3>3. UNCHANGED <<cfg, staticIPInterface>>
        BY <2>4, <2>6, <3>1
    <3> QED
        BY <3>2, <3>3 DEF ArgsRight
  <2>7. ASSUME ~cfg.unchecked, NEW o \in Machines, NEW j \in Sent(o, "iface")'
        PROVE  RightIP(reqs[o][j].arg.ip)'
    <3>1. j \in DOMAIN reqs'[o] /\ reqs'[o][j].op = "iface"
        BY <2>7 DEF Sent
    <3>2. RightIP(reqs'[o][j].arg.ip)
        BY <2>4, <2>7, <3>1, ArgsSent DEF ArgsInv, Sent
    <3>3. UNCHANGED staticIPInterface
        BY <2>4, <2>7, <3>1
    <3> QED
        BY <3>2, <3>3 DEF RightIP
  <2>8. ASSUME ~cfg.unchecked, NEW o \in Machines, st'[o] = "starting",
               "CreateBootSource" \in Range(todo'[o]),
               "SetupKernelArgs" \notin Range(todo'[o])
        PROVE  ArgsRight(own[o].args)'
    <3>1. ~setupNetwork(m) /\ ArgsRight(own'[o].args)
        BY <1>3, <2>1, <2>8, StepArgsRight
    <3>2. UNCHANGED <<cfg, staticIPInterface>>
        BY <2>2, <2>8, <3>1
    <3> QED
        BY <3>1, <3>2 DEF ArgsRight
  <2>9. ASSUME ~cfg.unchecked, NEW o \in Machines, st'[o] = "starting",
               "ValidateNetworkCfg" \notin Range(todo'[o])
        PROVE  Addressed'
      BY <1>3, <2>9, StepAddressed
  <2>10. ASSUME NEW o \in Machines
         PROVE  /\ /\ "SetupNetwork" \in Range(todo'[o])
                   /\ "CreateBootSource" \in Range(todo'[o])
                   => "SetupKernelArgs" \in Range(todo'[o])
                /\ \/ st'[o] = "new"
                   \/ /\ st'[o] = "starting"
                      /\ Range(todo'[o])
                            \cap {"ValidateNetworkCfg", "SetupKernelArgs"} # {}
                   => own'[o].args = cfg'.args
      BY <1>3, <2>1, ArgsLists, ArgsCallers
  <2> QED
      BY <2>1, <2>5, <2>6, <2>7, <2>8, <2>9, <2>10 DEF ArgsInv
<1> QED
    BY <1>2, <1>3, StepOrRest

\* A guest is booted with the caller's arguments, and with the address of its own
\* interface, for every Config that is validated.
THEOREM BootsWithItsAddress == Spec => []BootArgsAgree
<1>1. Init => ArgsInv
  <2> SUFFICES ASSUME Init PROVE ArgsInv
      OBVIOUS
  <2>1. st = [m \in Machines |-> "none"] /\ todo = [m \in Machines |-> <<>>]
      BY Zenon DEF Init
  <2> QED
      BY <2>1, EmptyList, InitRequests DEF ArgsInv, Sent
<1>2. ArgsInv => BootArgsAgree
  <2> SUFFICES ASSUME ArgsInv, ~cfg.unchecked, NEW m \in Machines,
                      NEW j \in Sent(m, "boot")
               PROVE  LET args == reqs[m][j].arg.args
                          users == parseKernelArgs(cfg.args)
                      IN  /\ \A k, l \in DOMAIN args :
                                args[k].key = args[l].key => k = l
                          /\ \A k \in DOMAIN users :
                                /\ k \in Keys(args)
                                /\ parseKernelArgs(args)[k] = users[k]
                          /\ Keys(args) \ DOMAIN users =
                                (IF staticIPInterface = <<>> THEN {} ELSE {"ip"})
                          /\ \A l \in Sent(m, "iface") :
                                reqs[m][l].arg.ip # <<>>
                                => parseKernelArgs(args)["ip"][1]
                                        = reqs[m][l].arg.ip[1]
      BY DEF BootArgsAgree
  <2>1. ArgsRight(reqs[m][j].arg.args)
      BY DEF ArgsInv
  <2>2. \A l \in Sent(m, "iface") : RightIP(reqs[m][l].arg.ip)
      BY DEF ArgsInv
  <2>3. DOMAIN parseKernelArgs(cfg.args) = Keys(cfg.args)
      BY DEF parseKernelArgs
  <2> DEFINE a == reqs[m][j].arg.args
             p == parseKernelArgs(a)
             u == parseKernelArgs(cfg.args)
  <2>4. ArgsRight(a) /\ DOMAIN u = Keys(cfg.args)
      BY <2>1, <2>3
  <2> HIDE DEF a, p, u
  <2>5. \A k, l \in DOMAIN a : a[k].key = a[l].key => k = l
      BY <2>4 DEF ArgsRight
  <2>6. \A k \in DOMAIN u : k \in Keys(a) /\ p[k] = u[k]
      BY <2>4 DEF ArgsRight, p, u
  <2>7. Keys(a) \ DOMAIN u = (IF staticIPInterface = <<>> THEN {} ELSE {"ip"})
      BY <2>4 DEF ArgsRight
  <2>8. \A l \in Sent(m, "iface") :
            reqs[m][l].arg.ip # <<>> => p["ip"][1] = reqs[m][l].arg.ip[1]
      BY <2>2, <2>4 DEF ArgsRight, RightIP, p
  <2> QED
      BY <2>5, <2>6, <2>7, <2>8 DEF a, p, u
<1> QED
    BY <1>1, <1>2, ListsInvariant, InitChrootInv, NextChrootInv, InitTapInv,
       NamespaceInvariant, NextTapInv, NextArgsInv, PTL DEF Spec

================================================================================
