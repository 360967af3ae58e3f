----------------------------- MODULE NetworkProofs -----------------------------
(***************************************************************************)
(* Theorems about Network, for every set of VMs, every choice of Force and *)
(* whatever fails or crashes.                                              *)
(***************************************************************************)
EXTENDS Network, TLAPS

\* The order in which initializeNetNS and invokeCNI register the functions.
Rank == [f \in Funcs |-> IF f = "rmParent" THEN 1
                         ELSE IF f = "rmNetNS" THEN 2
                         ELSE IF f = "umount" THEN 3 ELSE 4]

Ordered(s) == \A j, k \in 1 .. Len(s) : j < k => Rank[s[j]] < Rank[s[k]]

-------------------------------------------------------------------------------
(* The stack of cleanup functions. *)

\* The ranks.
LEMMA Ranks ==
    /\ Rank \in [Funcs -> 1 .. 4]
    /\ Rank["rmParent"] = 1 /\ Rank["rmNetNS"] = 2
    /\ Rank["umount"] = 3 /\ Rank["delNetwork"] = 4
    BY DEF Rank, Funcs

\* What is on a stack is a cleanup function.
LEMMA RangeOfStack == ASSUME NEW s \in Seq(Funcs) PROVE Range(s) \subseteq Funcs
    BY DEF Range

\* The latest function of a nonempty stack, and the rest.
LEMMA NonemptyStack ==
    ASSUME NEW s \in Seq(Funcs), s # <<>>
    PROVE  /\ Len(s) \in Nat \ {0}
           /\ Front(s) = [j \in 1 .. Len(s) - 1 |-> s[j]]
           /\ Front(s) \in Seq(Funcs) /\ Len(Front(s)) = Len(s) - 1
           /\ Last(s) = s[Len(s)] /\ Last(s) \in Funcs
<1>1. Len(s) \in Nat \ {0}
    OBVIOUS
<1>2. Front(s) = [j \in 1 .. Len(s) - 1 |-> s[j]]
    BY <1>1 DEF Front
<1>3. Last(s) = s[Len(s)] /\ Last(s) \in Funcs
    BY <1>1 DEF Last
<1> QED
    BY <1>1, <1>2, <1>3

\* Registering a function of a higher rank keeps the order.
LEMMA RegisterKeepsOrder ==
    ASSUME NEW s \in Seq(Funcs), Ordered(s), NEW f \in Funcs,
           \A g \in Range(s) : Rank[g] < Rank[f]
    PROVE  /\ Append(s, f) \in Seq(Funcs)
           /\ Ordered(Append(s, f))
           /\ Range(Append(s, f)) = Range(s) \cup {f}
<1> DEFINE t == Append(s, f)
<1>1. /\ t \in Seq(Funcs) /\ Len(t) = Len(s) + 1 /\ t[Len(s) + 1] = f
      /\ \A j \in 1 .. Len(s) : t[j] = s[j]
    OBVIOUS
<1>2. \A j \in 1 .. Len(s) : Rank[s[j]] < Rank[f]
    BY DEF Range
<1> HIDE DEF t
<1>3. Ordered(t)
    BY <1>1, <1>2 DEF Ordered
<1>4. Range(t) = Range(s) \cup {f}
    BY <1>1 DEF Range
<1> QED
    BY <1>1, <1>3, <1>4 DEF t

\* Taking the latest function leaves those of lower rank, in order.
LEMMA UnwindKeepsOrder ==
    ASSUME NEW s \in Seq(Funcs), Ordered(s), s # <<>>
    PROVE  /\ Front(s) \in Seq(Funcs) /\ Last(s) \in Funcs
           /\ Ordered(Front(s))
           /\ Range(s) = Range(Front(s)) \cup {Last(s)}
           /\ \A g \in Range(Front(s)) : Rank[g] < Rank[Last(s)]
<1> DEFINE t == Front(s)
<1>0. Len(s) \in Nat \ {0}
    BY NonemptyStack
<1>1. /\ t \in Seq(Funcs) /\ Len(t) = Len(s) - 1
      /\ \A j \in 1 .. Len(t) : t[j] = s[j]
    BY NonemptyStack
<1>2. Last(s) = s[Len(s)] /\ Last(s) \in Funcs
    BY NonemptyStack
<1> HIDE DEF t
<1>3. Ordered(t) /\ \A j \in 1 .. Len(t) : Rank[t[j]] < Rank[s[Len(s)]]
    BY <1>0, <1>1 DEF Ordered
<1>4. Range(s) = Range(t) \cup {Last(s)}
  <2>1. 1 .. Len(s) = (1 .. Len(t)) \cup {Len(s)}
      BY <1>0, <1>1
  <2> QED
      BY <1>0, <1>1, <1>2, <2>1 DEF Range
<1>5. \A g \in Range(t) : Rank[g] < Rank[Last(s)]
    BY <1>1, <1>2, <1>3 DEF Range
<1> QED
    BY <1>1, <1>2, <1>3, <1>4, <1>5 DEF t

-------------------------------------------------------------------------------
(* The invariant. *)

Types ==
    /\ given \subseteq VMs /\ parent \in BOOLEAN
    /\ netns \in [VMs -> {"absent", "file", "mounted"}]
    /\ cni \in [VMs -> {"none", "partial", "up"}]
    /\ pc \in [VMs -> Steps]
    /\ funcs \in [VMs -> Seq(Funcs)]
    /\ ctxDone \in [VMs -> BOOLEAN] /\ lost \in [VMs -> SUBSET Funcs]

\* The functions are on the stack in the order of their ranks, up to the one
\* that the step reached can have registered; only the network's for a
\* namespace that was given.
StackInv(v) ==
    /\ Ordered(funcs[v])
    /\ pc[v] \in {"idle", "isNS", "statParent", "mkdirParent"}
        => Range(funcs[v]) = {}
    /\ pc[v] = "openNetNS" => Range(funcs[v]) \subseteq {"rmParent"}
    /\ pc[v] = "mountNetNS" => Range(funcs[v]) \subseteq {"rmParent", "rmNetNS"}
    /\ pc[v] \in {"delStale", "addNetwork"}
        => Range(funcs[v]) \subseteq {"rmParent", "rmNetNS", "umount"}
    /\ v \in given => Range(funcs[v]) \subseteq {"delNetwork"}

\* The step reached tells how far the namespace is.
NamespaceInv(v) ==
    /\ pc[v] \in {"statParent", "mkdirParent", "openNetNS"}
        => netns[v] = "absent"
    /\ pc[v] = "mountNetNS" => netns[v] = "file"
    /\ pc[v] \in {"delStale", "addNetwork", "parse", "up"}
        => netns[v] = "mounted"
    /\ v \in given => netns[v] = "mounted"

\* A function is still registered, or known to have failed or died.
Accounted(v, f) == f \in Range(funcs[v]) \/ f \in lost[v]

\* Whatever exists has its function accounted for, and the network does not
\* stay registered when its namespace goes.
AccountInv(v) ==
    /\ cni[v] # "none" => Accounted(v, "delNetwork")
    /\ v \notin given /\ netns[v] = "mounted" => Accounted(v, "umount")
    /\ v \notin given /\ netns[v] # "absent" => Accounted(v, "rmNetNS")
    /\ cni[v] # "none" /\ netns[v] # "mounted" => "delNetwork" \in lost[v]
    /\ v \notin Forced /\ pc[v] = "addNetwork" => cni[v] = "none"

VMInv(v) == StackInv(v) /\ NamespaceInv(v) /\ AccountInv(v)

Inv == Types /\ (\A v \in VMs : VMInv(v)) /\ ParentKept

\* The host before any machine was started satisfies the invariant.
LEMMA InitInv == Init => Inv
<1> SUFFICES ASSUME Init PROVE Inv
    OBVIOUS
<1>1. Types
    BY DEF Init, Types, Steps
<1>2. ASSUME NEW v \in VMs PROVE VMInv(v)
  <2>1. Ordered(<<>>) /\ Range(<<>>) = {}
      BY DEF Ordered, Range
  <2> QED
      BY <2>1 DEF Init, VMInv, StackInv, NamespaceInv, AccountInv
<1>3. ParentKept
    BY DEF Init, ParentKept
<1> QED
    BY <1>1, <1>2, <1>3 DEF Inv

\* A step of one VM leaves the others' state alone.
LEMMA StepLocal ==
    ASSUME Types, UNCHANGED given, NEW v \in VMs, Step(v),
           NEW w \in VMs, w # v, VMInv(w)
    PROVE  VMInv(w)'
<1> USE DEF Types, Goto, Register, Fail, hostVars
<1>1. /\ netns'[w] = netns[w] /\ cni'[w] = cni[w] /\ pc'[w] = pc[w]
      /\ funcs'[w] = funcs[w] /\ lost'[w] = lost[w]
  <2>1. CASE \/ setupNetwork(v) \/ IsNSorErr(v) \/ statParent(v)
             \/ mkdirParent(v) \/ openNetNS(v) \/ mountNetNS(v)
      BY <2>1 DEF setupNetwork, IsNSorErr, UseAsIs, statParent, mkdirParent,
         openNetNS, mountNetNS
  <2>2. CASE \/ delStale(v) \/ addNetwork(v) \/ parseResult(v) \/ stop(v)
             \/ Cancel(v) \/ cleanedUp(v) \/ Crash(v)
      BY <2>2 DEF delStale, DelNetworkList, DelNetworkListFails, AfterStaleErr,
         addNetwork, parseResult, stop, Cancel, cleanedUp, Crash
  <2>3. CASE doCleanup(v)
      BY <2>3 DEF doCleanup, RunFunc, Succeeds, rmParent, rmNetNS, umount,
         delNetwork, FuncFails, DelNetworkList, DelNetworkListFails
  <2> QED
      BY <2>1, <2>2, <2>3 DEF Step
<1> QED
    BY <1>1 DEF VMInv, StackInv, NamespaceInv, AccountInv, Accounted

\* Types are preserved.
LEMMA StepTypes ==
    ASSUME Types, UNCHANGED given, NEW v \in VMs, Step(v)
    PROVE  Types'
<1> USE DEF Types, Goto, Fail, hostVars
<1>1. ASSUME NEW f \in Funcs, Register(v, f) PROVE funcs' \in [VMs -> Seq(Funcs)]
    BY <1>1 DEF Register
<1>2. CASE \/ setupNetwork(v) \/ statParent(v) \/ parseResult(v) \/ stop(v)
           \/ Cancel(v) \/ cleanedUp(v) \/ IsNSorErr(v)
    BY <1>2 DEF setupNetwork, statParent, parseResult, stop, Cancel, cleanedUp,
       IsNSorErr, UseAsIs, Steps
<1>3. CASE mkdirParent(v) \/ openNetNS(v)
    BY <1>1, <1>3 DEF mkdirParent, openNetNS, Steps, Funcs
<1>4. CASE mountNetNS(v) \/ addNetwork(v)
    BY <1>1, <1>4 DEF mountNetNS, addNetwork, Steps, Funcs
<1>5. CASE delStale(v)
  <2>1. cni' \in [VMs -> {"none", "partial", "up"}]
      BY <1>5 DEF delStale, DelNetworkList, DelNetworkListFails
  <2>2. pc' \in [VMs -> Steps]
      BY <1>5 DEF delStale, AfterStaleErr, Steps
  <2>3. lost' \in [VMs -> SUBSET Funcs]
    <3>1. PICK S \in SUBSET Funcs : lost' = [lost EXCEPT ![v] = S]
        BY <1>5 DEF delStale
    <3> QED
        BY <3>1
  <2> QED
      BY <1>5, <2>1, <2>2, <2>3 DEF delStale
<1>6. CASE Crash(v)
  <2>1. Range(funcs[v]) \subseteq Funcs
      BY RangeOfStack
  <2> QED
      BY <1>6, <2>1 DEF Crash, Steps
<1>7. CASE doCleanup(v)
  <2>1. Last(funcs[v]) \in Funcs
      BY <1>7, NonemptyStack DEF doCleanup
  <2>2. funcs' \in [VMs -> Seq(Funcs)]
      BY <1>7, NonemptyStack DEF doCleanup
  <2>3. netns' \in [VMs -> {"absent", "file", "mounted"}] /\ parent' \in BOOLEAN
      BY <1>7 DEF doCleanup, RunFunc, Succeeds, FuncFails, rmParent, rmNetNS,
         umount, delNetwork
  <2>4. cni' \in [VMs -> {"none", "partial", "up"}]
    <3>1. UNCHANGED cni \/ DelNetworkList(v) \/ DelNetworkListFails(v)
        BY <1>7 DEF doCleanup, RunFunc, Succeeds, FuncFails, rmParent, rmNetNS,
           umount, delNetwork
    <3> QED
        BY <3>1 DEF DelNetworkList, DelNetworkListFails
  <2>5. lost' \in [VMs -> SUBSET Funcs]
    <3>1. PICK S \in SUBSET Funcs : lost' = [lost EXCEPT ![v] = S]
        BY <1>7, <2>1 DEF doCleanup, RunFunc
    <3> QED
        BY <3>1
  <2> QED
      BY <1>7, <2>2, <2>3, <2>4, <2>5 DEF doCleanup
<1> QED
    BY <1>2, <1>3, <1>4, <1>5, <1>6, <1>7 DEF Step

\* setupNetwork and the machine's life up to the cleanup.
LEMMA SetupKeepsVMInv ==
    ASSUME Types, UNCHANGED given, NEW v \in VMs, VMInv(v), Types',
           \/ setupNetwork(v) \/ IsNSorErr(v) \/ statParent(v)
           \/ mkdirParent(v) \/ openNetNS(v) \/ mountNetNS(v) \/ delStale(v)
           \/ addNetwork(v) \/ parseResult(v) \/ stop(v) \/ Cancel(v)
    PROVE  VMInv(v)'
<1> USE DEF Types, VMInv, StackInv, NamespaceInv, AccountInv, Accounted, Goto,
        Fail, hostVars
<1> DEFINE Pushed(f) == /\ Ordered(funcs'[v])
                        /\ Range(funcs'[v]) = Range(funcs[v]) \cup {f}
<1>1. ASSUME NEW f \in Funcs, Register(v, f),
             \A g \in Range(funcs[v]) : Rank[g] < Rank[f]
      PROVE  Pushed(f)
  <2>1. funcs'[v] = Append(funcs[v], f)
      BY <1>1 DEF Register
  <2>2. funcs[v] \in Seq(Funcs) /\ Ordered(funcs[v])
      OBVIOUS
  <2>3. /\ Ordered(Append(funcs[v], f))
        /\ Range(Append(funcs[v], f)) = Range(funcs[v]) \cup {f}
      BY <1>1, <2>2, RegisterKeepsOrder
  <2> QED
      BY <2>1, <2>3
<1>2. CASE \/ setupNetwork(v) \/ statParent(v) \/ parseResult(v) \/ stop(v)
           \/ Cancel(v)
    BY <1>2 DEF setupNetwork, statParent, parseResult, stop, Cancel
<1>3. CASE IsNSorErr(v)
    BY <1>3 DEF IsNSorErr, UseAsIs
<1>4. CASE mkdirParent(v)
  <2>1. Register(v, "rmParent") => Pushed("rmParent")
      BY <1>1, <1>4, Ranks DEF mkdirParent, Funcs
  <2> QED
      BY <1>4, <2>1 DEF mkdirParent
<1>5. CASE openNetNS(v)
  <2>1. Register(v, "rmNetNS") => Pushed("rmNetNS")
      BY <1>1, <1>5, Ranks DEF openNetNS, Funcs
  <2> QED
      BY <1>5, <2>1 DEF openNetNS
<1>6. CASE mountNetNS(v)
  <2>1. Register(v, "umount") => Pushed("umount")
      BY <1>1, <1>6, Ranks DEF mountNetNS, Funcs
  <2> QED
      BY <1>6, <2>1 DEF mountNetNS
<1>7. CASE delStale(v)
    BY <1>7 DEF delStale, DelNetworkList, DelNetworkListFails, AfterStaleErr
<1>8. CASE addNetwork(v)
  <2>1. Pushed("delNetwork")
      BY <1>1, <1>8, Ranks DEF addNetwork, Funcs
  <2> QED
      BY <1>8, <2>1 DEF addNetwork
<1> QED
    BY <1>2, <1>3, <1>4, <1>5, <1>6, <1>7, <1>8

\* The cleanup and a crash.
LEMMA TeardownKeepsVMInv ==
    ASSUME Types, UNCHANGED given, NEW v \in VMs, VMInv(v), Types',
           doCleanup(v) \/ cleanedUp(v) \/ Crash(v)
    PROVE  VMInv(v)'
<1> USE DEF Types, VMInv, StackInv, NamespaceInv, AccountInv, Accounted, Goto,
        hostVars
<1>1. Ordered(<<>>) /\ Range(<<>>) = {}
    BY DEF Ordered, Range
<1>2. CASE cleanedUp(v)
    BY <1>1, <1>2 DEF cleanedUp
<1>3. CASE Crash(v)
    BY <1>1, <1>3 DEF Crash
<1>4. CASE doCleanup(v)
  <2> DEFINE f == Last(funcs[v])
  <2>1. /\ f \in Funcs /\ Ordered(funcs'[v])
        /\ Range(funcs[v]) = Range(funcs'[v]) \cup {f}
        /\ \A g \in Range(funcs'[v]) : Rank[g] < Rank[f]
      BY <1>4, UnwindKeepsOrder DEF doCleanup
  <2>2. RunFunc(v, f) /\ UNCHANGED <<pc, ctxDone>> /\ pc[v] = "cleanup"
      BY <1>4 DEF doCleanup
  <2>3. f # "delNetwork" => "delNetwork" \notin Range(funcs'[v])
      BY <2>1, Ranks DEF Funcs
  <2> HIDE DEF f
  <2>4. CASE f = "rmParent"
      BY <2>1, <2>2, <2>3, <2>4 DEF RunFunc, Succeeds, FuncFails, rmParent
  <2>5. CASE f = "rmNetNS"
      BY <2>1, <2>2, <2>3, <2>5 DEF RunFunc, Succeeds, FuncFails, rmNetNS
  <2>6. CASE f = "umount"
    <3>1. v \notin given /\ (cni[v] # "none" => "delNetwork" \in lost[v])
        BY <2>1, <2>3, <2>6
    <3>2. CASE Succeeds(v, f) /\ lost' = [lost EXCEPT ![v] = @ \ {f}]
        BY <2>1, <2>2, <2>6, <3>1, <3>2 DEF Succeeds, umount
    <3>3. CASE FuncFails(v, f) /\ lost' = [lost EXCEPT ![v] = @ \cup {f}]
        BY <2>1, <2>2, <2>6, <3>1, <3>3 DEF FuncFails
    <3> QED
        BY <2>2, <3>2, <3>3 DEF RunFunc
  <2>7. CASE f = "delNetwork"
      BY <2>1, <2>2, <2>7 DEF RunFunc, Succeeds, FuncFails, delNetwork,
         DelNetworkList, DelNetworkListFails
  <2> QED
      BY <2>1, <2>4, <2>5, <2>6, <2>7 DEF Funcs
<1> QED
    BY <1>2, <1>3, <1>4

\* The directory outlives what is in it: a file is created only where it
\* exists, and os.Remove takes it away only when it is empty.
LEMMA NextParentKept == Inv /\ Next => ParentKept'
<1> SUFFICES ASSUME Inv, UNCHANGED given, NEW v \in VMs, Step(v)
             PROVE  ParentKept'
    BY DEF Next
<1> USE DEF Inv, Types, ParentKept, Register, Goto, Fail, hostVars
<1>1. CASE \/ setupNetwork(v) \/ IsNSorErr(v) \/ statParent(v) \/ mkdirParent(v)
           \/ delStale(v) \/ addNetwork(v) \/ parseResult(v) \/ stop(v)
           \/ Cancel(v) \/ cleanedUp(v) \/ Crash(v)
    BY <1>1 DEF setupNetwork, IsNSorErr, statParent, mkdirParent, delStale,
       addNetwork, parseResult, stop, Cancel, cleanedUp, Crash
<1>2. CASE openNetNS(v)
    BY <1>2 DEF openNetNS
<1>3. CASE mountNetNS(v)
  <2>1. netns[v] = "file"
      BY <1>3 DEF mountNetNS, VMInv, NamespaceInv
  <2> QED
      BY <1>3, <2>1 DEF mountNetNS
<1>4. CASE doCleanup(v)
    BY <1>4 DEF doCleanup, RunFunc, Succeeds, FuncFails, rmParent, rmNetNS,
       umount, delNetwork, ParentRemovable
<1> QED
    BY <1>1, <1>2, <1>3, <1>4 DEF Step

\* Every step preserves the invariant.
LEMMA NextInv == Inv /\ [Next]_vars => Inv'
<1> SUFFICES ASSUME Inv, [Next]_vars PROVE Inv'
    OBVIOUS
<1>1. CASE UNCHANGED vars
    BY <1>1 DEF vars, hostVars, Inv, Types, VMInv, StackInv, NamespaceInv,
       AccountInv, Accounted, ParentKept
<1>2. CASE Next
  <2>1. PICK v \in VMs : Step(v)
      BY <1>2 DEF Next
  <2>2. UNCHANGED given /\ Types /\ VMInv(v)
      BY <1>2 DEF Next, Inv
  <2>3. Types' /\ VMInv(v)'
      BY <2>1, <2>2, StepTypes, SetupKeepsVMInv, TeardownKeepsVMInv DEF Step
  <2>4. \A w \in VMs : VMInv(w)'
      BY <2>1, <2>2, <2>3, StepLocal DEF Inv
  <2> QED
      BY <1>2, <2>3, <2>4, NextParentKept DEF Inv
<1> QED
    BY <1>1, <1>2

\* The invariant holds of every reachable state.
LEMMA Invariant == Spec => []Inv
    BY InitInv, NextInv, PTL DEF Spec

-------------------------------------------------------------------------------
\* What a VM has left behind is accounted for by a function that failed or died
\* with its process.
THEOREM LeftoversAccounted == Spec => []NoLeak
<1>1. ASSUME Inv, NEW v \in VMs, pc[v] = "idle" PROVE Range(funcs[v]) = {}
    BY <1>1 DEF Inv, VMInv, StackInv
<1>2. Inv => NoLeak
    BY <1>1 DEF Inv, VMInv, AccountInv, Accounted, NoLeak
<1> QED
    BY <1>2, Invariant, PTL

\* The user's namespaces stay mounted.
THEOREM GivenSafe == Spec => []GivenKept
<1>1. Inv => GivenKept
    BY DEF Inv, Types, VMInv, NamespaceInv, GivenKept
<1> QED
    BY <1>1, Invariant, PTL

\* A directory with namespaces in it stays.
THEOREM ParentSafe == Spec => []ParentKept
<1>1. Inv => ParentKept
    BY DEF Inv
<1> QED
    BY <1>1, Invariant, PTL

\* A network whose namespace is gone is one whose deletion failed or died.
THEOREM NetworkDeletedFirst == Spec => []NetworkInNamespace
<1>1. Inv => NetworkInNamespace
    BY DEF Inv, VMInv, AccountInv, NetworkInNamespace
<1> QED
    BY <1>1, Invariant, PTL

\* Without Force no network is created on top of another.
THEOREM NeverOverlaid == Spec => []NoOverlay
<1>1. Inv => NoOverlay
    BY DEF Inv, VMInv, AccountInv, NoOverlay
<1> QED
    BY <1>1, Invariant, PTL

\* Types, and that no function is registered twice.
THEOREM NetworkTypes == Spec => []TypeOK
<1>1. ASSUME NEW s \in Seq(Funcs), Ordered(s) PROVE IsInjective(s)
    BY <1>1, Ranks DEF Ordered, IsInjective
<1>2. Inv => TypeOK
    BY <1>1 DEF Inv, Types, VMInv, StackInv, TypeOK
<1> QED
    BY <1>2, Invariant, PTL
===============================================================================
