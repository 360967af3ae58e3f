------------------------------ MODULE HandlerList ------------------------------
(***************************************************************************)
(* HandlerList (handlers.go) as Go implements it: a list is a slice, a     *)
(* window of a length onto an array that other slices may share.  Every    *)
(* machine starts from a copy of the package's default slice, and then     *)
(* replaces its list by the result of one operation after another.         *)
(***************************************************************************)
EXTENDS Integers, Sequences, FiniteSets, SequencesExt

CONSTANTS
    Machines,
    Handlers,       \* records with a name and a fn
    DefaultList,    \* the package's default list
    Spare,          \* unused capacity of its array
    OnNew,          \* what NewMachine appends to it
    Slack,          \* the most unused capacity append gives a new array
    MaxLen          \* bound on the length of a list

ASSUME ListsAssumption ==
    /\ IsFiniteSet(Machines)
    /\ Spare \in Nat /\ Slack \in Nat /\ MaxLen \in Nat
    /\ DefaultList \in Seq(Handlers) /\ OnNew \in Seq(Handlers)

VARIABLES
    heap,           \* the arrays: a sequence as long as the array's capacity
    default,        \* the slice defaultValidationHandlerList or defaultFcInit...
    lists           \* the slice of each machine

listVars == <<heap, default, lists>>

\* The zero value of Handler, in the unused part of an array.
Zero == [name |-> "", fn |-> ""]
Zeros(k) == [j \in 1 .. k |-> Zero]
Names == {h.name : h \in Handlers}

\* Enough arrays for every slice and one being built; number 0 is the empty
\* array of a nil slice.
Arrays == 0 .. Cardinality(Machines) + 2
Nil == [arr |-> 0, len |-> 0]

\* What a reader of a slice sees.
Contents(l) == SubSeq(heap[l.arr], 1, l.len)

ListInit ==
    /\ heap = [a \in Arrays |->
                IF a = 1 THEN DefaultList \o Zeros(Spare) ELSE <<>>]
    /\ default = [arr |-> 1, len |-> Len(DefaultList)]
    /\ lists = [m \in Machines |-> Nil]

\* Arrays that no slice refers to are garbage, and may be used again.
InUse(ls) == {0, default.arr} \cup {ls[m].arr : m \in Machines}

Assign(m, l, h) ==
    /\ lists' = [lists EXCEPT ![m] = l]
    /\ heap' = [a \in Arrays |-> IF a \in InUse(lists') THEN h[a] ELSE <<>>]
    /\ UNCHANGED default

\* The list of m becomes a slice of a new array that holds s.
Build(m, s) ==
    IF s = <<>>
    THEN Assign(m, Nil, heap)
    ELSE \E slack \in 0 .. Slack :
            LET a == CHOOSE b \in Arrays : b \notin InUse(lists) IN
            Assign(m, [arr |-> a, len |-> Len(s)],
                   [heap EXCEPT ![a] = s \o Zeros(slack)])

\* Go's append(l, hs...): in place when the array has room for it.
AppendTo(m, l, hs) ==
    LET len == l.len + Len(hs) IN
    IF len <= Len(heap[l.arr])
    THEN Assign(m, [l EXCEPT !.len = len],
                [heap EXCEPT ![l.arr] =
                    SubSeq(@, 1, l.len) \o hs \o SubSeq(@, len + 1, Len(@))])
    ELSE Build(m, Contents(l) \o hs)

-------------------------------------------------------------------------------
(* The loops over a list. *)

HasIn(l, name) == \E j \in DOMAIN l : l[j].name = name

\* Every pass appends its part to the new list.
SwapLoop(l, h) ==
    FlattenSeq([j \in DOMAIN l |-> <<IF l[j].name = h.name THEN h ELSE l[j]>>])

RemoveLoop(l, name) ==
    FlattenSeq([j \in DOMAIN l |-> IF l[j].name # name THEN <<l[j]>> ELSE <<>>])

AppendAfterLoop(l, name, h) ==
    FlattenSeq([j \in DOMAIN l |-> IF l[j].name = name THEN <<l[j], h>>
                                                       ELSE <<l[j]>>])

-------------------------------------------------------------------------------
(* The operations, each followed by the assignment of its result. *)

\* Mutant: the list of a new machine is the default slice itself.
NewMachineShared(m) == Assign(m, default, heap)

\* m.Handlers = defaultHandlers, then one Append (ConfigValidationHandler).
NewMachine(m) == AppendTo(m, default, OnNew)

Append1(m, h) == AppendTo(m, lists[m], <<h>>)
Prepend(m, h) == Build(m, <<h>> \o Contents(lists[m]))
AppendAfter(m, name, h) ==
    Build(m, AppendAfterLoop(Contents(lists[m]), name, h))
RemoveNamed(m, name) == Build(m, RemoveLoop(Contents(lists[m]), name))
Swap(m, h) == Build(m, SwapLoop(Contents(lists[m]), h))

Swappend(m, h) ==
    IF HasIn(Contents(lists[m]), h.name) THEN Swap(m, h) ELSE Append1(m, h)

\* l.list[0:0] keeps the array.
Clear(m) == Assign(m, [lists[m] EXCEPT !.len = 0], heap)

Grow(m, h) ==
    /\ lists[m].len < MaxLen
    /\ \/ Append1(m, h) \/ Prepend(m, h) \/ Swappend(m, h)

ListNext ==
    \E m \in Machines :
        \/ NewMachine(m) \/ Clear(m)
        \/ \E h \in Handlers :
            \/ Grow(m, h) \/ Swap(m, h)
            \/ \E name \in Names :
                /\ Len(AppendAfterLoop(Contents(lists[m]), name, h)) <= MaxLen
                /\ AppendAfter(m, name, h)
        \/ \E name \in Names : RemoveNamed(m, name)

ListSpec == ListInit /\ [][ListNext]_listVars

-------------------------------------------------------------------------------
\* Every operation does to its own list what its comment says, and leaves the
\* lists of the other machines and the default list alone.
Abstract == INSTANCE IndependentLists WITH
    default <- Contents(default),
    lists <- [m \in Machines |-> Contents(lists[m])]
Independent == Abstract!Spec
===============================================================================
