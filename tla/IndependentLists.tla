--------------------------- MODULE IndependentLists ---------------------------
(***************************************************************************)
(* What the operations on a HandlerList promise (the comments in           *)
(* handlers.go): each returns the list it describes, and a machine's list  *)
(* is its own: no operation changes another machine's list or the default. *)
(***************************************************************************)
EXTENDS Integers, Sequences, FiniteSets

CONSTANTS
    Machines,
    Handlers,       \* records with a name and a fn
    DefaultList,    \* the package's default list
    OnNew           \* what NewMachine appends to it

VARIABLES
    default,        \* the default list
    lists           \* the list of each machine

vars == <<default, lists>>
Names == {h.name : h \in Handlers}

Init ==
    /\ default = DefaultList
    /\ lists = [m \in Machines |-> <<>>]

Becomes(m, l) ==
    /\ lists' = [lists EXCEPT ![m] = l]
    /\ UNCHANGED default

Has(m, name) == \E j \in DOMAIN lists[m] : lists[m][j].name = name

NewMachine(m) == Becomes(m, default \o OnNew)
Append1(m, h) == Becomes(m, Append(lists[m], h))
Prepend(m, h) == Becomes(m, <<h>> \o lists[m])
Clear(m) == Becomes(m, <<>>)

\* The handlers that stay keep their order, and there are no others.
RemoveNamed(m, name) ==
    LET old == lists[m]
        kept == {j \in DOMAIN old : old[j].name # name}
        place(j) == Cardinality({i \in kept : i <= j})
    IN  /\ Becomes(m, lists'[m])
        /\ DOMAIN lists'[m] = 1 .. Cardinality(kept)
        /\ \A j \in kept : lists'[m][place(j)] = old[j]

Swap(m, h) ==
    Becomes(m, [j \in DOMAIN lists[m] |->
                    IF lists[m][j].name = h.name THEN h ELSE lists[m][j]])
Swappend(m, h) == IF Has(m, h.name) THEN Swap(m, h) ELSE Append1(m, h)

\* Every handler with the name has h behind it, and the others move up.
AppendAfter(m, name, h) ==
    LET old == lists[m]
        named == {j \in DOMAIN old : old[j].name = name}
        place(j) == j + Cardinality({i \in named : i < j})
    IN  /\ Becomes(m, lists'[m])
        /\ DOMAIN lists'[m] = 1 .. Len(old) + Cardinality(named)
        /\ \A j \in DOMAIN old : lists'[m][place(j)] = old[j]
        /\ \A j \in named : lists'[m][place(j) + 1] = h

Next ==
    \E m \in Machines :
        \/ NewMachine(m) \/ Clear(m)
        \/ \E h \in Handlers :
            \/ Append1(m, h) \/ Prepend(m, h) \/ Swap(m, h) \/ Swappend(m, h)
            \/ \E name \in Names : AppendAfter(m, name, h)
        \/ \E name \in Names : RemoveNamed(m, name)



Spec == Init /\ [][Next]_vars
===============================================================================
