------------------------------ MODULE MCNeighbours -----------------------------
(***************************************************************************)
(* Two machines of one program.  Their handler lists may share an array    *)
(* and their namespaces a directory, but no operation reads both: a        *)
(* behaviour moves the lists or the networks, and the others rest.         *)
(***************************************************************************)
EXTENDS MCNetwork, MCHandlerList

ListsRest ==
    /\ \A m \in Machines : lists[m] = Nil
    /\ \A a \in Arrays \ {default.arr} : heap[a] = <<>>

NetworksRest ==
    ~parent /\ \A v \in VMs :
        pc[v] = "idle" /\ netns[v] = "absent" /\ cni[v] = "none"
            /\ funcs[v] = <<>> /\ ~ctxDone[v] /\ lost[v] = {}

NeighboursNext ==
    \/ ListsRest /\ Next /\ UNCHANGED listVars
    \/ NetworksRest /\ ListNext /\ UNCHANGED vars

NeighboursInit == Init /\ ListInit

NeighboursSpec == NeighboursInit /\ [][NeighboursNext]_<<vars, listVars>>
===============================================================================
