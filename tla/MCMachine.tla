------------------------------- MODULE MCMachine -------------------------------
(***************************************************************************)
(* Small instances of Machine: CNI networking (a network whose deletion    *)
(* uses Start's context) or none, no or one fifo.                          *)
(***************************************************************************)
EXTENDS Machine

CONSTANT c1

MCNoNet == <<>>
MCCni == <<"cni">>
MCCtx == {"cni"}
MCNoFifos == <<>>
MCOneFifo == <<"logFifo">>
===============================================================================
