----------------------------- MODULE MCHandlerList -----------------------------
(***************************************************************************)
(* Two machines.  The default validation list is full (one handler, which  *)
(* fills its array) and NewMachine appends to it; the default FcInit list  *)
(* has room for one more handler (eleven 24-byte handlers are allocated    *)
(* 288 bytes) and NewMachine appends nothing.                              *)
(***************************************************************************)
EXTENDS HandlerList, TLC

CONSTANTS m1, m2

Hdl(name, fn) == [name |-> name, fn |-> fn]
MCHandlers == {Hdl("a", "f"), Hdl("a", "g"), Hdl("b", "f")}
MCDefault == <<Hdl("a", "f")>>
MCOnNew == <<Hdl("b", "f")>>
MCNothing == <<>>
Symm == Permutations({m1, m2})
===============================================================================
