------------------------------- MODULE MCTame -------------------------------
(***************************************************************************)
(* The programs whose memory and scopes are safe, and the assumption of    *)
(* the theorem about scopes, which they meet: none returns from inside a   *)
(* loop.                                                                   *)
(***************************************************************************)
EXTENDS MCInterpreter, CwrPlain

TamePrograms == SafePrograms \cup {ErrorInTarget}

TameNode == NodesOf(TamePrograms)
TameName == {n.op : n \in TameNode}
TameQuiet == QuietOf(TameNode)

ASSUME TameAssumption == Tame(TameQuiet)
=============================================================================
