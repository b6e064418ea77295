---------------------------- MODULE MCNodeRecovery ----------------------------
(***************************************************************************)
(* Instances of the operator and its cluster for TLC.  OSDs are named d1,  *)
(* d2 (in use) and s1, s2 (ids rook may still give out).                   *)
(***************************************************************************)
EXTENDS NodeRecoveryProperties, TLC

CONSTANTS n1, n2, d1, d2, s1, s2

\* OSDs on one node are interchangeable, as are ids not given out yet.
OSDSymmetry ==
  {[o \in {d1, d2, s1, s2} |-> IF o \in {d1, d2} THEN f[o] ELSE g[o]] :
     f \in Permutations({d1, d2}), g \in Permutations({s1, s2})}

\* So are two resources, and both with two OSDs.
CRSymmetry   == Permutations(CR)
PairSymmetry == Permutations({d1, d2}) \union CRSymmetry

\* All OSDs on one node, or d2 on a node of its own.
OneNode  == [o \in OSD |-> n1]
TwoNodes == [o \in OSD |-> IF o = d2 THEN n2 ELSE n1]

\* The tools switches: any, none on, or at most the one of 4.15.
AnySwitch == [ToolsObject -> BOOLEAN]
NoSwitch  == {[x \in ToolsObject |-> FALSE]}
NewSwitch == {f \in AnySwitch : ~f["OCSInitialization"]}

\* A pod is scheduled, a scheduled one starts; a running one crashes; both.
StartMoves == { <<"pending", "init">>, <<"init", "running">> }
FailMoves  == { <<"running", "crash">> }
CrashMoves == StartMoves \union FailMoves
===============================================================================
