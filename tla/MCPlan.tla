------------------------------- MODULE MCPlan -------------------------------
(* Small plans: the empty one, two phases, and one that names a phase twice *)
(* so that --resume-from is ambiguous.                                      *)
EXTENDS Plan

CONSTANTS a, b

MCPhases == {a, b}
MCPlans == {<<>>, <<a, b>>, <<a, b, a>>}
=============================================================================
