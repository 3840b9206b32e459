-------------------------- MODULE MCAgentLifecycle --------------------------
(***************************************************************************)
(* Instances of AgentLifecycle: two handlers at a time, two attempts.      *)
(***************************************************************************)
EXTENDS AgentLifecycle, TLC

CONSTANTS c1, c2

MCCallers  == {c1, c2}
MCOne      == {c1}
MCSymmetry == Permutations(MCCallers)
=============================================================================
