-------------------------- MODULE MCDurableWorkflow --------------------------
(***************************************************************************)
(* Instances of DurableWorkflow: a call that is repeated under its key, by *)
(* whichever agent, and two who may ask for a resume.                      *)
(***************************************************************************)
EXTENDS DurableWorkflow, TLC

CONSTANTS c1, c2, c3, r1, r2, k

MCCalls     == {c1, c2, c3}
MCResumers  == {r1, r2}
MCKeys      == {k}
MCKeyOf     == [c \in Calls |-> IF c = c3 THEN NoKey ELSE k]
MCSymmetry  == Permutations({c1, c2}) \cup Permutations(MCResumers)
=============================================================================
