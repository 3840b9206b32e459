------------------------------ MODULE MCMachine ------------------------------
(***************************************************************************)
(* Processes that outlive the server, in one run; `part` picks one of two  *)
(* machines that share no state.                                           *)
(*   "jobs"    a background job, two callers that may stop it, one death   *)
(*             of the server, under fairness                               *)
(*   "update"  the update helper, over a checkout and runtime that are     *)
(*             separate or one, with and without new dependencies          *)
(***************************************************************************)
EXTENDS Jobs, UpdateHelper

CONSTANTS c1, c2

VARIABLE part

MCSetups == [same : BOOLEAN, deps : BOOLEAN]
all == <<part, vars, updateVars>>

Job(A)      == part = "jobs" /\ A /\ UNCHANGED <<part, updateVars>>
OfUpdate(A) == part = "update" /\ A /\ UNCHANGED <<part, vars>>

MachineInit ==
    /\ Init /\ UpdateInit
    /\ \/ part = "update"
       \/ part = "jobs" /\ setup.same /\ setup.deps
MachineNext == Job(Next) \/ OfUpdate(UpdateNext)

\* The fairness is that of Jobs; updates are checked without any.
MachineSpec ==
    /\ MachineInit /\ [][MachineNext]_all
    /\ WF_all(Job(Starter)) /\ WF_all(Job(Watcher)) /\ WF_all(Job(Poll))
    /\ WF_all(Job(StartGoesLate)) /\ WF_all(Job(LimitPasses)) /\ WF_all(Job(ReadersEnd))
    /\ \A c \in Caller : WF_all(Job(StopEnds(c) \/ StopKills(c)))
=============================================================================
