----------------------------- MODULE MCTeamGraph -----------------------------
(***************************************************************************)
(* Two teams in one run, each with a state of its own; `shape` says which  *)
(* of them runs.                                                           *)
(*   "order"  a coder, its reviewer and a task downstream of the coder,    *)
(*            listed before the reviewer, one agent at a time; a fourth    *)
(*            task that add_task may append; two requests of the owner in  *)
(*            any interleaving of their steps                              *)
(*   "gates"  a reviewer that is itself reviewed, two agents at a time,    *)
(*            one request and one tick that dies, under fairness           *)
(***************************************************************************)
EXTENDS TeamGraph

CONSTANTS code, review, ship, extra,
          GatesParallel, GatesControls, GatesCrashes

VARIABLES shape,
          tasks, stopped, width, waiting, agents, spent, stopping, asked, requests, deaths

MCOrder    == <<code, ship, review, extra>>
MCReviewOf == [t \in Task |-> IF t = review THEN code ELSE None]
MCDeps     == [t \in Task |-> CASE t \in {code, extra} -> {} [] OTHER -> {code}]
MCLimit    == [t \in Task |-> IF t = review THEN 1 ELSE 0]

Nested         == {code, review, extra}
NestedReviewOf == [t \in Nested |-> CASE t = review -> code [] t = extra -> review [] OTHER -> None]
NestedDeps     == [t \in Nested |-> CASE t = code -> {} [] t = extra -> {review} [] OTHER -> {code}]
NestedLimit    == [t \in Nested |-> IF t = code THEN 0 ELSE 1]

Gates == INSTANCE TeamGraph WITH
    Order <- <<code, review, extra>>, DependsOn <- NestedDeps, ReviewOf <- NestedReviewOf,
    MaxRevisions <- NestedLimit, Spawned <- 3, MaxParallel <- GatesParallel,
    MaxControls <- GatesControls, MaxCrashes <- GatesCrashes,
    task <- tasks, cancelled <- stopped, parallel <- width, queue <- waiting, agent <- agents,
    budget <- spent, cancel <- stopping, pending <- asked, controls <- requests, crashes <- deaths

gatesVars == <<tasks, stopped, width, waiting, agents, spent, stopping, asked, requests, deaths>>
all == <<shape, vars, gatesVars>>
Ordered(A) == shape = "order" /\ A /\ UNCHANGED <<shape, gatesVars>>
Gated(A)   == shape = "gates" /\ A /\ UNCHANGED <<shape, vars>>

TeamInit == shape \in {"order", "gates"} /\ Init /\ Gates!Init
TeamNext == Ordered(Next) \/ Gated(Gates!Next)
TeamSpec ==
    /\ TeamInit /\ [][TeamNext]_all
    /\ \A t \in Nested : WF_all(Gated(t \in DOMAIN tasks /\ Gates!AgentEnds(t)))
    /\ SF_all(Gated(Gates!TickAdmitted))

\* Every task of the team with the reviewed reviewer ends (TeamGraph: tools_agents.py:1713-2062).
TeamEnds == <>[](shape = "gates" => Gates!AllEnded)
=============================================================================
