------------------------------ MODULE MCStores -------------------------------
(***************************************************************************)
(* The two stores that several processes share through files and a lock,   *)
(* in one run; `part` picks one of machines that share no state.           *)
(*   "admission"  two teams, an application window, and nested paths, with *)
(*                two calls for one request that differ in the caller's    *)
(*                provider limit                                           *)
(*   "files"      the journal of file changes: two paths; a mixed          *)
(*                all-or-nothing batch over them, a captured command and   *)
(*                the owner beside                                         *)
(*   "large"      the same journal, with room for one transaction less,    *)
(*                when the command writes what is too large for a preimage *)
(*                and a call that is not all or nothing                    *)
(***************************************************************************)
EXTENDS Admission, FileTransactions, TLC

CONSTANTS t1, t2, k1, k2, r1, r2, r3, pa, pb, g1, g2, p, q, x, y, nothing

VARIABLE part

Repo   == [kind |-> "workspace",     id |-> <<"repo">>,         mode |-> "write"]
Src    == [kind |-> "path",          id |-> <<"repo", "src">>,  mode |-> "read"]
App    == [kind |-> "native_app",    id |-> <<"mail">>,         mode |-> "write"]
Window == [kind |-> "native_window", id |-> <<"mail", "1">>,    mode |-> "write"]

Call(rid, team, task, provider, claims, cap, cooling) ==
    [rid |-> rid, team |-> team, task |-> task, provider |-> provider,
     claims |-> claims, cap |-> cap, cooling |-> cooling]

MCAsk == {Call(r1, t1, k1, pa, {Repo}, 2, FALSE),
          Call(r2, t1, k2, pb, {App}, 2, FALSE),
          Call(r3, t2, k1, pb, {Src}, 2, FALSE),
          Call(r3, t2, k1, pb, {Src}, 1, TRUE)}

MCProviderLimit == [z \in {pa, pb} |-> IF z = pa THEN 2 ELSE 1]
MCClaimSets == {{Src, Window}}

WriteTo(path, c) == [type |-> "write", path |-> path, content |-> c]
MCPlan == {[mode |-> "batch", actions |-> <<WriteTo(p, x), [type |-> "move", path |-> p, to |-> q]>>]}
MCStart == {p :> x @@ q :> nothing}
MCCommandWrite == {<<p, nothing>>}
MCOwnerWrite == {<<p, nothing>>}

Larger == INSTANCE FileTransactions WITH
    Plan <- MCPlan \cup {[mode |-> "loose", actions |-> <<WriteTo(p, x)>>]},
    CommandWrite <- {<<p, y>>}, MaxMade <- 2
ASSUME LargerAssumption == Larger!PlanAssumption /\ Larger!ConstantAssumption

all == <<part, vars, filesVars>>

StoresInit == part \in {"admission", "files", "large"} /\ Init /\ FilesInit
StoresNext ==
    \/ part = "admission" /\ Next /\ UNCHANGED <<part, filesVars>>
    \/ part = "files" /\ FilesNext /\ UNCHANGED <<part, vars>>
    \/ part = "large" /\ Larger!FilesNext /\ UNCHANGED <<part, vars>>
StoresSpec == StoresInit /\ [][StoresNext]_all
Symmetry == Permutations({g1, g2})
=============================================================================
