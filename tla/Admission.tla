----------------------------- MODULE Admission ------------------------------
(***************************************************************************)
(* The global agent admission service (agent_admission.py): one persisted  *)
(* state, read and written by every process of the server under an         *)
(* exclusive file lock, so that each operation is one atomic step.         *)
(*                                                                         *)
(*   queue   the waiting requests, each with its FIFO sequence number      *)
(*   leases  the granted leases; an id is never reused, and ids grow with  *)
(*           "acquired_at", so a lease id stands for its generation        *)
(*   lapsed  the leases whose "expires_at" has passed.  The clock itself   *)
(*           is left out: any lease may lapse at any time (a lease with a  *)
(*           heartbeat too, when the machine sleeps), and an operation     *)
(*           that reads the clock before it gets the lock is the same as   *)
(*           one that got it before the lapse.                             *)
(*                                                                         *)
(* An operation that raises an error or finds a conflict before it writes  *)
(* leaves the file as it was: it is a stuttering step, and its conditions  *)
(* are the guards of the step that does write.                             *)
(***************************************************************************)
EXTENDS ResourceClaims, FiniteSets

CONSTANTS
    None,            \* an absent team, task, agent or request
    Ask,             \* the calls of request_admission callers may make, as records
                     \* [rid, team, task, provider, claims, cap, cooling]: `cap` is the
                     \* caller's provider_limit_override, `cooling` that the call carries
                     \* a provider_blocked_until still in the future
    ClaimSets,       \* the sets of claims plans and agents ask for
    Agent,           \* agent ids
    Provider,        \* agent providers
    ConfiguredLimit, \* MAC_MCP_AGENT_GLOBAL_ACTIVE_LIMIT
    ProviderLimit,   \* the per-provider limits
    QueueLimit,      \* MAC_MCP_AGENT_ADMISSION_QUEUE_LIMIT
    MaxSeq,          \* bound: sequence numbers handed out
    MaxGen           \* bound: leases granted

Rid  == {a.rid : a \in Ask}
Team == {a.team : a \in Ask}
Task == {a.task : a \in Ask}

ASSUME AskAssumption ==
    \A a \in Ask : /\ a = [rid |-> a.rid, team |-> a.team, task |-> a.task,
                           provider |-> a.provider, claims |-> a.claims,
                           cap |-> a.cap, cooling |-> a.cooling]
                   /\ a.rid # None /\ a.provider \in Provider
                   /\ a.cap \in Nat \ {0} /\ a.cooling \in BOOLEAN
ASSUME NoneAssumption  == None \notin Agent
ASSUME LimitAssumption == /\ ConfiguredLimit \in Nat \ {0}
                          /\ ProviderLimit \in [Provider -> Nat \ {0}]
                          /\ QueueLimit \in Nat \ {0}
                          /\ MaxSeq \in Nat /\ MaxGen \in Nat

VARIABLES queue, leases, lapsed, nextSeq, nextGen,
          pressure,        \* memory_pressure(): "normal", "warning" or "critical"
          started          \* agents whose worker process may have been started

vars  == <<queue, leases, lapsed, nextSeq, nextGen, pressure, started>>
store == <<queue, leases, lapsed, nextSeq, nextGen>>
-----------------------------------------------------------------------------
Smaller(m, n) == IF m < n THEN m ELSE n

\* global_limit: the configured cap, halved under a memory pressure warning.
GlobalLimit == IF pressure # "warning" THEN ConfiguredLimit
               ELSE IF ConfiguredLimit = 1 THEN 1 ELSE ConfiguredLimit \div 2

EffectiveProviderLimit(r) == Smaller(ProviderLimit[r.provider], r.cap)

\* _active_counts: plan leases and dynamic agent leases weigh nothing.
Total(L)             == Cardinality({l \in L : l.weight = 1})
ProviderActive(L, p) == Cardinality({l \in L : l.weight = 1 /\ l.provider = p})

\* Mutant: the leases without capacity weight are forgotten, as _active_counts forgets them.
BlockersByWeight(L, claims) == {l \in L : l.weight = 1 /\ ResourcesConflict(claims, l.claims)}
Blockers(L, claims) == {l \in L : ResourcesConflict(claims, l.claims)}

\* Mutant: "greater than" for "greater than or equal".
HasCapacityOffByOne(L, r) == /\ pressure # "critical"
                             /\ Total(L) <= GlobalLimit
                             /\ ProviderActive(L, r.provider) <= EffectiveProviderLimit(r)

\* _capacity_reason is None.
HasCapacity(L, r) == /\ pressure # "critical"
                     /\ Total(L) < GlobalLimit
                     /\ ProviderActive(L, r.provider) < EffectiveProviderLimit(r)

\* _request_runnable_against_active
Runnable(L, r) == /\ ~r.cooling
                  /\ HasCapacity(L, r)
                  /\ Blockers(L, r.claims) = {}

OlderRunnable(L, r) == {q \in queue : q.seq < r.seq /\ Runnable(L, q)}

\* Mutant: older requests keep their resources but no slot is reserved for them.
FairToClaimsOnly(L, r) ==
    \A q \in OlderRunnable(L, r) : ~ResourcesConflict(r.claims, q.claims)

\* _fairness_reason is None: nothing that older runnable requests need is taken.
Fair(L, r) ==
    LET older == OlderRunnable(L, r)
    IN  older # {} =>
          /\ \A q \in older : ~ResourcesConflict(r.claims, q.claims)
          /\ Total(L) + Cardinality(older) < GlobalLimit
          /\ ProviderActive(L, r.provider)
               + Cardinality({q \in older : q.provider = r.provider})
             < EffectiveProviderLimit(r)

\* _queued_reason is None.
MayStart(L, r) == Runnable(L, r) /\ Fair(L, r)
-----------------------------------------------------------------------------

\* _prune_expired_unlocked: what the pruning operations see and, if they write, keep.
Live == {l \in leases : l.id \notin lapsed}

Write(Q, L) == queue' = Q /\ leases' = L /\ lapsed' = {}

AdmissionLease(a) ==
    [id |-> nextGen, rid |-> a.rid, team |-> a.team, task |-> a.task,
     provider |-> a.provider, claims |-> a.claims, agent |-> None, weight |-> 1]

\* The lease of a computer plan (agent None) or of an agent's interactive work.
ZeroWeightLease(agent, claims) ==
    [id |-> nextGen, rid |-> None, team |-> None, task |-> None,
     provider |-> None, claims |-> claims, agent |-> agent, weight |-> 0]

QueueEntry(a, seq) ==
    [rid |-> a.rid, team |-> a.team, task |-> a.task, provider |-> a.provider,
     claims |-> a.claims, cap |-> a.cap, cooling |-> a.cooling, seq |-> seq]

\* "Request identity/resources are immutable while queued."
SameIdentity(q, a) == /\ q.rid = a.rid /\ q.team = a.team /\ q.task = a.task
                      /\ q.provider = a.provider /\ q.claims = a.claims

\* The idempotent lookup: the request already has a lease, whose expiry is refreshed.
Readmit(a) == /\ \E l \in Live : l.rid = a.rid
              /\ Write(queue, Live)
              /\ UNCHANGED <<nextSeq, nextGen>>

\* The entry r of the request is started, or kept with what the call says of it.
Decide(r, others) ==
    \/ /\ MayStart(Live, r)
       /\ nextGen <= MaxGen
       /\ Write(others, Live \cup {AdmissionLease(r)})
       /\ nextGen' = nextGen + 1
    \/ /\ ~MayStart(Live, r)
       /\ Write(others \cup {r}, Live)
       /\ UNCHANGED nextGen

Enqueue(a) == /\ \A q \in queue : q.rid # a.rid
              /\ Cardinality(queue) < QueueLimit
              /\ nextSeq <= MaxSeq
              /\ nextSeq' = nextSeq + 1
              /\ Decide(QueueEntry(a, nextSeq), queue)

Retry(a) == \E q \in queue : /\ SameIdentity(q, a)
                             /\ Decide(QueueEntry(a, q.seq), queue \ {q})
                             /\ UNCHANGED nextSeq

\* Mutant: no idempotent lookup of a lease already granted.
RequestWithoutLookup(a) == (Enqueue(a) \/ Retry(a)) /\ UNCHANGED <<pressure, started>>

RequestAdmission(a) ==
    /\ \/ Readmit(a)
       \/ /\ \A l \in Live : l.rid # a.rid
          /\ Enqueue(a) \/ Retry(a)
    /\ UNCHANGED <<pressure, started>>

RequestResourceLease(claims) ==
    /\ Blockers(Live, claims) = {}
    /\ nextGen <= MaxGen
    /\ Write(queue, Live \cup {ZeroWeightLease(None, claims)})
    /\ nextGen' = nextGen + 1
    /\ UNCHANGED <<nextSeq, pressure, started>>

\* Mutant: the claims already held are checked, not the merged ones.
ExtendUnchecked(id, claims) ==
    \E l \in Live :
       /\ l.id = id
       /\ Blockers(Live \ {l}, l.claims) = {}
       /\ Write(queue, (Live \ {l}) \cup {[l EXCEPT !.claims = @ \cup claims]})
       /\ UNCHANGED <<nextSeq, nextGen, pressure, started>>

ExtendResourceLease(id, claims) ==
    \E l \in Live :
       /\ l.id = id
       /\ Blockers(Live \ {l}, l.claims \cup claims) = {}
       /\ Write(queue, (Live \ {l}) \cup {[l EXCEPT !.claims = @ \cup claims]})
       /\ UNCHANGED <<nextSeq, nextGen, pressure, started>>

OwnedBy(L, agent) == {l \in L : l.agent = agent}

\* The lease of an agent that grows: the heaviest, then the oldest.
Primary(owned, l) == /\ l \in owned
                     /\ \A k \in owned : \/ k.weight < l.weight
                                         \/ k.weight = l.weight /\ l.id <= k.id

\* Only the leases of OTHER agents block an agent's claim.
ClaimAgentResources(agent, claims) ==
    LET owned  == OwnedBy(Live, agent)
        others == Live \ owned
    IN  /\ claims # {}
        /\ \/ \E l \in owned :
                /\ Primary(owned, l)
                /\ Blockers(others, l.claims \cup claims) = {}
                /\ Write(queue, (Live \ {l}) \cup {[l EXCEPT !.claims = @ \cup claims]})
                /\ UNCHANGED nextGen
           \/ /\ owned = {}
              /\ Blockers(others, claims) = {}
              /\ nextGen <= MaxGen
              /\ Write(queue, Live \cup {ZeroWeightLease(agent, claims)})
              /\ nextGen' = nextGen + 1
        /\ started' = started \cup {agent}
        /\ UNCHANGED <<nextSeq, pressure>>


\* _spawn_internal binds the lease it was given to an agent id it just made,
\* before it starts the worker process of that agent.  Nobody asks whose the lease
\* was: a task that is resumed finds the one its cancelled agent still holds.
BindAgent(id, agent) ==
    /\ agent \notin started
    /\ started' = started \cup {agent}
    /\ \E l \in Live :
         /\ l.id = id
         /\ Write(queue, (Live \ {l}) \cup {[l EXCEPT !.agent = agent]})
    /\ UNCHANGED <<nextSeq, nextGen, pressure>>

\* A lease is found and renewed: what remains of it here is the pruning of the others.
Heartbeat(id) == /\ \E l \in Live : l.id = id
                 /\ Write(queue, Live)
                 /\ UNCHANGED <<nextSeq, nextGen, pressure, started>>

\* snapshot writes only when it pruned a lease.
Snapshot == /\ Live # leases
            /\ Write(queue, Live)
            /\ UNCHANGED <<nextSeq, nextGen, pressure, started>>

\* A selector of cancel_queued or release; None selects everything.
AnySelector == [lease |-> None, agent |-> None, team |-> None, task |-> None, rid |-> None]
Selects(value, wanted) == wanted = None \/ value = wanted

SelectsRequest(q, sel) == /\ Selects(q.rid, sel.rid)
                          /\ Selects(q.team, sel.team)
                          /\ Selects(q.task, sel.task)

CancelQueued(sel) ==
    /\ queue' = {q \in queue : ~SelectsRequest(q, sel)}
    /\ UNCHANGED <<leases, lapsed, nextSeq, nextGen, pressure, started>>


\* Nothing is pruned; the queue is searched only without an agent or a lease.
Release(sel) ==
    /\ leases' = {l \in leases : ~(/\ Selects(l.id, sel.lease)
                                   /\ Selects(l.agent, sel.agent)
                                   /\ Selects(l.rid, sel.rid)
                                   /\ Selects(l.team, sel.team)
                                   /\ Selects(l.task, sel.task))}
    /\ lapsed' = {l.id : l \in leases'} \cap lapsed
    /\ queue' = IF sel.agent = None /\ sel.lease = None
                THEN {q \in queue : ~SelectsRequest(q, sel)} ELSE queue
    /\ UNCHANGED <<nextSeq, nextGen, pressure, started>>
-----------------------------------------------------------------------------
\* Time passes "expires_at" of a lease.
Lapse(id) == /\ id \notin lapsed
             /\ \E l \in leases : l.id = id
             /\ lapsed' = lapsed \cup {id}
             /\ UNCHANGED <<queue, leases, nextSeq, nextGen, pressure, started>>

\* Time passes "provider_blocked_until" of a queued request.
CoolDown(q) == /\ q.cooling
               /\ queue' = (queue \ {q}) \cup {[q EXCEPT !.cooling = FALSE]}
               /\ UNCHANGED <<leases, lapsed, nextSeq, nextGen, pressure, started>>

\* The operating system reports another memory pressure, or a hold of 30 s ends.
MemoryPressure(level) == /\ level # pressure
                         /\ pressure' = level
                         /\ UNCHANGED <<store, started>>
-----------------------------------------------------------------------------
Init == /\ queue = {} /\ leases = {} /\ lapsed = {}
        /\ nextSeq = 1 /\ nextGen = 1
        /\ pressure = "normal" /\ started = {}

LeaseId == 1 .. MaxGen

Next == \/ \E a \in Ask : RequestAdmission(a)
        \/ \E c \in ClaimSets : RequestResourceLease(c)
        \/ \E i \in LeaseId, c \in ClaimSets : ExtendResourceLease(i, c)
        \/ \E g \in Agent, c \in ClaimSets : ClaimAgentResources(g, c)
        \/ \E i \in LeaseId, g \in Agent : BindAgent(i, g)
        \/ \E i \in LeaseId : Heartbeat(i)
        \/ Snapshot
        \/ \E t \in Team : CancelQueued([AnySelector EXCEPT !.team = t])
        \/ \E i \in LeaseId : Release([AnySelector EXCEPT !.lease = i])
        \/ \E g \in Agent : Release([AnySelector EXCEPT !.agent = g])
        \/ \E t \in Team : Release([AnySelector EXCEPT !.team = t])
        \/ \E r \in Rid : Release([AnySelector EXCEPT !.rid = r])
        \/ \E i \in LeaseId : Lapse(i)
        \/ \E q \in queue : CoolDown(q)
        \/ \E p \in {"normal", "warning", "critical"} : MemoryPressure(p)

Spec == Init /\ [][Next]_vars
-----------------------------------------------------------------------------
Claim == UNION ({a.claims : a \in Ask} \cup ClaimSets)

LeaseType == [id : LeaseId, rid : Rid \cup {None}, team : Team \cup {None},
              task : Task \cup {None}, provider : Provider \cup {None},
              claims : SUBSET Claim, agent : Agent \cup {None}, weight : {0, 1}]

EntryType == [rid : Rid, team : Team, task : Task, provider : Provider,
              claims : SUBSET Claim, cap : Nat \ {0}, cooling : BOOLEAN, seq : Nat]

\* The types; every lapsed lease is a lease; sequence numbers and lease ids in use
\* are below the next ones, so a new request is younger and a new lease is fresh.
TypeOK == /\ queue \subseteq EntryType /\ leases \subseteq LeaseType
          /\ lapsed \subseteq {l.id : l \in leases}
          /\ nextSeq \in Nat \ {0} /\ nextGen \in 1 .. MaxGen + 1
          /\ \A q \in queue : q.seq < nextSeq
          /\ \A l \in leases : l.id < nextGen
          /\ pressure \in {"normal", "warning", "critical"}
          /\ started \subseteq Agent

\* Two leases never hold conflicting claims unless they are one agent's: whatever
\* mixture of admitted tasks, plans, lease extensions and interactive claims granted
\* them, and although an agent's own leases do not block it (agent_admission.py:866).
SameHolder(l, k) == l.id = k.id \/ (l.agent = k.agent /\ l.agent # None)

ExclusiveOwnership ==
    \A l, k \in leases : ResourcesConflict(l.claims, k.claims) => SameHolder(l, k)

\* An agent never owns two leases, so the exemption above is never used: a lease it
\* was admitted with and a dynamic one it made for itself do not coexist.
OneLeasePerAgent ==
    \A l, k \in leases : l.agent = k.agent /\ l.agent # None => l = k

\* A request is in one place: it has one queue entry or one lease, never both and
\* never two, however often it is retried; and no two entries share a FIFO position.
OnePlacePerRequest ==
    /\ \A l, k \in leases : l.rid = k.rid /\ l.rid # None => l = k
    /\ \A q \in queue, l \in leases : q.rid # l.rid
    /\ \A q, p \in queue : q.rid = p.rid \/ q.seq = p.seq => q = p

\* The active agents stay within the configured global limit and their provider's
\* limit, although leases are renewed, bound and pruned independently of admissions
\* and the limit itself moves with memory pressure.
WithinCapacity ==
    /\ Total(leases) <= ConfiguredLimit
    /\ \A p \in Provider : ProviderActive(leases, p) <= ProviderLimit[p]
    /\ Cardinality(queue) <= QueueLimit

\* The lease of request q was granted by this step.
AdmittedNow(rid) == /\ \A l \in leases : l.rid # rid
                    /\ \E l \in leases' : l.rid = rid

AgeOf(rid) == IF \E q \in queue : q.rid = rid
              THEN (CHOOSE q \in queue : q.rid = rid).seq ELSE nextSeq

\* "Older runnable work keeps priority for scarce provider/global slots and conflicting
\* resources" (docs/agents-and-tasks.md:29): a step that admits a request leaves every
\* older request that could have started able to start.  Requests that set a tighter
\* provider limit than the call that admits the younger one are excepted: the code
\* counts them only against the limit of that call.
OlderRunnableKeepsSlot ==
    [][\A q \in queue, a \in Ask :
          /\ RequestAdmission(a) /\ AdmittedNow(a.rid)
          /\ q.rid # a.rid /\ q.seq < AgeOf(a.rid)
          /\ a.cap <= q.cap \/ a.provider # q.provider
          /\ Runnable(Live, q)
          => Runnable(leases', q)]_vars

\* A lease that has lapsed is gone for good: no renewal, extension, binding or
\* idempotent retry brings it back; only the pruning or a release removes it.
LapsedNeverReturns ==
    [][\A i \in lapsed : i \in lapsed' \/ \A l \in leases' : l.id # i]_vars

\* The service implements the abstract ownership of resources.
Held == {[id |-> l.id, agent |-> l.agent, claims |-> l.claims] : l \in leases}
Ownership == INSTANCE LeaseOwnership WITH held <- Held, Conflict <- ResourcesConflict
OwnershipSpec == Ownership!Spec
=============================================================================
