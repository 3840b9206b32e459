---------------------------- MODULE StoresProofs ----------------------------
(***************************************************************************)
(* Proofs about the two stores every agent and every tool goes through.    *)
(*   Admission         for every set of calls, agents and claims and every *)
(*                     limit                                               *)
(*   FileTransactions  for every set of paths, contents, plans and         *)
(*                     captures, and any number of transactions            *)
(***************************************************************************)
EXTENDS Admission, FileTransactions, FiniteSetTheorems, TLAPS

-----------------------------------------------------------------------------
(* Admission *)

\* A conflict between two sets of claims is a conflict either way round: the
\* checks of agent_admission.py compare in one direction only.
LEMMA ConflictSymmetric ==
  ASSUME NEW C, NEW D, ResourcesConflict(C, D)
  PROVE  ResourcesConflict(D, C)
<1>1. PICK c \in C, d \in D : ClaimsConflict(c, d)
  BY DEF ResourcesConflict
<1>2. ClaimsConflict(d, c)
  BY <1>1 DEF ClaimsConflict, PathOverlap
<1> QED
  BY <1>1, <1>2 DEF ResourcesConflict

\* Lease ids are unique, and an agent that owns a lease has been started: what
\* BindAgent and ClaimAgentResources rely on to keep one lease per agent.
UniqueIds     == \A l, k \in leases : l.id = k.id => l = k
OwnersStarted == \A l \in leases : l.agent # None => l.agent \in started

IInv == /\ TypeOK
        /\ UniqueIds
        /\ OwnersStarted
        /\ OneLeasePerAgent
        /\ ExclusiveOwnership

LEMMA InitIInv == Init => IInv
BY LimitAssumption DEF Init, IInv, TypeOK, UniqueIds, OwnersStarted, OneLeasePerAgent,
                       ExclusiveOwnership

-----------------------------------------------------------------------------
\* What a call of request_admission puts in the queue and, if it starts, in the leases.
LEMMA NewRecords ==
  ASSUME TypeOK, NEW a \in Ask, NEW seq \in Nat
  PROVE  /\ QueueEntry(a, seq) \in EntryType
         /\ nextGen <= MaxGen => AdmissionLease(QueueEntry(a, seq)) \in LeaseType
<1>1. a.claims \in SUBSET Claim
  BY DEF Claim
<1>2. /\ a.rid \in Rid /\ a.team \in Team /\ a.task \in Task /\ a.provider \in Provider
      /\ a.cap \in Nat \ {0} /\ a.cooling \in BOOLEAN
  BY AskAssumption DEF Rid, Team, Task
<1>3. QueueEntry(a, seq) \in EntryType
  BY <1>1, <1>2 DEF QueueEntry, EntryType
<1>4. nextGen <= MaxGen => nextGen \in LeaseId
  BY LimitAssumption DEF TypeOK, LeaseId
<1> QED
  BY <1>1, <1>2, <1>3, <1>4 DEF AdmissionLease, QueueEntry, LeaseType

\* A pruned lease set is a set of leases with no lapsed one.
LEMMA LiveSubset == Live \subseteq leases /\ \A l \in Live : l.id \notin lapsed
BY DEF Live

\* A step that adds one well-typed lease under the next id keeps the types.
LEMMA GrantType ==
  ASSUME TypeOK, NEW h \in LeaseType, h.id = nextGen,
         leases' = Live \cup {h}, lapsed' = {}, nextGen' = nextGen + 1,
         queue' \subseteq EntryType, \A q \in queue' : q.seq < nextSeq',
         nextSeq' \in Nat \ {0}, pressure' = pressure, started' \subseteq Agent
  PROVE  TypeOK'
<1>1. nextGen \in 1 .. MaxGen /\ nextGen' \in 1 .. MaxGen + 1 /\ nextGen < nextGen'
  BY LimitAssumption DEF TypeOK, LeaseType, LeaseId
<1>2. leases' \subseteq LeaseType
  BY LiveSubset DEF TypeOK
<1>3. \A l \in leases' : l.id < nextGen'
  <2>1. \A l \in Live : l.id < nextGen /\ l.id \in Nat
    BY LiveSubset DEF TypeOK, LeaseType, LeaseId
  <2> QED
    BY <1>1, <2>1
<1> QED
  BY <1>1, <1>2, <1>3 DEF TypeOK

\* Deciding a request keeps the types.
LEMMA DecideType ==
  ASSUME TypeOK, NEW r \in EntryType, NEW others \in SUBSET queue,
         Decide(r, others), r.seq < nextSeq', nextSeq' \in Nat, nextSeq <= nextSeq',
         nextGen <= MaxGen => AdmissionLease(r) \in LeaseType,
         UNCHANGED <<pressure, started>>
  PROVE  TypeOK'
<1>1. \A q \in others \cup {r} : q.seq < nextSeq'
  <2>1. \A q \in others : q.seq < nextSeq /\ q.seq \in Nat
    BY DEF TypeOK, EntryType
  <2> QED
    BY <2>1 DEF TypeOK
<1>2. nextSeq' \in Nat \ {0} /\ others \cup {r} \subseteq EntryType
  BY DEF TypeOK
<1>3. CASE nextGen <= MaxGen /\ Write(others, Live \cup {AdmissionLease(r)}) /\ nextGen' = nextGen + 1
  <2>1. AdmissionLease(r).id = nextGen
    BY DEF AdmissionLease
  <2>2. started' \subseteq Agent
    BY DEF TypeOK
  <2> QED
    BY <1>1, <1>2, <1>3, <2>1, <2>2, GrantType DEF Write
<1>4. CASE Write(others \cup {r}, Live) /\ UNCHANGED nextGen
  BY <1>1, <1>2, <1>4, LiveSubset DEF TypeOK, Write
<1> QED
  BY <1>3, <1>4 DEF Decide

\* Every action keeps the types.
LEMMA TypeStep == TypeOK /\ [Next]_vars => TypeOK'
<1> SUFFICES ASSUME TypeOK, [Next]_vars PROVE TypeOK'
  OBVIOUS
<1> USE LimitAssumption
<1>1. ASSUME NEW a \in Ask, RequestAdmission(a) PROVE TypeOK'
  <2>1. CASE Readmit(a)
    BY <1>1, <2>1, LiveSubset DEF RequestAdmission, Readmit, Write, TypeOK
  <2>2. CASE Enqueue(a)
    <3>1. /\ nextSeq \in Nat /\ nextSeq' = nextSeq + 1 /\ UNCHANGED <<pressure, started>>
          /\ Decide(QueueEntry(a, nextSeq), queue)
          /\ QueueEntry(a, nextSeq).seq = nextSeq
      BY <1>1, <2>2 DEF RequestAdmission, Enqueue, TypeOK, QueueEntry
    <3> QED
      BY <3>1, NewRecords, DecideType
  <2>3. CASE Retry(a)
    <3>1. PICK q \in queue : /\ Decide(QueueEntry(a, q.seq), queue \ {q}) /\ UNCHANGED nextSeq
      BY <2>3 DEF Retry
    <3>2. /\ q.seq \in Nat /\ q.seq < nextSeq /\ nextSeq \in Nat /\ UNCHANGED <<pressure, started>>
          /\ QueueEntry(a, q.seq).seq = q.seq
      BY <1>1 DEF RequestAdmission, TypeOK, EntryType, QueueEntry
    <3> QED
      BY <3>1, <3>2, NewRecords, DecideType
  <2> QED
    BY <1>1, <2>1, <2>2, <2>3 DEF RequestAdmission
<1>2. ASSUME NEW c \in ClaimSets, RequestResourceLease(c) PROVE TypeOK'
  <2>1. c \in SUBSET Claim
    BY DEF Claim
  <2>2. nextGen \in LeaseId
    BY <1>2 DEF RequestResourceLease, TypeOK, LeaseId
  <2>3. ZeroWeightLease(None, c) \in LeaseType
    BY <2>1, <2>2 DEF ZeroWeightLease, LeaseType
  <2>4. ZeroWeightLease(None, c).id = nextGen
    BY DEF ZeroWeightLease
  <2> QED
    BY <1>2, <2>3, <2>4, GrantType DEF RequestResourceLease, TypeOK, Write
<1>3. ASSUME NEW i \in LeaseId, NEW c \in ClaimSets, ExtendResourceLease(i, c) PROVE TypeOK'
  <2>1. PICK l \in Live : /\ Write(queue, (Live \ {l}) \cup {[l EXCEPT !.claims = @ \cup c]})
                          /\ UNCHANGED <<nextSeq, nextGen, pressure, started>>
    BY <1>3 DEF ExtendResourceLease
  <2>2. c \in SUBSET Claim
    BY DEF Claim
  <2>3. /\ [l EXCEPT !.claims = @ \cup c] \in LeaseType
        /\ [l EXCEPT !.claims = @ \cup c].id = l.id
    BY <2>2, LiveSubset DEF TypeOK, LeaseType
  <2> QED
    BY <2>1, <2>3, LiveSubset DEF TypeOK, Write
<1>4. ASSUME NEW g \in Agent, NEW c \in ClaimSets, ClaimAgentResources(g, c) PROVE TypeOK'
  <2>1. c \in SUBSET Claim
    BY DEF Claim
  <2>2. ASSUME NEW l \in OwnedBy(Live, g),
               Write(queue, (Live \ {l}) \cup {[l EXCEPT !.claims = @ \cup c]}), UNCHANGED nextGen
        PROVE  TypeOK'
    <3>1. l \in Live
      BY DEF OwnedBy
    <3>2. /\ [l EXCEPT !.claims = @ \cup c] \in LeaseType
          /\ [l EXCEPT !.claims = @ \cup c].id = l.id
      BY <2>1, <3>1, LiveSubset DEF TypeOK, LeaseType
    <3> QED
      BY <1>4, <2>2, <3>1, <3>2, LiveSubset DEF TypeOK, Write, ClaimAgentResources
  <2>3. ASSUME nextGen <= MaxGen, Write(queue, Live \cup {ZeroWeightLease(g, c)}), nextGen' = nextGen + 1
        PROVE  TypeOK'
    <3>1. nextGen \in LeaseId
      BY <2>3 DEF TypeOK, LeaseId
    <3>2. ZeroWeightLease(g, c) \in LeaseType
      BY <2>1, <3>1 DEF ZeroWeightLease, LeaseType
    <3>3. ZeroWeightLease(g, c).id = nextGen
      BY DEF ZeroWeightLease
    <3> QED
      BY <1>4, <2>3, <3>2, <3>3, GrantType DEF TypeOK, Write, ClaimAgentResources
  <2> QED
    BY <1>4, <2>2, <2>3 DEF ClaimAgentResources, Primary
<1>5. ASSUME NEW i \in LeaseId, NEW g \in Agent, BindAgent(i, g) PROVE TypeOK'
  <2>1. PICK l \in Live : Write(queue, (Live \ {l}) \cup {[l EXCEPT !.agent = g]})
    BY <1>5 DEF BindAgent
  <2>2. [l EXCEPT !.agent = g] \in LeaseType /\ [l EXCEPT !.agent = g].id = l.id
    BY LiveSubset DEF TypeOK, LeaseType
  <2> QED
    BY <1>5, <2>1, <2>2, LiveSubset DEF BindAgent, TypeOK, Write
<1>6. ASSUME NEW i \in LeaseId, Heartbeat(i) PROVE TypeOK'
  BY <1>6, LiveSubset DEF Heartbeat, Write, TypeOK
<1>7. CASE Snapshot
  BY <1>7, LiveSubset DEF Snapshot, Write, TypeOK
<1>8. ASSUME NEW sel, CancelQueued(sel) PROVE TypeOK'
  BY <1>8 DEF CancelQueued, TypeOK
<1>9. ASSUME NEW sel, Release(sel) PROVE TypeOK'
  BY <1>9 DEF Release, TypeOK
<1>10. ASSUME NEW i \in LeaseId, Lapse(i) PROVE TypeOK'
  BY <1>10 DEF Lapse, TypeOK
<1>11. ASSUME NEW q \in queue, CoolDown(q) PROVE TypeOK'
  BY <1>11 DEF CoolDown, TypeOK, EntryType
<1>12. ASSUME NEW p \in {"normal", "warning", "critical"}, MemoryPressure(p) PROVE TypeOK'
  BY <1>12 DEF MemoryPressure, store, TypeOK
<1>13. CASE UNCHANGED vars
  BY <1>13 DEF vars, TypeOK
<1> QED
  BY <1>1, <1>2, <1>3, <1>4, <1>5, <1>6, <1>7, <1>8, <1>9, <1>10, <1>11, <1>12, <1>13 DEF Next

\* Every state of every behaviour is well typed, and new ids and sequence numbers are fresh.
THEOREM TypeCorrect == Spec => []TypeOK
<1>1. Init => TypeOK
  BY InitIInv DEF IInv
<1> QED
  BY <1>1, TypeStep, PTL DEF Spec
-----------------------------------------------------------------------------
\* Losing leases keeps the ownership invariant.
LEMMA DropOwnership ==
  ASSUME IInv, TypeOK', leases' \subseteq leases, started \subseteq started'
  PROVE  IInv'
BY DEF IInv, UniqueIds, OwnersStarted, OneLeasePerAgent, ExclusiveOwnership, SameHolder

\* Putting a lease that conflicts with none of the leases kept, whose id and agent are
\* not theirs, keeps it.
LEMMA PutOwnership ==
  ASSUME IInv, TypeOK', NEW L \in SUBSET leases, NEW h,
         leases' = L \cup {h}, started \subseteq started',
         \A l \in L : l.id # h.id,
         h.agent # None => h.agent \in started' /\ \A l \in L : l.agent # h.agent,
         \A l \in L : ~ResourcesConflict(h.claims, l.claims)
  PROVE  IInv'
<1>1. \A l \in L : ~ResourcesConflict(l.claims, h.claims)
  BY ConflictSymmetric
<1>2. UniqueIds' /\ OwnersStarted'
  BY DEF IInv, UniqueIds, OwnersStarted
<1>3. OneLeasePerAgent'
  BY DEF IInv, OneLeasePerAgent
<1>4. ExclusiveOwnership'
  BY <1>1 DEF IInv, ExclusiveOwnership, SameHolder
<1> QED
  BY <1>2, <1>3, <1>4 DEF IInv

\* A lease under the next id is new.
LEMMA FreshId == TypeOK => \A l \in Live : l.id # nextGen
BY LiveSubset, LimitAssumption DEF TypeOK, LeaseType, LeaseId

-----------------------------------------------------------------------------
\* What a step does to the leases: it loses some, or it puts one, under an id it had
\* (growing its claims, or binding it to an agent) or under the next id.
Lost(L)     == leases' = L /\ L \subseteq leases
Put(L, h)   == /\ L \subseteq leases /\ leases' = L \cup {h}
               /\ \A l \in L : l.id # h.id
               /\ h.agent # None => h.agent \in started' /\ \A l \in L : l.agent # h.agent
Grown(L, h) == /\ Put(L, h)
               /\ \A k \in leases : k.id = h.id => k.agent = h.agent /\ k.claims \subseteq h.claims
               /\ \A l \in L : ~ResourcesConflict(h.claims, l.claims)
Bound(L, h) == /\ Put(L, h)
               /\ h.agent # None
               /\ \E k \in leases : k.id = h.id /\ k.claims = h.claims

Shape == /\ started \subseteq started'
         /\ \E L : Lost(L) \/ \E h : Grown(L, h) \/ Bound(L, h)

\* Every action has one of these shapes.
LEMMA StepShape == IInv /\ [Next]_vars => Shape
<1> SUFFICES ASSUME IInv, [Next]_vars PROVE Shape
  OBVIOUS
<1> USE LiveSubset
<1>t. TypeOK
  BY DEF IInv
<1>f. /\ \A l \in Live : l.id # nextGen
      /\ \A l \in leases : l.id # nextGen
  BY <1>t, FreshId, LimitAssumption DEF TypeOK, LeaseType, LeaseId
<1>n. ASSUME NEW h, h.id = nextGen, leases' = Live \cup {h}, started \subseteq started',
             h.agent # None => h.agent \in started' /\ \A l \in Live : l.agent # h.agent,
             \A l \in Live : ~ResourcesConflict(h.claims, l.claims)
      PROVE  Shape
  <2>1. Grown(Live, h)
    BY <1>f, <1>n DEF Grown, Put
  <2> QED
    BY <1>n, <2>1 DEF Shape
<1>l. ASSUME leases' \subseteq leases, started' = started PROVE Shape
  BY <1>l DEF Shape, Lost
<1>1. ASSUME NEW a \in Ask, RequestAdmission(a) PROVE Shape
  <2>1. started' = started
    BY <1>1 DEF RequestAdmission
  <2>2. ASSUME NEW r, MayStart(Live, r), leases' = Live \cup {AdmissionLease(r)} PROVE Shape
    <3> DEFINE h == AdmissionLease(r)
    <3>1. h.id = nextGen /\ h.agent = None /\ h.claims = r.claims
      BY DEF AdmissionLease
    <3>2. \A l \in Live : ~ResourcesConflict(h.claims, l.claims)
      BY <2>2, <3>1 DEF MayStart, Runnable, Blockers
    <3>3. leases' = Live \cup {h}
      BY <2>2
    <3> HIDE DEF h
    <3> QED
      BY <1>n, <2>1, <3>1, <3>2, <3>3
  <2>3. leases' = Live \/ \E r : MayStart(Live, r) /\ leases' = Live \cup {AdmissionLease(r)}
    BY <1>1 DEF RequestAdmission, Readmit, Enqueue, Retry, Decide, Write
  <2> QED
    BY <1>l, <2>1, <2>2, <2>3
<1>2. ASSUME NEW c \in ClaimSets, RequestResourceLease(c) PROVE Shape
  <2> DEFINE h == ZeroWeightLease(None, c)
  <2>1. h.id = nextGen /\ h.agent = None /\ h.claims = c
    BY DEF ZeroWeightLease
  <2>2. /\ leases' = Live \cup {h} /\ started' = started
        /\ \A l \in Live : ~ResourcesConflict(h.claims, l.claims)
    BY <1>2, <2>1 DEF RequestResourceLease, Write, Blockers
  <2> HIDE DEF h
  <2> QED
    BY <1>n, <2>1, <2>2
<1>3. ASSUME NEW i \in LeaseId, NEW c \in ClaimSets, ExtendResourceLease(i, c) PROVE Shape
  <2>1. PICK l \in Live : /\ Blockers(Live \ {l}, l.claims \cup c) = {}
                          /\ leases' = (Live \ {l}) \cup {[l EXCEPT !.claims = @ \cup c]}
                          /\ started' = started
    BY <1>3 DEF ExtendResourceLease, Write
  <2> DEFINE h == [l EXCEPT !.claims = @ \cup c]
  <2>2. h.id = l.id /\ h.agent = l.agent /\ h.claims = l.claims \cup c
    BY <1>t DEF TypeOK, LeaseType
  <2>3. \A k \in Live \ {l} : ~ResourcesConflict(h.claims, k.claims)
    BY <2>1, <2>2 DEF Blockers
  <2>4. \A k \in leases : k.id = h.id => k = l
    BY <2>2 DEF IInv, UniqueIds
  <2>5. h.agent # None => h.agent \in started' /\ \A k \in Live \ {l} : k.agent # h.agent
    BY <2>1, <2>2 DEF IInv, OwnersStarted, OneLeasePerAgent
  <2>6. leases' = (Live \ {l}) \cup {h}
    BY <2>1
  <2> HIDE DEF h
  <2>7. Grown(Live \ {l}, h)
    BY <2>2, <2>3, <2>4, <2>5, <2>6 DEF Grown, Put
  <2> QED
    BY <2>1, <2>7 DEF Shape
<1>4. ASSUME NEW g \in Agent, NEW c \in ClaimSets, ClaimAgentResources(g, c) PROVE Shape
  <2>1. started' = started \cup {g} /\ g # None
    BY <1>4, NoneAssumption DEF ClaimAgentResources
  <2>2. ASSUME NEW l \in OwnedBy(Live, g),
               Blockers(Live \ OwnedBy(Live, g), l.claims \cup c) = {},
               leases' = (Live \ {l}) \cup {[l EXCEPT !.claims = @ \cup c]}
        PROVE  Shape
    <3> DEFINE h == [l EXCEPT !.claims = @ \cup c]
    <3>1. l \in Live /\ l.agent = g
      BY DEF OwnedBy
    <3>2. h.id = l.id /\ h.agent = g /\ h.claims = l.claims \cup c
      BY <1>t, <3>1 DEF TypeOK, LeaseType
    <3>3. /\ \A k \in leases : k.id = h.id => k = l
          /\ \A k \in Live \ {l} : k.agent # g
      BY <2>1, <3>1, <3>2 DEF IInv, UniqueIds, OneLeasePerAgent
    <3>4. \A k \in Live \ {l} : ~ResourcesConflict(h.claims, k.claims)
      BY <2>2, <3>2, <3>3 DEF Blockers, OwnedBy
    <3>5. leases' = (Live \ {l}) \cup {h}
      BY <2>2
    <3> HIDE DEF h
    <3>6. Grown(Live \ {l}, h)
      BY <2>1, <3>1, <3>2, <3>3, <3>4, <3>5 DEF Grown, Put
    <3> QED
      BY <2>1, <3>6 DEF Shape
  <2>3. ASSUME OwnedBy(Live, g) = {}, Blockers(Live \ OwnedBy(Live, g), c) = {},
               leases' = Live \cup {ZeroWeightLease(g, c)}
        PROVE  Shape
    <3> DEFINE h == ZeroWeightLease(g, c)
    <3>1. h.id = nextGen /\ h.agent = g /\ h.claims = c
      BY DEF ZeroWeightLease
    <3>2. \A l \in Live : l.agent # g /\ ~ResourcesConflict(h.claims, l.claims)
      BY <2>3, <3>1 DEF OwnedBy, Blockers
    <3>3. leases' = Live \cup {h}
      BY <2>3
    <3> HIDE DEF h
    <3> QED
      BY <1>n, <2>1, <3>1, <3>2, <3>3
  <2> QED
    BY <1>4, <2>2, <2>3 DEF ClaimAgentResources, Write
<1>5. ASSUME NEW i \in LeaseId, NEW g \in Agent, BindAgent(i, g) PROVE Shape
  <2>1. PICK l \in Live : leases' = (Live \ {l}) \cup {[l EXCEPT !.agent = g]}
    BY <1>5 DEF BindAgent, Write
  <2>2. started' = started \cup {g} /\ g \notin started /\ g # None
    BY <1>5, NoneAssumption DEF BindAgent
  <2> DEFINE h == [l EXCEPT !.agent = g]
  <2>3. h.id = l.id /\ h.agent = g /\ h.claims = l.claims
    BY <1>t DEF TypeOK, LeaseType
  <2>4. \A k \in Live \ {l} : k.id # h.id /\ k.agent # g
    BY <2>2, <2>3 DEF IInv, UniqueIds, OwnersStarted
  <2>5. leases' = (Live \ {l}) \cup {h}
    BY <2>1
  <2> HIDE DEF h
  <2>6. Bound(Live \ {l}, h)
    BY <2>1, <2>2, <2>3, <2>4, <2>5 DEF Bound, Put
  <2> QED
    BY <2>2, <2>6 DEF Shape
<1>6. ASSUME NEW i \in LeaseId, Heartbeat(i) PROVE Shape
  BY <1>6, <1>l DEF Heartbeat, Write
<1>7. CASE Snapshot
  BY <1>7, <1>l DEF Snapshot, Write
<1>8. ASSUME NEW sel, CancelQueued(sel) PROVE Shape
  BY <1>8, <1>l DEF CancelQueued
<1>9. ASSUME NEW sel, Release(sel) PROVE Shape
  BY <1>9, <1>l DEF Release
<1>10. ASSUME NEW i \in LeaseId, Lapse(i) PROVE Shape
  BY <1>10, <1>l DEF Lapse
<1>11. ASSUME NEW q \in queue, CoolDown(q) PROVE Shape
  BY <1>11, <1>l DEF CoolDown
<1>12. ASSUME NEW p \in {"normal", "warning", "critical"}, MemoryPressure(p) PROVE Shape
  BY <1>12, <1>l DEF MemoryPressure, store
<1>13. CASE UNCHANGED vars
  BY <1>13, <1>l DEF vars
<1> QED
  BY <1>1, <1>2, <1>3, <1>4, <1>5, <1>6, <1>7, <1>8, <1>9, <1>10, <1>11, <1>12, <1>13 DEF Next

\* A step of any shape keeps the ownership invariant.
LEMMA OwnershipStep == IInv /\ [Next]_vars => IInv'
<1> SUFFICES ASSUME IInv, [Next]_vars PROVE IInv'
  OBVIOUS
<1>1. TypeOK' /\ Shape
  BY TypeStep, StepShape DEF IInv
<1>2. ASSUME NEW L, Lost(L) PROVE IInv'
  BY <1>1, <1>2, DropOwnership DEF Lost, Shape
<1>3. ASSUME NEW L, NEW h, Grown(L, h) PROVE IInv'
  BY <1>1, <1>3, PutOwnership DEF Grown, Put, Shape
<1>4. ASSUME NEW L, NEW h, Bound(L, h) PROVE IInv'
  <2>1. \A l \in L : ~ResourcesConflict(h.claims, l.claims)
    BY <1>4 DEF Bound, Put, IInv, ExclusiveOwnership, OneLeasePerAgent, SameHolder
  <2> QED
    BY <1>1, <1>4, <2>1, PutOwnership DEF Bound, Put, Shape
<1> QED
  BY <1>1, <1>2, <1>3, <1>4 DEF Shape

LEMMA Ownership_IInv == Spec => []IInv
BY InitIInv, OwnershipStep, PTL DEF Spec

\* No two holders ever have conflicting claims: the admission service's central promise
\* (docs/security-assurance.md, SEC-SCHED-001).
THEOREM ExclusiveOwnershipHolds == Spec => []ExclusiveOwnership
<1>1. IInv => ExclusiveOwnership
  BY DEF IInv
<1> QED
  BY <1>1, Ownership_IInv, PTL

\* An agent never owns two leases, so its exemption from its own blockers is harmless.
THEOREM OneLeasePerAgentHolds == Spec => []OneLeasePerAgent
<1>1. IInv => OneLeasePerAgent
  BY DEF IInv
<1> QED
  BY <1>1, Ownership_IInv, PTL
-----------------------------------------------------------------------------
Mapped(l) == [id |-> l.id, agent |-> l.agent, claims |-> l.claims]

\* The abstract steps that the shapes of a step map to.
LEMMA LostIsDrop == ASSUME NEW L, Lost(L) PROVE Ownership!Next
BY DEF Lost, Ownership!Next, Ownership!Drop, Held

LEMMA GrownIsGrant ==
  ASSUME NEW L, NEW h, Grown(L, h)
  PROVE  Ownership!Next
<1> DEFINE m == Mapped(h)
           kept == {Mapped(l) : l \in L}
<1>1. m.id = h.id /\ m.agent = h.agent /\ m.claims = h.claims
  BY DEF Mapped
<1>2. \A k \in kept : k.id # m.id
  BY DEF Mapped, Grown, Put
<1>3. Held' = kept \cup {m} /\ kept \subseteq Held
  BY DEF Held, Mapped, Grown, Put
<1>4. \A k \in Held : k.id = m.id => k.agent = m.agent /\ k.claims \subseteq m.claims
  BY <1>1 DEF Held, Grown
<1>5. \A k \in kept : ~ResourcesConflict(m.claims, k.claims)
  BY <1>1 DEF Mapped, Grown
<1>6. m \in Held' /\ Held' \ {m} = kept
  BY <1>2, <1>3
<1> HIDE DEF m, kept
<1>7. Ownership!Grant(m, kept)
  BY <1>2, <1>3, <1>4, <1>5 DEF Ownership!Grant
<1> QED
  BY <1>6, <1>7 DEF Ownership!Next

LEMMA BoundIsHandOver ==
  ASSUME NEW L, NEW h, Bound(L, h)
  PROVE  Ownership!Next
<1> DEFINE m == Mapped(h)
           kept == {Mapped(l) : l \in L}
<1>1. m.id = h.id /\ m.agent = h.agent /\ m.claims = h.claims
  BY DEF Mapped
<1>2. \A k \in kept : k.id # m.id /\ k.agent # m.agent
  BY DEF Mapped, Bound, Put
<1>3. Held' = kept \cup {m} /\ kept \subseteq Held
  BY DEF Held, Mapped, Bound, Put
<1>4. \E old \in Held : old.id = m.id /\ old.claims = m.claims
  <2>1. PICK k \in leases : k.id = h.id /\ k.claims = h.claims
    BY DEF Bound
  <2>2. Mapped(k) \in Held /\ Mapped(k).id = k.id /\ Mapped(k).claims = k.claims
    BY DEF Held, Mapped
  <2> HIDE DEF m
  <2> QED
    BY <1>1, <2>1, <2>2
<1>6. m \in Held' /\ Held' \ {m} = kept
  BY <1>2, <1>3
<1> HIDE DEF m, kept
<1>7. Ownership!HandOver(m, kept)
  BY <1>2, <1>3, <1>4 DEF Ownership!HandOver
<1> QED
  BY <1>6, <1>7 DEF Ownership!Next

\* Admission implements the abstract ownership of resources: leases are granted, grown,
\* handed over and lost exactly as LeaseOwnership allows.
THEOREM ImplementsOwnership == Spec => OwnershipSpec
<1>1. Init => Ownership!Init
  BY DEF Init, Ownership!Init, Held
<1>2. IInv /\ [Next]_vars => [Ownership!Next]_Held
  <2> SUFFICES ASSUME IInv, [Next]_vars PROVE Ownership!Next
    OBVIOUS
  <2> QED
    BY StepShape, LostIsDrop, GrownIsGrant, BoundIsHandOver DEF Shape
<1> QED
  BY <1>1, <1>2, Ownership_IInv, PTL DEF Spec, OwnershipSpec, Ownership!Spec
-----------------------------------------------------------------------------
\* A lapsed lease that is still listed stays lapsed.
StaysLapsed == \A i \in lapsed : i \in lapsed' \/ \A l \in leases' : l.id # i

\* What an operation that prunes writes: live leases, and perhaps one under the next id.
LEMMA PrunedStaysLapsed ==
  ASSUME TypeOK, \A l \in leases' : l.id = nextGen \/ \E k \in Live : k.id = l.id
  PROVE  StaysLapsed
<1>1. \A i \in lapsed : i # nextGen
  BY LimitAssumption DEF TypeOK, LeaseType, LeaseId
<1> QED
  BY <1>1, LiveSubset DEF StaysLapsed

\* No action brings a lapsed lease back.
LEMMA LapsedStep == TypeOK /\ [Next]_vars => StaysLapsed
<1> SUFFICES ASSUME TypeOK, [Next]_vars PROVE StaysLapsed
  OBVIOUS
<1>1. ASSUME NEW a \in Ask, RequestAdmission(a) PROVE StaysLapsed
  <2>1. ASSUME NEW r, leases' = Live \cup {AdmissionLease(r)} PROVE StaysLapsed
    BY <2>1, PrunedStaysLapsed DEF AdmissionLease
  <2>2. leases' = Live \/ \E r : leases' = Live \cup {AdmissionLease(r)}
    BY <1>1 DEF RequestAdmission, Readmit, Enqueue, Retry, Decide, Write
  <2> QED
    BY <2>1, <2>2, PrunedStaysLapsed
<1>2. ASSUME NEW c \in ClaimSets, RequestResourceLease(c) PROVE StaysLapsed
  BY <1>2, PrunedStaysLapsed DEF RequestResourceLease, Write, ZeroWeightLease
<1>g. ASSUME NEW l \in Live, NEW c, leases' = (Live \ {l}) \cup {[l EXCEPT !.claims = @ \cup c]}
      PROVE  StaysLapsed
  <2>1. [l EXCEPT !.claims = @ \cup c].id = l.id
    BY LiveSubset DEF TypeOK, LeaseType
  <2> QED
    BY <1>g, <2>1, PrunedStaysLapsed
<1>3. ASSUME NEW i \in LeaseId, NEW c \in ClaimSets, ExtendResourceLease(i, c) PROVE StaysLapsed
  BY <1>3, <1>g DEF ExtendResourceLease, Write
<1>4. ASSUME NEW g \in Agent, NEW c \in ClaimSets, ClaimAgentResources(g, c) PROVE StaysLapsed
  <2>1. ASSUME leases' = Live \cup {ZeroWeightLease(g, c)} PROVE StaysLapsed
    BY <2>1, PrunedStaysLapsed DEF ZeroWeightLease
  <2>2. ASSUME NEW l \in OwnedBy(Live, g), leases' = (Live \ {l}) \cup {[l EXCEPT !.claims = @ \cup c]}
        PROVE  StaysLapsed
    BY <1>g, <2>2 DEF OwnedBy
  <2> QED
    BY <1>4, <2>1, <2>2 DEF ClaimAgentResources, Write
<1>5. ASSUME NEW i \in LeaseId, NEW g \in Agent, BindAgent(i, g) PROVE StaysLapsed
  <2>1. PICK l \in Live : leases' = (Live \ {l}) \cup {[l EXCEPT !.agent = g]}
    BY <1>5 DEF BindAgent, Write
  <2>2. [l EXCEPT !.agent = g].id = l.id
    BY LiveSubset DEF TypeOK, LeaseType
  <2> QED
    BY <2>1, <2>2, PrunedStaysLapsed
<1>6. ASSUME NEW i \in LeaseId, Heartbeat(i) PROVE StaysLapsed
  BY <1>6, PrunedStaysLapsed DEF Heartbeat, Write
<1>7. CASE Snapshot
  BY <1>7, PrunedStaysLapsed DEF Snapshot, Write
<1>8. ASSUME NEW sel, CancelQueued(sel) PROVE StaysLapsed
  BY <1>8 DEF CancelQueued, StaysLapsed
<1>9. ASSUME NEW sel, Release(sel) PROVE StaysLapsed
  BY <1>9 DEF Release, StaysLapsed
<1>10. ASSUME NEW i \in LeaseId, Lapse(i) PROVE StaysLapsed
  BY <1>10 DEF Lapse, StaysLapsed
<1>11. ASSUME NEW q \in queue, CoolDown(q) PROVE StaysLapsed
  BY <1>11 DEF CoolDown, StaysLapsed
<1>12. ASSUME NEW p \in {"normal", "warning", "critical"}, MemoryPressure(p) PROVE StaysLapsed
  BY <1>12 DEF MemoryPressure, store, StaysLapsed
<1>13. CASE UNCHANGED vars
  BY <1>13 DEF vars, StaysLapsed
<1> QED
  BY <1>1, <1>2, <1>3, <1>4, <1>5, <1>6, <1>7, <1>8, <1>9, <1>10, <1>11, <1>12, <1>13 DEF Next

\* A lease that has lapsed is never renewed, extended, bound or found again.
THEOREM LapsedNeverReturnsHolds == Spec => LapsedNeverReturns
<1>1. TypeOK /\ [Next]_vars => [StaysLapsed]_vars
  BY LapsedStep
<1> QED
  BY <1>1, TypeCorrect, PTL DEF Spec, LapsedNeverReturns, StaysLapsed
-----------------------------------------------------------------------------
\* What an action that is not a request does to the places of the requests: it loses
\* leases, or puts one in the place of one of the same request, or one of no request.
Places(l, L, h) == /\ L \subseteq leases /\ leases' = L \cup {h}
                   /\ \/ h.rid = None
                      \/ l \in leases \ L /\ h.rid = l.rid

\* Such an action leaves every request in one place.
LEMMA OldPlaces ==
  ASSUME TypeOK, OnePlacePerRequest, queue' \subseteq queue,
         leases' \subseteq leases \/ \E l, L, h : Places(l, L, h)
  PROVE  OnePlacePerRequest'
<1>1. CASE leases' \subseteq leases
  BY <1>1 DEF OnePlacePerRequest
<1>2. ASSUME NEW l, NEW L, NEW h, Places(l, L, h) PROVE OnePlacePerRequest'
  <2>1. \A q \in queue : q.rid # None
    BY AskAssumption DEF TypeOK, EntryType, Rid
  <2>2. \A q \in queue, k \in leases : q.rid # k.rid
    BY DEF OnePlacePerRequest
  <2>3. \A k \in L : k.rid = h.rid => h.rid = None
    BY <1>2 DEF Places, OnePlacePerRequest
  <2>4. \A q \in queue' : q.rid # h.rid
    BY <1>2, <2>1, <2>2 DEF Places
  <2>5. \A j, k \in leases' : j.rid = k.rid /\ j.rid # None => j = k
    BY <1>2, <2>3 DEF Places, OnePlacePerRequest
  <2>6. \A q \in queue', k \in leases' : q.rid # k.rid
    BY <1>2, <2>2, <2>4 DEF Places
  <2>7. \A q, p \in queue' : q.rid = p.rid \/ q.seq = p.seq => q = p
    BY DEF OnePlacePerRequest
  <2> QED
    BY <2>5, <2>6, <2>7 DEF OnePlacePerRequest
<1> QED
  BY <1>1, <1>2

\* Deciding a request that no other entry and no live lease is of leaves it in one place.
LEMMA DecidedPlace ==
  ASSUME OnePlacePerRequest, NEW r, NEW others \in SUBSET queue, Decide(r, others),
         \A q \in others : q.rid # r.rid /\ q.seq # r.seq,
         \A l \in Live : l.rid # r.rid
  PROVE  OnePlacePerRequest'
<1>1. CASE Write(others, Live \cup {AdmissionLease(r)})
  <2>1. AdmissionLease(r).rid = r.rid
    BY DEF AdmissionLease
  <2> QED
    BY <1>1, <2>1, LiveSubset DEF Write, OnePlacePerRequest
<1>2. CASE Write(others \cup {r}, Live)
  BY <1>2, LiveSubset DEF Write, OnePlacePerRequest
<1> QED
  BY <1>1, <1>2 DEF Decide

\* Every action leaves every request in one place.
LEMMA PlaceStep == TypeOK /\ OnePlacePerRequest /\ [Next]_vars => OnePlacePerRequest'
<1> SUFFICES ASSUME TypeOK, OnePlacePerRequest, [Next]_vars PROVE OnePlacePerRequest'
  OBVIOUS
<1> USE LiveSubset
<1>l. ASSUME queue' \subseteq queue, leases' \subseteq leases PROVE OnePlacePerRequest'
  BY <1>l, OldPlaces
<1>p. ASSUME queue' = queue, NEW l, NEW L, NEW h, Places(l, L, h) PROVE OnePlacePerRequest'
  BY <1>p, OldPlaces
<1>1. ASSUME NEW a \in Ask, RequestAdmission(a) PROVE OnePlacePerRequest'
  <2>1. CASE Readmit(a)
    BY <1>l, <2>1 DEF Readmit, Write
  <2>2. CASE (\A l \in Live : l.rid # a.rid) /\ Enqueue(a)
    <3> DEFINE r == QueueEntry(a, nextSeq)
    <3>1. r.rid = a.rid /\ r.seq = nextSeq
      BY DEF QueueEntry
    <3>2. \A q \in queue : q.seq \in Nat /\ q.seq < nextSeq /\ nextSeq \in Nat
      BY DEF TypeOK, EntryType
    <3>3. \A q \in queue : q.rid # r.rid /\ q.seq # r.seq
      BY <2>2, <3>1, <3>2 DEF Enqueue
    <3>4. Decide(r, queue) /\ \A l \in Live : l.rid # r.rid
      BY <2>2, <3>1 DEF Enqueue
    <3> HIDE DEF r
    <3> QED
      BY <3>3, <3>4, DecidedPlace
  <2>3. CASE (\A l \in Live : l.rid # a.rid) /\ Retry(a)
    <3>1. PICK p \in queue : p.rid = a.rid /\ Decide(QueueEntry(a, p.seq), queue \ {p})
      BY <2>3 DEF Retry, SameIdentity
    <3> DEFINE r == QueueEntry(a, p.seq)
    <3>2. r.rid = p.rid /\ r.seq = p.seq
      BY <3>1 DEF QueueEntry
    <3>3. \A q \in queue \ {p} : q.rid # r.rid /\ q.seq # r.seq
      BY <3>2 DEF OnePlacePerRequest
    <3>4. Decide(r, queue \ {p}) /\ \A l \in Live : l.rid # r.rid
      BY <2>3, <3>1, <3>2
    <3> HIDE DEF r
    <3> QED
      BY <3>3, <3>4, DecidedPlace
  <2> QED
    BY <1>1, <2>1, <2>2, <2>3 DEF RequestAdmission
<1>2. ASSUME NEW c \in ClaimSets, RequestResourceLease(c) PROVE OnePlacePerRequest'
  <2>1. Places(None, Live, ZeroWeightLease(None, c))
    BY <1>2 DEF RequestResourceLease, Write, Places, ZeroWeightLease
  <2> QED
    BY <1>2, <1>p, <2>1 DEF RequestResourceLease, Write
<1>g. ASSUME NEW l \in Live, NEW h, h.rid = l.rid, queue' = queue,
             leases' = (Live \ {l}) \cup {h}
      PROVE  OnePlacePerRequest'
  <2>1. Places(l, Live \ {l}, h)
    BY <1>g DEF Places
  <2> QED
    BY <1>g, <1>p, <2>1
<1>3. ASSUME NEW i \in LeaseId, NEW c \in ClaimSets, ExtendResourceLease(i, c)
      PROVE  OnePlacePerRequest'
  <2>1. PICK l \in Live : Write(queue, (Live \ {l}) \cup {[l EXCEPT !.claims = @ \cup c]})
    BY <1>3 DEF ExtendResourceLease
  <2>2. [l EXCEPT !.claims = @ \cup c].rid = l.rid
    BY DEF TypeOK, LeaseType
  <2> QED
    BY <1>g, <2>1, <2>2 DEF Write
<1>4. ASSUME NEW g \in Agent, NEW c \in ClaimSets, ClaimAgentResources(g, c)
      PROVE  OnePlacePerRequest'
  <2>1. ASSUME NEW l \in OwnedBy(Live, g),
               Write(queue, (Live \ {l}) \cup {[l EXCEPT !.claims = @ \cup c]})
        PROVE  OnePlacePerRequest'
    <3>1. l \in Live
      BY DEF OwnedBy
    <3>2. [l EXCEPT !.claims = @ \cup c].rid = l.rid
      BY <3>1 DEF TypeOK, LeaseType
    <3> QED
      BY <1>g, <2>1, <3>1, <3>2 DEF Write
  <2>2. ASSUME Write(queue, Live \cup {ZeroWeightLease(g, c)}) PROVE OnePlacePerRequest'
    <3>1. Places(None, Live, ZeroWeightLease(g, c))
      BY <2>2 DEF Write, Places, ZeroWeightLease
    <3> QED
      BY <1>p, <2>2, <3>1 DEF Write
  <2> QED
    BY <1>4, <2>1, <2>2 DEF ClaimAgentResources
<1>5. ASSUME NEW i \in LeaseId, NEW g \in Agent, BindAgent(i, g) PROVE OnePlacePerRequest'
  <2>1. PICK l \in Live : Write(queue, (Live \ {l}) \cup {[l EXCEPT !.agent = g]})
    BY <1>5 DEF BindAgent
  <2>2. [l EXCEPT !.agent = g].rid = l.rid
    BY DEF TypeOK, LeaseType
  <2> QED
    BY <1>g, <2>1, <2>2 DEF Write
<1>6. ASSUME NEW i \in LeaseId, Heartbeat(i) PROVE OnePlacePerRequest'
  BY <1>6, <1>l DEF Heartbeat, Write
<1>7. CASE Snapshot
  BY <1>7, <1>l DEF Snapshot, Write
<1>8. ASSUME NEW sel, CancelQueued(sel) PROVE OnePlacePerRequest'
  BY <1>8, <1>l DEF CancelQueued
<1>9. ASSUME NEW sel, Release(sel) PROVE OnePlacePerRequest'
  BY <1>9, <1>l DEF Release
<1>10. ASSUME NEW i \in LeaseId, Lapse(i) PROVE OnePlacePerRequest'
  BY <1>10, <1>l DEF Lapse
<1>11. ASSUME NEW q \in queue, CoolDown(q) PROVE OnePlacePerRequest'
  <2> DEFINE r == [q EXCEPT !.cooling = FALSE]
  <2>1. r.rid = q.rid /\ r.seq = q.seq
    BY DEF TypeOK, EntryType
  <2>2. queue' = (queue \ {q}) \cup {r} /\ leases' = leases
    BY <1>11 DEF CoolDown
  <2> HIDE DEF r
  <2> QED
    BY <2>1, <2>2 DEF OnePlacePerRequest
<1>12. ASSUME NEW p \in {"normal", "warning", "critical"}, MemoryPressure(p)
       PROVE  OnePlacePerRequest'
  BY <1>12, <1>l DEF MemoryPressure, store
<1>13. CASE UNCHANGED vars
  BY <1>13, <1>l DEF vars
<1> QED
  BY <1>1, <1>2, <1>3, <1>4, <1>5, <1>6, <1>7, <1>8, <1>9, <1>10, <1>11, <1>12, <1>13 DEF Next

\* However often a request is retried, extended, renewed or bound, it has one queue
\* entry or one lease, and no two entries share a FIFO position: request_admission is
\* idempotent under its request id.
THEOREM OnePlacePerRequestHolds == Spec => []OnePlacePerRequest
<1>1. Init => OnePlacePerRequest
  BY DEF Init, OnePlacePerRequest
<1> QED
  BY <1>1, PlaceStep, TypeCorrect, PTL DEF Spec
-----------------------------------------------------------------------------
\* Counting: a set within another, within one and an element, or within one in which
\* an element has been replaced.
LEMMA Fewer ==
  ASSUME NEW S, IsFiniteSet(S), NEW T \in SUBSET S
  PROVE  IsFiniteSet(T) /\ Cardinality(T) \in Nat /\ Cardinality(S) \in Nat
           /\ Cardinality(T) <= Cardinality(S)
BY FS_Subset, FS_CardinalityType

LEMMA OneMore ==
  ASSUME NEW S, IsFiniteSet(S), NEW h, NEW T \in SUBSET (S \cup {h})
  PROVE  IsFiniteSet(T) /\ Cardinality(T) \in Nat /\ Cardinality(S) \in Nat
           /\ Cardinality(T) <= Cardinality(S) + 1
<1>1. /\ IsFiniteSet(S \cup {h}) /\ Cardinality(S) \in Nat
      /\ Cardinality(S \cup {h}) \in Nat /\ Cardinality(S \cup {h}) <= Cardinality(S) + 1
  BY FS_AddElement, FS_CardinalityType
<1>2. IsFiniteSet(T) /\ Cardinality(T) \in Nat /\ Cardinality(T) <= Cardinality(S \cup {h})
  BY <1>1, Fewer
<1> QED
  BY <1>1, <1>2

LEMMA Replaced ==
  ASSUME NEW S, IsFiniteSet(S), NEW l \in S, NEW h, NEW T \in SUBSET ((S \ {l}) \cup {h})
  PROVE  IsFiniteSet(T) /\ Cardinality(T) \in Nat /\ Cardinality(S) \in Nat
           /\ Cardinality(T) <= Cardinality(S)
<1>1. /\ IsFiniteSet(S \ {l}) /\ Cardinality(S) \in Nat
      /\ Cardinality(S \ {l}) = Cardinality(S) - 1
  BY FS_RemoveElement, FS_CardinalityType
<1>2. IsFiniteSet(T) /\ Cardinality(T) \in Nat /\ Cardinality(T) <= Cardinality(S \ {l}) + 1
  BY <1>1, OneMore
<1> QED
  BY <1>1, <1>2

-----------------------------------------------------------------------------
Active(L)      == {l \in L : l.weight = 1}
ActiveOf(L, p) == {l \in L : l.weight = 1 /\ l.provider = p}

CapInv == /\ TypeOK
          /\ IsFiniteSet(leases) /\ IsFiniteSet(queue)
          /\ WithinCapacity

QueueFits == IsFiniteSet(queue) /\ Cardinality(queue) <= QueueLimit

\* What an action other than a grant does to the active leases: it loses some, or it
\* puts one of no weight, or one in the place of another of its weight and provider.
Weighs(l, L, h) == /\ L \subseteq leases /\ leases' = L \cup {h}
                   /\ \/ h.weight = 0
                      \/ l \in leases \ L /\ h.weight = l.weight /\ h.provider = l.provider
NoMore == leases' \subseteq leases \/ \E l, L, h : Weighs(l, L, h)

\* Then no more of them are active, nor of any provider.
LEMMA NoMoreActive ==
  ASSUME CapInv, NoMore
  PROVE  /\ IsFiniteSet(leases')
         /\ Total(leases') <= ConfiguredLimit
         /\ \A p \in Provider : ProviderActive(leases', p) <= ProviderLimit[p]
<1> USE DEF Total, ProviderActive
<1>f. /\ IsFiniteSet(leases)
      /\ IsFiniteSet(Active(leases)) /\ Cardinality(Active(leases)) \in Nat
      /\ \A p : IsFiniteSet(ActiveOf(leases, p)) /\ Cardinality(ActiveOf(leases, p)) \in Nat
  <2>1. IsFiniteSet(leases) /\ Active(leases) \in SUBSET leases
        /\ \A p : ActiveOf(leases, p) \in SUBSET leases
    BY DEF CapInv, Active, ActiveOf
  <2> QED
    BY <2>1, Fewer
<1>c. /\ Cardinality(Active(leases)) <= ConfiguredLimit
      /\ \A p \in Provider : Cardinality(ActiveOf(leases, p)) <= ProviderLimit[p]
  BY DEF CapInv, WithinCapacity, Active, ActiveOf
<1>g. ASSUME IsFiniteSet(leases'),
             Cardinality(Active(leases')) \in Nat,
             Cardinality(Active(leases')) <= Cardinality(Active(leases)),
             \A p \in Provider : /\ Cardinality(ActiveOf(leases', p)) \in Nat
                                 /\ Cardinality(ActiveOf(leases', p)) <= Cardinality(ActiveOf(leases, p))
      PROVE  /\ IsFiniteSet(leases')
             /\ Total(leases') <= ConfiguredLimit
             /\ \A p \in Provider : ProviderActive(leases', p) <= ProviderLimit[p]
  <2>1. Cardinality(Active(leases')) <= ConfiguredLimit
    BY <1>f, <1>c, <1>g, LimitAssumption
  <2>2. ASSUME NEW p \in Provider PROVE Cardinality(ActiveOf(leases', p)) <= ProviderLimit[p]
    BY <1>f, <1>c, <1>g, LimitAssumption
  <2> QED
    BY <1>g, <2>1, <2>2 DEF Active, ActiveOf
<1>1. CASE leases' \subseteq leases
  <2>1. /\ leases' \in SUBSET leases /\ Active(leases') \in SUBSET Active(leases)
        /\ \A p : ActiveOf(leases', p) \in SUBSET ActiveOf(leases, p)
    BY <1>1 DEF Active, ActiveOf
  <2>2. IsFiniteSet(leases')
    BY <1>f, <2>1, Fewer
  <2>3. Cardinality(Active(leases')) \in Nat /\ Cardinality(Active(leases')) <= Cardinality(Active(leases))
    BY <1>f, <2>1, Fewer
  <2>4. \A p : /\ Cardinality(ActiveOf(leases', p)) \in Nat
               /\ Cardinality(ActiveOf(leases', p)) <= Cardinality(ActiveOf(leases, p))
    BY <1>f, <2>1, Fewer
  <2> QED
    BY <1>g, <2>2, <2>3, <2>4
<1>2. ASSUME NEW l, NEW L, NEW h, Weighs(l, L, h)
      PROVE  /\ IsFiniteSet(leases')
             /\ Total(leases') <= ConfiguredLimit
             /\ \A p \in Provider : ProviderActive(leases', p) <= ProviderLimit[p]
  <2>1. IsFiniteSet(leases')
    <3>1. leases' \in SUBSET (leases \cup {h})
      BY <1>2 DEF Weighs
    <3> QED
      BY <1>f, <3>1, OneMore
  <2>2. Cardinality(Active(leases')) \in Nat /\ Cardinality(Active(leases')) <= Cardinality(Active(leases))
    <3>1. \/ Active(leases') \in SUBSET Active(leases)
          \/ l \in Active(leases) /\ Active(leases') \in SUBSET ((Active(leases) \ {l}) \cup {h})
      BY <1>2 DEF Weighs, Active
    <3> QED
      BY <1>f, <3>1, Fewer, Replaced
  <2>3. ASSUME NEW p \in Provider
        PROVE  /\ Cardinality(ActiveOf(leases', p)) \in Nat
               /\ Cardinality(ActiveOf(leases', p)) <= Cardinality(ActiveOf(leases, p))
    <3>1. \/ ActiveOf(leases', p) \in SUBSET ActiveOf(leases, p)
          \/ /\ l \in ActiveOf(leases, p)
             /\ ActiveOf(leases', p) \in SUBSET ((ActiveOf(leases, p) \ {l}) \cup {h})
      BY <1>2 DEF Weighs, ActiveOf
    <3> QED
      BY <1>f, <3>1, Fewer, Replaced
  <2> QED
    BY <1>g, <2>1, <2>2, <2>3
<1> QED
  BY <1>1, <1>2 DEF NoMore

\* A granted request finds room under the limit of the moment, which is never above
\* the configured one, and under its provider's.
LEMMA GrantFits ==
  ASSUME CapInv, NEW r \in EntryType, MayStart(Live, r),
         leases' = Live \cup {AdmissionLease(r)}
  PROVE  /\ IsFiniteSet(leases')
         /\ Total(leases') <= ConfiguredLimit
         /\ \A p \in Provider : ProviderActive(leases', p) <= ProviderLimit[p]
<1> DEFINE h == AdmissionLease(r)
<1>h. h.provider = r.provider /\ r.provider \in Provider /\ r.cap \in Nat \ {0}
  BY DEF AdmissionLease, EntryType
<1>f. /\ IsFiniteSet(Live)
      /\ IsFiniteSet(Active(Live)) /\ Cardinality(Active(Live)) \in Nat
      /\ \A p : IsFiniteSet(ActiveOf(Live, p)) /\ Cardinality(ActiveOf(Live, p)) \in Nat
      /\ \A p : Cardinality(ActiveOf(Live, p)) <= Cardinality(ActiveOf(leases, p))
                /\ Cardinality(ActiveOf(leases, p)) \in Nat
  <2>1. /\ IsFiniteSet(leases) /\ Live \in SUBSET leases
        /\ Active(Live) \in SUBSET Live /\ \A p : ActiveOf(Live, p) \in SUBSET Live
    BY LiveSubset DEF CapInv, Active, ActiveOf
  <2>2. IsFiniteSet(Live)
    BY <2>1, Fewer
  <2>3. \A p : ActiveOf(leases, p) \in SUBSET leases /\ ActiveOf(Live, p) \in SUBSET ActiveOf(leases, p)
    BY <2>1 DEF ActiveOf
  <2>4. \A p : IsFiniteSet(ActiveOf(leases, p)) /\ Cardinality(ActiveOf(leases, p)) \in Nat
    BY <2>1, <2>3, Fewer
  <2>5. \A p : Cardinality(ActiveOf(Live, p)) <= Cardinality(ActiveOf(leases, p))
    BY <2>3, <2>4, Fewer
  <2>6. IsFiniteSet(Active(Live)) /\ Cardinality(Active(Live)) \in Nat
    BY <2>1, <2>2, Fewer
  <2>7. \A p : IsFiniteSet(ActiveOf(Live, p)) /\ Cardinality(ActiveOf(Live, p)) \in Nat
    BY <2>1, <2>2, Fewer
  <2> QED
    BY <2>2, <2>4, <2>5, <2>6, <2>7
<1>l. GlobalLimit \in Nat /\ GlobalLimit <= ConfiguredLimit /\ ConfiguredLimit \in Nat
  <2>1. ConfiguredLimit \in Nat \ {0}
    BY LimitAssumption
  <2>2. ConfiguredLimit \div 2 \in Nat /\ ConfiguredLimit \div 2 <= ConfiguredLimit
    BY <2>1
  <2> QED
    BY <2>1, <2>2 DEF GlobalLimit
<1>p. \A p \in Provider : ProviderLimit[p] \in Nat
  BY LimitAssumption
<1>e. EffectiveProviderLimit(r) <= ProviderLimit[r.provider] /\ EffectiveProviderLimit(r) \in Nat
  BY <1>h, <1>p DEF EffectiveProviderLimit, Smaller
<1>r. /\ Cardinality(Active(Live)) < GlobalLimit
      /\ Cardinality(ActiveOf(Live, r.provider)) < EffectiveProviderLimit(r)
  BY DEF MayStart, Runnable, HasCapacity, Total, ProviderActive, Active, ActiveOf
<1>s. /\ leases' \in SUBSET (Live \cup {h})
      /\ Active(leases') \in SUBSET (Active(Live) \cup {h})
      /\ \A p : ActiveOf(leases', p) \in SUBSET (ActiveOf(Live, p) \cup {h})
      /\ \A p : p # h.provider => ActiveOf(leases', p) \in SUBSET ActiveOf(Live, p)
  BY DEF Active, ActiveOf
<1> HIDE DEF h
<1>1. IsFiniteSet(leases')
  BY <1>f, <1>s, OneMore
<1>2. Cardinality(Active(leases')) <= ConfiguredLimit
  <2>1. Cardinality(Active(leases')) <= Cardinality(Active(Live)) + 1 /\ Cardinality(Active(leases')) \in Nat
    BY <1>f, <1>s, OneMore
  <2> QED
    BY <1>f, <1>l, <1>r, <2>1
<1>3. ASSUME NEW p \in Provider PROVE Cardinality(ActiveOf(leases', p)) <= ProviderLimit[p]
  <2>1. CASE p = r.provider
    <3>1. /\ Cardinality(ActiveOf(leases', p)) <= Cardinality(ActiveOf(Live, p)) + 1
          /\ Cardinality(ActiveOf(leases', p)) \in Nat
      <4>1. /\ IsFiniteSet(ActiveOf(Live, p))
            /\ ActiveOf(leases', p) \in SUBSET (ActiveOf(Live, p) \cup {h})
        BY <1>f, <1>s
      <4> HIDE DEF ActiveOf, Active
      <4> QED
        BY <4>1, OneMore
    <3>2. /\ Cardinality(ActiveOf(Live, p)) < EffectiveProviderLimit(r)
          /\ EffectiveProviderLimit(r) <= ProviderLimit[p]
      BY <1>r, <1>e, <2>1
    <3> QED
      BY <1>f, <1>e, <1>p, <3>1, <3>2
  <2>2. CASE p # r.provider
    <3>1. /\ Cardinality(ActiveOf(leases', p)) <= Cardinality(ActiveOf(Live, p))
          /\ Cardinality(ActiveOf(leases', p)) \in Nat
      BY <1>f, <1>h, <1>s, <2>2, Fewer
    <3>2. Cardinality(ActiveOf(leases, p)) <= ProviderLimit[p]
      BY DEF CapInv, WithinCapacity, ProviderActive, ActiveOf
    <3> QED
      BY <1>f, <1>p, <3>1, <3>2
  <2> QED
    BY <2>1, <2>2
<1> QED
  BY <1>1, <1>2, <1>3 DEF Total, ProviderActive, Active, ActiveOf

\* Every action other than a request leaves no more active leases than there were.
LEMMA OtherWeighs ==
  TypeOK /\ [Next]_vars /\ (\A a \in Ask : ~RequestAdmission(a)) => NoMore
<1> SUFFICES ASSUME TypeOK, [Next]_vars, \A a \in Ask : ~RequestAdmission(a) PROVE NoMore
  OBVIOUS
<1> USE LiveSubset DEF NoMore
<1>g. ASSUME NEW l \in Live, NEW h, h.weight = l.weight, h.provider = l.provider,
             leases' = (Live \ {l}) \cup {h}
      PROVE  NoMore
  <2>1. Weighs(l, Live \ {l}, h)
    BY <1>g DEF Weighs
  <2> QED
    BY <2>1
<1>z. ASSUME NEW g, NEW c, leases' = Live \cup {ZeroWeightLease(g, c)} PROVE NoMore
  <2>1. Weighs(None, Live, ZeroWeightLease(g, c))
    BY <1>z DEF Weighs, ZeroWeightLease
  <2> QED
    BY <2>1
<1>k. ASSUME NEW l \in Live, NEW c
      PROVE  /\ [l EXCEPT !.claims = @ \cup c].weight = l.weight
             /\ [l EXCEPT !.claims = @ \cup c].provider = l.provider
             /\ [l EXCEPT !.agent = c].weight = l.weight
             /\ [l EXCEPT !.agent = c].provider = l.provider
  BY DEF TypeOK, LeaseType
<1>2. ASSUME NEW c \in ClaimSets, RequestResourceLease(c) PROVE NoMore
  BY <1>2, <1>z DEF RequestResourceLease, Write
<1>3. ASSUME NEW i \in LeaseId, NEW c \in ClaimSets, ExtendResourceLease(i, c) PROVE NoMore
  <2>1. PICK l \in Live : Write(queue, (Live \ {l}) \cup {[l EXCEPT !.claims = @ \cup c]})
    BY <1>3 DEF ExtendResourceLease
  <2> QED
    BY <1>g, <1>k, <2>1 DEF Write
<1>4. ASSUME NEW g \in Agent, NEW c \in ClaimSets, ClaimAgentResources(g, c) PROVE NoMore
  <2>1. ASSUME NEW l \in OwnedBy(Live, g),
               Write(queue, (Live \ {l}) \cup {[l EXCEPT !.claims = @ \cup c]})
        PROVE  NoMore
    <3>1. l \in Live
      BY DEF OwnedBy
    <3> QED
      BY <1>g, <1>k, <2>1, <3>1 DEF Write
  <2>2. ASSUME Write(queue, Live \cup {ZeroWeightLease(g, c)}) PROVE NoMore
    BY <1>z, <2>2 DEF Write
  <2> QED
    BY <1>4, <2>1, <2>2 DEF ClaimAgentResources
<1>5. ASSUME NEW i \in LeaseId, NEW g \in Agent, BindAgent(i, g) PROVE NoMore
  <2>1. PICK l \in Live : Write(queue, (Live \ {l}) \cup {[l EXCEPT !.agent = g]})
    BY <1>5 DEF BindAgent
  <2> QED
    BY <1>g, <1>k, <2>1 DEF Write
<1>6. ASSUME NEW i \in LeaseId, Heartbeat(i) PROVE NoMore
  BY <1>6 DEF Heartbeat, Write
<1>7. CASE Snapshot
  BY <1>7 DEF Snapshot, Write
<1>8. ASSUME NEW sel, CancelQueued(sel) PROVE NoMore
  BY <1>8 DEF CancelQueued
<1>9. ASSUME NEW sel, Release(sel) PROVE NoMore
  BY <1>9 DEF Release
<1>10. ASSUME NEW i \in LeaseId, Lapse(i) PROVE NoMore
  BY <1>10 DEF Lapse
<1>11. ASSUME NEW q \in queue, CoolDown(q) PROVE NoMore
  BY <1>11 DEF CoolDown
<1>12. ASSUME NEW p \in {"normal", "warning", "critical"}, MemoryPressure(p) PROVE NoMore
  BY <1>12 DEF MemoryPressure, store
<1>13. CASE UNCHANGED vars
  BY <1>13 DEF vars
<1> HIDE DEF NoMore
<1> QED
  BY <1>2, <1>3, <1>4, <1>5, <1>6, <1>7, <1>8, <1>9, <1>10, <1>11, <1>12, <1>13 DEF Next

\* Only a request lengthens the queue, and only while there is room in it.
LEMMA QueueStep ==
  CapInv /\ [Next]_vars => QueueFits'
<1> SUFFICES ASSUME CapInv, [Next]_vars PROVE QueueFits'
  OBVIOUS
<1> USE DEF QueueFits
<1>f. /\ IsFiniteSet(queue) /\ Cardinality(queue) \in Nat /\ QueueLimit \in Nat
      /\ Cardinality(queue) <= QueueLimit
  BY FS_CardinalityType, LimitAssumption DEF CapInv, WithinCapacity
<1>l. ASSUME queue' \subseteq queue PROVE QueueFits'
  <2>1. IsFiniteSet(queue') /\ Cardinality(queue') \in Nat /\ Cardinality(queue') <= Cardinality(queue)
    BY <1>f, <1>l, Fewer
  <2> QED
    BY <1>f, <2>1
<1>m. ASSUME NEW r, queue' \subseteq queue \cup {r}, Cardinality(queue) < QueueLimit PROVE QueueFits'
  <2>1. IsFiniteSet(queue') /\ Cardinality(queue') \in Nat /\ Cardinality(queue') <= Cardinality(queue) + 1
    BY <1>f, <1>m, OneMore
  <2> QED
    BY <1>f, <1>m, <2>1
<1>r. ASSUME NEW r, NEW q \in queue, queue' \subseteq (queue \ {q}) \cup {r} PROVE QueueFits'
  <2>1. IsFiniteSet(queue') /\ Cardinality(queue') \in Nat /\ Cardinality(queue') <= Cardinality(queue)
    BY <1>f, <1>r, Replaced
  <2> QED
    BY <1>f, <2>1
<1>1. ASSUME NEW a \in Ask, RequestAdmission(a) PROVE QueueFits'
  <2>1. CASE Readmit(a)
    BY <1>l, <2>1 DEF Readmit, Write
  <2>2. CASE Enqueue(a)
    <3>1. /\ queue' \subseteq queue \cup {QueueEntry(a, nextSeq)}
          /\ Cardinality(queue) < QueueLimit
      BY <2>2 DEF Enqueue, Decide, Write
    <3> QED
      BY <1>m, <3>1
  <2>3. CASE Retry(a)
    <3>1. PICK q \in queue : Decide(QueueEntry(a, q.seq), queue \ {q})
      BY <2>3 DEF Retry
    <3>2. queue' \subseteq (queue \ {q}) \cup {QueueEntry(a, q.seq)}
      BY <3>1 DEF Decide, Write
    <3> QED
      BY <1>r, <3>2
  <2> QED
    BY <1>1, <2>1, <2>2, <2>3 DEF RequestAdmission
<1>2. ASSUME NEW c \in ClaimSets, RequestResourceLease(c) PROVE QueueFits'
  BY <1>2, <1>l DEF RequestResourceLease, Write
<1>3. ASSUME NEW i \in LeaseId, NEW c \in ClaimSets, ExtendResourceLease(i, c) PROVE QueueFits'
  BY <1>3, <1>l DEF ExtendResourceLease, Write
<1>4. ASSUME NEW g \in Agent, NEW c \in ClaimSets, ClaimAgentResources(g, c) PROVE QueueFits'
  BY <1>4, <1>l DEF ClaimAgentResources, Write
<1>5. ASSUME NEW i \in LeaseId, NEW g \in Agent, BindAgent(i, g) PROVE QueueFits'
  BY <1>5, <1>l DEF BindAgent, Write
<1>6. ASSUME NEW i \in LeaseId, Heartbeat(i) PROVE QueueFits'
  BY <1>6, <1>l DEF Heartbeat, Write
<1>7. CASE Snapshot
  BY <1>7, <1>l DEF Snapshot, Write
<1>8. ASSUME NEW sel, CancelQueued(sel) PROVE QueueFits'
  BY <1>8, <1>l DEF CancelQueued
<1>9. ASSUME NEW sel, Release(sel) PROVE QueueFits'
  BY <1>9, <1>l DEF Release
<1>10. ASSUME NEW i \in LeaseId, Lapse(i) PROVE QueueFits'
  BY <1>10, <1>l DEF Lapse
<1>11. ASSUME NEW q \in queue, CoolDown(q) PROVE QueueFits'
  BY <1>11, <1>r DEF CoolDown
<1>12. ASSUME NEW p \in {"normal", "warning", "critical"}, MemoryPressure(p) PROVE QueueFits'
  BY <1>12, <1>l DEF MemoryPressure, store
<1>13. CASE UNCHANGED vars
  BY <1>13, <1>l DEF vars
<1> HIDE DEF QueueFits
<1> QED
  BY <1>1, <1>2, <1>3, <1>4, <1>5, <1>6, <1>7, <1>8, <1>9, <1>10, <1>11, <1>12, <1>13 DEF Next

\* Every action keeps the counts within the limits.
LEMMA CapStep == CapInv /\ [Next]_vars => CapInv'
<1> SUFFICES ASSUME CapInv, [Next]_vars PROVE CapInv'
  OBVIOUS
<1>t. TypeOK /\ TypeOK'
  BY TypeStep DEF CapInv
<1>q. QueueFits'
  BY QueueStep
<1>1. ASSUME NEW a \in Ask, RequestAdmission(a)
      PROVE  \/ leases' \subseteq leases
             \/ \E r \in EntryType : MayStart(Live, r) /\ leases' = Live \cup {AdmissionLease(r)}
  <2>1. nextSeq \in Nat /\ \A q \in queue : q.seq \in Nat
    BY <1>t DEF TypeOK, EntryType
  <2>2. QueueEntry(a, nextSeq) \in EntryType /\ \A q \in queue : QueueEntry(a, q.seq) \in EntryType
    BY <1>t, <2>1, NewRecords
  <2> QED
    BY <1>1, <2>2, LiveSubset DEF RequestAdmission, Readmit, Enqueue, Retry, Decide, Write
<1>2. /\ IsFiniteSet(leases')
      /\ Total(leases') <= ConfiguredLimit
      /\ \A p \in Provider : ProviderActive(leases', p) <= ProviderLimit[p]
  <2>1. CASE \E a \in Ask : RequestAdmission(a)
    BY <1>1, <2>1, NoMoreActive, GrantFits DEF NoMore
  <2>2. CASE \A a \in Ask : ~RequestAdmission(a)
    BY <1>t, <2>2, OtherWeighs, NoMoreActive DEF NoMore
  <2> QED
    BY <2>1, <2>2
<1> QED
  BY <1>t, <1>q, <1>2 DEF CapInv, QueueFits, WithinCapacity, Total, ProviderActive

LEMMA CapInvariant == Spec => []CapInv
<1>1. Init => CapInv
  <2>1. Init => TypeOK
    BY InitIInv DEF IInv
  <2>2. IsFiniteSet({}) /\ Cardinality({}) = 0
    BY FS_EmptySet
  <2>3. {l \in {} : l.weight = 1} = {} /\ \A p : {l \in {} : l.weight = 1 /\ l.provider = p} = {}
    OBVIOUS
  <2>4. ConfiguredLimit \in Nat /\ QueueLimit \in Nat /\ \A p \in Provider : ProviderLimit[p] \in Nat
    BY LimitAssumption
  <2>5. SUFFICES ASSUME Init PROVE CapInv
    OBVIOUS
  <2>6. Total(leases) = 0 /\ (\A p : ProviderActive(leases, p) = 0) /\ Cardinality(queue) = 0
    BY <2>2, <2>3, <2>5 DEF Init, Total, ProviderActive
  <2>7. WithinCapacity
    BY <2>4, <2>6 DEF WithinCapacity
  <2> QED
    BY <2>1, <2>2, <2>5, <2>7 DEF Init, CapInv
<1> QED
  BY <1>1, CapStep, PTL DEF Spec

\* The agents at work never exceed the configured limit nor their provider's, and the
\* queue its own, however memory pressure moves the limit between two admissions.
THEOREM WithinCapacityHolds == Spec => []WithinCapacity
<1>1. CapInv => WithinCapacity
  BY DEF CapInv
<1> QED
  BY <1>1, CapInvariant, PTL

-----------------------------------------------------------------------------
\* What the lookup of a call's age finds is the age of the entry it would retry.
LEMMA AgeOfEntry ==
  ASSUME OnePlacePerRequest, NEW q \in queue
  PROVE  AgeOf(q.rid) = q.seq
<1> DEFINE c == CHOOSE p \in queue : p.rid = q.rid
<1>1. c \in queue /\ c.rid = q.rid
  OBVIOUS
<1>2. c = q
  BY <1>1 DEF OnePlacePerRequest
<1> QED
  BY <1>2 DEF AgeOf

\* A call that admits does so for an entry of the age of its request, and only if that may start.
LEMMA AdmittedHow ==
  ASSUME TypeOK, OnePlacePerRequest, NEW a \in Ask, RequestAdmission(a), AdmittedNow(a.rid)
  PROVE  \E r \in EntryType : /\ r = QueueEntry(a, AgeOf(a.rid)) /\ MayStart(Live, r)
                              /\ leases' = Live \cup {AdmissionLease(r)} /\ pressure' = pressure
<1>0. nextSeq \in Nat /\ \A q \in queue : q.seq \in Nat
  BY DEF TypeOK, EntryType
<1>1. ~Readmit(a) /\ pressure' = pressure
  BY LiveSubset DEF AdmittedNow, RequestAdmission, Readmit
<1>2. ASSUME NEW r, NEW others, Decide(r, others)
      PROVE  MayStart(Live, r) /\ leases' = Live \cup {AdmissionLease(r)}
  <2>1. leases' # Live
    BY LiveSubset DEF AdmittedNow
  <2> QED
    BY <1>2, <2>1 DEF Decide, Write
<1>3. CASE Enqueue(a)
  <2>1. AgeOf(a.rid) = nextSeq /\ Decide(QueueEntry(a, nextSeq), queue)
    BY <1>3 DEF Enqueue, AgeOf
  <2> QED
    BY <1>0, <1>1, <1>2, <2>1, NewRecords
<1>4. CASE Retry(a)
  <2>1. PICK q \in queue : SameIdentity(q, a) /\ Decide(QueueEntry(a, q.seq), queue \ {q})
    BY <1>4 DEF Retry
  <2>2. AgeOf(a.rid) = q.seq
    BY <2>1, AgeOfEntry DEF SameIdentity
  <2> QED
    BY <1>0, <1>1, <1>2, <2>1, <2>2, NewRecords
<1> QED
  BY <1>1, <1>3, <1>4 DEF RequestAdmission

\* What an older runnable request needs is left: it is one of those the younger one leaves a slot
\* for, in the whole and with its own provider.
LEMMA FairLeavesSlot ==
  ASSUME CapInv, NEW r \in EntryType, MayStart(Live, r), NEW q \in queue,
         leases' = Live \cup {AdmissionLease(r)},
         q.seq < r.seq, Runnable(Live, q), r.cap <= q.cap \/ r.provider # q.provider
  PROVE  Runnable(leases', q)
<1> DEFINE h == AdmissionLease(r)
           older == OlderRunnable(Live, r)
           kin == {o \in older : o.provider = r.provider}
<1>1. /\ q \in older /\ ~ResourcesConflict(r.claims, q.claims)
      /\ Total(Live) + Cardinality(older) < GlobalLimit
      /\ ProviderActive(Live, r.provider) + Cardinality(kin) < EffectiveProviderLimit(r)
  <2>1. q \in older
    BY DEF OlderRunnable
  <2> QED
    BY <2>1 DEF MayStart, Fair
<1>2. /\ h.claims = r.claims /\ h.weight = 1 /\ h.provider = r.provider
  BY DEF AdmissionLease
<1>3. IsFiniteSet(Live) /\ IsFiniteSet(older) /\ IsFiniteSet(kin)
  BY Fewer, LiveSubset DEF CapInv, OlderRunnable
<1>4. Cardinality(older) \in Nat /\ Cardinality(older) > 0
  BY <1>1, <1>3, FS_EmptySet, FS_CardinalityType
<1>5. /\ q \in EntryType /\ ProviderLimit[r.provider] \in Nat /\ ProviderLimit[q.provider] \in Nat
      /\ GlobalLimit \in Nat
  <2>1. q \in EntryType
    BY DEF CapInv, TypeOK
  <2>2. GlobalLimit \in Nat
    BY LimitAssumption DEF GlobalLimit
  <2> QED
    BY <2>1, <2>2, LimitAssumption DEF EntryType
<1> HIDE DEF h, older, kin
<1>6. Total(leases') < GlobalLimit
  <2>1. IsFiniteSet(Active(Live)) /\ Active(leases') \subseteq Active(Live) \cup {h}
    BY <1>3, Fewer DEF Active, h
  <2>2. /\ Total(leases') <= Total(Live) + 1 /\ Total(leases') \in Nat /\ Total(Live) \in Nat
    BY <2>1, OneMore DEF Active, Total
  <2> QED
    BY <1>1, <1>4, <1>5, <2>2
<1>7. ProviderActive(leases', q.provider) < EffectiveProviderLimit(q)
  <2>1. CASE q.provider # r.provider
    <3>1. {l \in leases' : l.weight = 1 /\ l.provider = q.provider}
            = {l \in Live : l.weight = 1 /\ l.provider = q.provider}
      BY <1>2, <2>1 DEF h
    <3> QED
      BY <3>1 DEF ProviderActive, Runnable, HasCapacity
  <2>2. CASE q.provider = r.provider
    <3>1. q \in kin
      BY <1>1, <2>2 DEF kin
    <3>2. Cardinality(kin) \in Nat /\ Cardinality(kin) > 0
      BY <1>3, <3>1, FS_EmptySet, FS_CardinalityType
    <3>3. /\ IsFiniteSet(ActiveOf(Live, q.provider))
          /\ ActiveOf(leases', q.provider) \subseteq ActiveOf(Live, q.provider) \cup {h}
      BY <1>3, Fewer DEF ActiveOf, h
    <3>4. /\ ProviderActive(leases', q.provider) <= ProviderActive(Live, q.provider) + 1
          /\ ProviderActive(leases', q.provider) \in Nat /\ ProviderActive(Live, q.provider) \in Nat
      BY <3>3, OneMore DEF ActiveOf, ProviderActive
    <3>5. /\ EffectiveProviderLimit(r) <= EffectiveProviderLimit(q)
          /\ EffectiveProviderLimit(r) \in Nat /\ EffectiveProviderLimit(q) \in Nat
      BY <1>5, <2>2 DEF EffectiveProviderLimit, Smaller, EntryType
    <3> QED
      BY <1>1, <2>2, <3>2, <3>4, <3>5
  <2> QED
    BY <2>1, <2>2
<1>8. Blockers(leases', q.claims) = {}
  <2>1. ~ResourcesConflict(q.claims, h.claims)
    BY <1>1, <1>2, ConflictSymmetric
  <2>2. Blockers(Live, q.claims) = {}
    BY DEF Runnable
  <2> QED
    BY <2>1, <2>2 DEF Blockers, h
<1> QED
  BY <1>6, <1>7, <1>8 DEF Runnable, HasCapacity

\* No call is admitted past an older request that could have started and then no longer can: a
\* slot is left for each of them, with its provider too, and none of what they claim is taken
\* (agent_admission.py:455-520).
THEOREM OlderRunnableKeepsSlotHolds == Spec => OlderRunnableKeepsSlot
<1>1. ASSUME CapInv, OnePlacePerRequest, NEW q \in queue, NEW a \in Ask,
             RequestAdmission(a), AdmittedNow(a.rid), q.rid # a.rid, q.seq < AgeOf(a.rid),
             a.cap <= q.cap \/ a.provider # q.provider, Runnable(Live, q)
      PROVE  Runnable(leases', q)
  <2>1. PICK r \in EntryType : /\ r = QueueEntry(a, AgeOf(a.rid)) /\ MayStart(Live, r)
                               /\ leases' = Live \cup {AdmissionLease(r)}
    BY <1>1, AdmittedHow DEF CapInv
  <2>2. r.seq = AgeOf(a.rid) /\ r.cap = a.cap /\ r.provider = a.provider
    BY <2>1 DEF QueueEntry
  <2> QED
    BY <1>1, <2>1, <2>2, FairLeavesSlot
<1>2. CapInv /\ OnePlacePerRequest =>
        [\A q \in queue, a \in Ask :
          /\ RequestAdmission(a) /\ AdmittedNow(a.rid)
          /\ q.rid # a.rid /\ q.seq < AgeOf(a.rid)
          /\ a.cap <= q.cap \/ a.provider # q.provider
          /\ Runnable(Live, q)
          => Runnable(leases', q)]_vars
  BY <1>1
<1> QED
  BY <1>2, CapInvariant, OnePlacePerRequestHolds, PTL DEF OlderRunnableKeepsSlot
-----------------------------------------------------------------------------
(* FileTransactions *)

\* No path has two preimages in a transaction, and no transaction is in a queue twice.
OncePerPath(s) == \A k, l \in DOMAIN s : s[k].path = s[l].path => k = l
Distinct(s)    == \A k, l \in DOMAIN s : s[k] = s[l] => k = l
Ended == {"undone", "rolled_back", "rollback_failed", "aborted"}

\* What holds of a manifest by itself.
Fine(m) ==
    /\ m \in Manifest
    /\ m.kind # "compound" => m.children = <<>>
    /\ m.kind = "compound" => /\ m.snaps = <<>> /\ m.children # <<>> /\ Distinct(m.children)
                              /\ m.state \in Ended \cup {"committed"}
    /\ OncePerPath(m.snaps)
    /\ m.state = "committed" /\ m.undoable => \A k \in DOMAIN m.snaps : m.snaps[k].post # "unknown"
-----------------------------------------------------------------------------
(* Manifests *)

\* A manifest whose record changes in one field.
LEMMA ManifestFields ==
  ASSUME NEW m \in Manifest, NEW v
  PROVE  /\ [m EXCEPT !.undoable = v] = [kind |-> m.kind, state |-> m.state, undoable |-> v,
                                        snaps |-> m.snaps, children |-> m.children]
         /\ [m EXCEPT !.snaps = Append(@, v)] =
              [kind |-> m.kind, state |-> m.state, undoable |-> m.undoable,
               snaps |-> Append(m.snaps, v), children |-> m.children]
<1>0. m = [kind |-> m.kind, state |-> m.state, undoable |-> m.undoable, snaps |-> m.snaps,
           children |-> m.children]
  BY DEF Manifest
<1>1. [m EXCEPT !.undoable = v] = [kind |-> m.kind, state |-> m.state, undoable |-> v,
                                   snaps |-> m.snaps, children |-> m.children]
  BY DEF Manifest
<1>2. [m EXCEPT !.snaps = Append(@, v)] =
              [kind |-> m.kind, state |-> m.state, undoable |-> m.undoable,
               snaps |-> Append(m.snaps, v), children |-> m.children]
  BY <1>0
<1> QED
  BY <1>1, <1>2

\* What a fine manifest holds.
LEMMA FineFields ==
  ASSUME NEW m, Fine(m)
  PROVE  /\ m \in Manifest
         /\ m.kind \in {"file", "capture", "compound"} /\ m.undoable \in BOOLEAN
         /\ m.state \in {"preparing", "prepared", "capturing", "committed"} \cup Ended
         /\ m.snaps \in Seq(SnapshotEntry) /\ m.children \in Seq(Id)
         /\ Len(m.snaps) \in Nat /\ DOMAIN m.snaps = 1..Len(m.snaps)
         /\ \A k \in DOMAIN m.snaps : m.snaps[k].path \in Path /\ m.snaps[k].before \in Content
<1>1. m \in Manifest
  BY DEF Fine
<1>2. m.snaps \in Seq(SnapshotEntry) /\ m.children \in Seq(Id)
  BY <1>1 DEF Manifest
<1>3. /\ m.kind \in {"file", "capture", "compound"} /\ m.undoable \in BOOLEAN
      /\ m.state \in {"preparing", "prepared", "capturing", "committed"} \cup Ended
  BY <1>1 DEF Manifest, Ended
<1>4. /\ Len(m.snaps) \in Nat /\ DOMAIN m.snaps = 1..Len(m.snaps)
      /\ \A k \in DOMAIN m.snaps : m.snaps[k] \in SnapshotEntry
  BY <1>2
<1>5. \A k \in DOMAIN m.snaps : m.snaps[k].path \in Path /\ m.snaps[k].before \in Content
  BY <1>4 DEF SnapshotEntry
<1> QED
  BY <1>1, <1>2, <1>3, <1>4, <1>5

\* A manifest as a prepare or a capture opens it.
LEMMA OpenIsFine ==
  ASSUME NEW kind \in {"file", "capture"}, NEW state \in {"preparing", "prepared", "capturing"},
         NEW u \in BOOLEAN
  PROVE  /\ Fine([Open(kind, state) EXCEPT !.undoable = u])
         /\ Fine(Open(kind, state))
<1>1. /\ [Open(kind, state) EXCEPT !.undoable = u] =
           [kind |-> kind, state |-> state, undoable |-> u, snaps |-> <<>>, children |-> <<>>]
      /\ [kind |-> kind, state |-> state, undoable |-> u, snaps |-> <<>>, children |-> <<>>]
           \in Manifest
      /\ Open(kind, state) \in Manifest
  BY DEF Open, Manifest
<1> QED
  BY <1>1 DEF Fine, OncePerPath, Open

\* A manifest in one of its last states.
LEMMA ClosedIsFine ==
  ASSUME NEW m, Fine(m), NEW s \in Ended
  PROVE  /\ Fine(Closed(m, s))
         /\ Closed(m, s).kind = m.kind /\ Closed(m, s).children = m.children
         /\ Closed(m, s).state = s /\ Closed(m, s).snaps = <<>> /\ Closed(m, s).undoable = m.undoable
<1>0. m \in Manifest
  BY DEF Fine
<1> DEFINE n == [m EXCEPT !.state = s]
<1>a. n = [kind |-> m.kind, state |-> s, undoable |-> m.undoable, snaps |-> m.snaps,
           children |-> m.children]
  BY <1>0 DEF Manifest
<1>b. Closed(m, s) = [n EXCEPT !.snaps = <<>>]
  BY DEF Closed
<1> HIDE DEF n
<1>1. Closed(m, s) = [kind |-> m.kind, state |-> s, undoable |-> m.undoable, snaps |-> <<>>,
                      children |-> m.children]
  BY <1>a, <1>b
<1>2. Closed(m, s) \in Manifest
  BY <1>1 DEF Fine, Manifest, Ended
<1> QED
  BY <1>1, <1>2 DEF Fine, OncePerPath, Ended

LEMMA AbortedIsFine ==
  ASSUME NEW m, Fine(m), m.kind # "compound"
  PROVE  /\ Fine(Aborted(m))
         /\ Aborted(m).kind = m.kind /\ Aborted(m).children = m.children
         /\ Aborted(m).state = "aborted" /\ Aborted(m).snaps = <<>> /\ Aborted(m).undoable = FALSE
<1>0. Closed(m, "aborted") \in Manifest
  BY ClosedIsFine DEF Fine, Ended
<1>a. /\ Closed(m, "aborted").kind = m.kind /\ Closed(m, "aborted").children = m.children
      /\ Closed(m, "aborted").state = "aborted" /\ Closed(m, "aborted").snaps = <<>>
  BY ClosedIsFine DEF Ended
<1>1. Aborted(m) = [kind |-> m.kind, state |-> "aborted", undoable |-> FALSE, snaps |-> <<>>,
                    children |-> m.children]
  BY <1>0, <1>a, ManifestFields DEF Aborted
<1>2. Aborted(m) \in Manifest
  BY <1>1 DEF Fine, Manifest
<1> QED
  BY <1>1, <1>2 DEF Fine, OncePerPath

\* A manifest all of whose preimages are saved, or whose undo is forced.
LEMMA PreparedIsFine ==
  ASSUME NEW m, Fine(m), m.kind # "compound"
  PROVE  /\ Fine([m EXCEPT !.state = "prepared"])
         /\ [m EXCEPT !.state = "prepared"] =
              [kind |-> m.kind, state |-> "prepared", undoable |-> m.undoable, snaps |-> m.snaps,
               children |-> m.children]
<1>1. [m EXCEPT !.state = "prepared"] =
         [kind |-> m.kind, state |-> "prepared", undoable |-> m.undoable, snaps |-> m.snaps,
          children |-> m.children]
  BY DEF Fine, Manifest
<1>2. [m EXCEPT !.state = "prepared"] \in Manifest
  BY <1>1 DEF Fine, Manifest
<1> QED
  BY <1>1, <1>2 DEF Fine, OncePerPath

\* A manifest with one preimage more.
LEMMA SavedIsFine ==
  ASSUME NEW m, Fine(m), m.kind # "compound", m.state # "committed",
         NEW e \in SnapshotEntry, \A k \in DOMAIN m.snaps : m.snaps[k].path # e.path
  PROVE  /\ Fine([m EXCEPT !.snaps = Append(@, e)])
         /\ [m EXCEPT !.snaps = Append(@, e)] =
              [kind |-> m.kind, state |-> m.state, undoable |-> m.undoable,
               snaps |-> Append(m.snaps, e), children |-> m.children]
         /\ DOMAIN Append(m.snaps, e) = DOMAIN m.snaps \cup {Len(m.snaps) + 1}
         /\ \A k \in DOMAIN m.snaps : Append(m.snaps, e)[k] = m.snaps[k]
         /\ Append(m.snaps, e)[Len(m.snaps) + 1] = e
<1>0. m \in Manifest
  BY DEF Fine
<1>1. [m EXCEPT !.snaps = Append(@, e)] =
        [kind |-> m.kind, state |-> m.state, undoable |-> m.undoable,
         snaps |-> Append(m.snaps, e), children |-> m.children]
  BY <1>0, ManifestFields
<1>2. m.snaps \in Seq(SnapshotEntry) /\ Append(m.snaps, e) \in Seq(SnapshotEntry)
  BY DEF Fine, Manifest
<1>3. [m EXCEPT !.snaps = Append(@, e)] \in Manifest
  BY <1>1, <1>2 DEF Fine, Manifest
<1>4. /\ DOMAIN Append(m.snaps, e) = DOMAIN m.snaps \cup {Len(m.snaps) + 1}
      /\ \A k \in DOMAIN m.snaps : Append(m.snaps, e)[k] = m.snaps[k]
      /\ Append(m.snaps, e)[Len(m.snaps) + 1] = e
  BY <1>2
<1>5. OncePerPath(Append(m.snaps, e))
  BY <1>4 DEF Fine, OncePerPath
<1> QED
  BY <1>1, <1>3, <1>4, <1>5 DEF Fine

\* A manifest with the fingerprints a commit takes.
LEMMA CommittedIsFine ==
  ASSUME NEW m, Fine(m), m.kind # "compound", disk \in [Path -> Content],
         "unknown" \notin Content
  PROVE  /\ Fine(Committed(m))
         /\ Committed(m).kind = m.kind /\ Committed(m).children = m.children
         /\ Committed(m).state = "committed" /\ Committed(m).undoable = m.undoable
         /\ DOMAIN Committed(m).snaps = DOMAIN m.snaps
         /\ \A k \in DOMAIN m.snaps : /\ Committed(m).snaps[k].path = m.snaps[k].path
                                      /\ Committed(m).snaps[k].before = m.snaps[k].before
<1> DEFINE T == [k \in DOMAIN m.snaps |-> [m.snaps[k] EXCEPT !.post = disk[m.snaps[k].path]]]
           S == IF m.undoable THEN T ELSE m.snaps
<1>0. m \in Manifest
  BY DEF Fine
<1> DEFINE n == [m EXCEPT !.state = "committed"]
<1>a. n = [kind |-> m.kind, state |-> "committed", undoable |-> m.undoable, snaps |-> m.snaps,
           children |-> m.children]
  BY <1>0 DEF Manifest
<1>b. Committed(m) = [n EXCEPT !.snaps = S]
  BY <1>a DEF Committed
<1> HIDE DEF n, S
<1>1. Committed(m) = [kind |-> m.kind, state |-> "committed", undoable |-> m.undoable,
                      snaps |-> S, children |-> m.children]
  BY <1>a, <1>b
<1> USE DEF S
<1>2. m.snaps \in Seq(SnapshotEntry)
  BY <1>0 DEF Manifest
<1>3. ASSUME NEW k \in DOMAIN m.snaps
      PROVE  /\ T[k] = [path |-> m.snaps[k].path, before |-> m.snaps[k].before,
                         post |-> disk[m.snaps[k].path]]
             /\ T[k] \in SnapshotEntry /\ T[k].post \in Content
  <2>1. m.snaps[k] \in SnapshotEntry
    BY <1>2
  <2>2. T[k] = [path |-> m.snaps[k].path, before |-> m.snaps[k].before,
                post |-> disk[m.snaps[k].path]]
    BY <2>1 DEF SnapshotEntry
  <2> QED
    BY <2>1, <2>2 DEF SnapshotEntry
<1>4. T \in Seq(SnapshotEntry) /\ DOMAIN T = DOMAIN m.snaps
  <2>1. DOMAIN m.snaps = 1..Len(m.snaps) /\ Len(m.snaps) \in Nat
    BY <1>2
  <2>2. T \in [1..Len(m.snaps) -> SnapshotEntry]
    BY <1>3, <2>1
  <2> QED
    BY <2>1, <2>2
<1>5. S \in Seq(SnapshotEntry) /\ DOMAIN S = DOMAIN m.snaps
  BY <1>2, <1>4
<1>6. \A k \in DOMAIN m.snaps : S[k].path = m.snaps[k].path /\ S[k].before = m.snaps[k].before
  BY <1>3
<1>7. m.undoable => \A k \in DOMAIN S : S[k].post # "unknown"
  BY <1>3, <1>5
<1>8. Committed(m) \in Manifest
  BY <1>1, <1>5 DEF Fine, Manifest
<1>9. OncePerPath(S)
  BY <1>5, <1>6 DEF Fine, OncePerPath
<1> HIDE DEF T, S
<1> QED
  BY <1>1, <1>5, <1>6, <1>7, <1>8, <1>9 DEF Fine

\* What holds of a journal J when X are the transactions that expired.
Sound(J, X) ==
    /\ \A i \in DOMAIN J : Fine(J[i])
    /\ \A i \in DOMAIN J : \A c \in Elements(J[i].children) :
         c \in 1..(i - 1) /\ (c \in DOMAIN J => J[c].kind # "compound")
    /\ \A i \in DOMAIN J : J[i].kind = "compound" /\ J[i].state = "committed" /\ i \notin X
         => Elements(J[i].children) \subseteq DOMAIN J \ X
-----------------------------------------------------------------------------
(* The journal *)

\* What a prune keeps: the transaction it is told to, and of those that did not expire the open
\* ones not aged and the children of committed compounds.
LEMMA PrunedIs ==
  ASSUME NEW J, NEW e
  PROVE  /\ DOMAIN Pruned(J, e) \subseteq DOMAIN J
         /\ \A i \in DOMAIN Pruned(J, e) : Pruned(J, e)[i] = J[i]
         /\ e \in DOMAIN J => e \in DOMAIN Pruned(J, e)
         /\ \A i \in DOMAIN J \ expired :
              \/ J[i].state \in {"preparing", "prepared", "capturing"} /\ i \notin aged
              \/ \E c \in DOMAIN J \ expired : /\ J[c].kind = "compound" /\ J[c].state = "committed"
                                               /\ i \in Elements(J[c].children)
              => i \in DOMAIN Pruned(J, e)
<1> DEFINE rest == {i \in DOMAIN J : i = e \/ i \notin expired}
           free == {i \in rest \ {e} :
                   /\ i \notin Protected([j \in rest |-> J[j]])
                   /\ \/ J[i].state \in {"committed", "undone", "rolled_back",
                                         "rollback_failed", "aborted"}
                      \/ i \in aged}
           surplus == IF Cardinality(rest) > MaxTransactions THEN Cardinality(rest) - MaxTransactions ELSE 0
           gone == {i \in free : Cardinality({j \in free : j < i}) < surplus}
<1>1. Pruned(J, e) = [i \in rest \ gone |-> J[i]]
  BY DEF Pruned
<1>2. gone \subseteq free
  OBVIOUS
<1> HIDE DEF gone
<1>3. ASSUME NEW i \in DOMAIN J \ expired, NEW c \in DOMAIN J \ expired,
             J[c].kind = "compound", J[c].state = "committed", i \in Elements(J[c].children)
      PROVE  i \notin free
  <2>1. c \in rest
    BY <1>3
  <2> HIDE DEF rest
  <2>2. i \in Protected([j \in rest |-> J[j]])
    BY <1>3, <2>1 DEF Protected
  <2> QED
    BY <2>2
<1>4. ASSUME NEW i \in DOMAIN J \ expired, i \notin free
      PROVE  i \in DOMAIN Pruned(J, e)
  <2>1. i \in rest
    BY <1>4
  <2> HIDE DEF rest, free
  <2> QED
    BY <1>1, <1>2, <1>4, <2>1
<1>5. ASSUME NEW i \in DOMAIN J \ expired, i \notin aged,
             J[i].state \in {"preparing", "prepared", "capturing"}
      PROVE  i \notin free
  BY <1>5
<1>6. e \in DOMAIN J => e \in DOMAIN Pruned(J, e)
  BY <1>1, <1>2
<1>7. /\ DOMAIN Pruned(J, e) \subseteq DOMAIN J
      /\ \A i \in DOMAIN Pruned(J, e) : Pruned(J, e)[i] = J[i]
  BY <1>1
<1> HIDE DEF rest, free
<1> QED
  BY <1>3, <1>4, <1>5, <1>6, <1>7

\* A prune takes no child from a compound that it keeps and that can be undone.
LEMMA PrunedIsSound ==
  ASSUME NEW J, NEW X, Sound(J, X), expired \subseteq X, NEW e
  PROVE  Sound(Pruned(J, e), X)
<1> DEFINE P == Pruned(J, e)
<1>1. DOMAIN P \subseteq DOMAIN J /\ \A i \in DOMAIN P : P[i] = J[i]
  BY PrunedIs
<1>2. ASSUME NEW i \in DOMAIN P, P[i].kind = "compound", P[i].state = "committed", i \notin X,
             NEW c \in Elements(P[i].children)
      PROVE  c \in DOMAIN P \ X
  <2>1. /\ i \in DOMAIN J \ expired /\ J[i].kind = "compound" /\ J[i].state = "committed"
        /\ c \in Elements(J[i].children)
    BY <1>1, <1>2
  <2>2. c \in DOMAIN J \ X
    BY <1>2, <2>1 DEF Sound
  <2>3. c \in DOMAIN P
    BY <2>1, <2>2, PrunedIs
  <2> QED
    BY <2>2, <2>3
<1> HIDE DEF P
<1>3. \A i \in DOMAIN P : Fine(P[i])
  BY <1>1 DEF Sound
<1>4. \A i \in DOMAIN P : \A c \in Elements(P[i].children) :
         c \in 1..(i - 1) /\ (c \in DOMAIN P => P[c].kind # "compound")
  BY <1>1 DEF Sound
<1>5. Sound(P, X)
  BY <1>2, <1>3, <1>4 DEF Sound
<1> QED
  BY <1>5 DEF P

\* Another manifest for a transaction.
\* Another manifest of the same kind and with the same children takes the place of one.
LEMMA RewrittenIsSound ==
  ASSUME NEW J, NEW X, Sound(J, X), NEW i \in DOMAIN J, NEW m, Fine(m),
         m.kind = J[i].kind, m.children = J[i].children,
         m.state = "committed" => J[i].state = "committed" \/ m.kind # "compound"
  PROVE  Sound([J EXCEPT ![i] = m], X)
<1> DEFINE P == [J EXCEPT ![i] = m]
<1>1. /\ DOMAIN P = DOMAIN J
      /\ \A k \in DOMAIN J : /\ P[k].kind = J[k].kind /\ P[k].children = J[k].children
                             /\ Fine(J[k]) => Fine(P[k])
                             /\ P[k].state = "committed" => J[k].state = "committed" \/ J[k].kind # "compound"
  OBVIOUS
<1> HIDE DEF P
<1>2. \A k \in DOMAIN P : Fine(P[k])
  BY <1>1 DEF Sound
<1>3. \A k \in DOMAIN P : \A c \in Elements(P[k].children) :
         c \in 1..(k - 1) /\ (c \in DOMAIN P => P[c].kind # "compound")
  BY <1>1 DEF Sound
<1>4. \A k \in DOMAIN P : P[k].kind = "compound" /\ P[k].state = "committed" /\ k \notin X
         => Elements(P[k].children) \subseteq DOMAIN P \ X
  BY <1>1 DEF Sound
<1>5. Sound(P, X)
  BY <1>2, <1>3, <1>4 DEF Sound
<1> QED
  BY <1>5 DEF P

\* A new transaction.
\* A new transaction with the next number; a compound takes its expiry over from its children.
LEMMA AddedIsSound ==
  ASSUME NEW J, NEW X, NEW Y, Sound(J, X), made \in Nat, DOMAIN J \subseteq 1..made,
         X \subseteq 1..made, X \subseteq Y, Y \subseteq X \cup {New},
         NEW m, Fine(m),
         \A c \in Elements(m.children) : c \in 1..made /\ c \in DOMAIN J /\ J[c].kind # "compound",
         New \notin Y => Elements(m.children) \cap X = {}
  PROVE  /\ Sound(Add(J, m), Y)
         /\ DOMAIN Add(J, m) = DOMAIN J \cup {New}
         /\ Add(J, m)[New] = m
         /\ \A i \in DOMAIN J : i # New /\ Add(J, m)[i] = J[i]
<1> DEFINE P == Add(J, m)
<1>1. /\ DOMAIN P = DOMAIN J \cup {New} /\ P[New] = m
      /\ \A i \in DOMAIN J : i # New /\ P[i] = J[i]
      /\ New \in Nat /\ New = made + 1
  BY DEF Add, New
<1> HIDE DEF P
<1>2. \A k \in DOMAIN P : Fine(P[k])
  BY <1>1 DEF Sound
<1>3. ASSUME NEW k \in DOMAIN P, NEW c \in Elements(P[k].children)
      PROVE  c \in 1..(k - 1) /\ (c \in DOMAIN P => P[c].kind # "compound")
  <2>1. CASE k = New
    BY <1>1, <1>3, <2>1
  <2>2. CASE k \in DOMAIN J
    BY <1>1, <1>3, <2>2 DEF Sound
  <2> QED
    BY <1>1, <2>1, <2>2
<1>4. ASSUME NEW k \in DOMAIN P, P[k].kind = "compound", P[k].state = "committed", k \notin Y,
             NEW c \in Elements(P[k].children)
      PROVE  c \in DOMAIN P \ Y
  <2>1. CASE k = New
    BY <1>1, <1>4, <2>1
  <2>2. CASE k \in DOMAIN J
    <3>1. c \in DOMAIN J \ X
      BY <1>1, <1>4, <2>2 DEF Sound
    <3> QED
      BY <1>1, <3>1
  <2> QED
    BY <1>1, <2>1, <2>2
<1>5. Sound(P, Y)
  BY <1>2, <1>3, <1>4 DEF Sound
<1> QED
  BY <1>1, <1>5 DEF P

\* What Flat puts together.
LEMMA FlatIs ==
  ASSUME NEW i, NEW c, Sound(journal, expired), Made \subseteq 1..made, made \in 0..MaxMade,
         MaxMade \in Nat,
         {i, c} \subseteq Made, journal[c].kind # "compound"
  PROVE  /\ Flat(i, c) \in Seq(Id) /\ Flat(i, c) # <<>> /\ Distinct(Flat(i, c))
         /\ \A k \in Elements(Flat(i, c)) : k \in 1..made /\ (k \in Made => journal[k].kind # "compound")
<1> DEFINE first == IF journal[i].kind = "compound" THEN journal[i].children ELSE <<i>>
<1>1. Fine(journal[i]) /\ journal[i].children \in Seq(Id) /\ i \in Id /\ c \in Id
  <2>1. Fine(journal[i])
    BY DEF Sound, Made
  <2>2. journal[i].children \in Seq(Id)
    BY <2>1, FineFields
  <2>3. i \in 1..made /\ c \in 1..made
    OBVIOUS
  <2>4. i \in Id /\ c \in Id
    BY <2>3 DEF Id
  <2> QED
    BY <2>1, <2>2, <2>4
<1>2. first \in Seq(Id) /\ first # <<>> /\ Distinct(first)
  <2>1. CASE journal[i].kind = "compound"
    BY <1>1, <2>1 DEF Fine
  <2>2. CASE journal[i].kind # "compound"
    BY <1>1, <2>2 DEF Distinct
  <2> QED
    BY <2>1, <2>2
<1>3. \A k \in Elements(first) : k \in 1..made /\ (k \in Made => journal[k].kind # "compound")
  <2>1. CASE journal[i].kind = "compound"
    <3>1. first = journal[i].children
      BY <2>1
    <3>2. i \in 1..made
      OBVIOUS
    <3> HIDE DEF first
    <3> QED
      BY <3>1, <3>2 DEF Sound, Made
  <2>2. CASE journal[i].kind # "compound"
    <3>1. first = <<i>> /\ i \in 1..made
      BY <2>2
    <3>2. Elements(first) = {i}
      BY <3>1 DEF Elements
    <3> HIDE DEF first
    <3> QED
      BY <2>2, <3>1, <3>2
  <2> QED
    BY <2>1, <2>2
<1>4. Flat(i, c) = IF c \in Elements(first) THEN first ELSE Append(first, c)
  BY DEF Flat
<1> HIDE DEF first
<1>5. CASE c \in Elements(first)
  BY <1>2, <1>3, <1>4, <1>5
<1>6. CASE c \notin Elements(first)
  <2>1. /\ Append(first, c) \in Seq(Id) /\ DOMAIN Append(first, c) = DOMAIN first \cup {Len(first) + 1}
        /\ \A k \in DOMAIN first : Append(first, c)[k] = first[k]
        /\ Append(first, c)[Len(first) + 1] = c
        /\ Append(first, c) # <<>>
    BY <1>1, <1>2
  <2>2. Distinct(Append(first, c))
    BY <1>2, <1>6, <2>1 DEF Distinct, Elements
  <2>3. \A k \in Elements(Append(first, c)) : k \in Elements(first) \/ k = c
    BY <2>1 DEF Elements
  <2> QED
    BY <1>3, <1>4, <1>6, <2>1, <2>2, <2>3
<1> QED
  BY <1>5, <1>6

\* Who may be at work, and what they keep in memory.
Calls == [id : Id, plan : Plan, pc : {"preparing", "acting", "rolling_back"}, done : Nat,
          base : [Path -> Content], alien : SUBSET Path]
Captures == [id : Id, base : [Path -> Content], left : SUBSET Path,
             pc : {"running", "scanning", "joining"}]
Restores == [id : Id, queue : Seq(Id), n : Nat, cleared : BOOLEAN,
             end : {"rolled_back", "undone"}, force : BOOLEAN,
             by : {"tool", "dashboard", "call"}, alien : SUBSET Path]

\* The disk, the journal and the numbers, by themselves.
PlainFiles ==
    /\ disk \in [Path -> Content] /\ made \in 0..MaxMade /\ Made \subseteq 1..made
    /\ aged \subseteq 1..made /\ expired \subseteq 1..made
    /\ \A o \in owed : o[1] \in 1..made

Holders == /\ file = Idle    \/ (file \in Calls       /\ file.id <= made)
           /\ capture = Idle \/ (capture \in Captures /\ capture.id <= made)
           /\ restore = Idle \/ (restore \in Restores /\ restore.id <= made)

\* The transaction of a call, while it is in the journal.
CallHolds ==
    /\ file.id \in Made => /\ journal[file.id].kind = "file"
                           /\ file.pc = "preparing" => journal[file.id].state = "preparing"
                           /\ file.pc # "preparing" => journal[file.id].state = "prepared"
    /\ file.pc = "preparing" => file.id \in Made /\ journal[file.id].undoable

CaptureHolds ==
    capture.id \in Made =>
      /\ journal[capture.id].kind = "capture"
      /\ \A k \in DOMAIN journal[capture.id].snaps :
           journal[capture.id].snaps[k].path \notin capture.left

\* What a restore works on, and who may wait for it.
RestoreHolds ==
    /\ Restoring =>
        /\ restore.queue # <<>> /\ Distinct(restore.queue)
        /\ restore.id \in Made /\ Child \in Made /\ journal[Child].kind # "compound"
        /\ restore.n <= Len(journal[Child].snaps)
        /\ restore.cleared => restore.n > 0
        /\ file.pc # "preparing"
        /\ \/ /\ restore.queue = <<restore.id>>
              /\ journal[restore.id].state \in {"prepared", "committed"}
           \/ /\ journal[restore.id].kind = "compound"
              /\ journal[restore.id].state = "committed" /\ journal[Child].state = "committed"
              /\ \A j \in DOMAIN restore.queue :
                   restore.queue[j] \in Made => journal[restore.queue[j]].kind # "compound"
    /\ restore.by = "call" => /\ file.pc = "rolling_back" /\ restore.id = file.id
                              /\ restore.queue = <<restore.id>> /\ journal[file.id].undoable
    /\ restore.by = "tool" => file.id = NoId
    /\ restore.by = "dashboard" => journal[Child].state = "committed"
    /\ file.pc = "rolling_back" => restore.by = "call"

\* What is owed is in a preimage.
Owing ==
    \A o \in owed :
      \/ o[1] \notin Made /\ o[1] \in aged \cup expired
      \/ /\ o[1] \in Made
         /\ journal[o[1]].kind = "file" /\ journal[o[1]].state = "prepared" /\ journal[o[1]].undoable
         /\ \E k \in DOMAIN journal[o[1]].snaps :
              journal[o[1]].snaps[k].path = o[2] /\ journal[o[1]].snaps[k].before = o[3]

\* The preimages of a call are of its targets, and of all of them once it acts.
SavedFits ==
    file.id \in Made /\ journal[file.id].undoable =>
      /\ \A k \in DOMAIN journal[file.id].snaps :
           LET s == journal[file.id].snaps[k]
           IN  s.path \in AllTargets(file.plan) /\ (s.path \notin file.alien => s.before = file.base[s.path])
      /\ file.pc # "preparing" =>
           \A p \in AllTargets(file.plan) :
             \E k \in DOMAIN journal[file.id].snaps : journal[file.id].snaps[k].path = p

\* What differs from the beginning of the call was changed by others or is owed.
DiskFits ==
    file.id \in Made /\ journal[file.id].undoable /\ file.pc # "rolling_back" =>
      \A p \in Path \ file.alien :
        disk[p] = file.base[p] \/ \E o \in owed : o[1] = file.id /\ o[2] = p

\* What a failed call has restored so far.
RolledBack ==
    restore.by = "call" =>
      \A k \in DOMAIN journal[Child].snaps :
        LET s == journal[Child].snaps[k]
        IN  k > restore.n /\ s.path \notin file.alien => disk[s.path] = s.before

\* The preimages a restore has still to put back, by their place in its queue q, when n are left
\* of the first transaction.
Pending(J, q, n, j) == 1..(IF j = 1 THEN n ELSE Len(J[q[j]].snaps))
At(J, q, j, k)      == J[q[j]].snaps[k]
Touched(J, q, n, a, b, p) ==
    \E j \in DOMAIN q : a < j /\ j < b /\ \E k \in Pending(J, q, n, j) : At(J, q, j, k).path = p

\* The restore finds at each path what the transaction left there, and puts there what the
\* transaction before it in the compound had left.
Chained(J, d, q, n, cleared, alien) ==
    /\ \A j \in DOMAIN q : q[j] \in DOMAIN J
    /\ \A j \in DOMAIN q : \A k \in Pending(J, q, n, j) :
         /\ At(J, q, j, k).path \notin alien
         /\ ~(cleared /\ j = 1 /\ k = n)
         /\ ~Touched(J, q, n, 0, j, At(J, q, j, k).path)
         => d[At(J, q, j, k).path] = At(J, q, j, k).post
    /\ \A j \in DOMAIN q : \A l \in DOMAIN q :
         \A k \in Pending(J, q, n, j) : \A m \in Pending(J, q, n, l) :
           /\ j < l /\ At(J, q, j, k).path = At(J, q, l, m).path
           /\ ~Touched(J, q, n, j, l, At(J, q, j, k).path)
           => At(J, q, j, k).before = At(J, q, l, m).post

\* What Unchanged and Contiguous found stays true of what the undo has still to restore.
Spares ==
    restore.by = "tool" /\ ~restore.force =>
      Chained(journal, disk, restore.queue, restore.n, restore.cleared, restore.alien)

\* The inductive invariant.  What the properties say of a step (a call that was rolled back, an undo
\* that spares newer work) follows from what holds between the disk, the journal and the memory of
\* those at work all the way up to it.
FilesInv == /\ PlainFiles /\ Holders /\ Sound(journal, expired)
            /\ CallHolds /\ CaptureHolds /\ RestoreHolds
            /\ Owing /\ SavedFits /\ DiskFits /\ RolledBack /\ Spares
-----------------------------------------------------------------------------
(* Those at work *)

\* Who is at work, and what its record holds.
LEMMA HolderFields ==
  ASSUME Holders, made \in 0..MaxMade, MaxMade \in Nat
  PROVE  /\ Idle.id = NoId /\ Idle.pc = "idle" /\ Idle.by = "nobody"
         /\ file.id = NoId <=> file = Idle
         /\ file.id # NoId => file \in Calls /\ file.id \in 1..made
         /\ file.pc \in {"preparing", "acting", "rolling_back"} <=> file.id # NoId
         /\ capture.id = NoId <=> capture = Idle
         /\ capture.id # NoId => capture \in Captures /\ capture.id \in 1..made
         /\ capture.pc \in {"running", "scanning", "joining"} <=> capture.id # NoId
         /\ restore.id = NoId <=> restore = Idle
         /\ restore.id # NoId => restore \in Restores /\ restore.id \in 1..made
         /\ restore.by \in {"tool", "dashboard", "call"} <=> restore.id # NoId
<1>1. Idle.id = NoId /\ Idle.pc = "idle" /\ Idle.by = "nobody" /\ NoId = 0
  BY DEF Idle, NoId
<1>2. /\ file.id = NoId <=> file = Idle
      /\ file.id # NoId => file \in Calls /\ file.id \in 1..made
      /\ file.pc \in {"preparing", "acting", "rolling_back"} <=> file.id # NoId
  <2>1. CASE file = Idle
    BY <1>1, <2>1
  <2>2. CASE file \in Calls /\ file.id <= made
    <3>1. file.id \in 1..MaxMade /\ file.pc \in {"preparing", "acting", "rolling_back"}
      BY <2>2 DEF Calls, Id
    <3>2. file # Idle
      BY <1>1, <3>1
    <3>3. file.id \in 1..made
      BY <2>2, <3>1
    <3> QED
      BY <1>1, <2>2, <3>1, <3>2, <3>3
  <2> QED
    BY <2>1, <2>2 DEF Holders
<1>3. /\ capture.id = NoId <=> capture = Idle
      /\ capture.id # NoId => capture \in Captures /\ capture.id \in 1..made
      /\ capture.pc \in {"running", "scanning", "joining"} <=> capture.id # NoId
  <2>1. CASE capture = Idle
    BY <1>1, <2>1
  <2>2. CASE capture \in Captures /\ capture.id <= made
    <3>1. capture.id \in 1..MaxMade /\ capture.pc \in {"running", "scanning", "joining"}
      BY <2>2 DEF Captures, Id
    <3>2. capture # Idle
      BY <1>1, <3>1
    <3>3. capture.id \in 1..made
      BY <2>2, <3>1
    <3> QED
      BY <1>1, <2>2, <3>1, <3>2, <3>3
  <2> QED
    BY <2>1, <2>2 DEF Holders
<1>4. /\ restore.id = NoId <=> restore = Idle
      /\ restore.id # NoId => restore \in Restores /\ restore.id \in 1..made
      /\ restore.by \in {"tool", "dashboard", "call"} <=> restore.id # NoId
  <2>1. CASE restore = Idle
    BY <1>1, <2>1
  <2>2. CASE restore \in Restores /\ restore.id <= made
    <3>1. restore.id \in 1..MaxMade /\ restore.by \in {"tool", "dashboard", "call"}
      BY <2>2 DEF Restores, Id
    <3>2. restore # Idle
      BY <1>1, <3>1
    <3>3. restore.id \in 1..made
      BY <2>2, <3>1
    <3> QED
      BY <1>1, <2>2, <3>1, <3>2, <3>3
  <2> QED
    BY <2>1, <2>2 DEF Holders
<1> QED
  BY <1>1, <1>2, <1>3, <1>4

\* The journal is empty at first, and nobody is at work.
LEMMA FilesInitInv == FilesInit => FilesInv
<1> SUFFICES ASSUME FilesInit PROVE FilesInv
  OBVIOUS
<1>1. Idle.id = 0 /\ Idle.pc = "idle" /\ Idle.by = "nobody"
  BY DEF Idle, NoId
<1>2. DOMAIN journal = {} /\ Made = {}
  BY DEF FilesInit, Made
<1>3. PlainFiles
  <2>1. disk \in [Path -> Content]
    BY FilesAssumption DEF FilesInit, ConstantAssumption
  <2>2. made = 0 /\ made \in 0..MaxMade
    BY FilesAssumption DEF FilesInit, ConstantAssumption
  <2> QED
    BY <1>2, <2>1, <2>2 DEF FilesInit, PlainFiles
<1>4. Holders
  <2>1. file = Idle /\ capture = Idle /\ restore = Idle
    BY DEF FilesInit
  <2> QED
    BY <2>1 DEF Holders
<1>5. Sound(journal, expired)
  BY <1>2 DEF Sound
<1>6. CallHolds /\ CaptureHolds /\ SavedFits /\ DiskFits
  BY <1>1, <1>2 DEF FilesInit, CallHolds, CaptureHolds, SavedFits, DiskFits
<1>7. RestoreHolds /\ RolledBack /\ Spares
  BY <1>1 DEF FilesInit, RestoreHolds, RolledBack, Spares, Restoring, NoId
<1>8. Owing
  BY DEF FilesInit, Owing
<1> QED
  BY <1>3, <1>4, <1>5, <1>6, <1>7, <1>8 DEF FilesInv

\* The transaction of the call stays as it is.
LEMMA CallKept ==
  ASSUME FilesInv, UNCHANGED file,
         file.id \in Made' => file.id \in Made /\ journal'[file.id] = journal[file.id],
         file.pc = "preparing" => file.id \in Made'
  PROVE  /\ CallHolds' /\ SavedFits'
         /\ UNCHANGED <<disk, owed>> => DiskFits'
<1>1. CallHolds'
  BY DEF FilesInv, CallHolds
<1>2. SavedFits'
  BY DEF FilesInv, SavedFits
<1>3. UNCHANGED <<disk, owed>> => DiskFits'
  BY DEF FilesInv, DiskFits
<1> QED
  BY <1>1, <1>2, <1>3

\* Nothing is asked of a call that came to its end.
LEMMA NoCall ==
  ASSUME PlainFiles', file' = Idle
  PROVE  CallHolds' /\ SavedFits' /\ DiskFits'
<1>1. file'.id \notin Made' /\ file'.pc = "idle"
  BY DEF PlainFiles, Idle, NoId
<1> QED
  BY <1>1 DEF CallHolds, SavedFits, DiskFits

\* The transaction of the capture keeps its kind and the paths of its preimages.
LEMMA CaptureKept ==
  ASSUME FilesInv, UNCHANGED capture,
         capture.id \in Made' =>
           /\ capture.id \in Made
           /\ journal'[capture.id].kind = journal[capture.id].kind
           /\ \/ journal'[capture.id].snaps = <<>>
              \/ /\ DOMAIN journal'[capture.id].snaps = DOMAIN journal[capture.id].snaps
                 /\ \A k \in DOMAIN journal[capture.id].snaps :
                      journal'[capture.id].snaps[k].path = journal[capture.id].snaps[k].path
  PROVE  CaptureHolds'
BY DEF FilesInv, CaptureHolds

LEMMA NoCapture ==
  ASSUME PlainFiles', capture' = Idle
  PROVE  CaptureHolds'
<1>1. capture'.id \notin Made'
  BY DEF PlainFiles, Idle, NoId
<1> QED
  BY <1>1 DEF CaptureHolds

LEMMA NoRestore ==
  ASSUME restore' = Idle, file'.pc # "rolling_back"
  PROVE  RestoreHolds' /\ RolledBack' /\ Spares'
<1>1. restore'.id = NoId /\ restore'.by = "nobody"
  BY DEF Idle
<1> QED
  BY <1>1 DEF RestoreHolds, RolledBack, Spares, Restoring

\* What is open, and neither aged nor expired, stays as it is; what is gone stays away.
LEMMA OwingKept ==
  ASSUME FilesInv, owed' \subseteq owed, aged \subseteq aged', expired \subseteq expired',
         \A o \in owed' : /\ o[1] \in Made' => o[1] \in Made /\ journal'[o[1]] = journal[o[1]]
                          /\ /\ o[1] \in Made /\ o[1] \notin aged \cup expired
                             /\ journal[o[1]].state = "prepared"
                             => o[1] \in Made'
  PROVE  Owing'
BY DEF FilesInv, Owing

\* The parts of the invariant, one by one.
LEMMA FilesParts ==
  ASSUME FilesInv
  PROVE  /\ PlainFiles /\ Holders /\ Sound(journal, expired) /\ CallHolds /\ CaptureHolds
         /\ RestoreHolds /\ Owing /\ SavedFits /\ DiskFits /\ RolledBack /\ Spares
         /\ MaxMade \in Nat /\ made \in 0..MaxMade
         /\ \A i \in Made : Fine(journal[i])
<1>1. MaxMade \in Nat
  BY FilesAssumption DEF ConstantAssumption
<1>2. made \in 0..MaxMade
  BY DEF FilesInv, PlainFiles
<1>3. \A i \in Made : Fine(journal[i])
  BY DEF FilesInv, Sound, Made
<1> QED
  BY <1>1, <1>2, <1>3 DEF FilesInv

LEMMA FilesFields ==
  ASSUME FilesInv
  PROVE  /\ Idle.id = NoId /\ Idle.pc = "idle" /\ Idle.by = "nobody"
         /\ file.id = NoId <=> file = Idle
         /\ file.id # NoId => file \in Calls /\ file.id \in 1..made
         /\ file.pc \in {"preparing", "acting", "rolling_back"} <=> file.id # NoId
         /\ capture.id = NoId <=> capture = Idle
         /\ capture.id # NoId => capture \in Captures /\ capture.id \in 1..made
         /\ capture.pc \in {"running", "scanning", "joining"} <=> capture.id # NoId
         /\ restore.id = NoId <=> restore = Idle
         /\ restore.id # NoId => restore \in Restores /\ restore.id \in 1..made
         /\ restore.by \in {"tool", "dashboard", "call"} <=> restore.id # NoId
BY FilesParts, HolderFields

\* A call whose record changes in one field.
LEMMA CallFields ==
  ASSUME NEW f \in Calls, NEW v
  PROVE  /\ [f EXCEPT !.pc = v] = [id |-> f.id, plan |-> f.plan, pc |-> v, done |-> f.done,
                                   base |-> f.base, alien |-> f.alien]
         /\ [f EXCEPT !.done = @ + 1] = [id |-> f.id, plan |-> f.plan, pc |-> f.pc, done |-> f.done + 1,
                                       base |-> f.base, alien |-> f.alien]
         /\ [f EXCEPT !.alien = @ \cup v] = [id |-> f.id, plan |-> f.plan, pc |-> f.pc, done |-> f.done,
                                           base |-> f.base, alien |-> f.alien \cup v]
         /\ f.id \in Id /\ f.plan \in Plan /\ f.done \in Nat /\ f.alien \subseteq Path
         /\ f.pc \in {"preparing", "acting", "rolling_back"} /\ f.base \in [Path -> Content]
<1>1. f = [id |-> f.id, plan |-> f.plan, pc |-> f.pc, done |-> f.done,
           base |-> f.base, alien |-> f.alien]
  BY DEF Calls
<1>2. /\ f.id \in Id /\ f.plan \in Plan /\ f.done \in Nat /\ f.alien \subseteq Path
      /\ f.pc \in {"preparing", "acting", "rolling_back"} /\ f.base \in [Path -> Content]
  BY DEF Calls
<1>3. [f EXCEPT !.pc = v] = [id |-> f.id, plan |-> f.plan, pc |-> v, done |-> f.done,
                             base |-> f.base, alien |-> f.alien]
  BY <1>1
<1>4. [f EXCEPT !.done = @ + 1] = [id |-> f.id, plan |-> f.plan, pc |-> f.pc, done |-> f.done + 1,
                                 base |-> f.base, alien |-> f.alien]
  BY <1>1
<1>5. [f EXCEPT !.alien = @ \cup v] = [id |-> f.id, plan |-> f.plan, pc |-> f.pc, done |-> f.done,
                                     base |-> f.base, alien |-> f.alien \cup v]
  <2>1. PICK w : w = f.alien \cup v
    OBVIOUS
  <2>2. [f EXCEPT !.alien = @ \cup v] = [f EXCEPT !.alien = w]
    BY <2>1
  <2>3. [f EXCEPT !.alien = w] = [id |-> f.id, plan |-> f.plan, pc |-> f.pc, done |-> f.done,
                                  base |-> f.base, alien |-> w]
    BY <1>1
  <2> QED
    BY <2>1, <2>2, <2>3
<1> QED
  BY <1>2, <1>3, <1>4, <1>5

\* A capture whose record changes in one field.
LEMMA CaptureFields ==
  ASSUME NEW c \in Captures, NEW v
  PROVE  /\ [c EXCEPT !.pc = v] = [id |-> c.id, base |-> c.base, left |-> c.left, pc |-> v]
         /\ [c EXCEPT !.left = @ \ {v}] = [id |-> c.id, base |-> c.base, left |-> c.left \ {v}, pc |-> c.pc]
         /\ c.id \in Id /\ c.base \in [Path -> Content] /\ c.left \subseteq Path
         /\ c.pc \in {"running", "scanning", "joining"}
<1>1. c = [id |-> c.id, base |-> c.base, left |-> c.left, pc |-> c.pc]
  BY DEF Captures
<1>2. /\ c.id \in Id /\ c.base \in [Path -> Content] /\ c.left \subseteq Path
      /\ c.pc \in {"running", "scanning", "joining"}
  BY DEF Captures
<1>3. [c EXCEPT !.pc = v] = [id |-> c.id, base |-> c.base, left |-> c.left, pc |-> v]
  BY <1>1
<1>4. [c EXCEPT !.left = @ \ {v}] = [id |-> c.id, base |-> c.base, left |-> c.left \ {v}, pc |-> c.pc]
  BY <1>1
<1> QED
  BY <1>2, <1>3, <1>4

RestoreRecord(id, line, n, cleared, end, force, by, alien) ==
    [id |-> id, queue |-> line, n |-> n, cleared |-> cleared, end |-> end, force |-> force,
     by |-> by, alien |-> alien]

\* A restore whose record changes.
LEMMA RestoreCleared ==
  ASSUME NEW r \in Restores, NEW b
  PROVE  [r EXCEPT !.cleared = b] =
           RestoreRecord(r.id, r.queue, r.n, b, r.end, r.force, r.by, r.alien)
<1>1. r = RestoreRecord(r.id, r.queue, r.n, r.cleared, r.end, r.force, r.by, r.alien)
  BY DEF Restores, RestoreRecord
<1> QED
  BY <1>1 DEF RestoreRecord

LEMMA RestoreFields ==
  ASSUME NEW r \in Restores, NEW v, NEW w
  PROVE  /\ [r EXCEPT !.alien = @ \cup v] =
              RestoreRecord(r.id, r.queue, r.n, r.cleared, r.end, r.force, r.by, r.alien \cup v)
         /\ [r EXCEPT !.n = @ - 1] =
              RestoreRecord(r.id, r.queue, r.n - 1, r.cleared, r.end, r.force, r.by, r.alien)
         /\ [r EXCEPT !.cleared = TRUE] =
              RestoreRecord(r.id, r.queue, r.n, TRUE, r.end, r.force, r.by, r.alien)
         /\ [r EXCEPT !.n = @ - 1, !.cleared = FALSE] =
              RestoreRecord(r.id, r.queue, r.n - 1, FALSE, r.end, r.force, r.by, r.alien)
         /\ [r EXCEPT !.queue = v, !.n = w] =
              RestoreRecord(r.id, v, w, r.cleared, r.end, r.force, r.by, r.alien)
         /\ r.id \in Id /\ r.queue \in Seq(Id) /\ r.n \in Nat /\ r.cleared \in BOOLEAN
         /\ r.end \in {"rolled_back", "undone"} /\ r.force \in BOOLEAN
         /\ r.by \in {"tool", "dashboard", "call"} /\ r.alien \subseteq Path
<1>1. r = RestoreRecord(r.id, r.queue, r.n, r.cleared, r.end, r.force, r.by, r.alien)
  BY DEF Restores, RestoreRecord
<1>2. /\ r.id \in Id /\ r.queue \in Seq(Id) /\ r.n \in Nat /\ r.cleared \in BOOLEAN
      /\ r.end \in {"rolled_back", "undone"} /\ r.force \in BOOLEAN
      /\ r.by \in {"tool", "dashboard", "call"} /\ r.alien \subseteq Path
  BY DEF Restores
<1>3. [r EXCEPT !.alien = @ \cup v] =
              RestoreRecord(r.id, r.queue, r.n, r.cleared, r.end, r.force, r.by, r.alien \cup v)
  BY <1>1 DEF RestoreRecord
<1>4. [r EXCEPT !.cleared = TRUE] =
              RestoreRecord(r.id, r.queue, r.n, TRUE, r.end, r.force, r.by, r.alien)
  BY RestoreCleared
<1>5. PICK a : a = [r EXCEPT !.n = @ - 1]
  OBVIOUS
<1>6. a = RestoreRecord(r.id, r.queue, r.n - 1, r.cleared, r.end, r.force, r.by, r.alien)
  BY <1>1, <1>5 DEF RestoreRecord
<1>7. [r EXCEPT !.n = @ - 1, !.cleared = FALSE] = [a EXCEPT !.cleared = FALSE]
  BY <1>5
<1>8. [a EXCEPT !.cleared = FALSE] =
              RestoreRecord(r.id, r.queue, r.n - 1, FALSE, r.end, r.force, r.by, r.alien)
  <2>1. PICK c : c = FALSE
    OBVIOUS
  <2>2. [a EXCEPT !.cleared = c] =
              RestoreRecord(r.id, r.queue, r.n - 1, c, r.end, r.force, r.by, r.alien)
    BY <1>6 DEF RestoreRecord
  <2> QED
    BY <2>1, <2>2
<1>9. PICK b : b = [r EXCEPT !.queue = v]
  OBVIOUS
<1>10. b = RestoreRecord(r.id, v, r.n, r.cleared, r.end, r.force, r.by, r.alien)
  BY <1>1, <1>9 DEF RestoreRecord
<1>11. [r EXCEPT !.queue = v, !.n = w] = [b EXCEPT !.n = w]
  BY <1>9
<1>12. [b EXCEPT !.n = w] = RestoreRecord(r.id, v, w, r.cleared, r.end, r.force, r.by, r.alien)
  BY <1>10 DEF RestoreRecord
<1> QED
  BY <1>2, <1>3, <1>4, <1>5, <1>6, <1>7, <1>8, <1>11, <1>12

\* The actions of a plan are on paths.
LEMMA PlanTargets ==
  ASSUME NEW plan \in Plan
  PROVE  /\ plan.actions \in Seq(Act)
         /\ AllTargets(plan) \subseteq Path
         /\ \A k \in DOMAIN plan.actions : Targets(plan.actions[k]) \subseteq AllTargets(plan)
<1>1. plan.actions \in Seq(Act)
  BY FilesAssumption DEF PlanAssumption
<1>2. \A a \in Act : Targets(a) \subseteq Path
  BY DEF Act, Targets
<1>3. \A k \in DOMAIN plan.actions : plan.actions[k] \in Act
  BY <1>1
<1> QED
  BY <1>1, <1>2, <1>3 DEF AllTargets, Elements
-----------------------------------------------------------------------------
(* Steps that leave the journal as it is *)

\* Steps that leave the journal as it is.
LEMMA FilesFrame ==
  ASSUME FilesInv
  PROVE  /\ UNCHANGED <<disk, journal, made, aged, expired, owed>> => PlainFiles'
         /\ UNCHANGED <<file, capture, restore, made>> => Holders'
         /\ UNCHANGED <<journal, expired>> => Sound(journal', expired')
         /\ UNCHANGED <<journal, file, restore>> => CallHolds'
         /\ UNCHANGED <<journal, capture>> => CaptureHolds'
         /\ UNCHANGED <<journal, file, restore>> => RestoreHolds'
         /\ UNCHANGED <<journal, owed, aged, expired>> => Owing'
         /\ UNCHANGED <<journal, file>> => SavedFits'
         /\ UNCHANGED <<journal, file, disk, owed>> => DiskFits'
         /\ UNCHANGED <<journal, restore, file, disk>> => RolledBack'
         /\ UNCHANGED <<journal, restore, disk>> => Spares'
<1>1. UNCHANGED <<disk, journal, made, aged, expired, owed>> => PlainFiles'
  BY FilesParts DEF PlainFiles, Made
<1>2. UNCHANGED <<file, capture, restore, made>> => Holders'
  BY FilesParts DEF Holders
<1>3. UNCHANGED <<journal, expired>> => Sound(journal', expired')
  BY FilesParts
<1>4. UNCHANGED <<journal, file, restore>> => CallHolds'
  BY FilesParts DEF CallHolds, Made
<1>5. UNCHANGED <<journal, capture>> => CaptureHolds'
  BY FilesParts DEF CaptureHolds, Made
<1>6. UNCHANGED <<journal, file, restore>> => RestoreHolds'
  BY FilesParts DEF RestoreHolds, Restoring, Child, Made
<1>7. UNCHANGED <<journal, owed, aged, expired>> => Owing'
  BY FilesParts DEF Owing, Made
<1>8. UNCHANGED <<journal, file>> => SavedFits'
  BY FilesParts DEF SavedFits, Made
<1>9. UNCHANGED <<journal, file, disk, owed>> => DiskFits'
  BY FilesParts DEF DiskFits, Made
<1>10. UNCHANGED <<journal, restore, file, disk>> => RolledBack'
  BY FilesParts DEF RolledBack, Child
<1>11. UNCHANGED <<journal, restore, disk>> => Spares'
  BY FilesParts DEF Spares
<1> QED
  BY <1>1, <1>2, <1>3, <1>4, <1>5, <1>6, <1>7, <1>8, <1>9, <1>10, <1>11

LEMMA CallBreaksOffKeeps ==
  ASSUME FilesInv, CallBreaksOff PROVE FilesInv'
<1>1. PlainFiles'
  BY FilesParts DEF CallBreaksOff, PlainFiles, Made
<1>2. Holders' /\ Sound(journal', expired') /\ CaptureHolds' /\ Owing'
  BY FilesParts DEF CallBreaksOff, Holders, CaptureHolds, Owing, Made
<1>3. restore.by # "call" /\ file'.pc = "idle" /\ file'.id = NoId
  BY FilesParts, FilesFields DEF CallBreaksOff, RestoreHolds
<1>4. RestoreHolds'
  BY <1>3, FilesParts DEF CallBreaksOff, RestoreHolds, Restoring, Child, Made
<1>5. RolledBack' /\ Spares'
  BY <1>3, FilesParts DEF CallBreaksOff, RolledBack, Spares
<1> QED
  BY <1>1, <1>2, <1>4, <1>5, NoCall DEF CallBreaksOff, FilesInv

LEMMA CommandEndsKeeps ==
  ASSUME FilesInv, CommandEnds PROVE FilesInv'
<1>1. capture \in Captures /\ capture.id <= made
  BY FilesFields, FilesParts DEF CommandEnds
<1>2. /\ capture'.id = capture.id /\ capture'.left = capture.left /\ capture' \in Captures
  BY <1>1, CaptureFields DEF CommandEnds, Captures
<1>3. Holders' /\ CaptureHolds'
  BY <1>1, <1>2, FilesParts DEF CommandEnds, Holders, CaptureHolds, Made
<1> QED
  BY <1>3, FilesFrame DEF FilesInv, CommandEnds

LEMMA CaptureEndsKeeps ==
  ASSUME FilesInv, CaptureEnds PROVE FilesInv'
<1>1. Holders'
  BY FilesParts DEF CaptureEnds, Holders
<1> QED
  BY <1>1, NoCapture, FilesFrame DEF FilesInv, CaptureEnds

LEMMA AgesKeeps ==
  ASSUME FilesInv, NEW i \in Id, Ages(i) PROVE FilesInv'
<1>1. PlainFiles'
  BY FilesParts DEF Ages, InState, PlainFiles, Made
<1>2. Owing'
  BY FilesParts DEF Ages, Owing, Made
<1> QED
  BY <1>1, <1>2, FilesFrame DEF FilesInv, Ages

\* What expires of a compound expires with it.
LEMMA ExpiresKeeps ==
  ASSUME FilesInv, NEW i \in Id, Expires(i) PROVE FilesInv'
<1>1. PlainFiles'
  BY FilesParts DEF Expires, PlainFiles, Made
<1>2. Owing'
  BY FilesParts DEF Expires, Owing, Made
<1>4. Sound(journal', expired')
  <2>1. /\ \A k \in Made : Fine(journal[k])
        /\ \A k \in Made : \A c \in Elements(journal[k].children) :
              c \in 1..(k - 1) /\ (c \in Made => journal[c].kind # "compound")
    BY FilesParts DEF Sound, Made
  <2>2. ASSUME NEW k \in Made, journal[k].kind = "compound", journal[k].state = "committed",
               k \notin expired', NEW c \in Elements(journal[k].children)
        PROVE  c \in Made \ expired'
    <3>1. c \in Made \ expired
      BY <2>2, FilesParts DEF Expires, Sound, Made
    <3>2. ~(c <= i)
      BY <2>2 DEF Expires
    <3>3. journal[c].children = <<>>
      BY <2>1, <2>2, <3>1 DEF Fine
    <3>4. Elements(journal[c].children) = {}
      BY <3>3 DEF Elements
    <3> QED
      BY <3>1, <3>2, <3>4 DEF Expires
  <2> QED
    BY <2>1, <2>2 DEF Expires, Sound, Made
<1> QED
  BY <1>1, <1>2, <1>4, FilesFrame DEF FilesInv, Expires

LEMMA CrashKeeps ==
  ASSUME FilesInv, Crash PROVE FilesInv'
<1>1. PlainFiles' /\ Sound(journal', expired') /\ Owing' /\ Holders'
  BY FilesParts DEF Crash, PlainFiles, Made, Owing, Holders
<1>2. file'.pc # "rolling_back"
  BY DEF Crash, Idle
<1> QED
  BY <1>1, <1>2, NoCall, NoCapture, NoRestore DEF Crash, FilesInv
-----------------------------------------------------------------------------
(* Steps on the disk *)

\* No transaction has the number of none.
LEMMA NoIdIs == NoId = 0 /\ NoId \notin Id
<1>1. MaxMade \in Nat
  BY FilesAssumption DEF ConstantAssumption
<1> QED
  BY <1>1 DEF NoId, Id

\* What a call knows of a write by others.
LEMMA NotedCall ==
  ASSUME NEW f, f = Idle \/ f \in Calls, NEW P \in SUBSET Path
  PROVE  /\ Noted(f, P).id = f.id /\ Noted(f, P).pc = f.pc
         /\ f = Idle => Noted(f, P) = Idle
         /\ f \in Calls => /\ Noted(f, P) \in Calls
                           /\ Noted(f, P).plan = f.plan /\ Noted(f, P).base = f.base
                           /\ Noted(f, P).alien = f.alien \cup P
<1>1. CASE f = Idle
  <2>1. f.id = NoId /\ f \notin Calls
    <3>1. f.id = 0 /\ NoId = 0
      BY <1>1 DEF Idle, NoId
    <3>2. f \in Calls => f.id \in Id
      BY CallFields
    <3> QED
      BY <3>1, <3>2, NoIdIs
  <2>2. Noted(f, P) = f
    BY <2>1 DEF Noted
  <2> QED
    BY <1>1, <2>1, <2>2
<1>2. CASE f \in Calls
  <2>1. f.id \in Id /\ f.id # NoId
    BY <1>2, CallFields, NoIdIs
  <2>2. Noted(f, P) = [f EXCEPT !.alien = @ \cup P]
    BY <2>1 DEF Noted
  <2>3. Noted(f, P) = [id |-> f.id, plan |-> f.plan, pc |-> f.pc, done |-> f.done,
                       base |-> f.base, alien |-> f.alien \cup P]
    BY <1>2, <2>2, CallFields
  <2>4. f.alien \cup P \subseteq Path
    BY <1>2, CallFields
  <2>5. Noted(f, P) \in Calls
    BY <1>2, <2>3, <2>4, CallFields DEF Calls
  <2>6. f # Idle
    BY <2>1 DEF Idle
  <2> QED
    BY <2>3, <2>5, <2>6
<1> QED
  BY <1>1, <1>2

\* What a restore knows of a write by others.
LEMMA RestoreTyped ==
  ASSUME NEW id \in Id, NEW line \in Seq(Id), NEW n \in Nat, NEW cleared \in BOOLEAN,
         NEW end \in {"rolled_back", "undone"}, NEW force \in BOOLEAN,
         NEW by \in {"tool", "dashboard", "call"}, NEW alien \in SUBSET Path
  PROVE  RestoreRecord(id, line, n, cleared, end, force, by, alien) \in Restores
BY DEF RestoreRecord, Restores

LEMMA NotedRestore ==
  ASSUME NEW r, r = Idle \/ r \in Restores, NEW P \in SUBSET Path
  PROVE  /\ r = Idle => Noted(r, P) = Idle
         /\ r \in Restores =>
              /\ Noted(r, P) \in Restores
              /\ Noted(r, P) = RestoreRecord(r.id, r.queue, r.n, r.cleared, r.end, r.force, r.by,
                                             r.alien \cup P)
<1>1. CASE r = Idle
  <2>1. r.id = NoId /\ r \notin Restores
    <3>1. r.id = 0 /\ NoId = 0
      BY <1>1 DEF Idle, NoId
    <3>2. r \in Restores => r.id \in Id
      BY RestoreFields
    <3> QED
      BY <3>1, <3>2, NoIdIs
  <2>2. Noted(r, P) = r
    BY <2>1 DEF Noted
  <2> QED
    BY <1>1, <2>1, <2>2
<1>2. CASE r \in Restores
  <2>1. r.id \in Id /\ r.id # NoId
    BY <1>2, RestoreFields, NoIdIs
  <2>2. Noted(r, P) = [r EXCEPT !.alien = @ \cup P]
    BY <2>1 DEF Noted
  <2>3. Noted(r, P) = RestoreRecord(r.id, r.queue, r.n, r.cleared, r.end, r.force, r.by,
                                             r.alien \cup P)
    BY <1>2, <2>2, RestoreFields
  <2>4. r.alien \cup P \subseteq Path
    BY <1>2, RestoreFields
  <2>5. Noted(r, P) \in Restores
    <3>1. /\ r.id \in Id /\ r.queue \in Seq(Id) /\ r.n \in Nat /\ r.cleared \in BOOLEAN
          /\ r.end \in {"rolled_back", "undone"} /\ r.force \in BOOLEAN
          /\ r.by \in {"tool", "dashboard", "call"} /\ r.alien \cup P \in SUBSET Path
      BY <1>2, <2>4, RestoreFields
    <3>2. RestoreRecord(r.id, r.queue, r.n, r.cleared, r.end, r.force, r.by, r.alien \cup P)
            \in Restores
      BY <3>1, RestoreTyped
    <3> QED
      BY <2>3, <3>2
  <2>6. r # Idle
    BY <2>1 DEF Idle
  <2> QED
    BY <2>3, <2>5, <2>6
<1> QED
  BY <1>1, <1>2

\* A write to P by anyone but the call, as its record knows it.
LEMMA NotedWrite ==
  ASSUME FilesInv, UNCHANGED <<journal, owed, made>>, NEW P \in SUBSET Path,
         file' = Noted(file, P), \A p \in Path \ P : disk'[p] = disk[p],
         file.pc = "rolling_back" => restore'.by = "call"
  PROVE  /\ CallHolds' /\ SavedFits' /\ DiskFits'
         /\ file' = Idle \/ (file' \in Calls /\ file'.id <= made)
         /\ file'.id = file.id /\ file'.pc = file.pc
<1>1. file = Idle \/ (file \in Calls /\ file.id <= made)
  BY FilesParts DEF Holders
<1>2. CASE file = Idle
  <2>1. file' = file
    BY <1>2, NotedCall
  <2>2. file.id \notin Made
    BY <1>2, FilesParts, FilesFields DEF PlainFiles, NoId
  <2>3. Made' = Made /\ file.pc = "idle"
    BY <1>2, FilesFields DEF Made
  <2> QED
    BY <1>2, <2>1, <2>2, <2>3 DEF CallHolds, SavedFits, DiskFits
<1>3. CASE file \in Calls /\ file.id <= made
  <2>1. /\ file'.id = file.id /\ file'.pc = file.pc /\ file'.plan = file.plan
        /\ file'.base = file.base /\ file'.alien = file.alien \cup P /\ file' \in Calls
        /\ Made' = Made
    BY <1>3, NotedCall DEF Made
  <2>2. CallHolds'
    BY <2>1, FilesParts DEF CallHolds
  <2>3. SavedFits'
    BY <2>1, FilesParts DEF SavedFits
  <2>4. DiskFits'
    BY <2>1, FilesParts DEF DiskFits
  <2> QED
    BY <1>3, <2>1, <2>2, <2>3, <2>4
<1> QED
  BY <1>1, <1>2, <1>3

\* A step of the restore that leaves its place in the queue, or its place but one.
LEMMA RestoreGoesOn ==
  ASSUME FilesInv, Restoring, UNCHANGED journal,
         NEW n \in Nat, NEW cleared \in BOOLEAN, NEW alien, n <= restore.n, cleared => n > 0,
         restore' = RestoreRecord(restore.id, restore.queue, n, cleared, restore.end,
                                  restore.force, restore.by, alien),
         file'.id = file.id, file'.pc = file.pc
  PROVE  RestoreHolds'
<1>1. /\ restore'.id = restore.id /\ restore'.queue = restore.queue /\ restore'.n = n
      /\ restore'.cleared = cleared /\ restore'.by = restore.by
  BY DEF RestoreRecord
<1>2. Child' = Child /\ Made' = Made /\ Restoring'
  BY <1>1 DEF Child, Made, Restoring
<1>3. restore.n <= Len(journal[Child].snaps) => n <= Len(journal[Child].snaps)
  <2>1. Child \in Made
    BY FilesParts DEF RestoreHolds
  <2>2. Len(journal[Child].snaps) \in Nat
    BY <2>1, FilesParts, FineFields
  <2>3. restore.n \in Nat
    BY FilesFields, RestoreFields DEF Restoring
  <2> QED
    BY <2>2, <2>3
<1> QED
  BY <1>1, <1>2, <1>3, FilesParts DEF RestoreHolds

\* The preimage at which a restore stands.
LEMMA SnapIs ==
  ASSUME FilesInv, Restoring, restore.n > 0
  PROVE  /\ restore.n \in DOMAIN journal[Child].snaps
         /\ Snap = journal[Child].snaps[restore.n]
         /\ Snap.path \in Path /\ Snap.before \in Content
         /\ \A k \in DOMAIN journal[Child].snaps : journal[Child].snaps[k].path = Snap.path
                                                    => k = restore.n
         /\ DOMAIN journal[Child].snaps = 1..Len(journal[Child].snaps)
         /\ Len(journal[Child].snaps) \in Nat
         /\ restore.queue # <<>> /\ 1 \in DOMAIN restore.queue /\ Child = restore.queue[1]
         /\ restore \in Restores /\ restore.n \in Nat /\ restore.queue \in Seq(Id)
<1>1. restore \in Restores /\ restore.n \in Nat /\ restore.queue \in Seq(Id)
  BY FilesFields, RestoreFields DEF Restoring
<1>2. Child \in Made /\ restore.n <= Len(journal[Child].snaps) /\ restore.queue # <<>>
  BY FilesParts DEF RestoreHolds
<1>3. Fine(journal[Child])
  BY <1>2, FilesParts
<1>4. /\ DOMAIN journal[Child].snaps = 1..Len(journal[Child].snaps)
      /\ Len(journal[Child].snaps) \in Nat
      /\ \A k \in DOMAIN journal[Child].snaps : /\ journal[Child].snaps[k].path \in Path
                                                /\ journal[Child].snaps[k].before \in Content
  BY <1>3, FineFields
<1>5. restore.n \in DOMAIN journal[Child].snaps
  BY <1>1, <1>2, <1>4
<1>6. Snap = journal[Child].snaps[restore.n]
  BY DEF Snap
<1>7. 1 \in DOMAIN restore.queue /\ Child = restore.queue[1]
  BY <1>1, <1>2 DEF Child
<1>8. \A k \in DOMAIN journal[Child].snaps : journal[Child].snaps[k].path = Snap.path
                                                    => k = restore.n
  BY <1>3, <1>5, <1>6 DEF Fine, OncePerPath
<1> QED
  BY <1>1, <1>2, <1>4, <1>5, <1>6, <1>7, <1>8

\* A restore that stands at preimage n of the first transaction of its queue.
StandsAt(J, d, q, n) ==
    /\ q \in Seq(Id) /\ 1 \in DOMAIN q /\ n \in Nat \ {0} /\ n <= Len(J[q[1]].snaps)
    /\ \A k \in 1..n : J[q[1]].snaps[k].path = J[q[1]].snaps[n].path => k = n
    /\ \A j \in DOMAIN q : q[j] \in DOMAIN J => Fine(J[q[j]])
    /\ DOMAIN d = Path
-----------------------------------------------------------------------------
(* The chain of preimages an undo restores *)

\* What is not at the place where the restore stands.
LEMMA NotAtPlace ==
  ASSUME NEW J, NEW q \in Seq(Id), NEW n \in Nat \ {0}, 1 \in DOMAIN q,
         \A k \in 1..n : J[q[1]].snaps[k].path = J[q[1]].snaps[n].path => k = n,
         NEW j \in DOMAIN q, NEW k \in Pending(J, q, n, j),
         ~(j = 1 /\ k = n), ~Touched(J, q, n, 0, j, At(J, q, j, k).path)
  PROVE  At(J, q, j, k).path # At(J, q, 1, n).path
<1>1. CASE j = 1
  BY <1>1 DEF Pending, At
<1>2. CASE j # 1 /\ At(J, q, j, k).path = At(J, q, 1, n).path
  <2>1. 0 < 1 /\ 1 < j
    BY <1>2
  <2>2. n \in Pending(J, q, n, 1)
    BY DEF Pending
  <2> QED
    BY <1>2, <2>1, <2>2 DEF Touched
<1> QED
  BY <1>1, <1>2

\* What lies at the path of the next preimage is removed.
LEMMA ClearedStaysChained ==
  ASSUME NEW J, NEW q, NEW n, NEW d, StandsAt(J, d, q, n), NEW alien, NEW c,
         Chained(J, d, q, n, FALSE, alien),
         NEW e, e = [d EXCEPT ![J[q[1]].snaps[n].path] = c]
  PROVE  Chained(J, e, q, n, TRUE, alien)
<1>0. /\ q \in Seq(Id) /\ 1 \in DOMAIN q /\ n \in Nat \ {0} /\ n <= Len(J[q[1]].snaps)
      /\ \A k \in 1..n : J[q[1]].snaps[k].path = J[q[1]].snaps[n].path => k = n
      /\ \A j \in DOMAIN q : q[j] \in DOMAIN J => Fine(J[q[j]])
      /\ DOMAIN d = Path
  BY DEF StandsAt
<1> USE <1>0
<1> DEFINE p0 == At(J, q, 1, n).path
<1>1. \A p \in Path : p # p0 => e[p] = d[p]
  BY DEF At
<1>2. \A j \in DOMAIN q : \A k \in Pending(J, q, n, j) : At(J, q, j, k).path \in Path
  <2>1. ASSUME NEW j \in DOMAIN q, NEW k \in Pending(J, q, n, j)
        PROVE  At(J, q, j, k).path \in Path
    <3>1. Fine(J[q[j]])
      BY DEF Chained
    <3>2. Pending(J, q, n, j) \subseteq 1..Len(J[q[j]].snaps)
      BY <3>1, FineFields DEF Pending
    <3> QED
      BY <3>1, <3>2, FineFields DEF At
  <2> QED
    BY <2>1
<1> HIDE DEF p0
<1>3. ASSUME NEW j \in DOMAIN q, NEW k \in Pending(J, q, n, j), At(J, q, j, k).path \notin alien,
             ~(j = 1 /\ k = n), ~Touched(J, q, n, 0, j, At(J, q, j, k).path)
      PROVE  e[At(J, q, j, k).path] = At(J, q, j, k).post
  <2>1. At(J, q, j, k).path # p0
    BY <1>3, NotAtPlace DEF p0
  <2>2. d[At(J, q, j, k).path] = At(J, q, j, k).post
    BY <1>3 DEF Chained
  <2> QED
    BY <1>1, <1>2, <2>1, <2>2
<1> QED
  BY <1>3 DEF Chained

\* The next preimage is put back.
LEMMA PutBackStaysChained ==
  ASSUME NEW J, NEW q, NEW n, NEW d, StandsAt(J, d, q, n), NEW alien, NEW cleared,
         Chained(J, d, q, n, cleared, alien),
         NEW e, e = [d EXCEPT ![J[q[1]].snaps[n].path] = J[q[1]].snaps[n].before]
  PROVE  Chained(J, e, q, n - 1, FALSE, alien)
<1>0. /\ q \in Seq(Id) /\ 1 \in DOMAIN q /\ n \in Nat \ {0} /\ n <= Len(J[q[1]].snaps)
      /\ \A k \in 1..n : J[q[1]].snaps[k].path = J[q[1]].snaps[n].path => k = n
      /\ \A j \in DOMAIN q : q[j] \in DOMAIN J => Fine(J[q[j]])
      /\ DOMAIN d = Path
  BY DEF StandsAt
<1> USE <1>0
<1> DEFINE p0 == At(J, q, 1, n).path
<1>2. \A j \in DOMAIN q : \A k \in Pending(J, q, n, j) : At(J, q, j, k).path \in Path
  <2>1. ASSUME NEW j \in DOMAIN q, NEW k \in Pending(J, q, n, j)
        PROVE  At(J, q, j, k).path \in Path
    <3>1. Fine(J[q[j]])
      BY DEF Chained
    <3>2. Pending(J, q, n, j) \subseteq 1..Len(J[q[j]].snaps)
      BY <3>1, FineFields DEF Pending
    <3> QED
      BY <3>1, <3>2, FineFields DEF At
  <2> QED
    BY <2>1
<1>3. n \in Pending(J, q, n, 1) /\ p0 \in Path
  BY <1>2 DEF Pending
<1>1. /\ \A p \in Path : p # p0 => e[p] = d[p]
      /\ e[p0] = At(J, q, 1, n).before
  BY <1>3 DEF At
<1> HIDE DEF p0
<1>4. /\ \A j \in DOMAIN q : j # 1 => Pending(J, q, n - 1, j) = Pending(J, q, n, j)
      /\ Pending(J, q, n - 1, 1) = Pending(J, q, n, 1) \ {n}
      /\ \A k \in Pending(J, q, n, 1) : At(J, q, 1, k).path = p0 => k = n
      /\ DOMAIN q \subseteq Nat \ {0}
  BY DEF Pending, At, p0
<1>5. ASSUME NEW a \in Nat, NEW b, NEW p, a # 0 \/ p # p0
      PROVE  Touched(J, q, n - 1, a, b, p) <=> Touched(J, q, n, a, b, p)
  <2>1. ASSUME NEW j \in DOMAIN q, a < j
        PROVE  (\E k \in Pending(J, q, n, j) : At(J, q, j, k).path = p)
                 <=> (\E k \in Pending(J, q, n - 1, j) : At(J, q, j, k).path = p)
    <3>1. CASE j # 1
      BY <1>4, <3>1
    <3>2. CASE j = 1
      <4>1. a = 0
        BY <2>1, <3>2
      <4>2. p # p0
        BY <1>5, <4>1
      <4>3. \A k \in Pending(J, q, n, 1) : At(J, q, 1, k).path = p => k # n
        BY <4>2 DEF p0
      <4> QED
        BY <1>4, <3>2, <4>3
    <3> QED
      BY <3>1, <3>2
  <2> QED
    BY <2>1 DEF Touched
<1>6. ASSUME NEW j \in DOMAIN q, NEW k \in Pending(J, q, n - 1, j), At(J, q, j, k).path \notin alien,
             ~Touched(J, q, n - 1, 0, j, At(J, q, j, k).path)
      PROVE  e[At(J, q, j, k).path] = At(J, q, j, k).post
  <2>1. k \in Pending(J, q, n, j) /\ ~(j = 1 /\ k = n)
    BY <1>4
  <2>2. CASE At(J, q, j, k).path # p0
    <3>1. ~Touched(J, q, n, 0, j, At(J, q, j, k).path)
      BY <1>5, <1>6, <2>2
    <3>2. d[At(J, q, j, k).path] = At(J, q, j, k).post
      BY <1>6, <2>1, <3>1 DEF Chained
    <3> QED
      BY <1>1, <1>2, <2>1, <2>2, <3>2
  <2>3. CASE At(J, q, j, k).path = p0
    <3>1. 1 < j
      BY <1>4, <2>1, <2>3
    <3>2. ~Touched(J, q, n, 1, j, p0)
      <4>1. ~Touched(J, q, n - 1, 1, j, p0)
        <5>1. ~Touched(J, q, n - 1, 0, j, p0)
          BY <1>6, <2>3
        <5>2. \A l \in DOMAIN q : 1 < l => 0 < l
          BY <1>4
        <5> QED
          BY <5>1, <5>2 DEF Touched
      <4>2. 1 \in Nat /\ 1 # 0
        OBVIOUS
      <4>3. Touched(J, q, n - 1, 1, j, p0) <=> Touched(J, q, n, 1, j, p0)
        BY ONLY <1>5, <4>2
      <4> QED
        BY <4>1, <4>3
    <3>3. At(J, q, 1, n).before = At(J, q, j, k).post
      BY <1>3, <2>1, <2>3, <3>1, <3>2 DEF Chained, p0
    <3> QED
      BY <1>1, <2>3, <3>3
  <2> QED
    BY <2>2, <2>3
<1>7. ASSUME NEW j \in DOMAIN q, NEW l \in DOMAIN q,
             NEW k \in Pending(J, q, n - 1, j), NEW m \in Pending(J, q, n - 1, l),
             j < l, At(J, q, j, k).path = At(J, q, l, m).path,
             ~Touched(J, q, n - 1, j, l, At(J, q, j, k).path)
      PROVE  At(J, q, j, k).before = At(J, q, l, m).post
  <2>1. k \in Pending(J, q, n, j) /\ m \in Pending(J, q, n, l)
    BY <1>4
  <2>2. ~Touched(J, q, n, j, l, At(J, q, j, k).path)
    BY <1>4, <1>5, <1>7
  <2> QED
    BY <1>7, <2>1, <2>2 DEF Chained
<1> QED
  BY <1>6, <1>7 DEF Chained

\* The restore goes on with the next transaction of its queue.
LEMMA NextStaysChained ==
  ASSUME NEW J, NEW q \in Seq(Id), Distinct(q), NEW K, NEW d, NEW alien, NEW cleared,
         q # <<>>, Tail(q) # <<>>, DOMAIN K = DOMAIN J,
         \A i \in DOMAIN J : i # q[1] => K[i] = J[i],
         Chained(J, d, q, 0, cleared, alien)
  PROVE  Chained(K, d, Tail(q), Len(K[Head(Tail(q))].snaps), FALSE, alien)
<1> DEFINE r == Tail(q)
           n == Len(K[Head(Tail(q))].snaps)
<1>1. /\ r \in Seq(Id) /\ \A j \in DOMAIN r : j \in Nat \ {0} /\ j + 1 \in DOMAIN q /\ r[j] = q[j + 1]
      /\ \A j \in DOMAIN q : j \in Nat \ {0} /\ (j # 1 => j - 1 \in DOMAIN r)
      /\ Head(r) = r[1]
  OBVIOUS
<1>2. \A j \in DOMAIN r : r[j] # q[1]
  <2>1. 1 \in DOMAIN q
    OBVIOUS
  <2> QED
    BY <1>1, <2>1 DEF Distinct
<1>3. n = Len(K[r[1]].snaps)
  BY <1>1
<1> HIDE DEF r, n
<1>4. \A j \in DOMAIN r : r[j] \in DOMAIN J /\ K[r[j]] = J[q[j + 1]]
  BY <1>1, <1>2 DEF Chained
<1>5. \A j \in DOMAIN r : /\ Pending(K, r, n, j) = Pending(J, q, 0, j + 1)
                          /\ \A k : At(K, r, j, k) = At(J, q, j + 1, k)
  BY <1>1, <1>3, <1>4 DEF Pending, At
<1>6. Pending(J, q, 0, 1) = {}
  BY DEF Pending
<1>7. ASSUME NEW a \in Nat, NEW b \in Nat, NEW p
      PROVE  Touched(J, q, 0, a + 1, b + 1, p) => Touched(K, r, n, a, b, p)
  <2>1. SUFFICES ASSUME Touched(J, q, 0, a + 1, b + 1, p) PROVE Touched(K, r, n, a, b, p)
    OBVIOUS
  <2>2. PICK j \in DOMAIN q : a + 1 < j /\ j < b + 1 /\ \E k \in Pending(J, q, 0, j) : At(J, q, j, k).path = p
    BY <2>1 DEF Touched
  <2>3. j - 1 \in DOMAIN r /\ a < j - 1 /\ j - 1 < b /\ (j - 1) + 1 = j
    BY <1>1, <2>2
  <2>4. PICK k \in Pending(J, q, 0, j) : At(J, q, j, k).path = p
    BY <2>2
  <2>5. k \in Pending(K, r, n, j - 1) /\ At(K, r, j - 1, k).path = p
    BY <1>5, <2>3, <2>4
  <2> QED
    BY <2>3, <2>5 DEF Touched
<1>8. ASSUME NEW b \in Nat, NEW p
      PROVE  Touched(J, q, 0, 0, b + 1, p) => Touched(J, q, 0, 0 + 1, b + 1, p)
  BY <1>1, <1>6 DEF Touched
<1>9. ASSUME NEW j \in DOMAIN r, NEW k \in Pending(K, r, n, j), At(K, r, j, k).path \notin alien,
             ~Touched(K, r, n, 0, j, At(K, r, j, k).path)
      PROVE  d[At(K, r, j, k).path] = At(K, r, j, k).post
  <2>1. j \in Nat /\ j + 1 \in DOMAIN q /\ j + 1 # 1 /\ k \in Pending(J, q, 0, j + 1)
        /\ At(K, r, j, k) = At(J, q, j + 1, k)
    BY <1>1, <1>5
  <2>2. ~Touched(J, q, 0, 0, j + 1, At(J, q, j + 1, k).path)
    BY <1>7, <1>8, <1>9, <2>1
  <2> QED
    BY <1>9, <2>1, <2>2 DEF Chained
<1>10. ASSUME NEW j \in DOMAIN r, NEW l \in DOMAIN r,
             NEW k \in Pending(K, r, n, j), NEW m \in Pending(K, r, n, l),
             j < l, At(K, r, j, k).path = At(K, r, l, m).path,
             ~Touched(K, r, n, j, l, At(K, r, j, k).path)
      PROVE  At(K, r, j, k).before = At(K, r, l, m).post
  <2>1. /\ j \in Nat /\ l \in Nat /\ j + 1 \in DOMAIN q /\ l + 1 \in DOMAIN q /\ j + 1 < l + 1
        /\ k \in Pending(J, q, 0, j + 1) /\ m \in Pending(J, q, 0, l + 1)
        /\ At(K, r, j, k) = At(J, q, j + 1, k) /\ At(K, r, l, m) = At(J, q, l + 1, m)
    BY <1>1, <1>5, <1>10
  <2>2. ~Touched(J, q, 0, j + 1, l + 1, At(J, q, j + 1, k).path)
    BY <1>7, <1>10, <2>1
  <2> QED
    BY <1>10, <2>1, <2>2 DEF Chained
<1>11. Chained(K, d, r, n, FALSE, alien)
  BY <1>4, <1>9, <1>10 DEF Chained
<1> QED
  BY <1>11 DEF r, n

\* Others write, and the restore knows.
LEMMA AlienStaysChained ==
  ASSUME NEW J, NEW q, NEW n, NEW d, NEW e, NEW P, NEW alien, NEW cleared,
         \A p \in Path \ P : e[p] = d[p],
         \A j \in DOMAIN q : \A k \in Pending(J, q, n, j) : At(J, q, j, k).path \in Path,
         Chained(J, d, q, n, cleared, alien)
  PROVE  Chained(J, e, q, n, cleared, alien \cup P)
BY DEF Chained
-----------------------------------------------------------------------------
(* Writes *)

\* What an undo that spares newer work has still to restore.
LEMMA PendingPaths ==
  ASSUME FilesInv, Restoring, restore.by = "tool", ~restore.force
  PROVE  /\ \A j \in DOMAIN restore.queue : \A k \in Pending(journal, restore.queue, restore.n, j) :
              At(journal, restore.queue, j, k).path \in Path
         /\ \A j \in DOMAIN restore.queue : Fine(journal[restore.queue[j]])
         /\ Chained(journal, disk, restore.queue, restore.n, restore.cleared, restore.alien)
<1>1. Chained(journal, disk, restore.queue, restore.n, restore.cleared, restore.alien)
  BY FilesParts DEF Spares
<1>2. \A j \in DOMAIN restore.queue : Fine(journal[restore.queue[j]])
  BY <1>1, FilesParts DEF Chained, Made
<1>3. restore.n \in Nat /\ restore.n <= Len(journal[restore.queue[1]].snaps)
  <2>1. restore.queue \in Seq(Id) /\ restore.n \in Nat
    BY FilesFields, RestoreFields DEF Restoring
  <2>2. restore.queue # <<>> /\ restore.n <= Len(journal[Child].snaps)
    BY FilesParts DEF RestoreHolds
  <2> QED
    BY <2>1, <2>2 DEF Child
<1>4. ASSUME NEW j \in DOMAIN restore.queue, NEW k \in Pending(journal, restore.queue, restore.n, j)
      PROVE  At(journal, restore.queue, j, k).path \in Path
  <2>1. DOMAIN journal[restore.queue[j]].snaps = 1..Len(journal[restore.queue[j]].snaps)
    BY <1>2, FineFields
  <2>2. k \in DOMAIN journal[restore.queue[j]].snaps
    <3>1. Len(journal[restore.queue[j]].snaps) \in Nat
      BY <1>2, FineFields
    <3> QED
      BY <1>3, <2>1, <3>1 DEF Pending
  <2> QED
    BY <1>2, <2>2, FineFields DEF At
<1> QED
  BY <1>1, <1>2, <1>4

LEMMA OverwriteKeeps ==
  ASSUME FilesInv, NEW w \in Path \X Content, Overwrite(w) PROVE FilesInv'
<1>1. /\ w[1] \in Path /\ w[2] \in Content /\ {w[1]} \in SUBSET Path
      /\ disk' = [disk EXCEPT ![w[1]] = w[2]] /\ disk \in [Path -> Content]
      /\ UNCHANGED <<journal, made, aged, expired, capture, owed>>
      /\ file' = Noted(file, {w[1]}) /\ restore' = Noted(restore, {w[1]})
  BY FilesParts DEF Overwrite, PlainFiles
<1>2. disk' \in [Path -> Content] /\ \A p \in Path \ {w[1]} : disk'[p] = disk[p]
  BY <1>1
<1>3. PlainFiles'
  BY <1>1, <1>2, FilesParts DEF PlainFiles, Made
<1>4. /\ restore = Idle => restore' = Idle
      /\ restore # Idle => /\ restore \in Restores /\ Restoring /\ restore' \in Restores
                           /\ restore' = RestoreRecord(restore.id, restore.queue, restore.n,
                                           restore.cleared, restore.end, restore.force, restore.by,
                                           restore.alien \cup {w[1]})
  <2>1. restore # Idle => restore \in Restores /\ Restoring
    BY FilesFields DEF Restoring
  <2> QED
    BY <1>1, <2>1, NotedRestore
<1>5. file.pc = "rolling_back" => restore # Idle /\ restore.by = "call"
  <2>1. file.pc = "rolling_back" => restore.by = "call"
    BY FilesParts DEF RestoreHolds
  <2>2. restore.by = "call" => restore # Idle
    BY FilesFields
  <2> QED
    BY <2>1, <2>2
<1>6. file.pc = "rolling_back" => restore'.by = "call"
  BY <1>4, <1>5 DEF RestoreRecord
<1>7. /\ CallHolds' /\ SavedFits' /\ DiskFits'
      /\ file' = Idle \/ (file' \in Calls /\ file'.id <= made)
      /\ file'.id = file.id /\ file'.pc = file.pc
  BY <1>1, <1>2, <1>6, NotedWrite
<1>8. Holders'
  <2>1. restore' = Idle \/ (restore' \in Restores /\ restore'.id <= made')
    BY <1>1, <1>4, FilesParts DEF Holders, RestoreRecord
  <2> QED
    BY <1>1, <1>7, <2>1, FilesParts DEF Holders
<1>9. CASE restore = Idle
  <2>1. restore' = Idle /\ file'.pc # "rolling_back"
    BY <1>4, <1>5, <1>7, <1>9
  <2> QED
    BY <1>1, <1>3, <1>7, <1>8, <2>1, NoRestore, FilesFrame DEF FilesInv
<1>10. CASE restore # Idle
  <2>0. restore.n \in Nat /\ restore.cleared \in BOOLEAN /\ (restore.cleared => restore.n > 0)
    <3>1. Restoring
      BY <1>4, <1>10
    <3> QED
      BY <1>4, <1>10, <3>1, RestoreFields, FilesParts DEF RestoreHolds
  <2>1. RestoreHolds'
    <3>1. restore.n <= restore.n
      BY <2>0
    <3> QED
      BY <1>1, <1>4, <1>7, <1>10, <2>0, <3>1, RestoreGoesOn
  <2>2. /\ restore'.queue = restore.queue /\ restore'.n = restore.n /\ restore'.by = restore.by
        /\ restore'.force = restore.force /\ restore'.cleared = restore.cleared
        /\ restore'.alien = restore.alien \cup {w[1]}
    BY <1>4, <1>10 DEF RestoreRecord
  <2>3. RolledBack'
    <3>1. SUFFICES ASSUME restore'.by = "call" PROVE RolledBack'
      BY DEF RolledBack
    <3>2. Child \in Made /\ file.id # NoId
      <4>1. Restoring /\ restore.by = "call"
        BY <1>4, <1>10, <2>2, <3>1
      <4>2. file.pc = "rolling_back"
        BY <4>1, FilesParts DEF RestoreHolds
      <4> QED
        BY <4>1, <4>2, FilesFields, FilesParts DEF RestoreHolds
    <3>3. \A k \in DOMAIN journal[Child].snaps : journal[Child].snaps[k].path \in Path
      BY <3>2, FilesParts, FineFields
    <3>4. file'.alien = file.alien \cup {w[1]}
      BY <1>1, <3>2, NotedCall, FilesFields
    <3>5. Child' = Child
      BY <2>2 DEF Child
    <3> QED
      BY <1>1, <1>2, <2>2, <3>1, <3>3, <3>4, <3>5, FilesParts DEF RolledBack
  <2>4. Spares'
    <3>1. SUFFICES ASSUME restore.by = "tool", ~restore.force PROVE Spares'
      BY <2>2 DEF Spares
    <3>2. Restoring
      BY <1>4, <1>10
    <3>3. Chained(journal, disk', restore.queue, restore.n, restore.cleared,
                  restore.alien \cup {w[1]})
      BY <1>2, <3>1, <3>2, PendingPaths, AlienStaysChained
    <3> QED
      BY <1>1, <2>2, <3>3 DEF Spares
  <2> QED
    BY <1>1, <1>3, <1>7, <1>8, <2>1, <2>3, <2>4, FilesFrame DEF FilesInv
<1> QED
  BY <1>9, <1>10

LEMMA ChangeKeeps ==
  ASSUME FilesInv, Change PROVE FilesInv'
<1> DEFINE a == file.plan.actions[file.done + 1]
           first == {p \in Targets(a) \ file.alien :
                       /\ file.id \in Made /\ journal[file.id].undoable
                       /\ \A o \in owed : o[1] # file.id \/ o[2] # p}
<1>1. /\ file.pc = "acting" /\ file.done < Len(file.plan.actions)
      /\ disk' = After(a)
      /\ owed' = owed \cup {<<file.id, p, disk[p]>> : p \in first}
      /\ file' = [file EXCEPT !.done = @ + 1]
      /\ UNCHANGED <<journal, made, aged, expired, capture, restore, upsets>>
  BY DEF Change
<1>2. file \in Calls /\ file.id \in 1..made
  BY <1>1, FilesFields
<1>3. /\ file.plan \in Plan /\ file.done \in Nat /\ file.alien \subseteq Path
      /\ file.base \in [Path -> Content]
  BY <1>2, CallFields
<1>4. a \in Act /\ Targets(a) \subseteq AllTargets(file.plan) /\ AllTargets(file.plan) \subseteq Path
  <2>1. file.done + 1 \in DOMAIN file.plan.actions
    BY <1>1, <1>3, PlanTargets
  <2> QED
    BY <1>3, <2>1, PlanTargets
<1>5. disk \in [Path -> Content] /\ Absent \in Content
  BY FilesAssumption, FilesParts DEF PlainFiles, ConstantAssumption
<1>6. disk' \in [Path -> Content] /\ \A p \in Path \ Targets(a) : disk'[p] = disk[p]
  <2>1. CASE a.type = "write"
    <3>1. a.path \in Path /\ a.content \in Content
      BY <1>4, <2>1 DEF Act
    <3>2. disk' = [disk EXCEPT ![a.path] = a.content]
      BY <1>1, <2>1 DEF After
    <3> QED
      BY <1>5, <2>1, <3>1, <3>2 DEF Targets
  <2>2. CASE a.type = "delete"
    <3>1. a.path \in Path
      BY <1>4, <2>2 DEF Act
    <3>2. disk' = [disk EXCEPT ![a.path] = Absent]
      BY <1>1, <2>2 DEF After
    <3> QED
      BY <1>5, <2>2, <3>1, <3>2 DEF Targets
  <2>3. CASE a.type = "move"
    <3>1. a.path \in Path /\ a.to \in Path
      BY <1>4, <2>3 DEF Act
    <3>2. disk' = [disk EXCEPT ![a.to] = disk[a.path],
                               ![a.path] = IF a.to = a.path THEN @ ELSE Absent]
      BY <1>1, <2>3 DEF After
    <3> HIDE DEF a
    <3>3. PICK e : e = [disk EXCEPT ![a.to] = disk[a.path]]
      OBVIOUS
    <3>4. e \in [Path -> Content] /\ \A p \in Path \ {a.to} : e[p] = disk[p]
      BY <1>5, <3>1, <3>3
    <3>5. disk' = [e EXCEPT ![a.path] = IF a.to = a.path THEN @ ELSE Absent]
      BY <3>2, <3>3
    <3>6. disk' \in [Path -> Content] /\ \A p \in Path \ {a.to, a.path} : disk'[p] = disk[p]
      BY <1>5, <3>1, <3>4, <3>5
    <3> QED
      BY <2>3, <3>6 DEF Targets
  <2>4. a.type \in {"write", "delete", "move"}
    BY <1>4 DEF Act
  <2> QED
    BY <2>1, <2>2, <2>3, <2>4
<1> HIDE DEF a
<1>7. /\ file' \in Calls /\ file'.id = file.id /\ file'.pc = file.pc /\ file'.plan = file.plan
      /\ file'.base = file.base /\ file'.alien = file.alien
  <2>1. file' = [id |-> file.id, plan |-> file.plan, pc |-> file.pc, done |-> file.done + 1,
                 base |-> file.base, alien |-> file.alien]
    BY <1>1, <1>2, CallFields
  <2>2. file' \in Calls
    BY <1>2, <2>1, CallFields DEF Calls
  <2> QED
    BY <2>1, <2>2
<1>8. PlainFiles'
  <2>1. \A o \in owed' : o[1] \in 1..made
    BY <1>1, <1>2, FilesParts DEF PlainFiles
  <2> QED
    BY <1>1, <1>6, <2>1, FilesParts DEF PlainFiles, Made
<1>9. Holders'
  BY <1>1, <1>2, <1>7, FilesParts DEF Holders
<1>10. Made' = Made
  BY <1>1 DEF Made
<1>11. CallHolds' /\ RestoreHolds'
  <2>1. CallHolds'
    BY <1>1, <1>7, <1>10, FilesParts DEF CallHolds
  <2>2. Restoring' <=> Restoring
    BY <1>1 DEF Restoring
  <2>3. Child' = Child
    BY <1>1 DEF Child
  <2>4. RestoreHolds'
    BY <1>1, <1>7, <1>10, <2>2, <2>3, FilesParts DEF RestoreHolds
  <2> QED
    BY <2>1, <2>4
<1>12. SavedFits'
  BY <1>1, <1>7, <1>10, FilesParts DEF SavedFits
<1>13. DiskFits'
  <2>1. SUFFICES ASSUME file.id \in Made, journal[file.id].undoable, NEW p \in Path \ file.alien
        PROVE  disk'[p] = file.base[p] \/ \E o \in owed' : o[1] = file.id /\ o[2] = p
    BY <1>1, <1>7, <1>10 DEF DiskFits
  <2>2. disk[p] = file.base[p] \/ \E o \in owed : o[1] = file.id /\ o[2] = p
    BY <1>1, <2>1, FilesParts DEF DiskFits
  <2>3. CASE p \in first
    <3>1. <<file.id, p, disk[p]>> \in owed'
      BY <1>1, <2>3
    <3> QED
      BY <3>1
  <2>4. CASE p \notin Targets(a)
    BY <1>1, <1>6, <2>2, <2>4
  <2>5. CASE p \in Targets(a) /\ p \notin first
    BY <1>1, <2>1, <2>5
  <2> QED
    BY <2>3, <2>4, <2>5
<1>14. Owing'
  <2>1. SUFFICES ASSUME NEW o \in owed'
        PROVE  \/ o[1] \notin Made /\ o[1] \in aged \cup expired
               \/ /\ o[1] \in Made
                  /\ journal[o[1]].kind = "file" /\ journal[o[1]].state = "prepared"
                  /\ journal[o[1]].undoable
                  /\ \E k \in DOMAIN journal[o[1]].snaps :
                       journal[o[1]].snaps[k].path = o[2] /\ journal[o[1]].snaps[k].before = o[3]
    BY <1>1, <1>10 DEF Owing
  <2>2. CASE o \in owed
    BY <2>2, FilesParts DEF Owing
  <2>3. CASE o \notin owed
    <3>1. PICK p \in first : o = <<file.id, p, disk[p]>>
      BY <1>1, <2>3
    <3>2. p \in AllTargets(file.plan) /\ p \in Path \ file.alien
      BY <1>4
    <3>3. file.id \in Made /\ journal[file.id].undoable /\ ~\E o2 \in owed : o2[1] = file.id /\ o2[2] = p
      OBVIOUS
    <3>4. disk[p] = file.base[p]
      BY <1>1, <3>2, <3>3, FilesParts DEF DiskFits
    <3>5. PICK k \in DOMAIN journal[file.id].snaps : journal[file.id].snaps[k].path = p
      BY <1>1, <3>2, <3>3, FilesParts DEF SavedFits
    <3>6. journal[file.id].snaps[k].before = file.base[p]
      BY <3>2, <3>3, <3>5, FilesParts DEF SavedFits
    <3>7. journal[file.id].kind = "file" /\ journal[file.id].state = "prepared"
      BY <1>1, <3>3, FilesParts DEF CallHolds
    <3>8. o[1] = file.id /\ o[2] = p /\ o[3] = disk[p]
      BY <3>1
    <3> QED
      BY <3>3, <3>4, <3>5, <3>6, <3>7, <3>8
  <2> QED
    BY <2>2, <2>3
<1>15. RolledBack' /\ Spares'
  <2>1. restore.by # "call" /\ restore.by # "tool"
    BY <1>1, <1>2, FilesParts, FilesFields DEF RestoreHolds
  <2> QED
    BY <1>1, <2>1 DEF RolledBack, Spares
<1> QED
  BY <1>1, <1>8, <1>9, <1>11, <1>12, <1>13, <1>14, <1>15, FilesFrame DEF FilesInv

\* A step of the restore on the disk: n places are left, the path of the preimage holds c.
LEMMA RestoreStep ==
  ASSUME FilesInv, Restoring, restore.n > 0, NEW c \in Content, NEW n \in Nat,
         NEW cleared \in BOOLEAN, n <= restore.n, cleared => n > 0,
         disk' = [disk EXCEPT ![Snap.path] = c],
         restore' = RestoreRecord(restore.id, restore.queue, n, cleared, restore.end,
                                  restore.force, restore.by, restore.alien),
         file' = IF restore.by = "call" THEN file ELSE Noted(file, {Snap.path}),
         UNCHANGED <<journal, made, aged, expired, capture, owed>>,
         n = restore.n \/ (n = restore.n - 1 /\ c = Snap.before),
         Spares'
  PROVE  FilesInv'
<1>1. /\ restore \in Restores /\ restore.id \in Id /\ restore.queue \in Seq(Id) /\ restore.n \in Nat
      /\ restore.end \in {"rolled_back", "undone"} /\ restore.force \in BOOLEAN
      /\ restore.by \in {"tool", "dashboard", "call"} /\ restore.alien \in SUBSET Path
  BY FilesFields, RestoreFields DEF Restoring
<1>2. restore' \in Restores /\ restore'.id = restore.id /\ restore'.by = restore.by
      /\ restore'.n = n /\ restore'.queue = restore.queue
  BY <1>1, RestoreTyped DEF RestoreRecord
<1>3. Snap.path \in Path /\ {Snap.path} \in SUBSET Path
  BY SnapIs
<1>4. disk' \in [Path -> Content] /\ \A p \in Path \ {Snap.path} : disk'[p] = disk[p]
      /\ disk'[Snap.path] = c
  BY <1>3, FilesParts DEF PlainFiles
<1>5. PlainFiles'
  BY <1>4, FilesParts DEF PlainFiles, Made
<1>6. /\ CallHolds' /\ SavedFits' /\ DiskFits'
      /\ file' = Idle \/ (file' \in Calls /\ file'.id <= made)
      /\ file'.id = file.id /\ file'.pc = file.pc
  <2>1. CASE restore.by = "call"
    <3>1. file' = file /\ file.pc = "rolling_back" /\ Made' = Made
      BY <2>1, FilesParts DEF RestoreHolds, Made
    <3>2. DiskFits'
      BY <3>1 DEF DiskFits
    <3> QED
      BY <1>2, <2>1, <3>1, <3>2, FilesFrame, FilesParts DEF CallHolds, Holders
  <2>2. CASE restore.by # "call"
    <3>1. file' = Noted(file, {Snap.path}) /\ file.pc # "rolling_back"
      BY <2>2, FilesParts DEF RestoreHolds
    <3> QED
      BY <1>3, <1>4, <3>1, NotedWrite
  <2> QED
    BY <2>1, <2>2
<1>7. Holders'
  BY <1>2, <1>6, FilesParts, FilesFields DEF Holders, Restoring
<1>8. RestoreHolds'
  <2>1. n = restore.n \/ n = restore.n - 1
    OBVIOUS
  <2> QED
    BY <1>6, RestoreGoesOn
<1>9. RolledBack'
  <2>1. SUFFICES ASSUME restore.by = "call" PROVE RolledBack'
    BY <1>2 DEF RolledBack
  <2>2. file' = file /\ Child' = Child
    BY <1>2, <2>1 DEF Child
  <2>3. \A k \in DOMAIN journal[Child].snaps : journal[Child].snaps[k].path \in Path
    <3>1. Child \in Made
      BY FilesParts DEF RestoreHolds
    <3> QED
      BY <3>1, FilesParts, FineFields
  <2>4. ASSUME NEW k \in DOMAIN journal[Child].snaps, k > n,
               journal[Child].snaps[k].path \notin file.alien
        PROVE  disk'[journal[Child].snaps[k].path] = journal[Child].snaps[k].before
    <3>1. k \in Nat
      BY SnapIs
    <3>2. CASE k = restore.n
      BY <1>1, <1>4, <2>4, <3>1, <3>2, SnapIs
    <3>3. CASE k # restore.n
      <4>1. k > restore.n
        BY <1>1, <2>4, <3>1, <3>3
      <4>2. journal[Child].snaps[k].path # Snap.path
        BY <3>3, SnapIs
      <4> QED
        BY <1>4, <2>1, <2>3, <2>4, <4>1, <4>2, FilesParts DEF RolledBack
    <3> QED
      BY <3>2, <3>3
  <2> QED
    BY <1>2, <2>2, <2>4 DEF RolledBack
<1> QED
  BY <1>5, <1>6, <1>7, <1>8, <1>9, FilesFrame DEF FilesInv

LEMMA ClearKeeps ==
  ASSUME FilesInv, Clear PROVE FilesInv'
<1>1. /\ Restoring /\ restore.n > 0 /\ ~restore.cleared
      /\ disk' = [disk EXCEPT ![Snap.path] = Absent]
      /\ Snap.before = Absent => restore' = [restore EXCEPT !.n = @ - 1]
      /\ Snap.before # Absent => restore' = [restore EXCEPT !.cleared = TRUE]
      /\ file' = IF restore.by = "call" THEN file ELSE Noted(file, {Snap.path})
      /\ UNCHANGED <<journal, made, aged, expired, capture, upsets, owed>>
  BY DEF Clear
<1>2. Absent \in Content
  BY FilesAssumption DEF ConstantAssumption
<1>3. restore \in Restores /\ restore.cleared \in BOOLEAN /\ restore.n \in Nat
  BY <1>1, FilesFields, RestoreFields DEF Restoring
<1>a. restore.cleared = FALSE
  BY <1>1, <1>3
<1>4. CASE Snap.before = Absent
  <2>1. restore' = RestoreRecord(restore.id, restore.queue, restore.n - 1, FALSE, restore.end,
                                 restore.force, restore.by, restore.alien)
    BY <1>1, <1>3, <1>4, <1>a, RestoreFields
  <2>2. Spares'
    <3>1. SUFFICES ASSUME restore.by = "tool", ~restore.force PROVE Spares'
      BY <2>1 DEF Spares, RestoreRecord
    <3>2. Chained(journal, disk', restore.queue, restore.n - 1, FALSE, restore.alien)
      <4>1. /\ restore.queue \in Seq(Id) /\ restore.n \in Nat \ {0} /\ 1 \in DOMAIN restore.queue
            /\ restore.queue[1] = Child /\ restore.n \in 1..Len(journal[Child].snaps)
            /\ \A k \in 1..restore.n : journal[Child].snaps[k].path = journal[Child].snaps[restore.n].path
                                         => k = restore.n
            /\ Snap = journal[Child].snaps[restore.n]
        BY <1>1, SnapIs
      <4>2. /\ DOMAIN disk = Path
            /\ Chained(journal, disk, restore.queue, restore.n, restore.cleared, restore.alien)
            /\ \A j \in DOMAIN restore.queue : Fine(journal[restore.queue[j]])
        BY <1>1, <3>1, PendingPaths, FilesParts DEF PlainFiles
      <4>3. disk' = [disk EXCEPT ![journal[restore.queue[1]].snaps[restore.n].path] =
                                    journal[restore.queue[1]].snaps[restore.n].before]
        BY <1>1, <1>4, <4>1
      <4>4. StandsAt(journal, disk, restore.queue, restore.n)
        BY <4>1, <4>2 DEF StandsAt
      <4> QED
        BY <4>1, <4>2, <4>3, <4>4, PutBackStaysChained
    <3> QED
      BY <1>1, <2>1, <3>2 DEF Spares, RestoreRecord
  <2>3. restore.n - 1 \in Nat /\ restore.n - 1 <= restore.n
    BY <1>1, <1>3
  <2> QED
    BY <1>1, <1>2, <1>4, <2>1, <2>2, <2>3, RestoreStep
<1>5. CASE Snap.before # Absent
  <2>1. restore' = RestoreRecord(restore.id, restore.queue, restore.n, TRUE, restore.end,
                                 restore.force, restore.by, restore.alien)
    BY <1>1, <1>3, <1>5, RestoreFields
  <2>2. Spares'
    <3>1. SUFFICES ASSUME restore.by = "tool", ~restore.force PROVE Spares'
      BY <2>1 DEF Spares, RestoreRecord
    <3>2. Chained(journal, disk', restore.queue, restore.n, TRUE, restore.alien)
      <4>1. /\ restore.queue \in Seq(Id) /\ restore.n \in Nat \ {0} /\ 1 \in DOMAIN restore.queue
            /\ restore.queue[1] = Child /\ restore.n \in 1..Len(journal[Child].snaps)
            /\ \A k \in 1..restore.n : journal[Child].snaps[k].path = journal[Child].snaps[restore.n].path
                                         => k = restore.n
            /\ Snap = journal[Child].snaps[restore.n]
        BY <1>1, SnapIs
      <4>2. /\ DOMAIN disk = Path
            /\ Chained(journal, disk, restore.queue, restore.n, FALSE, restore.alien)
            /\ \A j \in DOMAIN restore.queue : Fine(journal[restore.queue[j]])
        BY <1>1, <1>a, <3>1, PendingPaths, FilesParts DEF PlainFiles
      <4>3. disk' = [disk EXCEPT ![journal[restore.queue[1]].snaps[restore.n].path] = Absent]
        BY <1>1, <4>1
      <4>4. StandsAt(journal, disk, restore.queue, restore.n)
        BY <4>1, <4>2 DEF StandsAt
      <4> QED
        BY <4>1, <4>2, <4>3, <4>4, ClearedStaysChained
    <3> QED
      BY <1>1, <2>1, <3>2 DEF Spares, RestoreRecord
  <2>3. restore.n \in Nat /\ restore.n <= restore.n /\ TRUE \in BOOLEAN
    BY <1>3
  <2> QED
    BY <1>1, <1>2, <2>1, <2>2, <2>3, RestoreStep
<1> QED
  BY <1>4, <1>5

LEMMA PutBackKeeps ==
  ASSUME FilesInv, PutBack PROVE FilesInv'
<1>1. /\ Restoring /\ restore.n > 0 /\ restore.cleared
      /\ disk' = [disk EXCEPT ![Snap.path] = Snap.before]
      /\ restore' = [restore EXCEPT !.n = @ - 1, !.cleared = FALSE]
      /\ file' = IF restore.by = "call" THEN file ELSE Noted(file, {Snap.path})
      /\ UNCHANGED <<journal, made, aged, expired, capture, upsets, owed>>
  BY DEF PutBack
<1>2. Snap.before \in Content
  BY <1>1, SnapIs
<1>3. restore \in Restores /\ restore.n \in Nat
  BY <1>1, FilesFields, RestoreFields DEF Restoring
<1>4. restore' = RestoreRecord(restore.id, restore.queue, restore.n - 1, FALSE, restore.end,
                               restore.force, restore.by, restore.alien)
  BY <1>1, <1>3, RestoreFields
<1>5. Spares'
  <2>1. SUFFICES ASSUME restore.by = "tool", ~restore.force PROVE Spares'
    BY <1>4 DEF Spares, RestoreRecord
  <2>2. Chained(journal, disk', restore.queue, restore.n - 1, FALSE, restore.alien)
    <3>1. /\ restore.queue \in Seq(Id) /\ restore.n \in Nat \ {0} /\ 1 \in DOMAIN restore.queue
          /\ restore.queue[1] = Child /\ restore.n \in 1..Len(journal[Child].snaps)
          /\ \A k \in 1..restore.n : journal[Child].snaps[k].path = journal[Child].snaps[restore.n].path
                                       => k = restore.n
          /\ Snap = journal[Child].snaps[restore.n]
      BY <1>1, SnapIs
    <3>2. /\ DOMAIN disk = Path
          /\ Chained(journal, disk, restore.queue, restore.n, restore.cleared, restore.alien)
          /\ \A j \in DOMAIN restore.queue : Fine(journal[restore.queue[j]])
      BY <1>1, <2>1, PendingPaths, FilesParts DEF PlainFiles
    <3>3. disk' = [disk EXCEPT ![journal[restore.queue[1]].snaps[restore.n].path] =
                                  journal[restore.queue[1]].snaps[restore.n].before]
      BY <1>1, <3>1
    <3>4. StandsAt(journal, disk, restore.queue, restore.n)
      BY <3>1, <3>2 DEF StandsAt
    <3> QED
      BY <3>1, <3>2, <3>3, <3>4, PutBackStaysChained
  <2> QED
    BY <1>1, <1>4, <2>2 DEF Spares, RestoreRecord
<1>6. restore.n - 1 \in Nat /\ restore.n - 1 <= restore.n /\ FALSE \in BOOLEAN
  BY <1>1, <1>3
<1> QED
  BY <1>1, <1>2, <1>4, <1>5, <1>6, RestoreStep
-----------------------------------------------------------------------------
(* Steps of a call *)

\* Another manifest for a transaction of the journal.
LEMMA Rewritten ==
  ASSUME FilesInv, NEW i \in Made, NEW m, Fine(m), UNCHANGED expired,
         m.kind = journal[i].kind, m.children = journal[i].children,
         m.state = "committed" => journal[i].state = "committed" \/ m.kind # "compound",
         journal' = [journal EXCEPT ![i] = m]
  PROVE  /\ Sound(journal', expired') /\ Made' = Made /\ journal'[i] = m
         /\ \A k \in Made : k # i => journal'[k] = journal[k]
<1>1. Sound(journal', expired')
  BY FilesParts, RewrittenIsSound DEF Made
<1> QED
  BY <1>1 DEF Made

\* The journal after a prune.
LEMMA PrunedJournal ==
  ASSUME FilesInv, UNCHANGED expired, NEW e, journal' = Pruned(journal, e)
  PROVE  /\ Sound(journal', expired') /\ Made' \subseteq Made
         /\ \A k \in Made' : journal'[k] = journal[k]
         /\ \A k \in Made : /\ k \notin aged \cup expired /\ journal[k].state = "prepared"
                            => k \in Made'
<1>1. Sound(journal', expired')
  BY FilesParts, PrunedIsSound
<1> QED
  BY <1>1, PrunedIs DEF Made

\* When the journal is free nobody restores and no call prepares.
LEMMA FreeJournal ==
  ASSUME FilesInv, JournalFree
  PROVE  restore = Idle /\ file.pc # "preparing" /\ file.pc # "rolling_back"
<1>1. restore.id = NoId /\ restore = Idle /\ file.pc # "preparing"
  BY FilesFields DEF JournalFree
<1> QED
  BY <1>1, FilesParts, FilesFields DEF RestoreHolds

LEMMA PruneKeeps ==
  ASSUME FilesInv, Prune PROVE FilesInv'
<1>1. /\ journal' = Pruned(journal, NoId) /\ restore = Idle
      /\ file.pc # "preparing" /\ file.pc # "rolling_back"
      /\ UNCHANGED <<disk, made, aged, expired, file, capture, restore, upsets, owed>>
  BY FreeJournal DEF Prune
<1>2. /\ Sound(journal', expired') /\ Made' \subseteq Made
      /\ \A k \in Made' : journal'[k] = journal[k]
      /\ \A k \in Made : /\ k \notin aged \cup expired /\ journal[k].state = "prepared"
                         => k \in Made'
  BY <1>1, PrunedJournal
<1>3. PlainFiles'
  BY <1>1, <1>2, FilesParts DEF PlainFiles
<1>4. CaptureHolds'
  BY <1>1, <1>2, CaptureKept
<1>5. Owing'
  BY <1>1, <1>2, OwingKept
<1>6. CallHolds' /\ SavedFits' /\ DiskFits'
  BY <1>1, <1>2, CallKept
<1> QED
  BY <1>1, <1>2, <1>3, <1>4, <1>5, <1>6, NoRestore, FilesFrame DEF FilesInv

\* The journal pruned and a new transaction added, as every prepare begins.
LEMMA AddedJournal ==
  ASSUME FilesInv, UNCHANGED <<aged, expired, disk, owed>>, JournalFree, made < MaxMade, made' = New,
         NEW m, Fine(m), m.kind # "compound", journal' = Add(Pruned(journal, NoId), m)
  PROVE  /\ Sound(journal', expired') /\ PlainFiles' /\ Owing'
         /\ New \in Id /\ New \in Made' /\ journal'[New] = m /\ New = made + 1
         /\ Made' \subseteq Made \cup {New} /\ \A k \in Made' : k # New => journal'[k] = journal[k]
<1> DEFINE J == Pruned(journal, NoId)
<1>1. /\ Sound(J, expired) /\ DOMAIN J \subseteq Made /\ \A k \in DOMAIN J : J[k] = journal[k]
      /\ \A k \in Made : /\ k \notin aged \cup expired /\ journal[k].state = "prepared"
                         => k \in DOMAIN J
  BY FilesParts, PrunedIs, PrunedIsSound DEF Made
<1>2. /\ made \in Nat /\ Made \subseteq 1..made /\ expired \subseteq 1..made
      /\ made \in 0..MaxMade /\ MaxMade \in Nat
  BY FilesParts DEF PlainFiles
<1>3. m.children = <<>> /\ Elements(m.children) = {}
  BY DEF Fine, Elements
<1> HIDE DEF J
<1>4. /\ Sound(Add(J, m), expired)
      /\ DOMAIN Add(J, m) = DOMAIN J \cup {New}
      /\ Add(J, m)[New] = m
      /\ \A i \in DOMAIN J : i # New /\ Add(J, m)[i] = J[i]
  <2>1. /\ DOMAIN J \subseteq 1..made /\ expired \subseteq expired
        /\ expired \subseteq expired \cup {New}
    BY <1>1, <1>2
  <2>2. /\ \A c \in Elements(m.children) : c \in 1..made /\ c \in DOMAIN J /\ J[c].kind # "compound"
        /\ Elements(m.children) \cap expired = {}
    BY <1>3
  <2>3. Sound(J, expired) /\ made \in Nat /\ expired \subseteq 1..made
    BY <1>1, <1>2
  <2>4. Sound(Add(J, m), expired)
    BY ONLY Fine(m), <2>1, <2>2, <2>3, AddedIsSound
  <2>5. New \notin DOMAIN J
    BY <1>2, <2>1 DEF New
  <2> QED
    BY <2>4, <2>5 DEF Add
<1>5. /\ Made' = DOMAIN J \cup {New} /\ journal'[New] = m
      /\ \A k \in DOMAIN J : journal'[k] = journal[k] /\ k # New
  BY <1>1, <1>4 DEF Made, J
<1>6. New = made + 1 /\ New \in Id
  BY <1>2 DEF New, Id
<1>7. PlainFiles'
  <2>1. 1..made \subseteq 1..New /\ New \in 1..New /\ New \in 0..MaxMade
    BY <1>2, <1>6
  <2>2. Made' \subseteq 1..New
    BY <1>1, <1>2, <1>5, <2>1
  <2> QED
    BY <2>1, <2>2, FilesParts DEF PlainFiles
<1>8. Owing'
  <2>1. \A o \in owed : o[1] \in 1..made /\ o[1] # New
    BY <1>2, <1>6, FilesParts DEF PlainFiles
  <2>2. \A o \in owed : o[1] \in Made' => o[1] \in Made /\ journal'[o[1]] = journal[o[1]]
    BY <1>1, <1>5, <2>1
  <2>3. \A o \in owed : /\ o[1] \in Made /\ o[1] \notin aged \cup expired
                        /\ journal[o[1]].state = "prepared"
                        => o[1] \in Made'
    BY <1>1, <1>5
  <2> QED
    BY <2>2, <2>3, OwingKept
<1> QED
  BY <1>1, <1>4, <1>5, <1>6, <1>7, <1>8 DEF J

LEMMA BeginKeeps ==
  ASSUME FilesInv, NEW plan \in Plan, Begin(plan) PROVE FilesInv'
<1> DEFINE op == [id |-> New, plan |-> plan, pc |-> "preparing", done |-> 0,
                  base |-> disk, alien |-> {}]
           act == [id |-> New, plan |-> plan, pc |-> "acting", done |-> 0,
                   base |-> disk, alien |-> {}]
           J  == Pruned(journal, NoId)
           m1 == Open("file", "preparing")
           m2 == Aborted(Open("file", "preparing"))
           m3 == [Open("file", "prepared") EXCEPT !.undoable = FALSE]
<1>1. /\ made < MaxMade /\ FileFree /\ JournalFree /\ made' = New
      /\ UNCHANGED <<disk, aged, expired, capture, restore, upsets, owed>>
      /\ \/ journal' = Add(J, m1) /\ file' = op
         \/ journal' = Add(J, m2) /\ UNCHANGED file
         \/ journal' = Add(J, m3) /\ file' = [op EXCEPT !.pc = "acting"]
  BY Zenon DEF Begin
<1>2. [op EXCEPT !.pc = "acting"] = act
  OBVIOUS
<1>3. /\ Fine(m1) /\ m1.kind = "file" /\ m1.state = "preparing" /\ m1.undoable = TRUE /\ m1.snaps = <<>>
      /\ Fine(m2) /\ m2.kind = "file"
      /\ Fine(m3) /\ m3.kind = "file" /\ m3.state = "prepared" /\ m3.undoable = FALSE
  <2>1. /\ Fine(m1) /\ m1.kind = "file" /\ m1.state = "preparing" /\ m1.undoable = TRUE
        /\ m1.snaps = <<>>
    BY OpenIsFine DEF Open
  <2>2. Fine(m2) /\ m2.kind = "file"
    BY <2>1, AbortedIsFine
  <2>3. Fine(m3)
    BY OpenIsFine
  <2>4. m3.kind = "file" /\ m3.state = "prepared" /\ m3.undoable = FALSE
    BY DEF Open
  <2> QED
    BY <2>1, <2>2, <2>3, <2>4
<1>4. restore = Idle /\ file = Idle /\ file.pc = "idle"
  BY <1>1, FreeJournal, FilesFields DEF FileFree
<1>5. op \in Calls /\ act \in Calls
  <2>1. New \in Id /\ disk \in [Path -> Content]
    BY <1>1, FilesParts DEF New, Id, PlainFiles
  <2> QED
    BY <2>1 DEF Calls
<1>6. op.id = New /\ op.pc = "preparing" /\ op.base = disk /\ act.id = New /\ act.pc = "acting"
  OBVIOUS
<1> HIDE DEF op, act, J, m1, m2, m3
<1>7. \E m \in {m1, m2, m3} : journal' = Add(J, m)
  BY <1>1
<1>8. /\ Sound(journal', expired') /\ PlainFiles' /\ Owing'
      /\ New \in Id /\ New \in Made' /\ New = made + 1
      /\ Made' \subseteq Made \cup {New} /\ \A k \in Made' : k # New => journal'[k] = journal[k]
  BY <1>1, <1>3, <1>7, AddedJournal DEF J
<1>9. \A m \in {m1, m2, m3} : journal' = Add(J, m) => journal'[New] = m
  BY <1>1, <1>3, AddedJournal DEF J
<1>10. CaptureHolds'
  <2>1. capture.id # New
    BY <1>8, FilesFields, FilesParts DEF NoId
  <2> QED
    BY <1>1, <1>8, <2>1, CaptureKept
<1>11. file' = Idle \/ (file' \in Calls /\ file'.id = New)
  BY <1>1, <1>2, <1>4, <1>5, <1>6
<1>12. Holders'
  <2>1. \A i : i <= made => i <= made' \/ i \notin 0..made
    BY <1>1, <1>8, FilesParts
  <2>2. capture' = Idle \/ (capture' \in Captures /\ capture'.id <= made')
    BY <1>1, <1>8, FilesParts, FilesFields
  <2>3. file' = Idle \/ (file' \in Calls /\ file'.id <= made')
    BY <1>1, <1>8, <1>11, FilesParts
  <2> QED
    BY <1>1, <1>4, <2>2, <2>3 DEF Holders
<1>13. CASE journal' = Add(J, m1) /\ file' = op
  <2>1. /\ file'.id = New /\ file'.pc = "preparing" /\ file'.base = disk /\ journal'[New] = m1
        /\ DOMAIN m1.snaps = {}
    BY <1>3, <1>6, <1>9, <1>13
  <2>2. CallHolds'
    BY <1>3, <1>8, <2>1 DEF CallHolds
  <2>3. SavedFits' /\ DiskFits'
    BY <1>1, <2>1 DEF SavedFits, DiskFits
  <2> QED
    BY <1>1, <1>4, <1>8, <1>10, <1>12, <2>1, <2>2, <2>3, NoRestore DEF FilesInv
<1>14. CASE journal' = Add(J, m2) /\ UNCHANGED file
  <2>1. CallHolds' /\ SavedFits' /\ DiskFits'
    BY <1>4, <1>8, <1>14, NoCall
  <2> QED
    BY <1>1, <1>4, <1>8, <1>10, <1>12, <1>14, <2>1, NoRestore DEF FilesInv
<1>15. CASE journal' = Add(J, m3) /\ file' = act
  <2>1. /\ file'.id = New /\ file'.pc = "acting" /\ journal'[New] = m3
    BY <1>3, <1>6, <1>9, <1>15
  <2>2. CallHolds'
    BY <1>3, <1>8, <2>1 DEF CallHolds
  <2>3. SavedFits' /\ DiskFits'
    BY <1>3, <2>1 DEF SavedFits, DiskFits
  <2> QED
    BY <1>1, <1>4, <1>8, <1>10, <1>12, <2>1, <2>2, <2>3, NoRestore DEF FilesInv
<1> QED
  BY <1>1, <1>2, <1>13, <1>14, <1>15

\* While a call prepares nobody restores, and its transaction is open.
LEMMA Preparing ==
  ASSUME FilesInv, file.pc = "preparing"
  PROVE  /\ file \in Calls /\ file.id \in 1..made /\ file.plan \in Plan
         /\ restore = Idle
         /\ file.id \in Made /\ Fine(journal[file.id]) /\ journal[file.id].kind = "file"
         /\ journal[file.id].state = "preparing" /\ journal[file.id].undoable
         /\ journal[file.id].undoable = TRUE
         /\ capture.id # file.id \/ capture.id \notin Made
         /\ \A o \in owed : o[1] # file.id
<1>1. file \in Calls /\ file.id \in 1..made /\ file.plan \in Plan
  <2>1. file \in Calls /\ file.id \in 1..made
    BY FilesFields
  <2> QED
    BY <2>1, CallFields
<1>2. restore = Idle
  BY FilesParts, FilesFields DEF RestoreHolds, Restoring
<1>3. /\ file.id \in Made /\ journal[file.id].kind = "file"
      /\ journal[file.id].state = "preparing" /\ journal[file.id].undoable
  BY FilesParts DEF CallHolds
<1>4. Fine(journal[file.id])
  BY <1>3, FilesParts
<1>5. capture.id # file.id \/ capture.id \notin Made
  BY <1>3, FilesParts DEF CaptureHolds
<1>6. \A o \in owed : o[1] # file.id
  BY <1>3, FilesParts DEF Owing
<1>7. journal[file.id].undoable = TRUE
  BY <1>3, <1>4, FineFields
<1> QED
  BY <1>1, <1>2, <1>3, <1>4, <1>5, <1>6, <1>7

\* Another manifest for the transaction of the call alone.
LEMMA OthersKept ==
  ASSUME FilesInv, restore = Idle, UNCHANGED <<disk, made, aged, expired, capture, restore>>,
         owed' \subseteq owed,
         NEW i \in Made, Made' = Made, \A k \in Made : k # i => journal'[k] = journal[k],
         \A o \in owed' : o[1] # i, file'.pc # "rolling_back",
         capture.id # i \/ capture.id \notin Made
  PROVE  PlainFiles' /\ CaptureHolds' /\ Owing' /\ RestoreHolds' /\ RolledBack' /\ Spares'
<1>1. PlainFiles'
  BY FilesParts DEF PlainFiles
<1>2. CaptureHolds'
  BY CaptureKept
<1>3. Owing'
  BY OwingKept
<1>4. RestoreHolds' /\ RolledBack' /\ Spares'
  BY NoRestore
<1> QED
  BY <1>1, <1>2, <1>3, <1>4

LEMMA SavePreimageKeeps ==
  ASSUME FilesInv, SavePreimage PROVE FilesInv'
<1> DEFINE m == journal[file.id]
<1>1. PICK path \in AllTargets(file.plan) :
        /\ path \notin Saved
        /\ journal' = [journal EXCEPT ![file.id] =
             [m EXCEPT !.snaps = Append(@, [path |-> path, before |-> disk[path], post |-> "unknown"])]]
  BY DEF SavePreimage, ComesNext
<1>2. /\ file.pc = "preparing"
      /\ UNCHANGED <<disk, made, aged, expired, file, capture, restore, upsets, owed>>
  BY DEF SavePreimage
<1>3. /\ file \in Calls /\ file.id \in 1..made /\ file.plan \in Plan
      /\ restore = Idle
      /\ file.id \in Made /\ Fine(m) /\ m.kind = "file"
      /\ m.state = "preparing" /\ m.undoable
      /\ capture.id # file.id \/ capture.id \notin Made
      /\ \A o \in owed : o[1] # file.id
  BY <1>2, Preparing
<1> DEFINE e == [path |-> path, before |-> disk[path], post |-> "unknown"]
           w == [m EXCEPT !.snaps = Append(@, e)]
<1>4. e \in SnapshotEntry /\ e.path = path /\ e.before = disk[path] /\ path \in Path
  <2>1. path \in Path /\ disk[path] \in Content
    BY <1>1, <1>3, PlanTargets, FilesParts DEF PlainFiles
  <2> QED
    BY <2>1 DEF SnapshotEntry
<1>5. \A k \in DOMAIN m.snaps : m.snaps[k].path # path
  BY <1>1 DEF Saved, Elements
<1>6. journal' = [journal EXCEPT ![file.id] = w]
  BY <1>1
<1> HIDE DEF e
<1>7. /\ Fine(w)
      /\ w = [kind |-> m.kind, state |-> m.state, undoable |-> m.undoable,
              snaps |-> Append(m.snaps, e), children |-> m.children]
      /\ DOMAIN Append(m.snaps, e) = DOMAIN m.snaps \cup {Len(m.snaps) + 1}
      /\ \A k \in DOMAIN m.snaps : Append(m.snaps, e)[k] = m.snaps[k]
      /\ Append(m.snaps, e)[Len(m.snaps) + 1] = e
  <2>1. m.kind # "compound" /\ m.state # "committed"
    BY <1>3
  <2>2. \A k \in DOMAIN m.snaps : m.snaps[k].path # e.path
    BY <1>4, <1>5
  <2>3. Fine(m) /\ e \in SnapshotEntry
    BY <1>3, <1>4
  <2> HIDE DEF m
  <2> QED
    BY <2>1, <2>2, <2>3, SavedIsFine
<1> HIDE DEF w
<1>8. /\ w.kind = m.kind /\ w.children = m.children /\ w.state = "preparing" /\ w.undoable = m.undoable
      /\ w.snaps = Append(m.snaps, e)
  BY <1>3, <1>7
<1> HIDE DEF m
<1>9. /\ Sound(journal', expired') /\ Made' = Made /\ journal'[file.id] = w
      /\ \A k \in Made : k # file.id => journal'[k] = journal[k]
  BY <1>2, <1>3, <1>6, <1>7, <1>8, Rewritten DEF m
<1>10. PlainFiles' /\ CaptureHolds' /\ Owing' /\ RestoreHolds' /\ RolledBack' /\ Spares'
  BY <1>2, <1>3, <1>9, OthersKept
<1>11. Holders'
  BY <1>2, FilesFrame
<1>12. CallHolds'
  BY <1>2, <1>3, <1>8, <1>9 DEF CallHolds
<1>13. DiskFits'
  BY <1>2, <1>3, FilesParts DEF DiskFits, m
<1>14. \A k \in DOMAIN m.snaps : /\ m.snaps[k].path \in AllTargets(file.plan)
                                 /\ m.snaps[k].path \notin file.alien
                                    => m.snaps[k].before = file.base[m.snaps[k].path]
  BY <1>3, FilesParts DEF SavedFits, m
<1>15. path \notin file.alien => disk[path] = file.base[path]
  BY <1>2, <1>3, <1>4, FilesParts DEF DiskFits, m
<1>16. SavedFits'
  BY <1>1, <1>2, <1>4, <1>7, <1>8, <1>9, <1>14, <1>15 DEF SavedFits
<1> QED
  BY <1>9, <1>10, <1>11, <1>12, <1>13, <1>16 DEF FilesInv

LEMMA SaveFailsKeeps ==
  ASSUME FilesInv, SaveFails PROVE FilesInv'
<1>1. /\ file.pc = "preparing" /\ file' = Idle
      /\ journal' = [journal EXCEPT ![file.id] = Aborted(journal[file.id])]
      /\ UNCHANGED <<disk, made, aged, expired, capture, restore, owed>>
  BY DEF SaveFails
<1>2. /\ restore = Idle
      /\ file.id \in Made /\ Fine(journal[file.id]) /\ journal[file.id].kind = "file"
      /\ capture.id # file.id \/ capture.id \notin Made
      /\ \A o \in owed : o[1] # file.id
  BY <1>1, Preparing
<1>3. /\ Fine(Aborted(journal[file.id])) /\ Aborted(journal[file.id]).kind = journal[file.id].kind
      /\ Aborted(journal[file.id]).children = journal[file.id].children
      /\ Aborted(journal[file.id]).state = "aborted"
  BY <1>2, AbortedIsFine
<1>4. /\ Sound(journal', expired') /\ Made' = Made
      /\ \A k \in Made : k # file.id => journal'[k] = journal[k]
  BY <1>1, <1>2, <1>3, Rewritten
<1>5. file'.pc # "rolling_back"
  BY <1>1 DEF Idle
<1>6. PlainFiles' /\ CaptureHolds' /\ Owing' /\ RestoreHolds' /\ RolledBack' /\ Spares'
  BY <1>1, <1>2, <1>4, <1>5, OthersKept
<1>7. Holders'
  BY <1>1, FilesParts DEF Holders
<1> QED
  BY <1>1, <1>4, <1>6, <1>7, NoCall DEF FilesInv

LEMMA PreparedKeeps ==
  ASSUME FilesInv, Prepared PROVE FilesInv'
<1> DEFINE m == journal[file.id]
           w == [m EXCEPT !.state = "prepared"]
<1>1. /\ file.pc = "preparing" /\ AllSaved
      /\ journal' = [journal EXCEPT ![file.id] = w]
      /\ file' = [file EXCEPT !.pc = "acting"]
      /\ UNCHANGED <<disk, made, aged, expired, capture, restore, upsets, owed>>
  BY DEF Prepared
<1>2. /\ file \in Calls /\ file.id \in 1..made /\ restore = Idle
      /\ file.id \in Made /\ Fine(m) /\ m.kind = "file" /\ m.undoable
      /\ capture.id # file.id \/ capture.id \notin Made
      /\ \A o \in owed : o[1] # file.id
  BY <1>1, Preparing
<1>3. /\ Fine(w) /\ w.kind = m.kind /\ w.children = m.children /\ w.state = "prepared"
      /\ w.undoable = m.undoable /\ w.snaps = m.snaps
  <2>1. m.kind # "compound" /\ Fine(m)
    BY <1>2
  <2> HIDE DEF m
  <2>2. /\ Fine(w)
        /\ w = [kind |-> m.kind, state |-> "prepared", undoable |-> m.undoable,
                snaps |-> m.snaps, children |-> m.children]
    BY <2>1, PreparedIsFine
  <2> HIDE DEF w
  <2> QED
    BY <2>2
<1> HIDE DEF w
<1>4. /\ Sound(journal', expired') /\ Made' = Made /\ journal'[file.id] = w
      /\ \A k \in Made : k # file.id => journal'[k] = journal[k]
  BY <1>1, <1>2, <1>3, Rewritten
<1>5. /\ file' = [id |-> file.id, plan |-> file.plan, pc |-> "acting", done |-> file.done,
                  base |-> file.base, alien |-> file.alien]
      /\ file' \in Calls
  BY <1>1, <1>2, CallFields DEF Calls
<1>6. /\ file'.id = file.id /\ file'.pc = "acting" /\ file'.plan = file.plan
      /\ file'.base = file.base /\ file'.alien = file.alien
  BY <1>5
<1>7. PlainFiles' /\ CaptureHolds' /\ Owing' /\ RestoreHolds' /\ RolledBack' /\ Spares'
  BY <1>1, <1>2, <1>4, <1>6, OthersKept
<1>8. Holders'
  BY <1>1, <1>2, <1>5, <1>6, FilesParts DEF Holders
<1>9. CallHolds'
  BY <1>2, <1>3, <1>4, <1>6 DEF CallHolds
<1>10. DiskFits'
  BY <1>1, <1>2, <1>6, FilesParts DEF DiskFits
<1>11. SavedFits'
  <2>1. \A p \in AllTargets(file.plan) : \E k \in DOMAIN m.snaps : m.snaps[k].path = p
    BY <1>1 DEF AllSaved, Elements
  <2>2. \A k \in DOMAIN m.snaps : /\ m.snaps[k].path \in AllTargets(file.plan)
                                  /\ m.snaps[k].path \notin file.alien
                                      => m.snaps[k].before = file.base[m.snaps[k].path]
    BY <1>2, FilesParts DEF SavedFits
  <2> QED
    BY <1>3, <1>4, <1>6, <2>1, <2>2 DEF SavedFits
<1> QED
  BY <1>4, <1>7, <1>8, <1>9, <1>10, <1>11 DEF FilesInv

LEMMA CommitKeeps ==
  ASSUME FilesInv, Commit PROVE FilesInv'
<1> DEFINE m == journal[file.id]
           w == Committed(m)
           J == [journal EXCEPT ![file.id] = w]
<1>1. /\ file.pc = "acting" /\ JournalFree /\ file.id \in Made /\ m.state = "prepared"
      /\ journal' = Pruned(J, file.id) /\ file' = Idle
      /\ owed' = {o \in owed : o[1] # file.id}
      /\ UNCHANGED <<disk, made, aged, expired, capture, restore, upsets>>
  BY DEF Commit, InState, Settle
<1>2. Fine(m) /\ m.kind = "file" /\ restore = Idle
  BY <1>1, FilesParts, FreeJournal DEF CallHolds
<1>3. Fine(w) /\ w.kind = m.kind /\ w.children = m.children
  <2>1. disk \in [Path -> Content] /\ "unknown" \notin Content
    BY FilesAssumption, FilesParts DEF PlainFiles, ConstantAssumption
  <2> QED
    BY <1>2, <2>1, CommittedIsFine
<1> HIDE DEF w
<1>4. Sound(J, expired)
  BY <1>1, <1>2, <1>3, FilesParts, RewrittenIsSound DEF Made
<1>5. DOMAIN J = Made /\ \A k \in Made : k # file.id => J[k] = journal[k]
  BY DEF Made
<1> HIDE DEF J
<1>6. /\ Made' \subseteq Made /\ \A k \in Made' : journal'[k] = J[k]
      /\ \A k \in Made : /\ k \notin aged \cup expired /\ J[k].state = "prepared"
                         => k \in Made'
  BY <1>1, <1>5, PrunedIs DEF Made
<1>7. Sound(journal', expired')
  BY <1>1, <1>4, PrunedIsSound
<1>8. PlainFiles'
  BY <1>1, <1>6, FilesParts DEF PlainFiles
<1>9. Holders'
  BY <1>1, FilesParts DEF Holders
<1>10. CaptureHolds'
  <2>1. capture.id # file.id \/ capture.id \notin Made
    BY <1>1, <1>2, FilesParts DEF CaptureHolds
  <2> QED
    BY <1>1, <1>5, <1>6, <2>1, CaptureKept
<1>11. Owing'
  BY <1>1, <1>5, <1>6, OwingKept
<1>12. file'.pc # "rolling_back"
  BY <1>1 DEF Idle
<1> QED
  BY <1>1, <1>2, <1>7, <1>8, <1>9, <1>10, <1>11, <1>12, NoCall, NoRestore DEF FilesInv

LEMMA FailedCallRollsBackKeeps ==
  ASSUME FilesInv, FailedCallRollsBack PROVE FilesInv'
<1> DEFINE m == journal[file.id]
<1>1. /\ file.pc = "acting" /\ JournalFree /\ file.id \in Made /\ m.state = "prepared"
      /\ UNCHANGED <<disk, made, aged, expired, capture, upsets, owed>>
  BY DEF FailedCallRollsBack, InState
<1>2. /\ file \in Calls /\ file.id \in 1..made /\ restore = Idle /\ Fine(m) /\ m.kind = "file"
      /\ file.id \in Id
  <2>1. file \in Calls /\ file.id \in 1..made
    BY <1>1, FilesFields
  <2>2. restore = Idle /\ Fine(m) /\ m.kind = "file"
    BY <1>1, FreeJournal, FilesParts DEF CallHolds
  <2> QED
    BY <2>1, <2>2, CallFields
<1>3. CASE m.undoable
  <2>1. /\ restore' = RestoreRecord(file.id, <<file.id>>, Len(m.snaps), FALSE, "rolled_back", TRUE,
                                    "call", {})
        /\ file' = [file EXCEPT !.pc = "rolling_back"]
        /\ UNCHANGED journal
    BY <1>3 DEF FailedCallRollsBack, RestoreRecord
  <2>2. Len(m.snaps) \in Nat /\ <<file.id>> \in Seq(Id)
    BY <1>2, FineFields
  <2>3. restore' \in Restores
    BY <1>2, <2>1, <2>2, RestoreTyped
  <2>4. /\ restore'.id = file.id /\ restore'.queue = <<file.id>> /\ restore'.n = Len(m.snaps)
        /\ restore'.cleared = FALSE /\ restore'.by = "call"
    BY <2>1 DEF RestoreRecord
  <2>5. /\ file' = [id |-> file.id, plan |-> file.plan, pc |-> "rolling_back", done |-> file.done,
                    base |-> file.base, alien |-> file.alien]
        /\ file' \in Calls
    BY <1>2, <2>1, CallFields DEF Calls
  <2>6. /\ file'.id = file.id /\ file'.pc = "rolling_back" /\ file'.plan = file.plan
        /\ file'.base = file.base /\ file'.alien = file.alien
    BY <2>5
  <2>7. Holders'
    BY <1>1, <1>2, <2>3, <2>4, <2>5, <2>6, FilesParts DEF Holders
  <2>8. Made' = Made /\ journal' = journal
    BY <2>1 DEF Made
  <2>9. CallHolds'
    BY <1>1, <1>2, <2>6, <2>8 DEF CallHolds
  <2>10. Child' = file.id
    BY <2>4 DEF Child
  <2>11. RestoreHolds'
    <3>1. Distinct(<<file.id>>) /\ <<file.id>> # <<>>
      BY DEF Distinct
    <3>2. Len(m.snaps) <= Len(m.snaps)
      BY <2>2
    <3> QED
      BY <1>1, <1>2, <1>3, <2>4, <2>6, <2>8, <2>10, <3>1, <3>2 DEF RestoreHolds
  <2>12. SavedFits' /\ DiskFits'
    BY <1>1, <2>6, <2>8, FilesParts DEF SavedFits, DiskFits
  <2>13. RolledBack'
    <3>1. \A k \in DOMAIN m.snaps : ~(k > Len(m.snaps))
      BY <1>2, FineFields
    <3> QED
      BY <2>4, <2>8, <2>10, <3>1 DEF RolledBack
  <2>14. Spares'
    BY <2>4 DEF Spares
  <2> QED
    BY <1>1, <2>1, <2>7, <2>9, <2>11, <2>12, <2>13, <2>14, FilesFrame DEF FilesInv
<1>4. CASE ~m.undoable
  <2>1. /\ journal' = [journal EXCEPT ![file.id] = Closed(m, "rollback_failed")]
        /\ file' = Idle /\ UNCHANGED restore
    BY <1>4 DEF FailedCallRollsBack
  <2>2. \A o \in owed : o[1] # file.id
    BY <1>1, <1>4, FilesParts DEF Owing
  <2>3. /\ Fine(Closed(m, "rollback_failed")) /\ Closed(m, "rollback_failed").kind = m.kind
        /\ Closed(m, "rollback_failed").children = m.children
        /\ Closed(m, "rollback_failed").state = "rollback_failed"
    BY <1>2, ClosedIsFine DEF Ended
  <2>4. /\ Sound(journal', expired') /\ Made' = Made
        /\ \A k \in Made : k # file.id => journal'[k] = journal[k]
    BY <1>1, <2>1, <2>3, Rewritten
  <2>5. file'.pc # "rolling_back"
    BY <2>1 DEF Idle
  <2>6. capture.id # file.id \/ capture.id \notin Made
    BY <1>1, <1>2, FilesParts DEF CaptureHolds
  <2>7. PlainFiles' /\ CaptureHolds' /\ Owing' /\ RestoreHolds' /\ RolledBack' /\ Spares'
    BY <1>1, <1>2, <2>1, <2>2, <2>4, <2>5, <2>6, OthersKept
  <2>8. Holders'
    BY <1>1, <2>1, FilesParts DEF Holders
  <2> QED
    BY <2>1, <2>4, <2>7, <2>8, NoCall DEF FilesInv
<1> QED
  BY <1>3, <1>4
-----------------------------------------------------------------------------
(* Undo *)

\* An undo of one transaction begins, and nothing was written to what it changed.
LEMMA SingleChained ==
  ASSUME NEW J, NEW i \in DOMAIN J, Fine(J[i]), NEW d,
         \A k \in DOMAIN J[i].snaps : J[i].snaps[k].post = d[J[i].snaps[k].path]
  PROVE  Chained(J, d, <<i>>, Len(J[i].snaps), FALSE, {})
<1> DEFINE q == <<i>>
           n == Len(J[i].snaps)
<1>1. DOMAIN q = {1} /\ q[1] = i
  OBVIOUS
<1> HIDE DEF q
<1>2. Pending(J, q, n, 1) = DOMAIN J[i].snaps
  BY FineFields DEF Pending
<1>3. \A k : At(J, q, 1, k) = J[i].snaps[k]
  BY <1>1 DEF At
<1> HIDE DEF n
<1>4. \A j \in DOMAIN q : q[j] \in DOMAIN J
  BY <1>1
<1>5. Chained(J, d, q, n, FALSE, {})
  BY <1>1, <1>2, <1>3, <1>4 DEF Chained
<1> QED
  BY <1>5 DEF q, n

\* An undo of a compound begins: what Contiguous asks of the children in their order is what the
\* restore needs of them in the other.
LEMMA CompoundChained ==
  ASSUME FilesInv, NEW i \in Made, Contiguous(journal[i]),
         NEW q, q = Backwards(journal[i].children)
  PROVE  Chained(journal, disk, q, Len(journal[q[1]].snaps), FALSE, {})
<1> DEFINE C == journal[i].children
           N == Len(C)
           n == Len(journal[q[1]].snaps)
<1>1. C \in Seq(Id) /\ N \in Nat /\ DOMAIN C = 1..N
  <2>1. C \in Seq(Id)
    BY FilesParts, FineFields
  <2> QED
    BY <2>1
<1>2. /\ DOMAIN q = 1..N
      /\ \A j \in 1..N : q[j] = C[N + 1 - j] /\ N + 1 - j \in 1..N
  BY <1>1 DEF Backwards
<1>3. \A k \in 1..N : C[k] \in Made
  BY <1>1 DEF Contiguous, InState
<1>4. \A j \in 1..N : q[j] \in Made /\ Fine(journal[q[j]])
  BY <1>2, <1>3, FilesParts
<1>5. \A j \in 1..N : Pending(journal, q, n, j) = DOMAIN journal[q[j]].snaps
  BY <1>2, <1>4, FineFields DEF Pending
<1> DEFINE Of(k) == Elements(journal[C[k]].snaps)
           Later(k, p) == {l \in DOMAIN C : l > k /\ \E t \in Of(l) : t.path = p}
<1>6. \A k \in DOMAIN C : \A s \in Of(k) :
         /\ Later(k, s.path) = {} => s.post = disk[s.path]
         /\ \A l \in Later(k, s.path) : \A t \in Of(l) :
              /\ t.path = s.path
              /\ \A o \in Later(k, s.path) : l <= o
              => s.post = t.before
  BY Zenon DEF Contiguous
<1>7. \A j \in 1..N : \A k \in Pending(journal, q, n, j) : At(journal, q, j, k) \in Of(N + 1 - j)
  BY <1>2, <1>5 DEF At, Elements
<1>a. \A k \in 1..N : \A p : \A l : l \in Later(k, p) <=> (l \in 1..N /\ l > k /\ \E t \in Of(l) : t.path = p)
  BY <1>1
<1>8. ASSUME NEW k \in 1..N, NEW p, NEW l \in Later(k, p)
      PROVE  /\ N + 1 - l \in 1..N /\ N + 1 - l < N + 1 - k
             /\ \E m \in Pending(journal, q, n, N + 1 - l) : At(journal, q, N + 1 - l, m).path = p
  <2>1. N + 1 - l \in 1..N /\ N + 1 - l < N + 1 - k /\ N + 1 - (N + 1 - l) = l
    BY <1>1
  <2>2. PICK m \in DOMAIN journal[C[l]].snaps : journal[C[l]].snaps[m].path = p
    BY DEF Elements
  <2>3. q[N + 1 - l] = C[l]
    BY <1>2, <2>1
  <2>4. m \in Pending(journal, q, n, N + 1 - l) /\ At(journal, q, N + 1 - l, m).path = p
    BY <1>5, <2>1, <2>2, <2>3 DEF At
  <2> QED
    BY <2>1, <2>4
<1>9. ASSUME NEW j \in 1..N, NEW k \in Pending(journal, q, n, j),
             ~Touched(journal, q, n, 0, j, At(journal, q, j, k).path)
      PROVE  disk[At(journal, q, j, k).path] = At(journal, q, j, k).post
  <2> DEFINE s == At(journal, q, j, k)
  <2>0. PICK K : K = N + 1 - j
    OBVIOUS
  <2>1. s \in Of(K) /\ K \in 1..N /\ N + 1 - K = j
    BY <1>1, <1>2, <1>7, <2>0
  <2> HIDE DEF Later, Of
  <2>2. ASSUME NEW l \in Later(K, s.path) PROVE FALSE
    <3>1. /\ N + 1 - l \in 1..N /\ N + 1 - l < j
          /\ \E m \in Pending(journal, q, n, N + 1 - l) : At(journal, q, N + 1 - l, m).path = s.path
      BY <1>8, <2>1, <2>2
    <3>2. 0 < N + 1 - l
      BY <3>1
    <3>3. Touched(journal, q, n, 0, j, s.path)
      BY <1>2, <3>1, <3>2 DEF Touched
    <3> QED
      BY <1>9, <3>3
  <2>3. Later(K, s.path) = {}
    BY <2>2
  <2> HIDE DEF s
  <2>4. s.post = disk[s.path]
    BY <1>1, <1>6, <2>1, <2>3
  <2> QED
    BY <2>4 DEF s
<1>10. ASSUME NEW j \in 1..N, NEW l \in 1..N,
              NEW k \in Pending(journal, q, n, j), NEW m \in Pending(journal, q, n, l),
              j < l, At(journal, q, j, k).path = At(journal, q, l, m).path,
              ~Touched(journal, q, n, j, l, At(journal, q, j, k).path)
       PROVE  At(journal, q, j, k).before = At(journal, q, l, m).post
  <2> DEFINE s == At(journal, q, l, m)
             t == At(journal, q, j, k)
             K == N + 1 - l
             L == N + 1 - j
  <2>1. /\ s \in Of(K) /\ t \in Of(L) /\ K \in 1..N /\ L \in 1..N /\ K < L
        /\ N + 1 - K = l /\ N + 1 - L = j
    BY <1>1, <1>2, <1>7, <1>10
  <2>2. t.path = s.path
    BY <1>10
  <2> HIDE DEF s, t, K, L
  <2>3. L \in Later(K, s.path)
    BY <1>1, <1>a, <2>1, <2>2
  <2> HIDE DEF Later, Of
  <2>4. ASSUME NEW o \in Later(K, s.path), ~(L <= o) PROVE FALSE
    <3>1. /\ N + 1 - o \in 1..N /\ N + 1 - o < N + 1 - K
          /\ \E x \in Pending(journal, q, n, N + 1 - o) : At(journal, q, N + 1 - o, x).path = s.path
      BY <1>8, <2>1, <2>4
    <3>2. j < N + 1 - o /\ N + 1 - o < l
      BY <1>a, <1>1, <2>1, <2>4, <3>1
    <3>3. Touched(journal, q, n, j, l, s.path)
      BY <1>2, <3>1, <3>2 DEF Touched
    <3> QED
      BY <1>10, <2>2, <3>3 DEF s, t
  <2>5. s.post = t.before
    BY <1>1, <1>6, <2>1, <2>2, <2>3, <2>4
  <2> QED
    BY <2>5 DEF s, t
<1>11. \A j \in DOMAIN q : q[j] \in DOMAIN journal
  BY <1>2, <1>4 DEF Made
<1> HIDE DEF n, N, C, Of, Later
<1>12. Chained(journal, disk, q, n, FALSE, {})
  BY <1>2, <1>9, <1>10, <1>11 DEF Chained
<1> QED
  BY <1>12 DEF n

\* What may be undone now, and who then waits for it.
LEMMA UndoMay ==
  ASSUME FilesInv, NEW force \in BOOLEAN, NEW by \in {"tool", "dashboard"}, MayUndo(force, by)
  PROVE  /\ restore = Idle /\ file.pc # "preparing" /\ file.pc # "rolling_back"
         /\ by = "tool" => file = Idle /\ file.id = NoId
         /\ by = "dashboard" => ~force
         /\ file.id \in Made => journal[file.id].kind = "file" /\ journal[file.id].state = "prepared"
<1>1. JournalFree /\ (by = "tool" => FileFree) /\ (by = "dashboard" => ~force)
  BY DEF MayUndo
<1>2. restore = Idle /\ file.pc # "preparing" /\ file.pc # "rolling_back"
  BY <1>1, FreeJournal
<1>3. by = "tool" => file = Idle /\ file.id = NoId
  BY <1>1, FilesFields DEF FileFree
<1>4. file.id \in Made => journal[file.id].kind = "file" /\ journal[file.id].state = "prepared"
  BY <1>2, FilesParts DEF CallHolds
<1> QED
  BY <1>1, <1>2, <1>3, <1>4

\* An undo of transaction i begins with the first of its queue, in the journal as it is then.
LEMMA RestoreBegins ==
  ASSUME FilesInv, NEW force \in BOOLEAN, NEW by \in {"tool", "dashboard"}, MayUndo(force, by),
         UNCHANGED <<disk, made, aged, expired, file, capture, owed>>,
         Sound(journal', expired'), CallHolds', CaptureHolds', Owing', SavedFits', DiskFits', Spares',
         Made' = Made,
         NEW i \in Made, NEW line \in Seq(Id), line # <<>>, Distinct(line),
         NEW c, c = Head(line), c \in Made,
         restore' = RestoreRecord(i, line, Len(journal'[c].snaps), FALSE, "undone", force, by, {}),
         journal'[c].kind # "compound",
         by = "dashboard" => journal'[c].state = "committed",
         \/ line = <<i>> /\ journal'[i].state \in {"prepared", "committed"}
         \/ /\ journal'[i].kind = "compound" /\ journal'[i].state = "committed"
            /\ journal'[c].state = "committed"
            /\ \A j \in DOMAIN line : line[j] \in Made' => journal'[line[j]].kind # "compound"
  PROVE  FilesInv'
<1>1. /\ restore = Idle /\ file.pc # "preparing" /\ file.pc # "rolling_back"
      /\ by = "tool" => file = Idle /\ file.id = NoId
  BY UndoMay
<1>2. i \in Id /\ i <= made
  <2>1. made \in 0..MaxMade /\ MaxMade \in Nat /\ i \in 1..made
    BY FilesParts DEF PlainFiles
  <2> QED
    BY <2>1 DEF Id
<1>3. Len(journal'[c].snaps) \in Nat
  <2>1. Fine(journal'[c])
    BY DEF Sound, Made
  <2> QED
    BY <2>1, FineFields
<1>4. restore' \in Restores
  BY <1>2, <1>3, RestoreTyped
<1>5. /\ restore'.id = i /\ restore'.queue = line /\ restore'.n = Len(journal'[c].snaps)
      /\ restore'.cleared = FALSE /\ restore'.by = by
  BY DEF RestoreRecord
<1>6. PlainFiles'
  BY FilesParts DEF PlainFiles
<1>7. Holders'
  BY <1>2, <1>4, <1>5, FilesParts DEF Holders
<1>8. Child' = c
  BY <1>5 DEF Child
<1>9. RestoreHolds'
  <2>1. Len(journal'[c].snaps) <= Len(journal'[c].snaps)
    BY <1>3
  <2>2. by # "call" /\ file'.pc # "preparing" /\ file'.pc # "rolling_back"
        /\ (by = "tool" => file'.id = NoId)
    BY <1>1
  <2> QED
    BY <1>5, <1>8, <2>1, <2>2 DEF RestoreHolds
<1>10. RolledBack'
  BY <1>5 DEF RolledBack
<1> QED
  BY <1>6, <1>7, <1>9, <1>10 DEF FilesInv

LEMMA UndoKeeps ==
  ASSUME FilesInv, NEW i \in Id, NEW force \in BOOLEAN, NEW by \in {"tool", "dashboard"},
         Undo(i, force, by)
  PROVE  FilesInv'
<1> DEFINE m == journal[i]
<1>1. /\ MayUndo(force, by) /\ i \in Made /\ m.kind # "compound" /\ m.undoable
      /\ restore' = RestoreRecord(i, <<i>>, Len(m.snaps), FALSE, "undone", force, by, {})
      /\ UNCHANGED <<disk, made, aged, expired, file, capture, owed>>
  <2>1. Head(<<i>>) = i
    OBVIOUS
  <2> QED
    BY <2>1 DEF Undo, StartRestore, RestoreRecord
<1>2. \/ /\ m.state = "capturing" /\ force
         /\ journal' = [journal EXCEPT ![i] = [m EXCEPT !.state = "prepared"]]
      \/ m.state = "prepared" /\ force /\ UNCHANGED journal
      \/ m.state = "committed" /\ (force \/ Unchanged(m)) /\ UNCHANGED journal
  BY DEF Undo
<1>3. /\ restore = Idle /\ file.pc # "preparing" /\ file.pc # "rolling_back"
      /\ by = "tool" => file = Idle /\ file.id = NoId
      /\ by = "dashboard" => ~force
  BY <1>1, UndoMay
<1>4. Fine(m) /\ Len(m.snaps) \in Nat
  BY <1>1, FilesParts, FineFields
<1>5. <<i>> \in Seq(Id) /\ <<i>> # <<>> /\ Distinct(<<i>>) /\ i = Head(<<i>>)
  BY DEF Distinct
<1>6. restore'.by = by /\ restore'.force = force
  BY <1>1 DEF RestoreRecord
<1>7. CASE /\ m.state = "capturing" /\ force
           /\ journal' = [journal EXCEPT ![i] = [m EXCEPT !.state = "prepared"]]
  <2> DEFINE w == [m EXCEPT !.state = "prepared"]
  <2>1. /\ Fine(w) /\ w.kind = m.kind /\ w.children = m.children /\ w.state = "prepared"
        /\ w.snaps = m.snaps
    <3>1. m.kind # "compound" /\ Fine(m)
      BY <1>1, <1>4
    <3> HIDE DEF m
    <3>2. /\ Fine(w)
          /\ w = [kind |-> m.kind, state |-> "prepared", undoable |-> m.undoable,
                  snaps |-> m.snaps, children |-> m.children]
      BY <3>1, PreparedIsFine
    <3> HIDE DEF w
    <3> QED
      BY <3>2
  <2>2. journal' = [journal EXCEPT ![i] = w]
    BY <1>7
  <2> HIDE DEF w
  <2>3. /\ Sound(journal', expired') /\ Made' = Made /\ journal'[i] = w
        /\ \A k \in Made : k # i => journal'[k] = journal[k]
    BY <1>1, <2>1, <2>2, Rewritten
  <2>4. \A o \in owed : o[1] # i
    BY <1>1, <1>7, FilesParts DEF Owing
  <2>5. Owing'
    BY <1>1, <2>3, <2>4, OwingKept
  <2>6. by = "tool" /\ file' = Idle
    BY <1>1, <1>3, <1>7
  <2>7. PlainFiles'
    BY <1>1, <2>3, FilesParts DEF PlainFiles
  <2>8. CallHolds' /\ SavedFits' /\ DiskFits'
    BY <2>6, <2>7, NoCall
  <2>9. CaptureHolds'
    BY <1>1, <2>1, <2>3, CaptureKept
  <2>10. Spares'
    BY <1>6, <1>7 DEF Spares
  <2>11. /\ restore' = RestoreRecord(i, <<i>>, Len(journal'[i].snaps), FALSE, "undone", force, by, {})
         /\ journal'[i].kind # "compound" /\ journal'[i].state = "prepared"
    BY <1>1, <2>1, <2>3
  <2> QED
    BY <1>1, <1>5, <2>3, <2>5, <2>6, <2>8, <2>9, <2>10, <2>11, RestoreBegins
<1>8. CASE /\ m.state \in {"prepared", "committed"} /\ UNCHANGED journal
           /\ force \/ (m.state = "committed" /\ Unchanged(m))
  <2>1. Made' = Made
    BY <1>8 DEF Made
  <2>2. /\ Sound(journal', expired') /\ CaptureHolds' /\ Owing' /\ SavedFits' /\ DiskFits'
    BY <1>1, <1>8, FilesFrame
  <2>3. CallHolds'
    BY <1>1, <1>8, <2>1, FilesParts DEF CallHolds
  <2>4. Spares'
    <3>1. SUFFICES ASSUME ~force PROVE Spares'
      BY <1>6 DEF Spares
    <3>2. \A k \in DOMAIN m.snaps : m.snaps[k].post = disk[m.snaps[k].path]
      BY <1>8, <3>1 DEF Unchanged
    <3>3. Chained(journal, disk, <<i>>, Len(m.snaps), FALSE, {})
      <4>1. i \in DOMAIN journal
        BY <1>1 DEF Made
      <4> QED
        BY <1>4, <3>2, <4>1, SingleChained
    <3>4. /\ restore'.queue = <<i>> /\ restore'.n = Len(m.snaps) /\ restore'.cleared = FALSE
          /\ restore'.alien = {}
      BY <1>1 DEF RestoreRecord
    <3> QED
      BY <1>1, <1>8, <3>3, <3>4 DEF Spares
  <2>5. /\ restore' = RestoreRecord(i, <<i>>, Len(journal'[i].snaps), FALSE, "undone", force, by, {})
        /\ journal'[i].kind # "compound" /\ journal'[i].state \in {"prepared", "committed"}
        /\ by = "dashboard" => journal'[i].state = "committed"
    BY <1>1, <1>3, <1>8
  <2> QED
    BY <1>1, <1>5, <2>1, <2>2, <2>3, <2>4, <2>5, RestoreBegins
<1> QED
  BY <1>2, <1>7, <1>8

\* A transaction that nobody works on is closed, or aborted.
LEMMA UndoWithoutPreimagesKeeps ==
  ASSUME FilesInv, NEW i \in Id, UndoWithoutPreimages(i) PROVE FilesInv'
<1> DEFINE m == journal[i]
           w == Closed(m, "rollback_failed")
<1>1. /\ MayUndo(TRUE, "tool") /\ i \in Made /\ m.state = "prepared" /\ ~m.undoable
      /\ journal' = [journal EXCEPT ![i] = w]
      /\ UNCHANGED <<disk, made, aged, expired, file, capture, restore, upsets, owed>>
  BY DEF UndoWithoutPreimages, InState
<1>2. restore = Idle /\ file = Idle /\ file.pc # "rolling_back"
  BY <1>1, UndoMay
<1>3. Fine(m)
  BY <1>1, FilesParts
<1>4. Fine(w) /\ w.kind = m.kind /\ w.children = m.children /\ w.state = "rollback_failed" /\ w.snaps = <<>>
  BY <1>3, ClosedIsFine DEF Ended
<1> HIDE DEF w
<1>5. /\ Sound(journal', expired') /\ Made' = Made /\ journal'[i] = w
      /\ \A k \in Made : k # i => journal'[k] = journal[k]
  BY <1>1, <1>4, Rewritten
<1>6. PlainFiles'
  BY <1>1, <1>5, FilesParts DEF PlainFiles
<1>7. Owing'
  <2>1. \A o \in owed : o[1] # i
    BY <1>1, FilesParts DEF Owing
  <2> QED
    BY <1>1, <1>5, <2>1, OwingKept
<1>8. CaptureHolds'
  BY <1>1, <1>4, <1>5, CaptureKept
<1>9. CallHolds' /\ SavedFits' /\ DiskFits'
  BY <1>1, <1>2, <1>6, NoCall
<1>10. RestoreHolds' /\ RolledBack' /\ Spares'
  BY <1>1, <1>2, NoRestore
<1> QED
  BY <1>1, <1>5, <1>6, <1>7, <1>8, <1>9, <1>10, FilesFrame DEF FilesInv

\* The children of a compound, the last one first.
LEMMA BackwardsIs ==
  ASSUME NEW C \in Seq(Id), C # <<>>, Distinct(C)
  PROVE  /\ Backwards(C) \in Seq(Id) /\ Backwards(C) # <<>> /\ Distinct(Backwards(C))
         /\ \A j \in DOMAIN Backwards(C) : Backwards(C)[j] \in Elements(C)
         /\ Head(Backwards(C)) \in Elements(C) /\ Head(Backwards(C)) = Backwards(C)[1]
<1>1. Len(C) \in Nat /\ Len(C) # 0 /\ DOMAIN C = 1..Len(C)
  OBVIOUS
<1>2. \A j \in 1..Len(C) : Len(C) + 1 - j \in 1..Len(C)
  BY <1>1
<1>3. /\ DOMAIN Backwards(C) = 1..Len(C)
      /\ \A j \in 1..Len(C) : Backwards(C)[j] = C[Len(C) + 1 - j]
  BY DEF Backwards
<1>4. Backwards(C) \in Seq(Id)
  BY <1>1, <1>2 DEF Backwards
<1>5. Backwards(C) # <<>> /\ 1 \in DOMAIN Backwards(C)
  BY <1>1, <1>3
<1>6. \A j \in DOMAIN Backwards(C) : Backwards(C)[j] \in Elements(C)
  BY <1>1, <1>2, <1>3 DEF Elements
<1>7. Head(Backwards(C)) = Backwards(C)[1]
  BY <1>4, <1>5
<1>8. Distinct(Backwards(C))
  <2>1. SUFFICES ASSUME NEW j \in 1..Len(C), NEW l \in 1..Len(C), Backwards(C)[j] = Backwards(C)[l]
        PROVE  j = l
    BY <1>3 DEF Distinct
  <2>2. C[Len(C) + 1 - j] = C[Len(C) + 1 - l]
    BY <1>3, <2>1
  <2>3. Len(C) + 1 - j = Len(C) + 1 - l
    BY <1>1, <1>2, <2>2 DEF Distinct
  <2> QED
    BY <1>1, <2>3
<1> QED
  BY <1>4, <1>5, <1>6, <1>7, <1>8

LEMMA UndoCompoundKeeps ==
  ASSUME FilesInv, NEW i \in Id, NEW force \in BOOLEAN, NEW by \in {"tool", "dashboard"},
         UndoCompound(i, force, by)
  PROVE  FilesInv'
<1> DEFINE m == journal[i]
           w == Closed(m, "rollback_failed")
           line == Backwards(m.children)
           c == Head(line)
<1>1. /\ MayUndo(force, by) /\ i \in Made /\ m.state = "committed" /\ m.kind = "compound"
      /\ (force \/ Contiguous(m))
      /\ UNCHANGED <<disk, made, aged, expired, file, capture, owed>>
  BY DEF UndoCompound, InState
<1>2. \/ /\ c \in Made /\ journal[c].state = "committed" /\ UNCHANGED journal
         /\ restore' = RestoreRecord(i, line, Len(journal[c].snaps), FALSE, "undone", force, by, {})
      \/ journal' = [journal EXCEPT ![i] = w] /\ UNCHANGED restore
  BY DEF UndoCompound, InState, StartRestore, RestoreRecord
<1>3. /\ restore = Idle /\ file.pc # "preparing" /\ file.pc # "rolling_back"
      /\ file.id \in Made => journal[file.id].kind = "file" /\ journal[file.id].state = "prepared"
  BY <1>1, UndoMay
<1>4. Fine(m)
  BY <1>1, FilesParts
<1>5. /\ line \in Seq(Id) /\ line # <<>> /\ Distinct(line) /\ c = line[1]
      /\ \A j \in DOMAIN line : line[j] \in Elements(m.children)
      /\ c \in Elements(m.children)
  <2>1. m.children \in Seq(Id) /\ m.children # <<>> /\ Distinct(m.children)
    BY <1>1, <1>4, FineFields DEF Fine
  <2> HIDE DEF m
  <2> QED
    BY <2>1, BackwardsIs
<1>6. \A k \in Elements(m.children) : k \in Made => journal[k].kind # "compound"
  BY <1>1, FilesParts DEF Sound, Made
<1>7. CASE /\ c \in Made /\ journal[c].state = "committed" /\ UNCHANGED journal
           /\ restore' = RestoreRecord(i, line, Len(journal[c].snaps), FALSE, "undone", force, by, {})
  <2>1. Made' = Made
    BY <1>7 DEF Made
  <2>2. /\ Sound(journal', expired') /\ CaptureHolds' /\ Owing' /\ SavedFits' /\ DiskFits'
    BY <1>1, <1>7, FilesFrame
  <2>3. CallHolds'
    BY <1>1, <1>7, <2>1, FilesParts DEF CallHolds
  <2>4. Spares'
    <3>0. /\ restore'.force = force /\ restore'.queue = line
          /\ restore'.n = Len(journal[c].snaps) /\ restore'.cleared = FALSE /\ restore'.alien = {}
      BY <1>7 DEF RestoreRecord
    <3>1. SUFFICES ASSUME ~force PROVE Spares'
      BY <3>0 DEF Spares
    <3>2. Contiguous(journal[i])
      BY <1>1, <3>1
    <3>3. Chained(journal, disk, line, Len(journal[line[1]].snaps), FALSE, {})
      BY <1>1, <3>2, CompoundChained
    <3> QED
      BY <1>1, <1>5, <1>7, <3>0, <3>3 DEF Spares
  <2>5. /\ journal'[c].kind # "compound" /\ journal'[c].state = "committed"
        /\ journal'[i].kind = "compound" /\ journal'[i].state = "committed"
        /\ \A j \in DOMAIN line : line[j] \in Made' => journal'[line[j]].kind # "compound"
        /\ restore' = RestoreRecord(i, line, Len(journal'[c].snaps), FALSE, "undone", force, by, {})
    BY <1>1, <1>5, <1>6, <1>7, <2>1
  <2> HIDE DEF line, m
  <2> QED
    BY <1>1, <1>5, <1>7, <2>1, <2>2, <2>3, <2>4, <2>5, RestoreBegins
<1>8. CASE journal' = [journal EXCEPT ![i] = w] /\ UNCHANGED restore
  <2>1. Fine(w) /\ w.kind = m.kind /\ w.children = m.children /\ w.state = "rollback_failed"
    BY <1>4, ClosedIsFine DEF Ended
  <2> HIDE DEF w
  <2>2. /\ Sound(journal', expired') /\ Made' = Made /\ journal'[i] = w
        /\ \A k \in Made : k # i => journal'[k] = journal[k]
    BY <1>1, <1>8, <2>1, Rewritten
  <2>3. \A o \in owed : o[1] # i
    BY <1>1, FilesParts DEF Owing
  <2>4. capture.id # i \/ capture.id \notin Made
    BY <1>1, FilesParts DEF CaptureHolds
  <2>5. PlainFiles' /\ CaptureHolds' /\ Owing' /\ RestoreHolds' /\ RolledBack' /\ Spares'
    BY <1>1, <1>3, <1>8, <2>2, <2>3, <2>4, OthersKept
  <2>6. CallHolds' /\ SavedFits' /\ DiskFits'
    BY <1>1, <1>3, <2>2, CallKept
  <2> QED
    BY <1>1, <1>8, <2>2, <2>5, <2>6, FilesFrame DEF FilesInv
<1> QED
  BY <1>2, <1>7, <1>8
-----------------------------------------------------------------------------
(* The end of a restore *)

\* What a restore works on is nobody else's.
LEMMA RestoreAlone ==
  ASSUME FilesInv, Restoring
  PROVE  /\ restore \in Restores /\ restore.id \in Made /\ Child \in Made
         /\ Fine(journal[Child]) /\ Fine(journal[restore.id])
         /\ restore.by \in {"tool", "dashboard", "call"}
         /\ restore.by # "call" => /\ Released = file
                                   /\ file.pc \notin {"preparing", "rolling_back"}
                                   /\ file.id \in Made => file.id \notin {Child, restore.id}
         /\ restore.by = "call" => /\ Released = Idle /\ restore.queue = <<restore.id>>
                                   /\ restore.id = file.id
         /\ \A o \in owed : o[1] # restore.id => o[1] # Child
         /\ Tail(restore.queue) # <<>> => restore.by # "call" /\ journal[restore.id].kind = "compound"
<1>1. /\ restore \in Restores /\ restore.id \in Made /\ Child \in Made
      /\ restore.by \in {"tool", "dashboard", "call"} /\ restore.queue \in Seq(Id)
  BY FilesParts, FilesFields, RestoreFields DEF RestoreHolds, Restoring
<1>2. Fine(journal[Child]) /\ Fine(journal[restore.id])
  BY <1>1, FilesParts
<1>3. \/ restore.queue = <<restore.id>> /\ Child = restore.id
      \/ journal[restore.id].kind = "compound" /\ journal[Child].state = "committed"
  BY FilesParts DEF RestoreHolds, Child
<1>4. ASSUME restore.by # "call"
      PROVE  /\ Released = file /\ file.pc \notin {"preparing", "rolling_back"}
             /\ file.id \in Made => file.id \notin {Child, restore.id}
  <2>1. Released = file
    BY <1>4 DEF Released
  <2>2. file.pc \notin {"preparing", "rolling_back"}
    BY <1>4, FilesParts DEF RestoreHolds
  <2>3. CASE restore.by = "tool"
    <3>1. file.id = NoId
      BY <2>3, FilesParts DEF RestoreHolds
    <3>2. NoId \notin Made
      BY FilesParts DEF NoId, PlainFiles
    <3> QED
      BY <2>1, <2>2, <3>1, <3>2
  <2>4. CASE restore.by = "dashboard"
    <3>1. journal[Child].state = "committed"
      BY <2>4, FilesParts DEF RestoreHolds
    <3>2. file.id \in Made => journal[file.id].state = "prepared" /\ journal[file.id].kind = "file"
      BY <2>2, FilesParts DEF CallHolds
    <3> QED
      BY <1>3, <2>1, <2>2, <3>1, <3>2
  <2> QED
    BY <1>1, <1>4, <2>3, <2>4
<1>5. restore.by = "call" => /\ Released = Idle /\ restore.queue = <<restore.id>>
                             /\ restore.id = file.id
  BY FilesParts DEF RestoreHolds, Released
<1>6. \A o \in owed : o[1] # restore.id => o[1] # Child
  <2>1. SUFFICES ASSUME NEW o \in owed, o[1] = Child PROVE o[1] = restore.id
    OBVIOUS
  <2>2. journal[Child].state = "prepared"
    BY <1>1, <2>1, FilesParts DEF Owing
  <2> QED
    BY <1>3, <2>1, <2>2
<1>7. Tail(restore.queue) # <<>> => restore.by # "call" /\ journal[restore.id].kind = "compound"
  <2>1. \A x : Tail(<<x>>) = <<>>
    OBVIOUS
  <2> QED
    BY <1>3, <1>5, <2>1
<1> QED
  BY <1>1, <1>2, <1>4, <1>5, <1>6, <1>7

ClosesChild(J, e) == J = [journal EXCEPT ![Child] = Closed(journal[Child], e)]

\* The transaction a restore works on is closed.
LEMMA ChildClosed ==
  ASSUME FilesInv, Restoring, NEW e \in Ended,
         NEW J, ClosesChild(J, e)
  PROVE  /\ Sound(J, expired) /\ DOMAIN J = Made
         /\ \A k \in Made : k # Child => J[k] = journal[k]
         /\ J[Child].kind = journal[Child].kind /\ J[Child].children = journal[Child].children
         /\ J[Child].snaps = <<>> /\ J[Child].state = e
<1>1. Child \in Made /\ Fine(journal[Child])
  BY RestoreAlone
<1>2. /\ Fine(Closed(journal[Child], e)) /\ Closed(journal[Child], e).kind = journal[Child].kind
      /\ Closed(journal[Child], e).children = journal[Child].children
      /\ Closed(journal[Child], e).snaps = <<>> /\ Closed(journal[Child], e).state = e
  BY <1>1, ClosedIsFine
<1>3. e # "committed"
  BY DEF Ended
<1>4. Sound(J, expired)
  BY <1>1, <1>2, <1>3, FilesParts, RewrittenIsSound DEF Made, ClosesChild
<1> QED
  BY <1>1, <1>2, <1>4 DEF Made, ClosesChild

\* A restore ends: the transaction it worked on and the one it was for are closed.
LEMMA RestoreEnds ==
  ASSUME FilesInv, Restoring, NEW e \in Ended, NEW f \in Ended,
         NEW J, ClosesChild(J, e),
         journal' = [J EXCEPT ![restore.id] = Closed(J[restore.id], f)],
         restore' = Idle, file' = Released, owed' = {o \in owed : o[1] # restore.id},
         UNCHANGED <<disk, made, aged, expired, capture>>
  PROVE  FilesInv'
<1> DEFINE w == Closed(J[restore.id], f)
<1> HIDE DEF w
<1>1. /\ Sound(J, expired) /\ DOMAIN J = Made
      /\ \A k \in Made : k # Child => J[k] = journal[k]
      /\ J[Child].kind = journal[Child].kind /\ J[Child].children = journal[Child].children
      /\ J[Child].snaps = <<>>
  BY ChildClosed
<1>2. restore.id \in Made /\ Child \in Made
  BY RestoreAlone
<1>3. /\ Fine(w) /\ w.kind = J[restore.id].kind /\ w.children = J[restore.id].children
      /\ w.snaps = <<>> /\ w.state = f /\ f # "committed"
  <2> USE DEF w
  <2>1. Fine(J[restore.id])
    BY <1>1, <1>2 DEF Sound
  <2>2. f # "committed"
    BY DEF Ended
  <2> QED
    BY <2>1, <2>2, ClosedIsFine
<1>4. journal' = [J EXCEPT ![restore.id] = w]
  BY DEF w
<1>5. Sound(journal', expired')
  <2>1. Sound([J EXCEPT ![restore.id] = w], expired)
    BY <1>1, <1>2, <1>3, RewrittenIsSound
  <2> QED
    BY <1>4, <2>1
<1>6. /\ Made' = Made
      /\ \A k \in Made : k \notin {Child, restore.id} => journal'[k] = journal[k]
      /\ journal'[restore.id] = w
  BY <1>1, <1>2, <1>4 DEF Made
<1>7. PlainFiles'
  BY <1>6, FilesParts DEF PlainFiles
<1>8. CaptureHolds'
  <2>1. \A k \in {Child, restore.id} : journal'[k].kind = journal[k].kind /\ journal'[k].snaps = <<>>
    BY <1>1, <1>2, <1>3, <1>4 DEF Made
  <2> QED
    BY <1>6, <2>1, CaptureKept
<1>9. Owing'
  <2>1. \A o \in owed' : o[1] \notin {Child, restore.id}
    BY RestoreAlone
  <2> QED
    BY <1>6, <2>1, OwingKept
<1>10. /\ CallHolds' /\ SavedFits' /\ DiskFits' /\ file'.pc # "rolling_back"
       /\ file' = Idle \/ file' = file
  <2>1. CASE restore.by = "call"
    <3>1. file' = Idle /\ file'.pc # "rolling_back"
      BY <2>1, RestoreAlone DEF Idle
    <3> QED
      BY <1>7, <3>1, NoCall
  <2>2. CASE restore.by # "call"
    <3>1. /\ file' = file /\ file.pc \notin {"preparing", "rolling_back"}
          /\ file.id \in Made => file.id \notin {Child, restore.id}
      BY <2>2, RestoreAlone
    <3>2. CallHolds' /\ SavedFits'
      BY <1>6, <3>1, CallKept
    <3>3. DiskFits'
      BY <1>6, <3>1, FilesParts DEF DiskFits
    <3> QED
      BY <3>1, <3>2, <3>3
  <2> QED
    BY <2>1, <2>2
<1>11. Holders'
  BY <1>10, FilesParts DEF Holders
<1>12. RestoreHolds' /\ RolledBack' /\ Spares'
  BY <1>10, NoRestore
<1> QED
  BY <1>5, <1>7, <1>8, <1>9, <1>10, <1>11, <1>12 DEF FilesInv

LEMMA RestoreFailsKeeps ==
  ASSUME FilesInv, RestoreFails PROVE FilesInv'
<1> DEFINE e == "rollback_failed"
           J == [journal EXCEPT ![Child] = Closed(journal[Child], e)]
<1>1. /\ Restoring /\ restore' = Idle /\ file' = Released
      /\ owed' = {o \in owed : o[1] # restore.id}
      /\ journal' = [i \in Made |-> IF i \in {Child, restore.id}
                                THEN Closed(journal[i], e) ELSE journal[i]]
      /\ UNCHANGED <<disk, made, aged, expired, capture>>
  BY DEF RestoreFails, Settle
<1>2. /\ restore.id \in Made /\ Child \in Made /\ Fine(journal[Child]) /\ e \in Ended
  BY <1>1, RestoreAlone DEF Ended
<1>3. J[restore.id] = journal[restore.id] \/ (restore.id = Child /\ J[restore.id] = Closed(journal[Child], e))
  BY <1>2 DEF Made
<1>4. restore.id = Child => Closed(J[restore.id], e) = Closed(journal[Child], e)
  <2>1. SUFFICES ASSUME restore.id = Child, NEW m, m = journal[Child]
        PROVE  Closed(Closed(m, e), e) = Closed(m, e)
    BY <1>2 DEF Made
  <2>2. /\ Closed(m, e) \in Manifest /\ Closed(m, e).state = e /\ Closed(m, e).snaps = <<>>
    BY <1>2, <2>1, ClosedIsFine DEF Fine
  <2>3. PICK n : n = Closed(m, e)
    OBVIOUS
  <2>4. n = [kind |-> n.kind, state |-> e, undoable |-> n.undoable, snaps |-> <<>>,
             children |-> n.children]
    BY <2>2, <2>3 DEF Manifest
  <2>5. PICK x : x = [n EXCEPT !.state = e]
    OBVIOUS
  <2>6. x = n
    BY <2>4, <2>5
  <2>7. Closed(n, e) = [x EXCEPT !.snaps = <<>>]
    BY <2>5 DEF Closed
  <2>8. Closed(n, e) = n
    BY <2>4, <2>6, <2>7
  <2> QED
    BY <2>3, <2>8
<1>5. Closed(J[restore.id], e) = Closed(journal[restore.id], e)
  BY <1>3, <1>4
<1>6. journal' = [J EXCEPT ![restore.id] = Closed(J[restore.id], e)]
  <2> DEFINE K == [J EXCEPT ![restore.id] = Closed(J[restore.id], e)]
  <2>1. DOMAIN K = Made
    BY DEF Made
  <2>2. ASSUME NEW k \in Made PROVE K[k] = journal'[k]
    <3>1. CASE k = restore.id
      BY <1>1, <1>2, <1>5, <3>1 DEF Made
    <3>2. CASE k # restore.id /\ k = Child
      BY <1>1, <1>2, <3>2 DEF Made
    <3>3. CASE k # restore.id /\ k # Child
      BY <1>1, <1>2, <3>3 DEF Made
    <3> QED
      BY <3>1, <3>2, <3>3
  <2>3. K = [k \in DOMAIN K |-> K[k]]
    OBVIOUS
  <2>4. journal' = [k \in DOMAIN journal' |-> journal'[k]] /\ DOMAIN journal' = Made
    BY <1>1
  <2> HIDE DEF K
  <2>5. journal' = K
    BY <2>1, <2>2, <2>3, <2>4
  <2> QED
    BY <2>5 DEF K
<1>7. ClosesChild(J, e)
  BY DEF ClosesChild
<1> HIDE DEF e, J
<1> QED
  BY <1>1, <1>2, <1>6, <1>7, RestoreEnds

LEMMA RestoredKeeps ==
  ASSUME FilesInv, Restored PROVE FilesInv'
<1> DEFINE J == [journal EXCEPT ![Child] = Closed(journal[Child], restore.end)]
           rest == Tail(restore.queue)
           next == Head(rest)
<1>1. /\ Restoring /\ restore.n = 0
      /\ owed' = {o \in owed : o[1] # restore.id}
      /\ UNCHANGED <<disk, made, aged, expired, capture>>
  BY DEF Restored, Settle
<1>2. \/ /\ rest = <<>>
         /\ journal' = [J EXCEPT ![restore.id] = Closed(J[restore.id], restore.end)]
         /\ restore' = Idle /\ file' = Released
      \/ /\ rest # <<>> /\ next \in Made /\ J[next].state = "committed"
         /\ journal' = J
         /\ restore' = [restore EXCEPT !.queue = rest, !.n = Len(J[next].snaps)]
         /\ UNCHANGED file
      \/ /\ rest # <<>>
         /\ journal' = [J EXCEPT ![restore.id] = Closed(J[restore.id], "rollback_failed")]
         /\ restore' = Idle /\ UNCHANGED file
  BY Zenon DEF Restored
<1>3. /\ restore \in Restores /\ restore.end \in Ended /\ "rollback_failed" \in Ended
      /\ restore.end \in {"rolled_back", "undone"} /\ restore.queue \in Seq(Id)
      /\ restore.id \in Id /\ restore.force \in BOOLEAN
      /\ restore.by \in {"tool", "dashboard", "call"} /\ restore.alien \in SUBSET Path
      /\ restore.cleared = FALSE
  <2>1. restore \in Restores
    BY <1>1, RestoreAlone
  <2>2. restore.cleared \in BOOLEAN /\ ~restore.cleared
    <3>1. restore.cleared \in BOOLEAN
      BY <2>1, RestoreFields
    <3>2. restore.cleared => restore.n > 0
      BY <1>1, FilesParts DEF RestoreHolds
    <3> QED
      BY <1>1, <3>1, <3>2
  <2>3. restore.cleared = FALSE
    BY <2>2
  <2> QED
    BY <2>1, <2>3, RestoreFields DEF Ended
<1>4. rest # <<>> => restore.by # "call" /\ Released = file
  BY <1>1, RestoreAlone
<1>a. ClosesChild(J, restore.end)
  BY DEF ClosesChild
<1>5. CASE /\ rest = <<>>
           /\ journal' = [J EXCEPT ![restore.id] = Closed(J[restore.id], restore.end)]
           /\ restore' = Idle /\ file' = Released
  BY <1>1, <1>3, <1>5, <1>a, RestoreEnds
<1>6. CASE /\ rest # <<>>
           /\ journal' = [J EXCEPT ![restore.id] = Closed(J[restore.id], "rollback_failed")]
           /\ restore' = Idle /\ UNCHANGED file
  BY <1>1, <1>3, <1>4, <1>6, <1>a, RestoreEnds
<1>7. CASE /\ rest # <<>> /\ next \in Made /\ J[next].state = "committed"
           /\ journal' = J
           /\ restore' = [restore EXCEPT !.queue = rest, !.n = Len(J[next].snaps)]
           /\ UNCHANGED file
  <2> HIDE DEF J
  <2>1. /\ Sound(J, expired) /\ DOMAIN J = Made
        /\ \A k \in Made : k # Child => J[k] = journal[k]
        /\ J[Child].kind = journal[Child].kind
        /\ J[Child].snaps = <<>> /\ J[Child].state = restore.end
    BY <1>1, <1>3, <1>a, ChildClosed
  <2>2. /\ restore.by # "call" /\ file.pc \notin {"preparing", "rolling_back"}
        /\ file.id \in Made => file.id \notin {Child, restore.id}
        /\ restore.id \in Made /\ Child \in Made
        /\ journal[restore.id].kind = "compound"
        /\ \A o \in owed : o[1] # restore.id => o[1] # Child
    BY <1>1, <1>7, RestoreAlone
  <2>3. /\ journal[Child].kind # "compound" /\ Distinct(restore.queue) /\ restore.queue # <<>>
        /\ journal[restore.id].state = "committed"
        /\ \A j \in DOMAIN restore.queue :
             restore.queue[j] \in Made => journal[restore.queue[j]].kind # "compound"
        /\ Child = restore.queue[1]
    <3>1. Child = restore.queue[1] /\ restore.queue # <<>> /\ Distinct(restore.queue)
      BY <1>1, <1>3, FilesParts DEF RestoreHolds, Child
    <3>2. restore.queue # <<restore.id>>
      BY <1>7
    <3> QED
      BY <1>1, <3>1, <3>2, FilesParts DEF RestoreHolds
  <2>4. /\ rest \in Seq(Id) /\ rest # <<>> /\ next = rest[1]
        /\ \A j \in DOMAIN rest : j + 1 \in DOMAIN restore.queue /\ rest[j] = restore.queue[j + 1]
        /\ DOMAIN rest \subseteq Nat \ {0} /\ 1 \in DOMAIN rest
    BY <1>3, <1>7, <2>3
  <2> HIDE DEF rest, next
  <2>5. Distinct(rest) /\ \A j \in DOMAIN rest : rest[j] # Child
    <3>1. 1 \in DOMAIN restore.queue
      BY <1>3, <2>3
    <3>2. ASSUME NEW j \in DOMAIN rest, NEW l \in DOMAIN rest, rest[j] = rest[l] PROVE j = l
      <4>1. j + 1 = l + 1
        BY <2>3, <2>4, <3>2 DEF Distinct
      <4> QED
        BY <2>4, <4>1
    <3>3. ASSUME NEW j \in DOMAIN rest, rest[j] = Child PROVE FALSE
      <4>1. j + 1 = 1
        BY <2>3, <2>4, <3>1, <3>3 DEF Distinct
      <4> QED
        BY <2>4, <4>1
    <3> QED
      BY <3>2, <3>3 DEF Distinct
  <2>6. /\ Made' = Made /\ Fine(J[next]) /\ Len(J[next].snaps) \in Nat
    <3>1. Fine(J[next])
      BY <1>7, <2>1 DEF Sound
    <3> QED
      BY <1>7, <2>1, <3>1, FineFields DEF Made
  <2>7. /\ restore' = RestoreRecord(restore.id, rest, Len(J[next].snaps), FALSE, restore.end,
                                  restore.force, restore.by, restore.alien)
        /\ restore' \in Restores
    <3>1. restore' = RestoreRecord(restore.id, rest, Len(J[next].snaps), restore.cleared, restore.end,
                                  restore.force, restore.by, restore.alien)
      <4>1. PICK n : n = Len(J[next].snaps)
        OBVIOUS
      <4>2. restore' = [restore EXCEPT !.queue = rest, !.n = n]
        BY <1>7, <4>1
      <4>3. restore' = RestoreRecord(restore.id, rest, n, restore.cleared, restore.end,
                                  restore.force, restore.by, restore.alien)
        <5>1. restore \in Restores
          BY <1>3
        <5> QED
          BY ONLY <4>2, <5>1, RestoreFields
      <4> QED
        BY <4>1, <4>3
    <3>2. RestoreRecord(restore.id, rest, Len(J[next].snaps), FALSE, restore.end,
                        restore.force, restore.by, restore.alien) \in Restores
      <4>1. PICK b \in BOOLEAN : b = FALSE
        OBVIOUS
      <4>2. RestoreRecord(restore.id, rest, Len(J[next].snaps), b, restore.end,
                          restore.force, restore.by, restore.alien) \in Restores
        BY ONLY <1>3, <2>4, <2>6, b \in BOOLEAN, RestoreTyped
      <4> QED
        BY <4>1, <4>2
    <3> QED
      BY <1>3, <3>1, <3>2
  <2>8. /\ restore'.id = restore.id /\ restore'.queue = rest /\ restore'.n = Len(J[next].snaps)
        /\ restore'.cleared = FALSE /\ restore'.by = restore.by /\ restore'.force = restore.force
        /\ restore'.alien = restore.alien
    BY <2>7 DEF RestoreRecord
  <2>9. Child' = next
    BY <2>4, <2>8 DEF Child, next
  <2>10. Sound(journal', expired')
    BY <1>1, <1>7, <2>1
  <2>11. PlainFiles'
    BY <1>1, <2>6, FilesParts DEF PlainFiles
  <2>12. Holders'
    <3>1. restore.id <= made
      BY <2>2, FilesParts DEF PlainFiles
    <3> QED
      BY <1>1, <1>7, <2>7, <2>8, <3>1, FilesParts DEF Holders
  <2>13. CaptureHolds'
    BY <1>1, <1>7, <2>1, <2>6, CaptureKept
  <2>14. Owing'
    <3>1. \A o \in owed' : o[1] # Child
      BY <1>1, <2>2
    <3> QED
      BY <1>1, <1>7, <2>1, <2>6, <3>1, OwingKept
  <2>15. CallHolds' /\ SavedFits'
    BY <1>7, <2>1, <2>2, <2>6, CallKept
  <2>16. DiskFits'
    BY <1>1, <1>7, <2>1, <2>2, <2>6, FilesParts DEF DiskFits
  <2>17. RestoreHolds'
    <3>1. /\ restore'.queue # <<>> /\ Distinct(restore'.queue)
          /\ restore'.id \in Made' /\ Child' \in Made' /\ journal'[Child'].kind # "compound"
      <4>1. journal[next].kind # "compound" /\ next # Child
        BY <1>7, <2>3, <2>4, <2>5
      <4> QED
        BY <1>7, <2>1, <2>2, <2>4, <2>5, <2>6, <2>8, <2>9, <4>1
    <3>2. restore'.n <= Len(journal'[Child'].snaps) /\ ~restore'.cleared /\ file'.pc # "preparing"
      <4>1. Len(J[next].snaps) <= Len(J[next].snaps)
        BY <2>6
      <4> QED
        BY <1>7, <2>2, <2>8, <2>9, <4>1
    <3>3. /\ journal'[restore'.id].kind = "compound"
          /\ journal'[restore'.id].state = "committed" /\ journal'[Child'].state = "committed"
      <4>1. restore.id # Child
        BY <2>2, <2>3
      <4> QED
        BY <1>7, <2>1, <2>2, <2>3, <2>8, <2>9, <4>1
    <3>4. \A j \in DOMAIN restore'.queue :
            restore'.queue[j] \in Made' => journal'[restore'.queue[j]].kind # "compound"
      <4>1. \A j \in DOMAIN rest : rest[j] \in Made => J[rest[j]].kind # "compound"
        BY <2>1, <2>3, <2>4, <2>5
      <4> QED
        BY <1>7, <2>6, <2>8, <4>1
    <3>5. restore'.by # "call" /\ (restore'.by = "tool" => file'.id = NoId) /\ file'.pc # "rolling_back"
      BY <1>1, <1>7, <2>2, <2>8, FilesParts DEF RestoreHolds
    <3> QED
      BY <3>1, <3>2, <3>3, <3>4, <3>5 DEF RestoreHolds
  <2>18. RolledBack'
    BY <2>2, <2>8 DEF RolledBack
  <2>19. Spares'
    <3>1. SUFFICES ASSUME restore.by = "tool", ~restore.force PROVE Spares'
      BY <2>8 DEF Spares
    <3>2. Chained(journal, disk, restore.queue, 0, FALSE, restore.alien)
      BY <1>1, <1>3, <3>1, FilesParts DEF Spares
    <3>3. /\ restore.queue \in Seq(Id) /\ Distinct(restore.queue) /\ restore.queue # <<>>
          /\ Tail(restore.queue) # <<>> /\ DOMAIN J = DOMAIN journal
          /\ \A k \in DOMAIN journal : k # restore.queue[1] => J[k] = journal[k]
      BY <1>3, <2>1, <2>3, <2>4 DEF Made, rest
    <3>4. Chained(J, disk, rest, Len(J[next].snaps), FALSE, restore.alien)
      BY <3>2, <3>3, NextStaysChained DEF rest, next
    <3> QED
      BY <1>1, <1>7, <2>8, <3>4 DEF Spares
  <2> QED
    BY <2>10, <2>11, <2>12, <2>13, <2>14, <2>15, <2>16, <2>17, <2>18, <2>19 DEF FilesInv
<1> QED
  BY <1>2, <1>5, <1>6, <1>7
-----------------------------------------------------------------------------
(* Captures and compounds *)

LEMMA BeginCaptureKeeps ==
  ASSUME FilesInv, NEW covered \in SUBSET Path, BeginCapture(covered) PROVE FilesInv'
<1> DEFINE m == Open("capture", "capturing")
           op == [id |-> New, base |-> disk, left |-> covered, pc |-> "running"]
<1>1. /\ JournalFree /\ made < MaxMade
      /\ journal' = Add(Pruned(journal, NoId), m)
      /\ capture' = op /\ made' = New
      /\ UNCHANGED <<disk, aged, expired, file, restore, upsets, owed>>
  BY DEF BeginCapture
<1>2. Fine(m) /\ m.kind = "capture" /\ m.snaps = <<>>
  BY OpenIsFine DEF Open
<1>3. restore = Idle /\ file.pc # "preparing" /\ file.pc # "rolling_back"
  BY <1>1, FreeJournal
<1> HIDE DEF m
<1>4. /\ Sound(journal', expired') /\ PlainFiles' /\ Owing'
      /\ New \in Id /\ New \in Made' /\ journal'[New] = m /\ New = made + 1
      /\ Made' \subseteq Made \cup {New} /\ \A k \in Made' : k # New => journal'[k] = journal[k]
  BY <1>1, <1>2, AddedJournal
<1>5. op \in Captures /\ op.id = New
  BY <1>4, FilesParts DEF Captures, PlainFiles
<1> HIDE DEF op
<1>6. Holders'
  <2>1. made \in Nat /\ New <= made'
    BY <1>1, <1>4, FilesParts
  <2>2. file' = Idle \/ (file' \in Calls /\ file'.id <= made')
    BY <1>1, <1>4, FilesParts, FilesFields
  <2> QED
    BY <1>1, <1>3, <1>5, <2>1, <2>2 DEF Holders
<1>7. CaptureHolds'
  BY <1>1, <1>2, <1>4, <1>5 DEF CaptureHolds
<1>8. CallHolds' /\ SavedFits' /\ DiskFits'
  <2>1. file.id # New
    BY <1>4, FilesFields, FilesParts DEF NoId
  <2> QED
    BY <1>1, <1>3, <1>4, <2>1, CallKept
<1> QED
  BY <1>1, <1>3, <1>4, <1>6, <1>7, <1>8, NoRestore DEF FilesInv

\* The transaction of a capture is no call's.
LEMMA CaptureAlone ==
  ASSUME FilesInv, capture.id \in Made
  PROVE  /\ capture \in Captures /\ capture.id <= made
         /\ Fine(journal[capture.id]) /\ journal[capture.id].kind = "capture"
         /\ file.id \in Made => file.id # capture.id
         /\ \A o \in owed : o[1] # capture.id
<1>1. journal[capture.id].kind = "capture"
  BY FilesParts DEF CaptureHolds
<1>2. capture.id # NoId
  BY FilesParts DEF PlainFiles, NoId
<1>3. capture \in Captures /\ capture.id <= made
  BY <1>2, FilesFields, FilesParts
<1>4. Fine(journal[capture.id])
  BY FilesParts
<1>5. file.id \in Made => file.id # capture.id
  BY <1>1, FilesParts DEF CallHolds
<1>6. \A o \in owed : o[1] # capture.id
  BY <1>1, FilesParts DEF Owing
<1> QED
  BY <1>1, <1>3, <1>4, <1>5, <1>6

\* Another manifest for the transaction of the capture alone.
LEMMA CaptureRewritten ==
  ASSUME FilesInv, capture.id \in Made, NEW m, Fine(m),
         m.kind = "capture", m.children = journal[capture.id].children,
         JournalFree, journal' = [journal EXCEPT ![capture.id] = m],
         UNCHANGED <<disk, made, aged, expired, file, restore, owed>>
  PROVE  /\ PlainFiles' /\ Sound(journal', expired') /\ CallHolds' /\ SavedFits' /\ DiskFits'
         /\ RestoreHolds' /\ RolledBack' /\ Spares' /\ Owing'
         /\ Made' = Made /\ journal'[capture.id] = m
<1>1. /\ restore = Idle /\ file.pc # "rolling_back" /\ file.pc # "preparing"
      /\ journal[capture.id].kind = "capture"
      /\ file.id \in Made => file.id # capture.id
      /\ \A o \in owed : o[1] # capture.id
  BY FreeJournal, CaptureAlone
<1>2. /\ Sound(journal', expired') /\ Made' = Made /\ journal'[capture.id] = m
      /\ \A k \in Made : k # capture.id => journal'[k] = journal[k]
  BY <1>1, Rewritten
<1>3. PlainFiles'
  BY <1>2, FilesParts DEF PlainFiles
<1>4. Owing'
  BY <1>1, <1>2, OwingKept
<1>5. CallHolds' /\ SavedFits' /\ DiskFits'
  BY <1>1, <1>2, CallKept
<1>6. RestoreHolds' /\ RolledBack' /\ Spares'
  BY <1>1, NoRestore
<1> QED
  BY <1>2, <1>3, <1>4, <1>5, <1>6

LEMMA CaptureRefusedKeeps ==
  ASSUME FilesInv, CaptureRefused PROVE FilesInv'
<1>1. /\ JournalFree /\ capture' = Idle
      /\ UNCHANGED <<disk, made, aged, expired, file, restore, owed>>
  BY DEF CaptureRefused
<1>2. Holders'
  BY <1>1, FilesParts DEF Holders
<1>3. CASE UNCHANGED journal
  BY <1>1, <1>2, <1>3, NoCapture, FilesFrame DEF FilesInv
<1>4. CASE capture.id \in Made /\ journal' = [journal EXCEPT ![capture.id] = Aborted(@)]
  <2> DEFINE w == Aborted(journal[capture.id])
  <2>1. Fine(w) /\ w.kind = "capture" /\ w.children = journal[capture.id].children
    BY <1>4, CaptureAlone, AbortedIsFine
  <2>2. journal' = [journal EXCEPT ![capture.id] = w]
    BY <1>4
  <2> HIDE DEF w
  <2>3. /\ PlainFiles' /\ Sound(journal', expired') /\ CallHolds' /\ SavedFits' /\ DiskFits'
        /\ RestoreHolds' /\ RolledBack' /\ Spares' /\ Owing'
    BY <1>1, <1>4, <2>1, <2>2, CaptureRewritten
  <2> QED
    BY <1>1, <1>2, <2>3, NoCapture DEF FilesInv
<1> QED
  BY <1>3, <1>4 DEF CaptureRefused, InState

LEMMA CompareKeeps ==
  ASSUME FilesInv, Compare PROVE FilesInv'
<1>1. PICK path \in capture.left :
        /\ \/ UNCHANGED journal
           \/ /\ JournalFree /\ InState(capture.id, {"capturing"})
              /\ journal' = [journal EXCEPT ![capture.id].snaps =
                   Append(@, [path |-> path, before |-> capture.base[path], post |-> "unknown"])]
        /\ capture' = [capture EXCEPT !.left = @ \ {path}]
  BY DEF Compare
<1>2. /\ capture.pc = "scanning"
      /\ UNCHANGED <<disk, made, aged, expired, file, restore, upsets, owed>>
  BY DEF Compare
<1>3. capture \in Captures /\ capture.id \in 1..made
  BY <1>2, FilesFields
<1>4. /\ capture' = [id |-> capture.id, base |-> capture.base, left |-> capture.left \ {path},
                     pc |-> capture.pc]
      /\ capture' \in Captures /\ capture'.id = capture.id /\ capture'.left = capture.left \ {path}
  <2>1. capture' = [id |-> capture.id, base |-> capture.base, left |-> capture.left \ {path},
                     pc |-> capture.pc]
    BY <1>1, <1>3, CaptureFields
  <2>2. capture.left \ {path} \subseteq Path
    BY <1>3, CaptureFields
  <2> QED
    BY <1>3, <2>1, <2>2, CaptureFields DEF Captures
<1>5. Holders'
  BY <1>2, <1>3, <1>4, FilesParts DEF Holders
<1>6. CASE UNCHANGED journal
  <2>1. CaptureHolds'
    BY <1>4, <1>6, FilesParts DEF CaptureHolds, Made
  <2> QED
    BY <1>2, <1>5, <1>6, <2>1, FilesFrame DEF FilesInv
<1>7. CASE /\ JournalFree /\ InState(capture.id, {"capturing"})
           /\ journal' = [journal EXCEPT ![capture.id].snaps =
                Append(@, [path |-> path, before |-> capture.base[path], post |-> "unknown"])]
  <2> DEFINE m == journal[capture.id]
             e == [path |-> path, before |-> capture.base[path], post |-> "unknown"]
             w == [m EXCEPT !.snaps = Append(@, e)]
  <2>1. capture.id \in Made /\ m.state = "capturing"
    BY <1>7 DEF InState
  <2>2. Fine(m) /\ m.kind = "capture"
    BY <2>1, CaptureAlone
  <2>3. e \in SnapshotEntry /\ e.path = path
    <3>1. path \in Path /\ capture.base[path] \in Content
      BY <1>3, CaptureFields
    <3> QED
      BY <3>1 DEF SnapshotEntry
  <2>4. \A k \in DOMAIN m.snaps : m.snaps[k].path \notin capture.left
    BY <2>1, FilesParts DEF CaptureHolds
  <2>5. journal' = [journal EXCEPT ![capture.id] = w]
    BY <1>7
  <2> HIDE DEF e
  <2>6. /\ Fine(w)
        /\ w = [kind |-> m.kind, state |-> m.state, undoable |-> m.undoable,
                snaps |-> Append(m.snaps, e), children |-> m.children]
        /\ DOMAIN Append(m.snaps, e) = DOMAIN m.snaps \cup {Len(m.snaps) + 1}
        /\ \A k \in DOMAIN m.snaps : Append(m.snaps, e)[k] = m.snaps[k]
        /\ Append(m.snaps, e)[Len(m.snaps) + 1] = e
    <3>1. m.kind # "compound" /\ m.state # "committed"
      BY <2>1, <2>2
    <3>2. \A k \in DOMAIN m.snaps : m.snaps[k].path # e.path
      BY <2>3, <2>4
    <3> HIDE DEF m
    <3> QED
      BY <2>2, <2>3, <3>1, <3>2, SavedIsFine
  <2> HIDE DEF w, m
  <2>7. w.kind = m.kind /\ w.children = m.children /\ w.snaps = Append(m.snaps, e)
    BY <2>6
  <2>8. /\ PlainFiles' /\ Sound(journal', expired') /\ CallHolds' /\ SavedFits' /\ DiskFits'
        /\ RestoreHolds' /\ RolledBack' /\ Spares' /\ Owing'
        /\ Made' = Made /\ journal'[capture.id] = w
    <3>1. Fine(w) /\ w.kind = "capture" /\ w.children = journal[capture.id].children
      BY <2>2, <2>6, <2>7 DEF m
    <3>2. JournalFree /\ UNCHANGED <<disk, made, aged, expired, file, restore, owed>>
      BY <1>2, <1>7
    <3> QED
      BY <2>1, <2>5, <3>1, <3>2, CaptureRewritten
  <2>9. CaptureHolds'
    <3>1. ASSUME NEW k \in DOMAIN w.snaps PROVE w.snaps[k].path \notin capture.left \ {path}
      <4>1. k \in DOMAIN m.snaps \/ k = Len(m.snaps) + 1
        BY <2>6, <2>7, <3>1
      <4>2. CASE k \in DOMAIN m.snaps
        BY <2>4, <2>6, <2>7, <4>2
      <4>3. CASE k = Len(m.snaps) + 1
        BY <2>3, <2>6, <2>7, <4>3
      <4> QED
        BY <4>1, <4>2, <4>3
    <3>2. w.kind = "capture"
      BY <2>2, <2>7
    <3> QED
      BY <1>4, <2>8, <3>1, <3>2 DEF CaptureHolds
  <2> QED
    BY <1>5, <2>8, <2>9 DEF FilesInv
<1> QED
  BY <1>1, <1>6, <1>7

LEMMA FinalizeCaptureKeeps ==
  ASSUME FilesInv, FinalizeCapture PROVE FilesInv'
<1> DEFINE m == journal[capture.id]
           w == Committed(m)
           J == [journal EXCEPT ![capture.id] = w]
<1>1. /\ capture.pc = "scanning" /\ JournalFree /\ capture.id \in Made
      /\ journal' = Pruned(J, capture.id)
      /\ capture' = [capture EXCEPT !.pc = "joining"]
      /\ UNCHANGED <<disk, made, aged, expired, file, restore, upsets, owed>>
  BY DEF FinalizeCapture, InState
<1>2. /\ Fine(m) /\ m.kind = "capture" /\ capture \in Captures /\ capture.id <= made
      /\ file.id \in Made => file.id # capture.id
      /\ \A o \in owed : o[1] # capture.id
      /\ restore = Idle /\ file.pc # "preparing" /\ file.pc # "rolling_back"
  BY <1>1, CaptureAlone, FreeJournal
<1>3. /\ Fine(w) /\ w.kind = m.kind /\ w.children = m.children
      /\ DOMAIN w.snaps = DOMAIN m.snaps
      /\ \A k \in DOMAIN m.snaps : w.snaps[k].path = m.snaps[k].path
  <2>1. disk \in [Path -> Content] /\ "unknown" \notin Content
    BY FilesAssumption, FilesParts DEF PlainFiles, ConstantAssumption
  <2> QED
    BY <1>2, <2>1, CommittedIsFine
<1> HIDE DEF w
<1>4. Sound(J, expired)
  BY <1>1, <1>2, <1>3, FilesParts, RewrittenIsSound DEF Made
<1>5. DOMAIN J = Made /\ J[capture.id] = w /\ \A k \in Made : k # capture.id => J[k] = journal[k]
  BY <1>1 DEF Made
<1> HIDE DEF J
<1>6. /\ Made' \subseteq Made /\ \A k \in Made' : journal'[k] = J[k]
      /\ \A k \in Made : /\ k \notin aged \cup expired /\ J[k].state = "prepared"
                         => k \in Made'
  BY <1>1, <1>5, PrunedIs DEF Made
<1>7. Sound(journal', expired')
  BY <1>1, <1>4, PrunedIsSound
<1>8. PlainFiles'
  BY <1>1, <1>6, FilesParts DEF PlainFiles
<1>9. /\ capture' \in Captures /\ capture'.id = capture.id /\ capture'.left = capture.left
  BY <1>1, <1>2, CaptureFields DEF Captures
<1>10. Holders'
  BY <1>1, <1>2, <1>9, FilesParts DEF Holders
<1>11. CaptureHolds'
  BY <1>1, <1>2, <1>3, <1>5, <1>6, <1>9, FilesParts DEF CaptureHolds
<1>12. Owing'
  BY <1>1, <1>2, <1>5, <1>6, OwingKept
<1>13. CallHolds' /\ SavedFits' /\ DiskFits'
  BY <1>1, <1>2, <1>5, <1>6, CallKept
<1> QED
  BY <1>1, <1>2, <1>7, <1>8, <1>10, <1>11, <1>12, <1>13, NoRestore DEF FilesInv

\* A compound takes what it is made of over: it expires no later than the first of its children.
LEMMA JoinKeeps ==
  ASSUME FilesInv, NEW i \in Id, Join(i) PROVE FilesInv'
<1> DEFINE C == Flat(i, capture.id)
           m == [Open("compound", "committed") EXCEPT !.children = C]
           J == Add(journal, m)
<1>1. /\ capture.pc = "joining" /\ JournalFree /\ made < MaxMade
      /\ CanJoin(i, capture.id)
      /\ journal' = Pruned(J, New)
      /\ made' = New
      /\ expired' = IF Elements(m.children) \cap expired = {} THEN expired ELSE expired \cup {New}
      /\ capture' = Idle
      /\ UNCHANGED <<disk, aged, file, restore, upsets, owed>>
  BY DEF Join
<1>2. /\ i \in Made /\ capture.id \in Made
      /\ \A k \in Elements(C) : k \in Made
  BY <1>1 DEF CanJoin, InState
<1>3. /\ restore = Idle /\ file.pc # "preparing" /\ file.pc # "rolling_back"
      /\ journal[capture.id].kind # "compound"
      /\ Sound(journal, expired) /\ Made \subseteq 1..made /\ made \in 0..MaxMade /\ MaxMade \in Nat
      /\ expired \subseteq 1..made
  BY <1>1, <1>2, FreeJournal, CaptureAlone, FilesParts DEF PlainFiles
<1>4. /\ C \in Seq(Id) /\ C # <<>> /\ Distinct(C)
      /\ \A k \in Elements(C) : k \in 1..made /\ (k \in Made => journal[k].kind # "compound")
  BY <1>2, <1>3, FlatIs
<1> HIDE DEF C
<1>5. /\ m = [kind |-> "compound", state |-> "committed", undoable |-> TRUE, snaps |-> <<>>,
              children |-> C]
      /\ Fine(m)
  <2>1. m = [kind |-> "compound", state |-> "committed", undoable |-> TRUE, snaps |-> <<>>,
              children |-> C]
    <3>1. PICK b : b = TRUE
      OBVIOUS
    <3>2. [[kind |-> "compound", state |-> "committed", undoable |-> b,
            snaps |-> <<>>, children |-> <<>>] EXCEPT !.children = C] =
            [kind |-> "compound", state |-> "committed", undoable |-> b, snaps |-> <<>>,
             children |-> C]
      OBVIOUS
    <3> QED
      BY <3>1, <3>2 DEF Open
  <2>2. m \in Manifest
    <3>1. PICK b \in BOOLEAN : b = TRUE
      OBVIOUS
    <3>2. [kind |-> "compound", state |-> "committed", undoable |-> b, snaps |-> <<>>,
             children |-> C] \in Manifest
      BY <1>4 DEF Manifest
    <3> QED
      BY <2>1, <3>1, <3>2
  <2> QED
    BY <1>4, <2>1, <2>2 DEF Fine, OncePerPath
<1>6. m.children = C
  BY <1>5
<1> HIDE DEF m
<1>7. New = made + 1 /\ New \in Id /\ made \in Nat /\ New \notin Made
  BY <1>1, <1>3 DEF New, Id
<1>8. /\ expired \subseteq expired' /\ expired' \subseteq expired \cup {New}
      /\ New \notin expired' => Elements(m.children) \cap expired = {}
  BY <1>1
<1>9. Sound(J, expired')
  <2>1. \A c \in Elements(m.children) : c \in 1..made /\ c \in DOMAIN journal
                                          /\ journal[c].kind # "compound"
    BY <1>2, <1>4, <1>6 DEF Made
  <2>2. DOMAIN journal \subseteq 1..made
    BY <1>3 DEF Made
  <2>3. PICK Y : Y = expired'
    OBVIOUS
  <2>4. /\ expired \subseteq Y /\ Y \subseteq expired \cup {New}
        /\ New \notin Y => Elements(m.children) \cap expired = {}
    BY <1>8, <2>3
  <2>5. Sound(J, Y)
    <3>1. expired \subseteq 1..made /\ made \in Nat /\ Sound(journal, expired) /\ Fine(m)
      BY <1>3, <1>5, <1>7
    <3>2. Sound(Add(journal, m), Y)
      BY ONLY <2>1, <2>2, <2>4, <3>1, AddedIsSound
    <3> QED
      BY <3>2
  <2> QED
    BY <2>3, <2>5
<1>10. /\ DOMAIN J = Made \cup {New} /\ \A k \in Made : J[k] = journal[k]
  BY <1>7 DEF Add, Made
<1> HIDE DEF J
<1>11. /\ Made' \subseteq Made \cup {New} /\ \A k \in Made' : journal'[k] = J[k]
       /\ \A k \in Made : /\ k \notin aged \cup expired /\ journal[k].state = "prepared"
                          => k \in Made'
  <2>1. \A k \in Made : k \in DOMAIN J
    BY <1>10
  <2> QED
    BY <1>1, <1>10, <2>1, PrunedIs DEF Made
<1>12. Sound(journal', expired')
  <2>1. PICK Y : Y = expired'
    OBVIOUS
  <2>2. Sound(Pruned(J, New), Y)
    BY <1>8, <1>9, <2>1, PrunedIsSound
  <2> QED
    BY <1>1, <2>1, <2>2
<1>13. PlainFiles'
  <2>1. 1..made \subseteq 1..New /\ New \in 1..New /\ New \in 0..MaxMade
    BY <1>1, <1>3, <1>7
  <2>2. Made' \subseteq 1..New /\ expired' \subseteq 1..New
    BY <1>3, <1>8, <1>11, <2>1
  <2> QED
    BY <1>1, <2>1, <2>2, FilesParts DEF PlainFiles
<1>14. Holders'
  <2>1. file' = Idle \/ (file' \in Calls /\ file'.id <= made')
    BY <1>1, <1>7, FilesParts, FilesFields
  <2> QED
    BY <1>1, <1>3, <2>1 DEF Holders
<1>15. Owing'
  <2>1. \A o \in owed : o[1] # New
    BY <1>7, FilesParts DEF PlainFiles
  <2> QED
    BY <1>1, <1>8, <1>10, <1>11, <2>1, OwingKept
<1>16. CallHolds' /\ SavedFits' /\ DiskFits'
  <2>1. file.id # New
    BY <1>7, FilesFields, FilesParts DEF NoId
  <2> QED
    BY <1>1, <1>3, <1>10, <1>11, <2>1, CallKept
<1> QED
  BY <1>1, <1>3, <1>12, <1>13, <1>14, <1>15, <1>16, NoRestore, NoCapture DEF FilesInv
-----------------------------------------------------------------------------
(* The invariant and what follows *)

LEMMA FilesStep == FilesInv /\ [FilesNext]_filesVars => FilesInv'
<1> SUFFICES ASSUME FilesInv, [FilesNext]_filesVars PROVE FilesInv'
  OBVIOUS
<1>0. /\ \A covered \in Coverage : covered \in SUBSET Path
      /\ \A w \in CommandWrite \cup OwnerWrite : w \in Path \X Content
  BY FilesAssumption DEF ConstantAssumption
<1>1. CASE Prune
  BY <1>1, PruneKeeps
<1>2. CASE SaveFails
  BY <1>2, SaveFailsKeeps
<1>3. CASE Prepared
  BY <1>3, PreparedKeeps
<1>4. CASE Change
  BY <1>4, ChangeKeeps
<1>5. CASE Commit
  BY <1>5, CommitKeeps
<1>6. CASE FailedCallRollsBack
  BY <1>6, FailedCallRollsBackKeeps
<1>7. CASE CallBreaksOff
  BY <1>7, CallBreaksOffKeeps
<1>8. CASE \E plan \in Plan : Begin(plan)
  BY <1>8, BeginKeeps
<1>9. CASE SavePreimage
  BY <1>9, SavePreimageKeeps
<1>10. CASE Compare
  BY <1>10, CompareKeeps
<1>11. CASE \E i \in Id, by \in {"tool", "dashboard"} :
              \E force \in BOOLEAN : Undo(i, force, by) \/ UndoCompound(i, force, by)
  BY <1>11, UndoKeeps, UndoCompoundKeeps
<1>12. CASE \E i \in Id, by \in {"tool", "dashboard"} : UndoWithoutPreimages(i)
  BY <1>12, UndoWithoutPreimagesKeeps
<1>13. CASE Clear
  BY <1>13, ClearKeeps
<1>14. CASE PutBack
  BY <1>14, PutBackKeeps
<1>15. CASE Restored
  BY <1>15, RestoredKeeps
<1>16. CASE RestoreFails
  BY <1>16, RestoreFailsKeeps
<1>17. CASE \E covered \in Coverage : BeginCapture(covered)
  BY <1>0, <1>17, BeginCaptureKeeps
<1>18. CASE CaptureRefused
  BY <1>18, CaptureRefusedKeeps
<1>19. CASE CommandEnds
  BY <1>19, CommandEndsKeeps
<1>20. CASE FinalizeCapture
  BY <1>20, FinalizeCaptureKeeps
<1>21. CASE CaptureEnds
  BY <1>21, CaptureEndsKeeps
<1>22. CASE \E i \in Id : Join(i) \/ Ages(i) \/ Expires(i)
  BY <1>22, JoinKeeps, AgesKeeps, ExpiresKeeps
<1>23. CASE \E w \in CommandWrite : CommandWrites(w)
  BY <1>0, <1>23, OverwriteKeeps DEF CommandWrites
<1>24. CASE \E w \in OwnerWrite : OwnerWrites(w)
  BY <1>0, <1>24, OverwriteKeeps DEF OwnerWrites
<1>25. CASE Crash
  BY <1>25, CrashKeeps
<1>26. CASE UNCHANGED filesVars
  <2>1. /\ UNCHANGED <<disk, journal, made, aged, expired, owed>>
        /\ UNCHANGED <<file, capture, restore, made>>
        /\ UNCHANGED <<journal, expired>> /\ UNCHANGED <<journal, file, restore>>
        /\ UNCHANGED <<journal, capture>> /\ UNCHANGED <<journal, owed, aged, expired>>
        /\ UNCHANGED <<journal, file>> /\ UNCHANGED <<journal, file, disk, owed>>
        /\ UNCHANGED <<journal, restore, file, disk>> /\ UNCHANGED <<journal, restore, disk>>
    BY <1>26 DEF filesVars
  <2> QED
    BY <2>1, FilesFrame DEF FilesInv
<1> QED
  BY <1>1, <1>2, <1>3, <1>4, <1>5, <1>6, <1>7, <1>8, <1>9, <1>10, <1>11, <1>12, <1>13, <1>14,
     <1>15, <1>16, <1>17, <1>18, <1>19, <1>20, <1>21, <1>22, <1>23, <1>24, <1>25, <1>26
     DEF FilesNext

\* The inductive invariant of the journal.
THEOREM FilesInvariant == FilesSpec => []FilesInv
<1>1. FilesInit => FilesInv
  BY FilesInitInv
<1>2. FilesInv /\ [FilesNext]_filesVars => FilesInv'
  BY FilesStep
<1> QED
  BY <1>1, <1>2, PTL DEF FilesSpec

\* The journal holds only manifests the code writes: what is committed and can be undone has all
\* its fingerprints, and a compound has no compound as a child (file_transactions.py:575-595,
\* :816-861, :950-955).
THEOREM FilesTypeCorrect == FilesSpec => []FilesTypes
<1>1. FilesInv => FilesTypes
  <2> SUFFICES ASSUME FilesInv PROVE FilesTypes
    OBVIOUS
  <2>1. ASSUME NEW i \in Made
        PROVE  /\ journal[i] \in Manifest
               /\ journal[i].state = "committed" /\ journal[i].undoable
                    => \A s \in Elements(journal[i].snaps) : s.post # "unknown"
               /\ \A c \in Elements(journal[i].children) \cap Made : journal[c].kind # "compound"
    <3>1. Fine(journal[i])
      BY FilesParts
    <3>2. \A c \in Elements(journal[i].children) \cap Made : journal[c].kind # "compound"
      BY FilesParts DEF Sound, Made
    <3> QED
      BY <3>1, <3>2 DEF Fine, Elements
  <2> QED
    BY <2>1, FilesParts DEF FilesTypes, PlainFiles
<1> QED
  BY <1>1, FilesInvariant, PTL

\* However the journal is pruned, the children of a compound that can be undone stay in it
\* (_prune_locked, file_transactions.py:489-545).
THEOREM ChildrenKeptHolds == FilesSpec => []ChildrenKept
<1>1. FilesInv => ChildrenKept
  BY DEF FilesInv, Sound, ChildrenKept, Made
<1> QED
  BY <1>1, FilesInvariant, PTL

\* What a call changed and did not come to an end with is in a preimage of a transaction that
\* no prune removes before its grace is over (file_transactions.py:520-532, :619-638).
THEOREM ChangesCanBeRestoredHolds == FilesSpec => []ChangesCanBeRestored
<1>1. FilesInv => ChangesCanBeRestored
  BY DEF FilesInv, Owing, ChangesCanBeRestored, Elements
<1> QED
  BY <1>1, FilesInvariant, PTL

\* A call that fails and is rolled back leaves every target as it was when the call began, but for
\* what others wrote (_rollback_after_error and rollback_transaction).
THEOREM FailedCallLeavesNothingHolds == FilesSpec => FailedCallLeavesNothing
<1>1. ASSUME FilesInv, Restored, restore.by = "call", NEW p \in AllTargets(file.plan) \ file.alien
      PROVE  disk[p] = file.base[p]
  <2>1. Restoring /\ restore.n = 0
    BY <1>1 DEF Restored
  <2>2. /\ file.pc = "rolling_back" /\ Child = file.id /\ file.id \in Made
        /\ journal[file.id].undoable
    BY <1>1, <2>1, FilesParts DEF RestoreHolds, Child
  <2>3. PICK k \in DOMAIN journal[file.id].snaps : journal[file.id].snaps[k].path = p
    BY <1>1, <2>2, FilesParts DEF SavedFits
  <2>4. journal[file.id].snaps[k].before = file.base[p]
    BY <1>1, <2>2, <2>3, FilesParts DEF SavedFits
  <2>5. k > 0
    <3>1. DOMAIN journal[file.id].snaps = 1..Len(journal[file.id].snaps)
      BY <1>1, <2>2, FilesParts, FineFields
    <3>2. Len(journal[file.id].snaps) \in Nat
      BY <1>1, <2>2, FilesParts, FineFields
    <3> QED
      BY <2>3, <3>1, <3>2
  <2>6. disk[p] = journal[file.id].snaps[k].before
    BY <1>1, <2>1, <2>2, <2>3, <2>5, FilesParts DEF RolledBack
  <2> QED
    BY <2>4, <2>6
<1>2. FilesInv /\ [FilesNext]_filesVars
        => [Restored /\ restore.by = "call"
              => \A p \in AllTargets(file.plan) \ file.alien : disk[p] = file.base[p]]_filesVars
  BY <1>1
<1> QED
  BY <1>2, FilesInvariant, PTL DEF FilesSpec, FailedCallLeavesNothing

\* An undo that is not forced, through the file tool, removes nothing but what the transaction left
\* there (_preflight_compound_locked and _rollback_locked, file_transactions.py:874-977).
THEOREM UndoSparesNewerWorkHolds == FilesSpec => UndoSparesNewerWork
<1>1. ASSUME FilesInv, Clear, restore.by = "tool", ~restore.force, Snap.path \notin restore.alien
      PROVE  disk[Snap.path] = Snap.post
  <2>1. Restoring /\ restore.n > 0 /\ ~restore.cleared
    BY <1>1 DEF Clear
  <2>2. Chained(journal, disk, restore.queue, restore.n, restore.cleared, restore.alien)
    BY <1>1, <2>1, PendingPaths
  <2>3. /\ 1 \in DOMAIN restore.queue /\ Snap = journal[restore.queue[1]].snaps[restore.n]
        /\ restore.n \in Nat /\ restore.queue \in Seq(Id)
    BY <1>1, <2>1, SnapIs
  <2>4. At(journal, restore.queue, 1, restore.n) = Snap
    BY <2>3 DEF At
  <2>5. restore.n \in Pending(journal, restore.queue, restore.n, 1)
    BY <2>1, <2>3 DEF Pending
  <2>6. ~Touched(journal, restore.queue, restore.n, 0, 1, Snap.path)
    <3>1. \A j \in DOMAIN restore.queue : ~(0 < j /\ j < 1)
      BY <2>3
    <3> QED
      BY <3>1 DEF Touched
  <2> QED
    BY <1>1, <2>1, <2>2, <2>3, <2>4, <2>5, <2>6 DEF Chained
<1>2. FilesInv /\ [FilesNext]_filesVars
        => [Clear /\ restore.by = "tool" /\ ~restore.force /\ Snap.path \notin restore.alien
              => disk[Snap.path] = Snap.post]_filesVars
  BY <1>1
<1> QED
  BY <1>2, FilesInvariant, PTL DEF FilesSpec, UndoSparesNewerWork
=============================================================================
