-------------------------- MODULE TeamGraphProofs ---------------------------
(***************************************************************************)
(* Proofs about TeamGraph, for every plan, every number of requests of the *)
(* owner and every number of ticks that die.                               *)
(*                                                                         *)
(* A tick is one step that gives every task several turns.  What each turn *)
(* keeps is a set of working states; the lemma AlongStays carries it over  *)
(* a pass, by induction on the tasks that had their turn.                  *)
(***************************************************************************)
EXTENDS TeamGraph, FiniteSetTheorems, NaturalsInduction, WellFoundedInduction, TLAPS

Status == {"none", "live"} \cup Ended
First(k) == {Order[i] : i \in 1 .. k}

\* The tasks of a team, at any moment and also inside a tick.
Planned(T) == /\ \E k \in Spawned .. Len(Order) : DOMAIN T = First(k)
              /\ T \in [DOMAIN T -> TaskType]

\* A reviewer is started, and passes, when its target is completed.
Backed(T) == \A r \in DOMAIN T :
                T[r].state \in Active /\ ReviewOf[r] # None =>
                   T[ReviewOf[r]].state = "completed"

Passed(T) == \A r \in DOMAIN T :
                ReviewOf[r] # None /\ T[r].state = "completed" =>
                   T[r].gate = "pass" /\ T[ReviewOf[r]].state = "completed"

Caused(T) == \A t \in DOMAIN T :
                T[t].state = "skipped" /\ T[t].cause = "dependency_failed" =>
                   \E d \in DependsOn[t] : EffectivelyFailed(T, d)

Revised(T) == \A r \in Task : ReviewOf[r] \in DOMAIN T =>
                 T[ReviewOf[r]].revisions <= MaxRevisions[r]

Sound(T) == Planned(T) /\ Backed(T) /\ Passed(T) /\ Caused(T) /\ Revised(T)

\* Only reviewers end with a decision.
Tells(A) == \A t \in Task : /\ A[t] = "done" => ReviewOf[t] = None
                            /\ A[t] \in {"pass", "fail", "invalid"} => ReviewOf[t] # None

CancelHolds ==
    cancel # None =>
       /\ cancel = [step |-> cancel.step, task |-> cancel.task, parallel |-> cancel.parallel]
       /\ cancel.parallel \in Nat
       /\ Sound(cancel.task) /\ In(cancel.task, Terminal) = DOMAIN cancel.task

IInv == TypeOK /\ Sound(task) /\ Tells(agent) /\ CancelHolds
-----------------------------------------------------------------------------
\* What holds for 0 and passes from each number to the next holds for all.
LEMMA Induction ==
  ASSUME NEW S \in SUBSET Nat, 0 \in S, \A n \in S : n + 1 \in S
  PROVE  S = Nat
<1> DEFINE R == OpToRel(<, Nat)  left == Nat \ S
<1> SUFFICES ASSUME left # {} PROVE FALSE
  OBVIOUS
<1>1. IsWellFoundedOn(R, Nat)
  BY NatLessThanWellFounded
<1>2. \A x, y \in Nat : <<y, x>> \in R <=> y < x
  BY DEF OpToRel
<1> HIDE DEF R
<1>3. PICK x \in left : \A y \in left : <<y, x>> \notin R
  BY <1>1, WFMin
<1>4. x \in Nat /\ x # 0 /\ x - 1 \in Nat /\ x - 1 < x /\ (x - 1) + 1 = x
  OBVIOUS
<1>5. x - 1 \in S
  BY <1>2, <1>3, <1>4
<1> QED
  BY <1>4, <1>5

\* The plan is a sequence without repetitions.
LEMMA OrderIs ==
  /\ Len(Order) \in Nat /\ \A i \in 1 .. Len(Order) : Order[i] \in Task
  /\ \A i, j \in 1 .. Len(Order) : Order[i] = Order[j] => i = j
  /\ Spawned \in 1 .. Len(Order)
<1>1. Order \in Seq(Task)
  BY GraphAssumption
<1>2. Len(Order) \in Nat
  BY <1>1
<1>3. \A i, j \in 1 .. Len(Order) : Order[i] = Order[j] => i = j
  BY GraphAssumption
<1>4. Spawned \in 1 .. Len(Order)
  BY GraphAssumption
<1>5. \A i \in 1 .. Len(Order) : Order[i] \in Task
  BY DEF Task
<1> QED
  BY <1>2, <1>3, <1>4, <1>5

\* The tasks of a team are the first ones of the plan, with all they depend on.
LEMMA PlanIs ==
  ASSUME NEW T, Planned(T)
  PROVE  /\ Size(T) \in Nat \ {0} /\ Size(T) \in Spawned .. Len(Order)
         /\ DOMAIN T = First(Size(T))
         /\ DOMAIN T \subseteq Task
         /\ \A t \in DOMAIN T : /\ DependsOn[t] \subseteq DOMAIN T
                                /\ ReviewOf[t] # None => /\ ReviewOf[t] \in DependsOn[t]
                                                         /\ ReviewOf[t] \in DOMAIN T
                                                         /\ ReviewOf[t] # t
<1>0. Len(Order) \in Nat /\ \A i \in 1 .. Len(Order) : Order[i] \in Task
  BY OrderIs
<1>1. PICK k \in Spawned .. Len(Order) : DOMAIN T = First(k)
  BY DEF Planned
<1>2. k \in Nat /\ k > 0 /\ k <= Len(Order)
  BY OrderIs
<1>3. Cardinality(First(k)) = k
  <2> DEFINE at == [i \in 1 .. k |-> Order[i]]
  <2>1. at \in Bijection(1 .. k, First(k))
    BY <1>2, OrderIs DEF Bijection, Injection, Surjection, IsInjective, First
  <2>2. IsFiniteSet(1 .. k) /\ Cardinality(1 .. k) = k
    BY <1>2, FS_Interval
  <2> HIDE DEF at
  <2> QED
    BY <2>1, <2>2, FS_Bijection DEF ExistsBijection
<1>4. Size(T) = k
  BY <1>1, <1>3 DEF Size
<1>5. DOMAIN T \subseteq Task
  BY <1>0, <1>1, <1>2 DEF First
<1>6. ASSUME NEW t \in DOMAIN T PROVE DependsOn[t] \subseteq DOMAIN T
  <2>1. PICK i \in 1 .. k : t = Order[i]
    BY <1>1 DEF First
  <2>2. SUFFICES ASSUME NEW d \in DependsOn[t] PROVE d \in DOMAIN T
    OBVIOUS
  <2>3. PICK j \in 1 .. Len(Order) : Order[j] = d /\ (j <= Spawned \/ j < i)
    <3>1. i \in 1 .. Len(Order)
      BY <1>0, <1>2, <2>1
    <3>2. \A l \in 1 .. Len(Order) : \A e \in DependsOn[Order[l]] :
             \E j \in 1 .. Len(Order) : Order[j] = e /\ (j <= Spawned \/ j < l)
      BY GraphAssumption
    <3> QED
      BY <2>1, <3>1, <3>2
  <2>4. j \in 1 .. k
    BY <1>0, <1>2, <2>1, <2>3, OrderIs
  <2> QED
    BY <1>1, <2>3, <2>4 DEF First
<1>7. ASSUME NEW t \in DOMAIN T, ReviewOf[t] # None
      PROVE  ReviewOf[t] \in DependsOn[t] /\ ReviewOf[t] # t
  <2>1. ReviewOf[t] \in DependsOn[t] /\ t \in Task
    BY <1>5, <1>7, GraphAssumption
  <2>2. PICK rank \in [Task -> 1 .. Len(Order)] :
           \A x \in Task : \A d \in DependsOn[x] : rank[d] < rank[x]
    BY GraphAssumption
  <2>3. rank[t] \in Nat
    BY <1>0, <2>1, <2>2
  <2> QED
    BY <2>1, <2>2, <2>3
<1> QED
  BY <1>1, <1>2, <1>4, <1>5, <1>6, <1>7
-----------------------------------------------------------------------------
(* One turn. *)

\* One task changes, one that waits or runs.
Moves(T, U, t) ==
    /\ U \in [DOMAIN T -> TaskType] /\ \A x \in DOMAIN T \ {t} : U[x] = T[x]
    /\ T[t].state \in Waiting \cup Active
    /\ U[t].revisions = T[t].revisions
    /\ U[t].state \in Active /\ ReviewOf[t] # None => T[ReviewOf[t]].state = "completed"
    /\ U[t].state = "completed" /\ ReviewOf[t] # None =>
          U[t].gate = "pass" /\ T[ReviewOf[t]].state = "completed"
    /\ U[t].state = "skipped" /\ U[t].cause = "dependency_failed" =>
          \E d \in DependsOn[t] : EffectivelyFailed(T, d)

LEMMA MoveKeeps ==
  ASSUME NEW T, Sound(T), NEW t \in DOMAIN T, NEW U, Moves(T, U, t)
  PROVE  /\ Sound(U) /\ DOMAIN U = DOMAIN T
         /\ \A x \in DOMAIN T : EffectivelyFailed(T, x) => EffectivelyFailed(U, x)
<1> DEFINE D == DOMAIN T
<1>1. /\ DOMAIN U = D /\ Planned(U) /\ D \subseteq Task
      /\ \A x \in D : /\ DependsOn[x] \subseteq D
                      /\ ReviewOf[x] # None => ReviewOf[x] \in D /\ ReviewOf[x] # x
  BY PlanIs DEF Sound, Moves, Planned
<1>2. \A x \in D : T[x].state \in Failure \cup {"completed"} => U[x] = T[x]
  BY DEF Moves, Failure, Waiting, Active
<1>3. Backed(U)
  <2> SUFFICES ASSUME NEW r \in D, U[r].state \in Active, ReviewOf[r] # None
               PROVE  U[ReviewOf[r]].state = "completed"
    BY <1>1 DEF Backed
  <2>1. T[ReviewOf[r]].state = "completed"
    BY DEF Sound, Backed, Moves
  <2> QED
    BY <1>1, <1>2, <2>1
<1>4. Passed(U)
  <2> SUFFICES ASSUME NEW r \in D, U[r].state = "completed", ReviewOf[r] # None
               PROVE  U[r].gate = "pass" /\ U[ReviewOf[r]].state = "completed"
    BY <1>1 DEF Passed
  <2>1. U[r].gate = "pass" /\ T[ReviewOf[r]].state = "completed"
    BY DEF Sound, Passed, Moves
  <2> QED
    BY <1>1, <1>2, <2>1
<1>5. ASSUME NEW x \in D, EffectivelyFailed(T, x) PROVE EffectivelyFailed(U, x)
  BY <1>1, <1>2, <1>5 DEF EffectivelyFailed, Reviewers
<1>6. Caused(U)
  <2> SUFFICES ASSUME NEW x \in D, U[x].state = "skipped", U[x].cause = "dependency_failed"
               PROVE  \E d \in DependsOn[x] : EffectivelyFailed(U, d)
    BY <1>1 DEF Caused
  <2>1. \E d \in DependsOn[x] : EffectivelyFailed(T, d)
    BY DEF Sound, Caused, Moves
  <2> QED
    BY <1>1, <1>5, <2>1
<1>7. Revised(U)
  BY <1>1 DEF Sound, Revised, Moves
<1> QED
  BY <1>1, <1>3, <1>4, <1>5, <1>6, <1>7 DEF Sound

\* A reviewer asks for a revision: it and its target wait again.
SendsBack(T, U, r) ==
    /\ U \in [DOMAIN T -> TaskType] /\ \A x \in DOMAIN T \ {r, ReviewOf[r]} : U[x] = T[x]
    /\ ReviewOf[r] # None /\ T[r].state \in Active /\ RevisionsLeft(T, r)
    /\ U[r].state = "blocked" /\ U[r].revisions = T[r].revisions
    /\ U[ReviewOf[r]].state = "blocked"
    /\ U[ReviewOf[r]].revisions = T[ReviewOf[r]].revisions + 1

LEMMA SendBackKeeps ==
  ASSUME NEW T, Sound(T), NEW r \in DOMAIN T, NEW U, SendsBack(T, U, r)
  PROVE  Sound(U) /\ DOMAIN U = DOMAIN T
<1> DEFINE D == DOMAIN T  target == ReviewOf[r]
<1>1. /\ DOMAIN U = D /\ Planned(U) /\ D \subseteq Task
      /\ \A x \in D : /\ DependsOn[x] \subseteq D
                      /\ ReviewOf[x] # None => ReviewOf[x] \in D /\ ReviewOf[x] # x
  BY PlanIs DEF Sound, SendsBack, Planned
<1>2. /\ target \in D /\ target # r
      /\ T[r].state \in Active /\ T[target].state = "completed"
  BY <1>1 DEF Sound, Backed, SendsBack
<1>3. \A s \in Task : ReviewOf[s] = target => s = r
  <2>1. \A x, s \in Task : ReviewOf[x] = ReviewOf[s] /\ ReviewOf[x] # None => x = s
    BY GraphAssumption
  <2> QED
    BY <1>1, <2>1 DEF SendsBack
<1>4. \A x \in D : x # r /\ x # target => U[x] = T[x]
  BY DEF SendsBack
<1>5. U[r].state = "blocked" /\ U[target].state = "blocked"
  BY DEF SendsBack
<1>6. Backed(U)
  <2> SUFFICES ASSUME NEW s \in D, U[s].state \in Active, ReviewOf[s] # None
               PROVE  U[ReviewOf[s]].state = "completed"
    BY <1>1 DEF Backed
  <2>1. s # r /\ s # target /\ U[s] = T[s]
    BY <1>4, <1>5 DEF Active
  <2>2. T[ReviewOf[s]].state = "completed"
    BY <2>1 DEF Sound, Backed
  <2>3. ReviewOf[s] \in D /\ ReviewOf[s] # target /\ ReviewOf[s] # r
    BY <1>1, <1>2, <1>3, <2>1, <2>2 DEF Active
  <2> QED
    BY <1>4, <2>2, <2>3
<1>7. Passed(U)
  <2> SUFFICES ASSUME NEW s \in D, U[s].state = "completed", ReviewOf[s] # None
               PROVE  U[s].gate = "pass" /\ U[ReviewOf[s]].state = "completed"
    BY <1>1 DEF Passed
  <2>1. s # r /\ s # target /\ U[s] = T[s]
    BY <1>4, <1>5
  <2>2. T[s].gate = "pass" /\ T[ReviewOf[s]].state = "completed"
    BY <2>1 DEF Sound, Passed
  <2>3. ReviewOf[s] \in D /\ ReviewOf[s] # target /\ ReviewOf[s] # r
    BY <1>1, <1>2, <1>3, <2>1, <2>2 DEF Active
  <2> QED
    BY <1>4, <2>1, <2>2, <2>3
<1>8. ASSUME NEW x \in D, EffectivelyFailed(T, x) PROVE EffectivelyFailed(U, x)
  BY <1>1, <1>2, <1>4, <1>8 DEF EffectivelyFailed, Reviewers, Failure, Active
<1>9. Caused(U)
  <2> SUFFICES ASSUME NEW x \in D, U[x].state = "skipped", U[x].cause = "dependency_failed"
               PROVE  \E d \in DependsOn[x] : EffectivelyFailed(U, d)
    BY <1>1 DEF Caused
  <2>1. \E d \in DependsOn[x] : EffectivelyFailed(T, d)
    BY <1>4, <1>5 DEF Sound, Caused
  <2> QED
    BY <1>1, <1>8, <2>1
<1>10. Revised(U)
  <2> SUFFICES ASSUME NEW s \in Task, ReviewOf[s] \in D
               PROVE  U[ReviewOf[s]].revisions <= MaxRevisions[s]
    BY <1>1 DEF Revised
  <2>1. CASE ReviewOf[s] = target
    <3>1. s = r
      BY <1>3, <2>1
    <3>2. MaxRevisions[r] \in Nat /\ T[target].revisions \in Nat
      BY <1>1, <1>2, GraphAssumption DEF Sound, Planned, TaskType
    <3> QED
      BY <3>1, <3>2 DEF SendsBack, RevisionsLeft
  <2>2. CASE ReviewOf[s] # target
    <3>1. U[ReviewOf[s]].revisions = T[ReviewOf[s]].revisions
      BY <1>4, <2>2 DEF SendsBack
    <3> QED
      BY <3>1 DEF Sound, Revised
  <2> QED
    BY <2>1, <2>2
<1> QED
  BY <1>1, <1>6, <1>7, <1>9, <1>10 DEF Sound

\* After the first pass only tasks that wait change, and none starts before what it depends on.
LateMove(T, U, t) ==
    /\ Moves(T, U, t) /\ T[t].state \in Waiting /\ U[t].state # "completed"
    /\ U[t].state \in Active => \A d \in DependsOn[t] : DependencySatisfied(T, t, d)

\* How a tick leaves the tasks that were O before it.
Follows(O, U) ==
    \A t \in DOMAIN O :
       /\ O[t].state = "completed" =>
             U[t].state = "completed" \/ U[t].revisions = O[t].revisions + 1
       /\ O[t].state \notin Active /\ U[t].state \in Active =>
             \A d \in DependsOn[t] : DependencySatisfied(U, t, d)

LEMMA LateMoveKeeps ==
  ASSUME NEW T, Sound(T), NEW t \in DOMAIN T, NEW U, LateMove(T, U, t)
  PROVE  /\ Sound(U) /\ DOMAIN U = DOMAIN T
         /\ \A x, d \in DOMAIN T : DependencySatisfied(T, x, d) => DependencySatisfied(U, x, d)
         /\ \A O : DOMAIN O = DOMAIN T /\ Follows(O, T) => Follows(O, U)
<1> DEFINE D == DOMAIN T
<1>1. Sound(U) /\ DOMAIN U = D
  BY MoveKeeps DEF LateMove
<1>2. \A x \in D : T[x].state = "completed" => U[x] = T[x]
  BY DEF LateMove, Moves, Waiting
<1>3. ASSUME NEW x \in D, NEW d \in D, DependencySatisfied(T, x, d)
      PROVE  DependencySatisfied(U, x, d)
  BY <1>1, <1>2, <1>3 DEF DependencySatisfied, EffectivelyCompleted, Reviewers
<1>4. ASSUME NEW O, DOMAIN O = D, Follows(O, T) PROVE Follows(O, U)
  <2> SUFFICES ASSUME NEW x \in D
               PROVE  /\ O[x].state = "completed" =>
                            U[x].state = "completed" \/ U[x].revisions = O[x].revisions + 1
                      /\ O[x].state \notin Active /\ U[x].state \in Active =>
                            \A d \in DependsOn[x] : DependencySatisfied(U, x, d)
    BY <1>4 DEF Follows
  <2>1. U[x].revisions = T[x].revisions
    BY DEF LateMove, Moves
  <2>2. O[x].state = "completed" =>
            U[x].state = "completed" \/ U[x].revisions = O[x].revisions + 1
    BY <1>2, <1>4, <2>1 DEF Follows
  <2>3. ASSUME O[x].state \notin Active, U[x].state \in Active, NEW d \in DependsOn[x]
        PROVE  DependencySatisfied(T, x, d)
    <3>1. CASE x = t
      BY <2>3, <3>1 DEF LateMove
    <3>2. CASE x # t
      BY <1>4, <2>3, <3>2 DEF Follows, LateMove, Moves
    <3> QED
      BY <3>1, <3>2
  <2>4. DependsOn[x] \subseteq D
    BY PlanIs DEF Sound
  <2> QED
    BY <1>3, <2>2, <2>3, <2>4
<1> QED
  BY <1>1, <1>3, <1>4
-----------------------------------------------------------------------------
(* What the operators of a tick do to the working state. *)

Works(D) == [task : [D -> TaskType], file : [D -> TaskType], queue : SUBSET Task,
             agent : [Task -> Status], spawnFailed : BOOLEAN]

States == Waiting \cup Active \cup Terminal
Causes == {"none", "dependency_failed", "other"}

\* Two working states that differ in the queue and in the record of one task.
Differ(D, w, v, t) ==
    /\ v \in Works(D) /\ v.file = w.file /\ v.agent = w.agent /\ v.spawnFailed = w.spawnFailed
    /\ \A x \in D \ {t} : v.task[x] = w.task[x]
    /\ v.task[t].revisions = w.task[t].revisions /\ v.task[t].gate = w.task[t].gate

WithState(w, t, state) == [w EXCEPT !.task[t].state = state]
WithCause(w, t, cause) == [w EXCEPT !.task[t].cause = cause]
WithGate(w, r, decision) == [w EXCEPT !.task[r].gate = decision]
Revising(w, t) == [w EXCEPT !.task[t].revisions = w.task[t].revisions + 1]

LEMMA StateIs ==
  ASSUME NEW D \in SUBSET Task, NEW w \in Works(D), NEW t \in D, NEW state \in States,
         NEW v, v = WithState(w, t, state)
  PROVE  Differ(D, w, v, t) /\ v.task[t].state = state /\ v.task[t].cause = w.task[t].cause
<1>1. w.task \in [D -> TaskType] /\ w.task[t] \in TaskType
  BY DEF Works
<1>2. [w.task[t] EXCEPT !.state = state] \in TaskType
  BY <1>1 DEF TaskType, States
<1>3. v.task = [w.task EXCEPT ![t] = [w.task[t] EXCEPT !.state = state]]
  BY <1>1 DEF Works, WithState
<1>4. v.task \in [D -> TaskType]
  BY <1>1, <1>2, <1>3
<1>5. v \in Works(D)
  BY <1>4 DEF Works, WithState
<1> QED
  BY <1>1, <1>3, <1>5 DEF Differ, Works, TaskType, WithState

LEMMA ReleaseIs ==
  ASSUME NEW D \in SUBSET Task, NEW w \in Works(D), NEW t \in D
  PROVE  /\ Differ(D, w, ReleaseTask(w, t), t)
         /\ ReleaseTask(w, t).task[t].state = w.task[t].state
         /\ ReleaseTask(w, t).task[t].cause = w.task[t].cause
<1> DEFINE v == ReleaseTask(w, t)
<1>1. w.task \in [D -> TaskType] /\ w.task[t] \in TaskType
  BY DEF Works
<1>2. [w.task[t] EXCEPT !.lease = FALSE] \in TaskType
  BY <1>1 DEF TaskType
<1>3. v.task = [w.task EXCEPT ![t] = [w.task[t] EXCEPT !.lease = FALSE]]
  BY <1>1 DEF Works, ReleaseTask
<1>4. v.task \in [D -> TaskType]
  BY <1>1, <1>2, <1>3
<1>5. v \in Works(D)
  BY <1>4 DEF Works, ReleaseTask
<1>6. v.file = w.file /\ v.agent = w.agent /\ v.spawnFailed = w.spawnFailed
  BY DEF Works, ReleaseTask
<1> QED
  BY <1>1, <1>3, <1>5, <1>6 DEF Differ, Works, TaskType

LEMMA SettledIs ==
  ASSUME NEW D \in SUBSET Task, NEW w \in Works(D), NEW t \in D,
         NEW state \in States, NEW cause \in Causes
  PROVE  /\ Differ(D, w, Settled(w, t, state, cause), t)
         /\ Settled(w, t, state, cause).task[t].state = state
         /\ Settled(w, t, state, cause).task[t].cause = cause
<1> DEFINE u == ReleaseTask(w, t)  v == Settled(w, t, state, cause)
<1>1. Differ(D, w, u, t)
  BY ReleaseIs
<1>2. u \in Works(D) /\ u.task \in [D -> TaskType] /\ u.task[t] \in TaskType
  BY <1>1 DEF Works, Differ
<1>3. v = [u EXCEPT !.task[t].state = state, !.task[t].cause = cause]
  BY DEF Settled
<1> HIDE DEF u, v
<1>4. [[u.task[t] EXCEPT !.state = state] EXCEPT !.cause = cause] \in TaskType
  BY <1>2 DEF TaskType, States, Causes
<1>5. v.task = [u.task EXCEPT ![t] = [[u.task[t] EXCEPT !.state = state] EXCEPT !.cause = cause]]
  BY <1>2, <1>3 DEF Works
<1>6. v.task \in [D -> TaskType]
  BY <1>2, <1>4, <1>5
<1>7. v \in Works(D)
  BY <1>2, <1>3, <1>6 DEF Works
<1>8. v.file = u.file /\ v.agent = u.agent /\ v.spawnFailed = u.spawnFailed
  BY <1>2, <1>3 DEF Works
<1>9. Differ(D, w, v, t) /\ v.task[t].state = state /\ v.task[t].cause = cause
  BY <1>1, <1>2, <1>5, <1>7, <1>8 DEF Differ, Works, TaskType
<1> QED
  BY <1>9 DEF v

LEMMA WithdrawIs ==
  ASSUME NEW D \in SUBSET Task, NEW w \in Works(D), NEW t \in D,
         NEW state \in States, NEW cause \in Causes
  PROVE  /\ Differ(D, w, Withdraw(w, t, state, cause), t)
         /\ Withdraw(w, t, state, cause).task[t].state = state
         /\ Withdraw(w, t, state, cause).task[t].cause = cause
<1> DEFINE u == IF w.task[t].state = "queued" THEN ReleaseTask(w, t) ELSE w
           v == Withdraw(w, t, state, cause)
<1>1. Differ(D, w, u, t)
  BY ReleaseIs DEF Differ
<1>2. u \in Works(D) /\ u.task \in [D -> TaskType] /\ u.task[t] \in TaskType
  BY <1>1 DEF Works, Differ
<1>3. v = [u EXCEPT !.task[t].state = state, !.task[t].cause = cause]
  BY DEF Withdraw
<1> HIDE DEF u, v
<1>4. [[u.task[t] EXCEPT !.state = state] EXCEPT !.cause = cause] \in TaskType
  BY <1>2 DEF TaskType, States, Causes
<1>5. v.task = [u.task EXCEPT ![t] = [[u.task[t] EXCEPT !.state = state] EXCEPT !.cause = cause]]
  BY <1>2, <1>3 DEF Works
<1>6. v.task \in [D -> TaskType]
  BY <1>2, <1>4, <1>5
<1>7. v \in Works(D)
  BY <1>2, <1>3, <1>6 DEF Works
<1>8. v.file = u.file /\ v.agent = u.agent /\ v.spawnFailed = u.spawnFailed
  BY <1>2, <1>3 DEF Works
<1>9. Differ(D, w, v, t) /\ v.task[t].state = state /\ v.task[t].cause = cause
  BY <1>1, <1>2, <1>5, <1>7, <1>8 DEF Differ, Works, TaskType
<1> QED
  BY <1>9 DEF v
-----------------------------------------------------------------------------
(* The turns of the tasks. *)

\* What the turns of a tick start from.
Working(D, w) == /\ w \in Works(D) /\ DOMAIN w.task = D
                 /\ Sound(w.task) /\ Tells(w.agent)

\* Two working states that differ in the gate of one task.
Judged(D, w, v, r, decision) ==
    /\ v \in Works(D) /\ v.file = w.file /\ v.agent = w.agent /\ v.spawnFailed = w.spawnFailed
    /\ \A x \in D \ {r} : v.task[x] = w.task[x]
    /\ v.task[r].gate = decision /\ v.task[r].state = w.task[r].state
    /\ v.task[r].revisions = w.task[r].revisions

LEMMA GateIs ==
  ASSUME NEW D \in SUBSET Task, NEW w \in Works(D), NEW r \in D,
         NEW decision \in {"pass", "fail", "invalid"},
         NEW v, v = WithGate(w, r, decision)
  PROVE  Judged(D, w, v, r, decision)
<1>1. w.task \in [D -> TaskType] /\ w.task[r] \in TaskType
  BY DEF Works
<1>2. [w.task[r] EXCEPT !.gate = decision] \in TaskType
  BY <1>1 DEF TaskType
<1>3. v.task = [w.task EXCEPT ![r] = [w.task[r] EXCEPT !.gate = decision]]
  BY <1>1 DEF Works, WithGate
<1>4. v.task \in [D -> TaskType]
  BY <1>1, <1>2, <1>3
<1>5. v \in Works(D)
  BY <1>4 DEF Works, WithGate
<1> QED
  BY <1>1, <1>3, <1>5 DEF Judged, Works, TaskType, WithGate

LEMMA CauseIs ==
  ASSUME NEW D \in SUBSET Task, NEW w \in Works(D), NEW t \in D, NEW cause \in Causes,
         NEW v, v = WithCause(w, t, cause)
  PROVE  Differ(D, w, v, t) /\ v.task[t].state = w.task[t].state
<1>1. w.task \in [D -> TaskType] /\ w.task[t] \in TaskType
  BY DEF Works
<1>2. [w.task[t] EXCEPT !.cause = cause] \in TaskType
  BY <1>1 DEF TaskType, Causes
<1>3. v.task = [w.task EXCEPT ![t] = [w.task[t] EXCEPT !.cause = cause]]
  BY <1>1 DEF Works, WithCause
<1>4. v.task \in [D -> TaskType]
  BY <1>1, <1>2, <1>3
<1>5. v \in Works(D)
  BY <1>4 DEF Works, WithCause
<1> QED
  BY <1>1, <1>3, <1>5 DEF Differ, Works, TaskType, WithCause

\* Two working states that differ in the revisions of one task.
Counted(D, w, v, t) ==
    /\ v \in Works(D) /\ v.file = w.file /\ v.agent = w.agent /\ v.spawnFailed = w.spawnFailed
    /\ \A x \in D \ {t} : v.task[x] = w.task[x]
    /\ v.task[t].state = w.task[t].state
    /\ v.task[t].revisions = w.task[t].revisions + 1

LEMMA RevisionIs ==
  ASSUME NEW D \in SUBSET Task, NEW w \in Works(D), NEW t \in D,
         NEW v, v = Revising(w, t)
  PROVE  Counted(D, w, v, t)
<1>1. w.task \in [D -> TaskType] /\ w.task[t] \in TaskType
  BY DEF Works
<1>2. [w.task[t] EXCEPT !.revisions = @ + 1] \in TaskType
  BY <1>1 DEF TaskType
<1>3. v.task = [w.task EXCEPT ![t] = [w.task[t] EXCEPT !.revisions = @ + 1]]
  BY <1>1 DEF Works, Revising
<1>4. v.task \in [D -> TaskType]
  BY <1>1, <1>2, <1>3
<1>5. v \in Works(D)
  BY <1>4 DEF Works, Revising
<1> QED
  BY <1>1, <1>3, <1>5 DEF Counted, Works, TaskType, Revising

LEMMA SendBackIs ==
  ASSUME NEW D \in SUBSET Task, NEW w \in Works(D), NEW r \in D,
         ReviewOf[r] \in D, ReviewOf[r] # r, NEW v, v = SendBack(w, r)
  PROVE  /\ v \in Works(D) /\ v.file = w.file /\ v.agent = w.agent
         /\ v.spawnFailed = w.spawnFailed
         /\ \A x \in D \ {r, ReviewOf[r]} : v.task[x] = w.task[x]
         /\ v.task[r].state = "blocked" /\ v.task[r].revisions = w.task[r].revisions
         /\ v.task[ReviewOf[r]].state = "blocked"
         /\ v.task[ReviewOf[r]].revisions = w.task[ReviewOf[r]].revisions + 1
<1>0. "blocked" \in States /\ "none" \in Causes
  BY DEF States, Waiting, Causes
<1>1. PICK target : target = ReviewOf[r] /\ target \in D
  OBVIOUS
<1>2. PICK a : a = WithState(w, target, "blocked")
  OBVIOUS
<1>3. Differ(D, w, a, target) /\ a.task[target].state = "blocked"
  BY <1>0, <1>1, <1>2, StateIs
<1>4. a \in Works(D)
  BY <1>3 DEF Differ
<1>5. PICK b : b = Revising(a, target)
  OBVIOUS
<1>6. Counted(D, a, b, target)
  BY <1>1, <1>4, <1>5, RevisionIs
<1>7. b \in Works(D)
  BY <1>6 DEF Counted
<1>8. PICK c : c = WithCause(b, target, "none")
  OBVIOUS
<1>9. Differ(D, b, c, target) /\ c.task[target].state = b.task[target].state
  BY <1>0, <1>1, <1>7, <1>8, CauseIs
<1>10. c \in Works(D)
  BY <1>9 DEF Differ
<1>11. PICK d : d = WithState(c, r, "blocked")
  OBVIOUS
<1>12. Differ(D, c, d, r) /\ d.task[r].state = "blocked"
  BY <1>0, <1>10, <1>11, StateIs
<1>13. d \in Works(D)
  BY <1>12 DEF Differ
<1>14. v = WithCause(d, r, "none")
  <2>1. a.task[target].revisions = w.task[target].revisions
    BY <1>3 DEF Differ
  <2> QED
    BY <1>1, <1>2, <1>5, <1>8, <1>11, <2>1 DEF SendBack, WithState, WithCause, Revising
<1>15. Differ(D, d, v, r) /\ v.task[r].state = d.task[r].state
  BY <1>0, <1>13, <1>14, CauseIs
<1> QED
  BY <1>1, <1>3, <1>6, <1>9, <1>12, <1>15 DEF Differ, Counted

LEMMA ReviewTurn ==
  ASSUME NEW D \in SUBSET Task, NEW w, Working(D, w), NEW r \in D, ReviewOf[r] # None,
         w.task[r].state \in Active, NEW decision \in {"pass", "fail", "invalid"},
         NEW v, v = ReviewTask(w, r, decision)
  PROVE  /\ v \in Works(D) /\ v.file = w.file /\ v.agent = w.agent
         /\ v.spawnFailed = w.spawnFailed
         /\ \/ Moves(w.task, v.task, r) /\ v.task[r].state \notin Active
            \/ SendsBack(w.task, v.task, r)
<1> DEFINE u == WithGate(w, r, decision)  target == ReviewOf[r]
<1>1. /\ w \in Works(D) /\ DOMAIN w.task = D /\ w.task \in [D -> TaskType]
      /\ target \in D /\ target # r /\ w.task[target].state = "completed"
  BY PlanIs DEF Working, Sound, Backed, Works
<1>2. Judged(D, w, u, r, decision)
  BY <1>1, GateIs
<1>a. u \in Works(D)
  BY <1>2 DEF Judged
<1> HIDE DEF u
<1>3. CASE decision = "pass"
  <2>1. v = Settled(u, r, "completed", "none")
    BY <1>3 DEF ReviewTask, WithGate, u
  <2>2. Differ(D, u, v, r) /\ v.task[r].state = "completed" /\ v.task[r].cause = "none"
    BY <1>a, <2>1, SettledIs DEF States, Terminal, Causes
  <2>3. Moves(w.task, v.task, r) /\ v.task[r].state \notin Active
    BY <1>1, <1>2, <1>3, <2>2 DEF Moves, Differ, Judged, Active, Works
  <2> QED
    BY <1>2, <2>2, <2>3 DEF Differ, Judged
<1>4. CASE decision = "fail" /\ RevisionsLeft(u.task, r)
  <2> DEFINE y == ReleaseTask(u, r)
  <2>1. v = SendBack(y, r)
    BY <1>4 DEF ReviewTask, WithGate, u
  <2>2. Differ(D, u, y, r) /\ y.task[r].state = u.task[r].state
    BY <1>a, ReleaseIs
  <2> HIDE DEF y
  <2>3. y \in Works(D)
    BY <2>2 DEF Differ
  <2>4. /\ v \in Works(D) /\ v.file = y.file /\ v.agent = y.agent
        /\ v.spawnFailed = y.spawnFailed
        /\ \A x \in D \ {r, target} : v.task[x] = y.task[x]
        /\ v.task[r].state = "blocked" /\ v.task[r].revisions = y.task[r].revisions
        /\ v.task[target].state = "blocked"
        /\ v.task[target].revisions = y.task[target].revisions + 1
    BY <1>1, <2>1, <2>3, SendBackIs
  <2>5. RevisionsLeft(w.task, r)
    BY <1>1, <1>2, <1>4 DEF RevisionsLeft, Judged
  <2>6. SendsBack(w.task, v.task, r)
    BY <1>1, <1>2, <2>2, <2>4, <2>5 DEF SendsBack, Differ, Judged, Works
  <2> QED
    BY <1>2, <2>2, <2>4, <2>6 DEF Differ, Judged
<1>5. CASE decision # "pass" /\ ~(decision = "fail" /\ RevisionsLeft(u.task, r))
  <2>1. v = Settled(u, r, "quality_failed", "other")
    BY <1>5 DEF ReviewTask, WithGate, u
  <2>2. Differ(D, u, v, r) /\ v.task[r].state = "quality_failed" /\ v.task[r].cause = "other"
    BY <1>a, <2>1, SettledIs DEF States, Terminal, Failure, Causes
  <2>3. Moves(w.task, v.task, r) /\ v.task[r].state \notin Active
    BY <1>1, <1>2, <2>2 DEF Moves, Differ, Judged, Active, Works
  <2> QED
    BY <1>2, <2>2, <2>3 DEF Differ, Judged
<1> QED
  BY <1>3, <1>4, <1>5

LEMMA ReconcileTurn ==
  ASSUME NEW D \in SUBSET Task, NEW w, Working(D, w), NEW t \in D,
         NEW v, v = ReconcileTask(w, t)
  PROVE  /\ v \in Works(D) /\ v.file = w.file /\ v.agent = w.agent
         /\ v.spawnFailed = w.spawnFailed
         /\ \/ v.task = w.task
            \/ Moves(w.task, v.task, t) /\ w.task[t].state \in Active
            \/ SendsBack(w.task, v.task, t)
<1> DEFINE outcome == w.agent[t]
<1>1. /\ w \in Works(D) /\ DOMAIN w.task = D /\ w.task \in [D -> TaskType]
      /\ outcome \in Status
      /\ ReviewOf[t] # None /\ w.task[t].state \in Active =>
            w.task[ReviewOf[t]].state = "completed"
  BY DEF Working, Sound, Backed, Works
<1>2. /\ outcome = "done" => ReviewOf[t] = None
      /\ outcome \in {"pass", "fail", "invalid"} => ReviewOf[t] # None
  BY DEF Working, Tells
<1>3. CASE w.task[t].state \notin Active
  BY <1>1, <1>3 DEF ReconcileTask
<1>4. CASE w.task[t].state \in Active /\ outcome = "live"
  <2>1. v = [w EXCEPT !.task[t].state = "running"]
    BY <1>4 DEF ReconcileTask
  <2>2. Differ(D, w, v, t) /\ v.task[t].state = "running"
    BY <1>1, <2>1, StateIs DEF States, Active, WithState
  <2>3. Moves(w.task, v.task, t)
    BY <1>1, <1>4, <2>2 DEF Moves, Differ, Works
  <2> QED
    BY <1>4, <2>2, <2>3 DEF Differ
<1>5. CASE w.task[t].state \in Active /\ outcome \in {"pass", "fail", "invalid"}
  <2>1. v = ReviewTask(w, t, outcome)
    BY <1>5 DEF ReconcileTask
  <2> QED
    BY <1>2, <1>5, <2>1, ReviewTurn
<1>6. CASE w.task[t].state \in Active /\ outcome \notin {"live", "pass", "fail", "invalid"}
  <2>1. PICK state \in {"completed", "cancelled", "failed"}, cause \in {"none", "other"} :
           v = Settled(w, t, state, cause) /\ (state = "completed" => ReviewOf[t] = None)
    <3>1. CASE outcome = "done"
      BY <1>2, <1>6, <3>1 DEF ReconcileTask
    <3>2. CASE outcome = "cancelled"
      BY <1>6, <3>2 DEF ReconcileTask
    <3>3. CASE outcome \notin {"done", "cancelled"}
      <4>1. v = Settled(w, t, "failed", "other")
        BY <1>6, <3>3 DEF ReconcileTask
      <4> QED
        BY <4>1
    <3> QED
      BY <3>1, <3>2, <3>3
  <2>2. Differ(D, w, v, t) /\ v.task[t].state = state /\ v.task[t].cause = cause
    BY <1>1, <2>1, SettledIs DEF States, Terminal, Failure, Causes
  <2>3. Moves(w.task, v.task, t)
    BY <1>1, <1>6, <2>1, <2>2 DEF Moves, Differ, Works, Active
  <2> QED
    BY <1>6, <2>2, <2>3 DEF Differ
<1> QED
  BY <1>3, <1>4, <1>5, <1>6

\* A turn of a pass after the first leaves the file, the agents and whether a spawn failed.
Quietly(D, w, v, t) ==
    /\ v \in Works(D) /\ v.file = w.file /\ v.agent = w.agent /\ v.spawnFailed = w.spawnFailed
    /\ v.task = w.task \/ LateMove(w.task, v.task, t)

\* A task that may be started has all it depends on.
May(T, t) == T[t].state \in {"ready", "queued"} =>
                \A d \in DependsOn[t] : DependencySatisfied(T, t, d)

LEMMA SettleTurn ==
  ASSUME NEW D \in SUBSET Task, NEW w, Working(D, w), NEW t \in D, NEW v, v = SettleTask(w, t)
  PROVE  /\ Quietly(D, w, v, t)
         /\ v.task[t].state \in {"ready", "queued"} =>
               \A d \in DependsOn[t] : DependencySatisfied(w.task, t, d)
<1> DEFINE failing == \E d \in DependsOn[t] : EffectivelyFailed(w.task, d)
           ready == \A d \in DependsOn[t] : DependencySatisfied(w.task, t, d)
<1>1. /\ w \in Works(D) /\ DOMAIN w.task = D /\ w.task \in [D -> TaskType]
      /\ w.task[t].cause \in Causes
  BY DEF Working, Works, TaskType, Causes
<1>2. CASE w.task[t].state \notin Waiting
  BY <1>1, <1>2 DEF SettleTask, Quietly, Waiting
<1>3. CASE w.task[t].state \in Waiting /\ failing
  <2>1. v = Withdraw(w, t, "skipped", "dependency_failed")
    BY <1>3 DEF SettleTask
  <2>2. Differ(D, w, v, t) /\ v.task[t].state = "skipped"
    BY <1>1, <2>1, WithdrawIs DEF States, Terminal, Failure, Causes
  <2>3. LateMove(w.task, v.task, t)
    BY <1>1, <1>3, <2>2 DEF LateMove, Moves, Differ, Works, Active
  <2> QED
    BY <2>2, <2>3 DEF Quietly, Differ
<1>4. CASE w.task[t].state = "blocked" /\ ~failing /\ ready
  <2>1. v = WithState(w, t, "ready")
    <3>1. w.task[t].state \in Waiting
      BY <1>4 DEF Waiting
    <3> QED
      BY <1>4, <3>1 DEF SettleTask, WithState
  <2>2. Differ(D, w, v, t) /\ v.task[t].state = "ready"
    BY <1>1, <2>1, StateIs DEF States, Waiting
  <2>3. LateMove(w.task, v.task, t)
    BY <1>1, <1>4, <2>2 DEF LateMove, Moves, Differ, Works, Active, Waiting
  <2> QED
    BY <1>4, <2>2, <2>3 DEF Quietly, Differ
<1>5. CASE w.task[t].state \in Waiting /\ w.task[t].state # "blocked" /\ ~failing /\ ready
  BY <1>1, <1>5 DEF SettleTask, Quietly
<1>6. CASE w.task[t].state \in Waiting /\ w.task[t].state # "blocked" /\ ~failing /\ ~ready
  <2>1. v = Withdraw(w, t, "blocked", w.task[t].cause)
    BY <1>6 DEF SettleTask
  <2>2. Differ(D, w, v, t) /\ v.task[t].state = "blocked"
    <3>1. "blocked" \in States
      BY DEF States, Waiting
    <3> QED
      BY <1>1, <2>1, <3>1, WithdrawIs
  <2>3. LateMove(w.task, v.task, t)
    BY <1>1, <1>6, <2>2 DEF LateMove, Moves, Differ, Works, Active
  <2> QED
    BY <2>2, <2>3 DEF Quietly, Differ
<1>7. CASE w.task[t].state = "blocked" /\ ~failing /\ ~ready
  <2>1. v = w
    BY <1>7 DEF SettleTask
  <2> QED
    BY <1>1, <1>7, <2>1 DEF Quietly
<1> QED
  BY <1>2, <1>3, <1>4, <1>5, <1>6, <1>7

LEMMA SkipTurn ==
  ASSUME NEW D \in SUBSET Task, NEW w, Working(D, w), NEW t \in D, NEW v, v = SkipUnstarted(w, t)
  PROVE  /\ Quietly(D, w, v, t)
         /\ v.task = w.task \/ v.task[t].state \notin {"ready", "queued"}
<1>1. w \in Works(D) /\ DOMAIN w.task = D /\ w.task \in [D -> TaskType]
  BY DEF Working, Works
<1>2. CASE ~(budget /\ w.task[t].state \in Waiting)
  BY <1>1, <1>2 DEF SkipUnstarted, Quietly
<1>3. CASE budget /\ w.task[t].state \in Waiting
  <2>1. v = Withdraw(w, t, "skipped", "other")
    BY <1>3 DEF SkipUnstarted
  <2>2. Differ(D, w, v, t) /\ v.task[t].state = "skipped" /\ v.task[t].cause = "other"
    BY <1>1, <2>1, WithdrawIs DEF States, Terminal, Failure, Causes
  <2>3. LateMove(w.task, v.task, t)
    BY <1>1, <1>3, <2>2 DEF LateMove, Moves, Differ, Works, Active
  <2> QED
    BY <2>2, <2>3 DEF Quietly, Differ
<1> QED
  BY <1>2, <1>3

\* The first writes of a start: the lease is noted, then the file and the new agent.
Admitted(w, t) == [w EXCEPT !.queue = @ \ {t}, !.task[t].lease = TRUE,
                            !.task[t].state = "spawning", !.task[t].resume = FALSE]
Written(w, t) == [Admitted(w, t) EXCEPT !.file = Admitted(w, t).task, !.agent[t] = Replaced(@)]
Queued(w, t) == [w EXCEPT !.queue = @ \cup {t}, !.task[t].state = "queued"]
Started(w, t) == [Written(w, t) EXCEPT !.agent[t] = "live", !.task[t].state = "running"]

LEMMA AdmittedIs ==
  ASSUME NEW D \in SUBSET Task, NEW w \in Works(D), NEW t \in D, NEW v, v = Admitted(w, t)
  PROVE  Differ(D, w, v, t) /\ v.task[t].state = "spawning"
<1> DEFINE rec == [[[w.task[t] EXCEPT !.lease = TRUE] EXCEPT !.state = "spawning"]
                      EXCEPT !.resume = FALSE]
<1>1. w.task \in [D -> TaskType] /\ w.task[t] \in TaskType
  BY DEF Works
<1>2. /\ rec \in TaskType /\ rec.state = "spawning"
      /\ rec.revisions = w.task[t].revisions /\ rec.gate = w.task[t].gate
  BY <1>1 DEF TaskType, Active
<1>3. v.task = [w.task EXCEPT ![t] = rec]
  BY <1>1 DEF Works, Admitted
<1> HIDE DEF rec
<1>4. v.task \in [D -> TaskType]
  BY <1>1, <1>2, <1>3
<1>5. v \in Works(D)
  BY <1>4 DEF Works, Admitted
<1>6. v.file = w.file /\ v.agent = w.agent /\ v.spawnFailed = w.spawnFailed
  BY DEF Works, Admitted
<1> QED
  BY <1>1, <1>2, <1>3, <1>5, <1>6 DEF Differ

LEMMA QueuedIs ==
  ASSUME NEW D \in SUBSET Task, NEW w \in Works(D), NEW t \in D, NEW v, v = Queued(w, t)
  PROVE  Differ(D, w, v, t) /\ v.task[t].state = "queued"
<1> DEFINE rec == [w.task[t] EXCEPT !.state = "queued"]
<1>1. w.task \in [D -> TaskType] /\ w.task[t] \in TaskType
  BY DEF Works
<1>2. /\ rec \in TaskType /\ rec.state = "queued"
      /\ rec.revisions = w.task[t].revisions /\ rec.gate = w.task[t].gate
  BY <1>1 DEF TaskType, Waiting
<1>3. v.task = [w.task EXCEPT ![t] = rec]
  BY <1>1 DEF Works, Queued
<1> HIDE DEF rec
<1>4. v.task \in [D -> TaskType]
  BY <1>1, <1>2, <1>3
<1>5. v \in Works(D)
  BY <1>4 DEF Works, Queued
<1>6. v.file = w.file /\ v.agent = w.agent /\ v.spawnFailed = w.spawnFailed
  BY DEF Works, Queued
<1> QED
  BY <1>1, <1>2, <1>3, <1>5, <1>6 DEF Differ

\* The agents of the other tasks stay what they are; the task's own has no outcome yet.
Spawning(w, v, t) == /\ \A x \in Task \ {t} : v.agent[x] = w.agent[x]
                     /\ v.agent[t] \in {"none", "gone", "live"}

LEMMA WrittenIs ==
  ASSUME NEW D \in SUBSET Task, NEW w \in Works(D), NEW t \in D, NEW v, v = Written(w, t)
  PROVE  /\ v \in Works(D) /\ v.task = Admitted(w, t).task /\ v.file = v.task
         /\ v.spawnFailed = w.spawnFailed /\ Spawning(w, v, t)
<1>1. PICK u : u = Admitted(w, t)
  OBVIOUS
<1>2. u \in Works(D) /\ u.agent = w.agent /\ u.spawnFailed = w.spawnFailed
  BY <1>1, AdmittedIs DEF Differ
<1>3. v = [u EXCEPT !.file = u.task, !.agent[t] = Replaced(u.agent[t])]
  BY <1>1 DEF Written
<1>4. Replaced(u.agent[t]) \in {"none", "gone"} /\ {"none", "gone", "live"} \subseteq Status
  BY DEF Replaced, Status, Ended
<1>5. v.agent = [u.agent EXCEPT ![t] = Replaced(u.agent[t])] /\ u.agent \in [Task -> Status]
  BY <1>2, <1>3 DEF Works
<1>6. v.agent \in [Task -> Status]
  BY <1>4, <1>5
<1>7. v.task = u.task /\ v.file = u.task /\ v.spawnFailed = u.spawnFailed /\ v.queue = u.queue
  BY <1>2, <1>3 DEF Works
<1>8. v \in Works(D)
  BY <1>2, <1>3, <1>6 DEF Works
<1>9. Spawning(w, v, t)
  BY <1>2, <1>4, <1>5 DEF Spawning
<1> QED
  BY <1>1, <1>2, <1>7, <1>8, <1>9

LEMMA StartedIs ==
  ASSUME NEW D \in SUBSET Task, NEW w \in Works(D), NEW t \in D, NEW v, v = Started(w, t)
  PROVE  /\ v \in Works(D) /\ v.file = Admitted(w, t).task
         /\ v.spawnFailed = w.spawnFailed /\ Spawning(w, v, t)
         /\ \A x \in D \ {t} : v.task[x] = w.task[x]
         /\ v.task[t].state = "running" /\ v.task[t].revisions = w.task[t].revisions
<1>1. PICK u : u = Written(w, t)
  OBVIOUS
<1>2. /\ u \in Works(D) /\ u.task = Admitted(w, t).task /\ u.file = u.task
      /\ u.spawnFailed = w.spawnFailed /\ Spawning(w, u, t)
  BY <1>1, WrittenIs
<1>3. Differ(D, w, Admitted(w, t), t)
  BY AdmittedIs
<1>4. PICK y : y = WithState(u, t, "running")
  OBVIOUS
<1>5. Differ(D, u, y, t) /\ y.task[t].state = "running"
  BY <1>2, <1>4, StateIs DEF States, Active
<1>6. v = [y EXCEPT !.agent[t] = "live"]
  BY <1>1, <1>2, <1>4 DEF Started, WithState, Works
<1>7. y \in Works(D) /\ y.agent \in [Task -> Status] /\ "live" \in Status
  BY <1>5 DEF Differ, Works, Status
<1>8. v \in Works(D) /\ v.agent = [y.agent EXCEPT ![t] = "live"]
  BY <1>6, <1>7 DEF Works
<1>9. v.task = y.task /\ v.file = y.file /\ v.spawnFailed = y.spawnFailed
  BY <1>6, <1>7 DEF Works
<1>10. Spawning(w, v, t)
  BY <1>2, <1>5, <1>7, <1>8 DEF Spawning, Differ
<1> QED
  BY <1>2, <1>3, <1>5, <1>8, <1>9, <1>10 DEF Differ

LEMMA StartTurn ==
  ASSUME NEW D \in SUBSET Task, NEW w, Working(D, w), NEW t \in D, NEW answer \in Answer,
         May(w.task, t), NEW v, v = StartTask(w, t, answer)
  PROVE  /\ v \in Works(D) /\ Tells(v.agent)
         /\ v.task = w.task \/ LateMove(w.task, v.task, t)
         /\ v.file = w.file \/ LateMove(w.task, v.file, t)
         /\ v.task[t].state \in {"ready", "queued"} => w.task[t].state \in {"ready", "queued"}
<1>1. /\ w \in Works(D) /\ DOMAIN w.task = D /\ w.task \in [D -> TaskType]
      /\ t \in Task /\ Tells(w.agent)
  BY DEF Working, Works
<1>2. CASE w.task[t].state \notin {"ready", "queued"} \/ ~HasRoom(w.task)
  BY <1>1, <1>2 DEF StartTask
<1>3. CASE w.task[t].state \in {"ready", "queued"} /\ HasRoom(w.task)
  <2>1. /\ w.task[t].state \in Waiting
        /\ \A d \in DependsOn[t] : DependencySatisfied(w.task, t, d)
        /\ ReviewOf[t] # None => w.task[ReviewOf[t]].state = "completed"
    <3>1. \A d \in DependsOn[t] : DependencySatisfied(w.task, t, d)
      BY <1>3 DEF May
    <3>2. ReviewOf[t] # None => ReviewOf[t] \in DependsOn[t]
      BY <1>1, GraphAssumption
    <3> QED
      BY <1>3, <3>1, <3>2 DEF Waiting, DependencySatisfied
  <2>2. ASSUME NEW u, u \in [D -> TaskType], \A x \in D \ {t} : u[x] = w.task[x],
               u[t].revisions = w.task[t].revisions,
               u[t].state \in {"queued", "spawning", "running", "failed"}
        PROVE  LateMove(w.task, u, t)
    <3>1. /\ u[t].state # "completed" /\ u[t].state # "skipped" /\ w.task[t].state \notin Active
          /\ w.task[t].state # "completed"
      BY <2>1, <2>2 DEF Waiting, Active
    <3>2. Moves(w.task, u, t)
      BY <1>1, <2>1, <2>2, <3>1 DEF Moves
    <3> QED
      BY <2>1, <3>1, <3>2 DEF LateMove
  <2>3. /\ Differ(D, w, Admitted(w, t), t) /\ Admitted(w, t).task[t].state = "spawning"
        /\ Admitted(w, t) \in Works(D) /\ Admitted(w, t).task \in [D -> TaskType]
    <3>1. Differ(D, w, Admitted(w, t), t) /\ Admitted(w, t).task[t].state = "spawning"
      BY <1>1, AdmittedIs
    <3>2. Admitted(w, t) \in Works(D)
      BY <3>1 DEF Differ
    <3> QED
      BY <3>1, <3>2 DEF Works
  <2>4. LateMove(w.task, Admitted(w, t).task, t)
    BY <2>2, <2>3 DEF Differ
  <2>5. ASSUME NEW u \in Works(D), Spawning(w, u, t) PROVE Tells(u.agent)
    BY <1>1, <2>5 DEF Tells, Spawning
  <2>6. CASE answer = "refused"
    <3>1. v = Settled(w, t, "failed", "other")
      BY <1>3, <2>6 DEF StartTask
    <3>2. Differ(D, w, v, t) /\ v.task[t].state = "failed"
      BY <1>1, <3>1, SettledIs DEF States, Terminal, Failure, Causes
    <3> QED
      BY <1>1, <2>2, <3>2 DEF Differ, Works
  <2>7. CASE answer = "queued"
    <3>1. v = Queued(w, t)
      BY <1>3, <2>7 DEF StartTask, Queued
    <3>2. Differ(D, w, v, t) /\ v.task[t].state = "queued"
      BY <1>1, <3>1, QueuedIs
    <3> QED
      BY <1>1, <1>3, <2>2, <3>2 DEF Differ, Works
  <2>8. CASE answer = "unsafe"
    <3>1. v = Settled(Admitted(w, t), t, "failed", "other")
      BY <1>3, <2>8 DEF StartTask, Admitted
    <3>2. Differ(D, Admitted(w, t), v, t) /\ v.task[t].state = "failed"
      BY <2>3, <3>1, SettledIs DEF States, Terminal, Failure, Causes
    <3> QED
      BY <1>1, <2>2, <2>3, <3>2 DEF Differ, Works
  <2>9. PICK u : u = Written(w, t)
    OBVIOUS
  <2>10. /\ u \in Works(D) /\ u.task = Admitted(w, t).task /\ u.file = u.task
         /\ u.spawnFailed = w.spawnFailed /\ Spawning(w, u, t)
    BY <1>1, <2>9, WrittenIs
  <2>11. CASE answer = "spawn_failed"
    <3>1. PICK y : y = Settled(u, t, "failed", "other")
      OBVIOUS
    <3>2. v = [y EXCEPT !.spawnFailed = TRUE]
      BY <1>3, <2>9, <2>11, <3>1 DEF StartTask, Written, Admitted
    <3>3. Differ(D, u, y, t) /\ y.task[t].state = "failed"
      BY <2>10, <3>1, SettledIs DEF States, Terminal, Failure, Causes
    <3>4. /\ v \in Works(D) /\ v.task = y.task /\ v.file = u.file /\ v.agent = u.agent
          /\ v.task \in [D -> TaskType]
      BY <3>2, <3>3 DEF Works, Differ
    <3>5. Tells(v.agent)
      BY <2>5, <2>10, <3>4
    <3>6. LateMove(w.task, v.task, t)
      BY <2>2, <2>3, <2>10, <3>3, <3>4 DEF Differ
    <3> QED
      BY <2>4, <2>10, <3>3, <3>4, <3>5, <3>6
  <2>12. CASE answer = "started"
    <3>1. v = Started(w, t)
      BY <1>3, <2>12 DEF StartTask, Started, Written, Admitted
    <3>2. /\ v \in Works(D) /\ v.file = Admitted(w, t).task /\ Spawning(w, v, t)
          /\ \A x \in D \ {t} : v.task[x] = w.task[x]
          /\ v.task[t].state = "running" /\ v.task[t].revisions = w.task[t].revisions
      BY <1>1, <3>1, StartedIs
    <3>3. Tells(v.agent)
      BY <2>5, <3>2
    <3>4. v.task \in [D -> TaskType]
      BY <3>2 DEF Works
    <3> QED
      BY <2>2, <2>4, <3>2, <3>3, <3>4
  <2>13. CASE answer = "lost"
    <3>1. v = u
      BY <1>3, <2>9, <2>13 DEF StartTask, Written, Admitted
    <3>2. Tells(v.agent)
      BY <2>5, <2>10, <3>1
    <3> QED
      BY <2>3, <2>4, <2>10, <3>1, <3>2
  <2> QED
    BY <2>6, <2>7, <2>8, <2>11, <2>12, <2>13 DEF Answer
<1> QED
  BY <1>2, <1>3
-----------------------------------------------------------------------------
(* A pass. *)

LEMMA OneOf == ASSUME NEW x PROVE (CHOOSE next \in {x} : TRUE) = x
  OBVIOUS

\* What each turn takes from one set of working states to the next, a pass takes from the
\* first to the last.
LEMMA AlongStays ==
  ASSUME NEW pass, NEW w, NEW n \in Nat, NEW answers, NEW S, w \in S[0],
         \A i \in 1 .. n : \A v \in S[i - 1] : Turn(pass, v, Order[i], answers) \in S[i]
  PROVE  Along(pass, w, n, answers) \in S[n]
<1> DEFINE Step(i, v) == CHOOSE next \in {Turn(pass, u, Order[i], answers) : u \in {v}} : TRUE
           F(m, f) == f = [i \in 0 .. m |-> IF i = 0 THEN w ELSE Step(i, f[i - 1])]
           after == CHOOSE f : F(n, f)
<1>1. ASSUME NEW i, NEW v PROVE Step(i, v) = Turn(pass, v, Order[i], answers)
  <2>1. {Turn(pass, u, Order[i], answers) : u \in {v}} = {Turn(pass, v, Order[i], answers)}
    OBVIOUS
  <2> QED
    BY <2>1, OneOf
<1>2. Along(pass, w, n, answers) = after[n]
  BY DEF Along
<1> HIDE DEF Step
<1>3. \E f : F(n, f)
  <2> DEFINE E == {m \in Nat : \E f : F(m, f)}
  <2>1. 0 \in E
    <3>1. F(0, [i \in 0 .. 0 |-> w])
      OBVIOUS
    <3> QED
      BY <3>1
  <2>2. ASSUME NEW m \in E PROVE m + 1 \in E
    <3>1. PICK f : F(m, f)
      OBVIOUS
    <3> DEFINE g == [i \in 0 .. m + 1 |-> IF i = m + 1 THEN Step(i, f[m]) ELSE f[i]]
    <3>2. ASSUME NEW i \in 0 .. m + 1
          PROVE  g[i] = IF i = 0 THEN w ELSE Step(i, g[i - 1])
      <4>1. CASE i = m + 1
        BY <3>1, <4>1
      <4>2. CASE i # m + 1
        BY <3>1, <4>2
      <4> QED
        BY <4>1, <4>2
    <3>3. F(m + 1, g)
      BY <3>2
    <3>4. m + 1 \in Nat
      OBVIOUS
    <3> HIDE DEF F, g
    <3> QED
      BY <3>3, <3>4
  <2>3. E = Nat
    <3> HIDE DEF E
    <3>1. E \in SUBSET Nat
      BY DEF E
    <3> QED
      BY <2>1, <2>2, <3>1, Induction
  <2> QED
    BY <2>3
<1>4. F(n, after)
  BY <1>3
<1> HIDE DEF after
<1>5. after[0] = w /\ \A i \in 1 .. n : after[i] = Turn(pass, after[i - 1], Order[i], answers)
  BY <1>1, <1>4
<1> DEFINE P == {i \in Nat : i <= n => after[i] \in S[i]}
<1>6. 0 \in P
  BY <1>5
<1>7. ASSUME NEW i \in P PROVE i + 1 \in P
  <2>1. CASE i + 1 <= n
    <3>1. i + 1 \in 1 .. n /\ (i + 1) - 1 = i /\ after[i] \in S[i]
      BY <2>1
    <3> QED
      BY <1>5, <3>1
  <2>2. CASE ~(i + 1 <= n)
    BY <2>2
  <2> QED
    BY <2>1, <2>2
<1>8. P = Nat
  <2> HIDE DEF P
  <2>1. P \in SUBSET Nat
    BY DEF P
  <2> QED
    BY <1>6, <1>7, <2>1, Induction
<1> QED
  BY <1>2, <1>8

LEMMA SettleStays ==
  ASSUME NEW w, NEW n \in Nat, n = Size(w.task), NEW S, w \in S[0],
         \A i \in 1 .. n : \A v \in S[i - 1] : Along("settle", v, n, <<>>) \in S[i]
  PROVE  Settle(w) \in S[n]
<1> DEFINE Step(v) == CHOOSE next \in {Along("settle", u, n, <<>>) : u \in {v}} : TRUE
           F(m, f) == f = [i \in 0 .. m |-> IF i = 0 THEN w ELSE Step(f[i - 1])]
           swept == CHOOSE f : F(n, f)
<1>1. ASSUME NEW v PROVE Step(v) = Along("settle", v, n, <<>>)
  <2>1. {Along("settle", u, n, <<>>) : u \in {v}} = {Along("settle", v, n, <<>>)}
    OBVIOUS
  <2> QED
    BY <2>1, OneOf
<1>2. Settle(w) = swept[n]
  BY DEF Settle
<1> HIDE DEF Step
<1>3. \E f : F(n, f)
  <2> DEFINE E == {m \in Nat : \E f : F(m, f)}
  <2>1. 0 \in E
    <3>1. F(0, [i \in 0 .. 0 |-> w])
      OBVIOUS
    <3> QED
      BY <3>1
  <2>2. ASSUME NEW m \in E PROVE m + 1 \in E
    <3>1. PICK f : F(m, f)
      OBVIOUS
    <3> DEFINE g == [i \in 0 .. m + 1 |-> IF i = m + 1 THEN Step(f[m]) ELSE f[i]]
    <3>2. ASSUME NEW i \in 0 .. m + 1
          PROVE  g[i] = IF i = 0 THEN w ELSE Step(g[i - 1])
      <4>1. CASE i = m + 1
        BY <3>1, <4>1
      <4>2. CASE i # m + 1
        BY <3>1, <4>2
      <4> QED
        BY <4>1, <4>2
    <3>3. F(m + 1, g)
      BY <3>2
    <3>4. m + 1 \in Nat
      OBVIOUS
    <3> HIDE DEF F, g
    <3> QED
      BY <3>3, <3>4
  <2>3. E = Nat
    <3> HIDE DEF E
    <3>1. E \in SUBSET Nat
      BY DEF E
    <3> QED
      BY <2>1, <2>2, <3>1, Induction
  <2> QED
    BY <2>3
<1>4. F(n, swept)
  BY <1>3
<1> HIDE DEF swept
<1>5. swept[0] = w /\ \A i \in 1 .. n : swept[i] = Along("settle", swept[i - 1], n, <<>>)
  BY <1>1, <1>4
<1> DEFINE P == {i \in Nat : i <= n => swept[i] \in S[i]}
<1>6. 0 \in P
  BY <1>5
<1>7. ASSUME NEW i \in P PROVE i + 1 \in P
  <2>1. CASE i + 1 <= n
    <3>1. i + 1 \in 1 .. n /\ (i + 1) - 1 = i /\ swept[i] \in S[i]
      BY <2>1
    <3> QED
      BY <1>5, <3>1
  <2>2. CASE ~(i + 1 <= n)
    BY <2>2
  <2> QED
    BY <2>1, <2>2
<1>8. P = Nat
  <2> HIDE DEF P
  <2>1. P \in SUBSET Nat
    BY DEF P
  <2> QED
    BY <1>6, <1>7, <2>1, Induction
<1> QED
  BY <1>2, <1>8
-----------------------------------------------------------------------------
(* The passes of a tick on the tasks O. *)

\* While the agents are looked at: nothing starts, and no target was sent back whose reviewer
\* still runs.
Looked(O, U) ==
    \A t \in DOMAIN O :
       /\ O[t].state = "completed" =>
             U[t].state = "completed" \/ U[t].revisions = O[t].revisions + 1
       /\ U[t].state \in Active => O[t].state \in Active
       /\ U[t].state \in Active /\ ReviewOf[t] # None =>
             U[ReviewOf[t]].revisions = O[ReviewOf[t]].revisions

Looking(O) == {w \in Works(DOMAIN O) : Working(DOMAIN O, w) /\ Looked(O, w.task) /\ w.file = O}

LEMMA ReconcilePass ==
  ASSUME NEW O, Sound(O), NEW w \in Looking(O), NEW answers
  PROVE  Along("reconcile", w, Size(O), answers) \in Looking(O)
<1> DEFINE D == DOMAIN O  n == Size(O)  S == [i \in 0 .. n |-> Looking(O)]
<1>1. /\ n \in Nat /\ D = First(n) /\ D \in SUBSET Task
      /\ \A t \in D : ReviewOf[t] # None => ReviewOf[t] \in D /\ ReviewOf[t] # t
  BY PlanIs DEF Sound
<1>2. ASSUME NEW v \in Looking(O), NEW t \in D PROVE ReconcileTask(v, t) \in Looking(O)
  <2>1. PICK u : u = ReconcileTask(v, t)
    OBVIOUS
  <2>2. Working(D, v) /\ Looked(O, v.task) /\ v.file = O /\ DOMAIN v.task = D /\ Sound(v.task)
    BY DEF Looking, Working
  <2>3. /\ u \in Works(D) /\ u.file = v.file /\ u.agent = v.agent
        /\ \/ u.task = v.task
           \/ Moves(v.task, u.task, t) /\ v.task[t].state \in Active
           \/ SendsBack(v.task, u.task, t)
    BY <1>1, <2>1, <2>2, ReconcileTurn
  <2>4. DOMAIN u.task = D
    BY <2>3 DEF Works
  <2>5. Sound(u.task)
    BY <2>2, <2>3, MoveKeeps, SendBackKeeps
  <2>6. Working(D, u)
    BY <2>2, <2>3, <2>4, <2>5 DEF Working
  <2>7. Looked(O, u.task)
    <3>1. CASE u.task = v.task
      BY <2>2, <3>1
    <3>2. CASE Moves(v.task, u.task, t) /\ v.task[t].state \in Active
      <4> SUFFICES ASSUME NEW x \in D
                   PROVE  /\ O[x].state = "completed" =>
                                \/ u.task[x].state = "completed"
                                \/ u.task[x].revisions = O[x].revisions + 1
                          /\ u.task[x].state \in Active => O[x].state \in Active
                          /\ u.task[x].state \in Active /\ ReviewOf[x] # None =>
                                u.task[ReviewOf[x]].revisions = O[ReviewOf[x]].revisions
        BY DEF Looked
      <4>1. \A y \in D : u.task[y].revisions = v.task[y].revisions
        BY <2>2, <3>2 DEF Moves
      <4>2. u.task[x].state \in Active => v.task[x].state \in Active
        BY <2>2, <3>2 DEF Moves
      <4>3. O[t].state \in Active
        BY <2>2, <3>2 DEF Looked
      <4>4. x # t => u.task[x] = v.task[x]
        BY <2>2, <3>2 DEF Moves
      <4> QED
        BY <1>1, <2>2, <4>1, <4>2, <4>3, <4>4 DEF Looked, Active
    <3>3. CASE SendsBack(v.task, u.task, t)
      <4>1. /\ ReviewOf[t] # None /\ v.task[t].state \in Active
            /\ \A y \in D \ {t, ReviewOf[t]} : u.task[y] = v.task[y]
            /\ u.task[t].state = "blocked" /\ u.task[t].revisions = v.task[t].revisions
            /\ u.task[ReviewOf[t]].state = "blocked"
            /\ u.task[ReviewOf[t]].revisions = v.task[ReviewOf[t]].revisions + 1
        BY <2>2, <3>3 DEF SendsBack
      <4>2. /\ ReviewOf[t] \in D /\ O[t].state \in Active
            /\ v.task[ReviewOf[t]].revisions = O[ReviewOf[t]].revisions
        BY <1>1, <2>2, <4>1 DEF Looked
      <4>3. \A s \in D : ReviewOf[s] = ReviewOf[t] => s = t
        <5>1. \A r, s \in Task : ReviewOf[r] = ReviewOf[s] /\ ReviewOf[r] # None => r = s
          BY GraphAssumption
        <5> QED
          BY <1>1, <4>1, <5>1
      <4> SUFFICES ASSUME NEW x \in D
                   PROVE  /\ O[x].state = "completed" =>
                                \/ u.task[x].state = "completed"
                                \/ u.task[x].revisions = O[x].revisions + 1
                          /\ u.task[x].state \in Active => O[x].state \in Active
                          /\ u.task[x].state \in Active /\ ReviewOf[x] # None =>
                                u.task[ReviewOf[x]].revisions = O[ReviewOf[x]].revisions
        BY DEF Looked
      <4>4. CASE x = t
        BY <4>1, <4>2, <4>4 DEF Active
      <4>5. CASE x = ReviewOf[t]
        BY <4>1, <4>2, <4>5 DEF Active
      <4>6. CASE x # t /\ x # ReviewOf[t]
        <5>1. u.task[x] = v.task[x]
          BY <4>1, <4>6
        <5>2. ReviewOf[x] # None =>
                 u.task[ReviewOf[x]].revisions = v.task[ReviewOf[x]].revisions
          BY <1>1, <4>1, <4>3, <4>6
        <5> QED
          BY <2>2, <5>1, <5>2 DEF Looked
      <4> QED
        BY <4>4, <4>5, <4>6
    <3> QED
      BY <2>3, <3>1, <3>2, <3>3
  <2> QED
    BY <2>1, <2>2, <2>3, <2>6, <2>7 DEF Looking
<1>3. ASSUME NEW i \in 1 .. n, NEW v \in S[i - 1]
      PROVE  Turn("reconcile", v, Order[i], answers) \in S[i]
  <2>1. Order[i] \in D /\ v \in Looking(O) /\ S[i] = Looking(O)
    BY <1>1 DEF First
  <2>2. Turn("reconcile", v, Order[i], answers) = ReconcileTask(v, Order[i])
    BY DEF Turn
  <2> QED
    BY <1>2, <2>1, <2>2
<1>4. w \in S[0] /\ S[n] = Looking(O)
  BY <1>1
<1> HIDE DEF n, S
<1>5. Along("reconcile", w, n, answers) \in S[n]
  BY <1>1, <1>3, <1>4, AlongStays
<1> QED
  BY <1>4, <1>5 DEF n

\* From then on: the tasks, and what the file says of them, follow the ones before the tick.
FollowedBy(O, U) == DOMAIN U = DOMAIN O /\ Sound(U) /\ Follows(O, U)

Going(O) == {w \in Works(DOMAIN O) : /\ Working(DOMAIN O, w) /\ FollowedBy(O, w.task)
                                     /\ w.file = O \/ FollowedBy(O, w.file)}

\* Every task that may be started has all it depends on.
Gated(O) == {w \in Going(O) : \A t \in DOMAIN O : May(w.task, t)}

LEMMA LookedFollows ==
  ASSUME NEW O, NEW w \in Looking(O)
  PROVE  w \in Going(O)
<1>1. Follows(O, w.task)
  BY DEF Looking, Looked, Follows
<1> QED
  BY <1>1 DEF Looking, Going, Working, FollowedBy

LEMMA LateKeepsMay ==
  ASSUME NEW T, Sound(T), NEW t \in DOMAIN T, NEW U, LateMove(T, U, t),
         NEW x \in DOMAIN T, x # t, May(T, x)
  PROVE  May(U, x)
<1>1. DependsOn[x] \subseteq DOMAIN T
  BY PlanIs DEF Sound
<1>2. U[x] = T[x]
  BY DEF LateMove, Moves
<1> QED
  BY <1>1, <1>2, LateMoveKeeps DEF May

LEMMA QuietKeeps ==
  ASSUME NEW O, NEW w \in Going(O), NEW t \in DOMAIN O, NEW v, Quietly(DOMAIN O, w, v, t)
  PROVE  v \in Going(O)
<1> DEFINE D == DOMAIN O
<1>1. /\ Working(D, w) /\ FollowedBy(O, w.task) /\ DOMAIN w.task = D /\ Sound(w.task)
      /\ w.file = O \/ FollowedBy(O, w.file)
  BY DEF Going, Working
<1>2. FollowedBy(O, v.task)
  <2>1. CASE v.task = w.task
    BY <1>1, <2>1
  <2>2. CASE LateMove(w.task, v.task, t)
    BY <1>1, <2>2, LateMoveKeeps DEF FollowedBy
  <2> QED
    BY <2>1, <2>2 DEF Quietly
<1>3. v \in Works(D) /\ v.file = w.file /\ v.agent = w.agent
  BY DEF Quietly
<1>4. Working(D, v)
  BY <1>1, <1>2, <1>3 DEF Working, FollowedBy
<1> QED
  BY <1>1, <1>2, <1>3, <1>4 DEF Going

LEMMA SettlePass ==
  ASSUME NEW O, Sound(O), NEW w \in Going(O)
  PROVE  Along("settle", w, Size(O), <<>>) \in Gated(O)
<1> DEFINE D == DOMAIN O  n == Size(O)
           S == [i \in 0 .. n |-> {u \in Going(O) : \A j \in 1 .. i : May(u.task, Order[j])}]
<1>1. n \in Nat \ {0} /\ D = First(n) /\ D \in SUBSET Task /\ n <= Len(Order) /\ Len(Order) \in Nat
  BY PlanIs, OrderIs DEF Sound
<1>2. ASSUME NEW i \in 1 .. n, NEW v \in S[i - 1]
      PROVE  Turn("settle", v, Order[i], <<>>) \in S[i]
  <2>1. PICK t : t = Order[i] /\ t \in D
    BY <1>1 DEF First
  <2>2. PICK u : u = SettleTask(v, t)
    OBVIOUS
  <2>3. i - 1 \in 0 .. n /\ i \in 0 .. n
    BY <1>1
  <2>4. v \in Going(O) /\ \A j \in 1 .. i - 1 : May(v.task, Order[j])
    BY <2>3
  <2>5. Working(D, v) /\ Sound(v.task) /\ DOMAIN v.task = D
    BY <2>4 DEF Going, Working
  <2>6. /\ Quietly(D, v, u, t)
        /\ u.task[t].state \in {"ready", "queued"} =>
              \A d \in DependsOn[t] : DependencySatisfied(v.task, t, d)
    BY <1>1, <2>1, <2>2, <2>5, SettleTurn
  <2>7. u \in Going(O)
    BY <2>1, <2>4, <2>6, QuietKeeps
  <2>8. ASSUME NEW j \in 1 .. i PROVE May(u.task, Order[j])
    <3>1. CASE u.task = v.task
      <4>1. CASE j = i
        BY <2>1, <2>6, <3>1, <4>1 DEF May
      <4>2. CASE j # i
        <5>1. j \in 1 .. i - 1
          BY <2>3, <4>2
        <5> QED
          BY <2>4, <3>1, <5>1
      <4> QED
        BY <4>1, <4>2
    <3>2. CASE LateMove(v.task, u.task, t)
      <4>1. CASE j = i
        <5>1. DependsOn[t] \subseteq D
          BY <2>1, <2>5, PlanIs DEF Sound
        <5>2. \A x, d \in D : DependencySatisfied(v.task, x, d) => DependencySatisfied(u.task, x, d)
          BY <2>1, <2>5, <3>2, LateMoveKeeps
        <5> QED
          BY <2>1, <2>6, <4>1, <5>1, <5>2 DEF May
      <4>2. CASE j # i
        <5>1. j \in 1 .. i - 1 /\ j \in 1 .. n /\ j \in 1 .. Len(Order) /\ i \in 1 .. Len(Order)
          BY <1>1, <2>3, <4>2
        <5>2. Order[j] \in D /\ Order[j] # t
          BY <1>1, <2>1, <4>2, <5>1, OrderIs DEF First
        <5> QED
          BY <2>1, <2>4, <2>5, <3>2, <5>1, <5>2, LateKeepsMay
      <4> QED
        BY <4>1, <4>2
    <3> QED
      BY <2>6, <3>1, <3>2 DEF Quietly
  <2>9. Turn("settle", v, Order[i], <<>>) = u
    BY <2>1, <2>2 DEF Turn
  <2> QED
    BY <2>3, <2>7, <2>8, <2>9
<1>3. w \in S[0]
  BY <1>1
<1>4. S[n] \subseteq Gated(O)
  BY <1>1 DEF Gated, First
<1> HIDE DEF n, S
<1>5. Along("settle", w, n, <<>>) \in S[n]
  BY <1>1, <1>2, <1>3, AlongStays
<1> QED
  BY <1>4, <1>5 DEF n

LEMMA SettleOpens ==
  ASSUME NEW O, Sound(O), NEW w \in Going(O)
  PROVE  Settle(w) \in Gated(O)
<1> DEFINE n == Size(O)  S == [i \in 0 .. n |-> IF i = 0 THEN Going(O) ELSE Gated(O)]
<1>1. n \in Nat \ {0} /\ n = Size(w.task)
  BY PlanIs DEF Sound, Going, Working, Size
<1>2. ASSUME NEW i \in 1 .. n, NEW v \in S[i - 1]
      PROVE  Along("settle", v, n, <<>>) \in S[i]
  <2>1. v \in Going(O) /\ S[i] = Gated(O)
    BY <1>1 DEF Gated
  <2> QED
    BY <2>1, SettlePass
<1>3. w \in S[0] /\ S[n] = Gated(O)
  BY <1>1
<1> HIDE DEF n, S
<1>4. Settle(w) \in S[n]
  BY <1>1, <1>2, <1>3, SettleStays
<1> QED
  BY <1>3, <1>4

LEMMA SkipPass ==
  ASSUME NEW O, Sound(O), NEW w \in Gated(O)
  PROVE  Along("skip", w, Size(O), <<>>) \in Gated(O)
<1> DEFINE D == DOMAIN O  n == Size(O)  S == [i \in 0 .. n |-> Gated(O)]
<1>1. n \in Nat \ {0} /\ D = First(n) /\ D \in SUBSET Task
  BY PlanIs DEF Sound
<1>2. ASSUME NEW i \in 1 .. n, NEW v \in S[i - 1]
      PROVE  Turn("skip", v, Order[i], <<>>) \in S[i]
  <2>1. PICK t : t = Order[i] /\ t \in D
    BY <1>1 DEF First
  <2>2. PICK u : u = SkipUnstarted(v, t)
    OBVIOUS
  <2>3. v \in Gated(O) /\ S[i] = Gated(O)
    BY <1>1
  <2>4. v \in Going(O) /\ Working(D, v) /\ Sound(v.task) /\ DOMAIN v.task = D
    BY <2>3 DEF Gated, Going, Working
  <2>5. Quietly(D, v, u, t) /\ (u.task = v.task \/ u.task[t].state \notin {"ready", "queued"})
    BY <1>1, <2>1, <2>2, <2>4, SkipTurn
  <2>6. u \in Going(O)
    BY <2>1, <2>4, <2>5, QuietKeeps
  <2>7. ASSUME NEW x \in D PROVE May(u.task, x)
    <3>1. May(v.task, x)
      BY <2>3 DEF Gated
    <3>2. CASE u.task = v.task
      BY <3>1, <3>2
    <3>3. CASE u.task # v.task /\ x = t
      BY <2>5, <3>3 DEF May
    <3>4. CASE u.task # v.task /\ x # t
      BY <2>1, <2>4, <2>5, <3>1, <3>4, LateKeepsMay DEF Quietly
    <3> QED
      BY <3>2, <3>3, <3>4
  <2>8. Turn("skip", v, Order[i], <<>>) = u
    BY <2>1, <2>2 DEF Turn
  <2> QED
    BY <2>3, <2>6, <2>7, <2>8 DEF Gated
<1>3. w \in S[0] /\ S[n] = Gated(O)
  BY <1>1
<1> HIDE DEF n, S
<1>4. Along("skip", w, n, <<>>) \in S[n]
  BY <1>1, <1>2, <1>3, AlongStays
<1> QED
  BY <1>3, <1>4 DEF n

LEMMA StartPass ==
  ASSUME NEW O, Sound(O), NEW w \in Gated(O), NEW answers \in [DOMAIN O -> Answer],
         NEW n \in 0 .. Size(O)
  PROVE  StartFirst(n, w, answers) \in Gated(O)
<1> DEFINE D == DOMAIN O  S == [i \in 0 .. n |-> Gated(O)]
<1>1. /\ n \in Nat /\ Size(O) \in Nat /\ n <= Size(O)
      /\ D = First(Size(O)) /\ D \in SUBSET Task
  BY PlanIs DEF Sound
<1>2. ASSUME NEW i \in 1 .. n, NEW v \in S[i - 1]
      PROVE  Turn("start", v, Order[i], answers) \in S[i]
  <2>1. PICK t : t = Order[i] /\ t \in D
    <3>1. i \in 1 .. Size(O)
      BY <1>1
    <3> QED
      BY <1>1, <3>1 DEF First
  <2>2. PICK answer, u : answer = answers[t] /\ u = StartTask(v, t, answer)
    OBVIOUS
  <2>3. v \in Gated(O) /\ S[i] = Gated(O)
    BY <1>1
  <2>4. /\ v \in Going(O) /\ Working(D, v) /\ Sound(v.task) /\ DOMAIN v.task = D
        /\ FollowedBy(O, v.task) /\ (v.file = O \/ FollowedBy(O, v.file))
    BY <2>3 DEF Gated, Going, Working
  <2>5. May(v.task, t) /\ answer \in Answer
    BY <2>1, <2>2, <2>3 DEF Gated
  <2>6. /\ u \in Works(D) /\ Tells(u.agent)
        /\ u.task = v.task \/ LateMove(v.task, u.task, t)
        /\ u.file = v.file \/ LateMove(v.task, u.file, t)
        /\ u.task[t].state \in {"ready", "queued"} => v.task[t].state \in {"ready", "queued"}
    <3>1. D \in SUBSET Task /\ t \in D
      BY <1>1, <2>1
    <3>2. Working(D, v) /\ May(v.task, t) /\ answer \in Answer /\ u = StartTask(v, t, answer)
      BY <2>2, <2>4, <2>5
    <3> HIDE DEF D
    <3> QED
      BY ONLY <3>1, <3>2, StartTurn
  <2>7. ASSUME NEW U, LateMove(v.task, U, t) PROVE FollowedBy(O, U)
    BY <2>1, <2>4, <2>7, LateMoveKeeps DEF FollowedBy
  <2>8. FollowedBy(O, u.task) /\ (u.file = O \/ FollowedBy(O, u.file))
    BY <2>4, <2>6, <2>7
  <2>9. u \in Going(O)
    BY <2>6, <2>8 DEF Going, Working, FollowedBy
  <2>10. ASSUME NEW x \in D PROVE May(u.task, x)
    <3>1. May(v.task, x)
      BY <2>3 DEF Gated
    <3>2. CASE u.task = v.task
      BY <3>1, <3>2
    <3>3. CASE LateMove(v.task, u.task, t) /\ x = t
      <4>1. DependsOn[t] \subseteq D
        BY <2>1, <2>4, PlanIs DEF Sound
      <4>2. \A y, d \in D : DependencySatisfied(v.task, y, d) => DependencySatisfied(u.task, y, d)
        BY <2>1, <2>4, <3>3, LateMoveKeeps
      <4> QED
        BY <2>1, <2>5, <2>6, <3>3, <4>1, <4>2 DEF May
    <3>4. CASE LateMove(v.task, u.task, t) /\ x # t
      BY <2>1, <2>4, <3>1, <3>4, LateKeepsMay
    <3> QED
      BY <2>6, <3>2, <3>3, <3>4
  <2>11. Turn("start", v, Order[i], answers) = u
    BY <2>1, <2>2 DEF Turn
  <2> QED
    BY <2>3, <2>9, <2>10, <2>11 DEF Gated
<1>3. w \in S[0] /\ S[n] = Gated(O)
  BY <1>1
<1> HIDE DEF S
<1>4. Along("start", w, n, answers) \in S[n]
  BY <1>1, <1>2, <1>3, AlongStays
<1> QED
  BY <1>3, <1>4 DEF StartFirst

\* What a tick has decided before it starts anything.
LEMMA ReconciledIs ==
  ASSUME TypeOK, Sound(task), Tells(agent)
  PROVE  Reconciled \in Gated(task)
<1> DEFINE D == DOMAIN task  n == Size(task)
<1>1. PICK w : w = [task |-> task, file |-> task, queue |-> queue, agent |-> agent,
                    spawnFailed |-> FALSE]
  OBVIOUS
<1>2. task \in [D -> TaskType] /\ queue \in SUBSET Task /\ agent \in [Task -> Status]
  BY DEF TypeOK, Status
<1>3. /\ w \in Works(D) /\ w.task = task /\ w.file = task /\ w.agent = agent
  BY <1>1, <1>2 DEF Works
<1>4. w \in Looking(task)
  <2>1. Working(D, w)
    BY <1>3 DEF Working
  <2>2. Looked(task, w.task)
    BY <1>3 DEF Looked
  <2> QED
    BY <1>3, <2>1, <2>2 DEF Looking
<1>5. Along("reconcile", w, n, <<>>) \in Going(task)
  BY <1>4, ReconcilePass, LookedFollows
<1>6. Settle(Along("reconcile", w, n, <<>>)) \in Gated(task)
  BY <1>5, SettleOpens
<1>7. Along("skip", Settle(Along("reconcile", w, n, <<>>)), n, <<>>) \in Gated(task)
  BY <1>6, SkipPass
<1> QED
  BY <1>1, <1>7 DEF Reconciled
-----------------------------------------------------------------------------
(* Every step. *)

\* The types of what is not a task.
Rest == /\ cancelled \in BOOLEAN /\ budget \in BOOLEAN /\ parallel \in Nat
        /\ queue \in SUBSET Task /\ agent \in [Task -> Status]
        /\ controls \in 0 .. MaxControls /\ crashes \in 0 .. MaxCrashes

LEMMA SoundTypes ==
  ASSUME NEW T, Sound(T)
  PROVE  /\ T \in [DOMAIN T -> TaskType] /\ DOMAIN T \subseteq Task
         /\ \A r \in DOMAIN T : ReviewOf[r] # None =>
               T[ReviewOf[r]].revisions <= MaxRevisions[r]
<1>1. T \in [DOMAIN T -> TaskType]
  BY DEF Sound, Planned
<1>2. /\ DOMAIN T \subseteq Task
      /\ \A r \in DOMAIN T : ReviewOf[r] # None => ReviewOf[r] \in DOMAIN T
  BY PlanIs DEF Sound
<1> QED
  BY <1>1, <1>2 DEF Sound, Revised

LEMMA Parts == IInv <=> Sound(task) /\ Tells(agent) /\ CancelHolds /\ Rest
  BY SoundTypes DEF IInv, TypeOK, Rest, Status

LEMMA PartsAfter == IInv' <=> Sound(task') /\ Tells(agent') /\ CancelHolds' /\ Rest'
<1>1. Sound(task') => /\ task' \in [DOMAIN task' -> TaskType] /\ DOMAIN task' \subseteq Task
                      /\ \A r \in DOMAIN task' : ReviewOf[r] # None =>
                            task'[ReviewOf[r]].revisions <= MaxRevisions[r]
  BY SoundTypes
<1> QED
  BY <1>1 DEF IInv, TypeOK, Rest, Status

\* What every step does.
Kept == IInv' /\ StartsBehindGates /\ FinishedStays

LEMMA FollowingKeeps ==
  ASSUME Sound(task'), DOMAIN task \subseteq DOMAIN task', Follows(task, task'),
         Tells(agent'), CancelHolds', Rest'
  PROVE  Kept
<1>1. StartsBehindGates
  BY DEF Follows, StartsBehindGates
<1>2. FinishedStays
  BY DEF Follows, FinishedStays
<1> QED
  BY <1>1, <1>2, PartsAfter DEF Kept

LEMMA SameFollows == ASSUME NEW T PROVE Follows(T, T)
  BY DEF Follows

LEMMA SameTasksKeep ==
  ASSUME IInv, UNCHANGED task, Tells(agent'), CancelHolds', Rest'
  PROVE  Kept
  BY FollowingKeeps, SameFollows, Parts

\* A tick leaves the tasks of the working state, or what the file says of them.
LEMMA TickKeeps ==
  ASSUME IInv, NEW v \in Going(task), task' = v.task \/ task' = v.file, queue' = v.queue,
         agent' = v.agent, crashes' \in 0 .. MaxCrashes,
         UNCHANGED <<cancelled, parallel, budget, cancel, pending, controls>>
  PROVE  Kept
<1>1. Sound(task) /\ CancelHolds /\ Rest
  BY Parts
<1>2. FollowedBy(task, v.task) /\ (v.file = task \/ FollowedBy(task, v.file))
  BY DEF Going
<1>3. Sound(task') /\ DOMAIN task' = DOMAIN task /\ Follows(task, task')
  BY <1>1, <1>2, SameFollows DEF FollowedBy
<1>4. v \in Works(DOMAIN task) /\ Tells(v.agent)
  BY DEF Going, Working
<1>5. queue' \in SUBSET Task /\ agent' \in [Task -> Status]
  BY <1>4 DEF Works
<1>6. Rest' /\ CancelHolds' /\ Tells(agent')
  BY <1>1, <1>4, <1>5 DEF Rest, CancelHolds
<1> QED
  BY <1>3, <1>6, FollowingKeeps

LEMMA TickAnsweredKeeps ==
  ASSUME IInv, NEW answers \in [DOMAIN task -> Answer], TickAnswered(Reconciled, answers)
  PROVE  Kept
<1>1. Sound(task) /\ Reconciled \in Gated(task) /\ Size(task) \in 0 .. Size(task) /\ Rest
  BY Parts, PlanIs, ReconciledIs DEF IInv, Sound
<1>2. PICK u : u = StartFirst(Size(task), Reconciled, answers)
  OBVIOUS
<1>3. PICK v : v = IF u.spawnFailed THEN Settle(u) ELSE u
  OBVIOUS
<1>4. u \in Gated(task)
  BY <1>1, <1>2, StartPass
<1>5. Settle(u) \in Gated(task)
  BY <1>1, <1>4, SettleOpens DEF Gated
<1>6. v \in Going(task)
  BY <1>3, <1>4, <1>5 DEF Gated
<1>7. /\ task' = v.task /\ queue' = v.queue /\ agent' = v.agent
      /\ UNCHANGED <<cancelled, parallel, budget, cancel, pending, controls, crashes>>
  BY <1>2, <1>3 DEF TickAnswered
<1>8. crashes' \in 0 .. MaxCrashes
  BY <1>1, <1>7 DEF Rest
<1> QED
  BY <1>6, <1>7, <1>8, TickKeeps

LEMMA TickStep == ASSUME IInv, Tick PROVE Kept
<1>1. PICK a \in Answers(Reconciled, Answer \ {"lost"}) : TickAnswered(Reconciled, a)
  BY DEF Tick
<1>2. a \in [DOMAIN task -> Answer]
  BY <1>1 DEF Answers
<1> QED
  BY <1>1, <1>2, TickAnsweredKeeps

LEMMA TickDiesStep == ASSUME IInv, NEW n \in 0 .. Size(task), TickDies(n) PROVE Kept
<1>1. Sound(task) /\ Reconciled \in Gated(task) /\ Rest
  BY Parts, ReconciledIs DEF IInv
<1>2. PICK a \in Answers(Reconciled, Answer) :
         \E v \in {StartFirst(n, Reconciled, a)} :
            task' = v.file /\ queue' = v.queue /\ agent' = v.agent
  BY DEF TickDies
<1>3. PICK v : /\ v = StartFirst(n, Reconciled, a)
               /\ task' = v.file /\ queue' = v.queue /\ agent' = v.agent
  BY <1>2
<1>4. a \in [DOMAIN task -> Answer]
  BY <1>2 DEF Answers
<1>5. v \in Going(task)
  BY <1>1, <1>3, <1>4, StartPass DEF Gated
<1>6. /\ crashes < MaxCrashes /\ crashes' = crashes + 1
      /\ UNCHANGED <<cancelled, parallel, budget, cancel, pending, controls>>
  BY DEF TickDies
<1>7. crashes' \in 0 .. MaxCrashes
  <2>1. MaxCrashes \in Nat /\ crashes \in 0 .. MaxCrashes
    BY <1>1, GraphAssumption DEF Rest
  <2> QED
    BY <1>6, <2>1
<1> QED
  BY <1>3, <1>5, <1>6, <1>7, TickKeeps

LEMMA AgentStep ==
  ASSUME IInv, NEW t \in DOMAIN task, AgentEnds(t) \/ AgentDespawned(t)
  PROVE  Kept
<1>1. /\ CancelHolds /\ Rest /\ Tells(agent) /\ t \in Task
      /\ UNCHANGED <<file, queue, budget, cancel, pending, controls, crashes>>
  BY Parts, PlanIs DEF Sound, AgentEnds, AgentDespawned
<1>2. PICK o : agent' = [agent EXCEPT ![t] = o] /\ (o \in Outcomes(t) \/ o = "gone")
  BY DEF AgentEnds, AgentDespawned
<1>3. o \in Status /\ (o = "done" => ReviewOf[t] = None)
      /\ (o \in {"pass", "fail", "invalid"} => ReviewOf[t] # None)
  BY <1>2 DEF Outcomes, Status, Ended
<1>4. agent' \in [Task -> Status] /\ Tells(agent')
  BY <1>1, <1>2, <1>3 DEF Tells, Rest
<1>5. Rest' /\ CancelHolds' /\ UNCHANGED task
  BY <1>1, <1>4 DEF Rest, CancelHolds, file
<1> QED
  BY <1>4, <1>5, SameTasksKeep

LEMMA OtherStep ==
  ASSUME IInv, \/ BudgetExhausted \/ CancelQueue \/ ResumeTeam \/ UNCHANGED vars
               \/ \E wanted \in (SUBSET DOMAIN task) \ {{}} : RetryTasks(wanted)
  PROVE  Kept
<1>1. CancelHolds /\ Rest /\ Tells(agent)
  BY Parts
<1>2. CASE BudgetExhausted
  <2>1. Rest' /\ CancelHolds' /\ Tells(agent') /\ UNCHANGED task
    BY <1>1, <1>2 DEF Rest, CancelHolds, BudgetExhausted, file
  <2> QED
    BY <2>1, SameTasksKeep
<1>3. CASE CancelQueue
  <2>1. /\ cancel # None /\ cancel' = [cancel EXCEPT !.step = "write_back"]
        /\ queue' = {} /\ UNCHANGED <<file, agent, budget, pending, controls, crashes>>
    BY <1>3 DEF CancelQueue
  <2>2. cancel = [step |-> cancel.step, task |-> cancel.task, parallel |-> cancel.parallel]
    BY <1>1, <2>1 DEF CancelHolds
  <2>3. cancel' = [step |-> "write_back", task |-> cancel.task, parallel |-> cancel.parallel]
    BY <2>1, <2>2
  <2>4. CancelHolds'
    BY <1>1, <2>1, <2>3 DEF CancelHolds
  <2>5. Rest' /\ Tells(agent') /\ UNCHANGED task
    BY <1>1, <2>1 DEF Rest, file
  <2> QED
    BY <2>4, <2>5, SameTasksKeep
<1>4. CASE ResumeTeam \/ \E wanted \in (SUBSET DOMAIN task) \ {{}} : RetryTasks(wanted)
  <2>1. Request /\ UNCHANGED <<file, queue, agent, budget, cancel, crashes>>
    BY <1>4 DEF ResumeTeam, RetryTasks
  <2>2. Rest'
    <3>1. controls < MaxControls /\ controls' = controls + 1 /\ controls \in 0 .. MaxControls
      BY <1>1, <2>1 DEF Request, Rest
    <3>2. MaxControls \in Nat
      BY GraphAssumption
    <3>3. controls' \in 0 .. MaxControls
      BY <3>1, <3>2
    <3> QED
      BY <1>1, <2>1, <3>3 DEF Rest, file
  <2>3. CancelHolds' /\ Tells(agent') /\ UNCHANGED task
    BY <1>1, <2>1 DEF CancelHolds, file
  <2> QED
    BY <2>2, <2>3, SameTasksKeep
<1>5. CASE UNCHANGED vars
  <2>1. Rest' /\ CancelHolds' /\ Tells(agent') /\ UNCHANGED task
    BY <1>1, <1>5 DEF Rest, CancelHolds, vars
  <2> QED
    BY <2>1, SameTasksKeep
<1> QED
  BY <1>2, <1>3, <1>4, <1>5

\* The handlers that mark the whole team: no task becomes active, none is completed
\* that was not before, and what is still skipped for a cause keeps it.
Marks(T, U) ==
    /\ U \in [DOMAIN T -> TaskType]
    /\ \A t \in DOMAIN T :
          /\ U[t].revisions = T[t].revisions
          /\ U[t].state \in Active => T[t].state \in Active
          /\ U[t].state = "completed" <=> T[t].state = "completed"
          /\ U[t].state = "completed" => U[t].gate = T[t].gate

LEMMA MarkKeeps ==
  ASSUME NEW T, Sound(T), NEW U, Marks(T, U), Caused(U)
  PROVE  Sound(U) /\ DOMAIN U = DOMAIN T /\ Follows(T, U)
<1>1. /\ DOMAIN U = DOMAIN T /\ Planned(U)
      /\ \A r \in DOMAIN T : ReviewOf[r] # None => ReviewOf[r] \in DOMAIN T
  BY PlanIs DEF Marks, Planned, Sound
<1>2. Backed(U) /\ Passed(U) /\ Revised(U)
  BY <1>1 DEF Marks, Sound, Backed, Passed, Revised
<1>3. Follows(T, U)
  BY DEF Marks, Follows
<1> QED
  BY <1>1, <1>2, <1>3 DEF Sound

\* The task c in another state, for another cause.
Again(c, v, state, cause) ==
    /\ v \in TaskType /\ v.state = state /\ v.cause = cause
    /\ v.gate = c.gate /\ v.revisions = c.revisions

Changed(c, state, cause) == [c EXCEPT !.state = state, !.cause = cause]
PickedUp(c, resume) == [c EXCEPT !.state = "ready", !.cause = "none", !.resume = resume]

LEMMA ChangedIs ==
  ASSUME NEW c \in TaskType, NEW state \in Waiting \cup Active \cup Terminal,
         NEW cause \in {"none", "other"}, NEW v, v = Changed(c, state, cause)
  PROVE  Again(c, v, state, cause)
  BY DEF Changed, Again, TaskType

LEMMA PickedUpIs ==
  ASSUME NEW c \in TaskType, NEW resume \in BOOLEAN, NEW v, v = PickedUp(c, resume)
  PROVE  Again(c, v, "ready", "none")
  BY DEF PickedUp, Again, TaskType, Waiting

LEMMA CancelTeamStep == ASSUME IInv, CancelTeam PROVE Kept
<1> DEFINE D == DOMAIN task
<1>1. /\ Sound(task) /\ Rest /\ Tells(agent) /\ task \in [D -> TaskType]
      /\ \A t \in D : DependsOn[t] \subseteq D
  BY Parts, PlanIs, SoundTypes DEF Sound
<1>2. task' = [t \in D |->
                  IF task[t].state \in Terminal THEN task[t]
                  ELSE Changed(task[t], "cancelled", "other")]
  BY DEF CancelTeam, Changed
<1>3. cancel' = [step |-> "dequeue", task |-> task', parallel |-> parallel]
  BY DEF CancelTeam
<1>4. cancelled' = TRUE /\ UNCHANGED <<parallel, queue, agent, budget, crashes>>
  BY DEF CancelTeam
<1>5. \A t \in D : IF task[t].state \in Terminal THEN task'[t] = task[t]
                   ELSE Again(task[t], task'[t], "cancelled", "other")
  <2> SUFFICES ASSUME NEW t \in D, task[t].state \notin Terminal
               PROVE  Again(task[t], task'[t], "cancelled", "other")
    BY <1>2
  <2>1. task'[t] = Changed(task[t], "cancelled", "other")
    BY <1>2
  <2>2. task[t] \in TaskType /\ "cancelled" \in Waiting \cup Active \cup Terminal
    BY <1>1 DEF Terminal, Failure
  <2> QED
    BY <2>1, <2>2, ChangedIs
<1>6. \A t \in D : task'[t].state \in Terminal /\ task'[t] \in TaskType
  BY <1>1, <1>5 DEF Again, Terminal, Failure
<1>7. Marks(task, task')
  <2>1. task' \in [D -> TaskType]
    BY <1>2, <1>6
  <2> QED
    BY <1>5, <2>1 DEF Marks, Again, Terminal, Failure, Active
<1>8. Caused(task')
  <2> SUFFICES ASSUME NEW t \in D, task'[t].state = "skipped",
                      task'[t].cause = "dependency_failed"
               PROVE  \E d \in DependsOn[t] : EffectivelyFailed(task', d)
    BY <1>2 DEF Caused
  <2>1. task[t] = task'[t]
    BY <1>5 DEF Again, Terminal, Failure
  <2>2. PICK d \in DependsOn[t] : EffectivelyFailed(task, d)
    BY <1>1, <2>1 DEF Sound, Caused
  <2>3. EffectivelyFailed(task', d)
    BY <1>1, <1>2, <1>5, <2>2 DEF EffectivelyFailed, Reviewers, Terminal
  <2> QED
    BY <2>3
<1>9. Sound(task') /\ DOMAIN task' = D /\ Follows(task, task')
  BY <1>1, <1>7, <1>8, MarkKeeps
<1>10. In(task', Terminal) = DOMAIN task'
  BY <1>6, <1>9 DEF In
<1>11. CancelHolds'
  BY <1>1, <1>3, <1>9, <1>10 DEF CancelHolds, Rest
<1>12. controls' \in 0 .. MaxControls
  <2>1. controls < MaxControls /\ controls' = controls + 1 /\ controls \in 0 .. MaxControls
    BY <1>1 DEF CancelTeam, Request, Rest
  <2>2. MaxControls \in Nat
    BY GraphAssumption
  <2> QED
    BY <2>1, <2>2
<1>13. Rest' /\ Tells(agent')
  BY <1>1, <1>4, <1>12 DEF Rest
<1> QED
  BY <1>9, <1>11, <1>13, FollowingKeeps

LEMMA CancelWriteBackStep == ASSUME IInv, CancelWriteBack PROVE Kept
<1>1. /\ task' = cancel.task /\ cancelled' = TRUE /\ parallel' = cancel.parallel
      /\ cancel # None /\ cancel' = None
      /\ UNCHANGED <<queue, agent, budget, controls, crashes>>
  BY DEF CancelWriteBack
<1>2. CancelHolds /\ Rest /\ Tells(agent)
  BY Parts
<1>3. Sound(task') /\ In(task', Terminal) = DOMAIN task'
  BY <1>1, <1>2 DEF CancelHolds
<1>4. CancelHolds' /\ Rest' /\ Tells(agent')
  BY <1>1, <1>2 DEF CancelHolds, Rest
<1>5. StartsBehindGates
  BY <1>3 DEF StartsBehindGates, In, Terminal, Failure, Active
<1>6. FinishedStays
  BY <1>1 DEF FinishedStays
<1> QED
  BY <1>3, <1>4, <1>5, <1>6, PartsAfter DEF Kept

\* What a resume or a retry makes of one task.
PutBack(c, v) ==
    \/ v = c /\ ~(c.state = "skipped" /\ c.cause = "dependency_failed")
    \/ Again(c, v, "blocked", "none") /\ c.state = "skipped"
    \/ Again(c, v, "ready", "none") /\ c.state # "completed"

LEMMA ResumedIs ==
  ASSUME NEW t \in DOMAIN task, task[t] \in TaskType, NEW how, NEW v, v = Resumed(t, how)
  PROVE  PutBack(task[t], v)
<1>1. CASE task[t].state = "skipped"
  <2>1. v = Changed(task[t], "blocked", "none")
    BY <1>1 DEF Resumed, Changed
  <2> QED
    BY <1>1, <2>1, ChangedIs DEF PutBack, Waiting
<1>2. CASE /\ task[t].state # "skipped"
           /\ task[t].state \in {"completed", "quality_failed"} \/ how = "leave"
  BY <1>2 DEF Resumed, PutBack
<1>3. CASE task[t].state \notin {"skipped", "completed", "quality_failed"} /\ how # "leave"
  <2>1. PICK resume : resume = IF how = "continue" THEN TRUE ELSE task[t].resume
    OBVIOUS
  <2>2. resume \in BOOLEAN
    BY <2>1 DEF TaskType
  <2>3. v = PickedUp(task[t], resume)
    BY <1>3, <2>1 DEF Resumed, PickedUp
  <2> QED
    BY <1>3, <2>2, <2>3, PickedUpIs DEF PutBack
<1> QED
  BY <1>1, <1>2, <1>3

LEMMA RetriedIs ==
  ASSUME NEW t \in DOMAIN task, task[t] \in TaskType, NEW wanted, NEW v, v = Retried(t, wanted)
  PROVE  PutBack(task[t], v)
<1>1. CASE t \in wanted /\ task[t].state \in Retryable
  <2>1. v = PickedUp(task[t], FALSE)
    BY <1>1 DEF Retried, PickedUp
  <2> QED
    BY <1>1, <2>1, PickedUpIs DEF PutBack, Retryable, Failure
<1>2. CASE t \notin wanted /\ task[t].state = "skipped" /\ task[t].cause = "dependency_failed"
  <2>1. v = Changed(task[t], "blocked", "none")
    BY <1>2 DEF Retried, Changed
  <2> QED
    BY <1>2, <2>1, ChangedIs DEF PutBack, Waiting
<1>3. CASE /\ ~(t \in wanted /\ task[t].state \in Retryable)
           /\ ~(/\ t \notin wanted /\ task[t].state = "skipped"
                /\ task[t].cause = "dependency_failed")
  BY <1>3 DEF Retried, PutBack, Retryable, Failure
<1> QED
  BY <1>1, <1>2, <1>3

LEMMA PutBackKeeps ==
  ASSUME IInv, task' = [t \in DOMAIN task |-> task'[t]],
         \A t \in DOMAIN task : PutBack(task[t], task'[t]),
         cancelled' = FALSE,
         UNCHANGED <<parallel, queue, agent, budget, cancel, controls, crashes>>
  PROVE  Kept
<1> DEFINE D == DOMAIN task
<1>1. Sound(task) /\ CancelHolds /\ Rest /\ Tells(agent) /\ task \in [D -> TaskType]
  BY Parts, SoundTypes
<1>2. \A t \in D : /\ task'[t] \in TaskType /\ task'[t].revisions = task[t].revisions
                   /\ task'[t].state \in Active => task[t].state \in Active
                   /\ task'[t].state = "completed" <=> task[t].state = "completed"
                   /\ task'[t].state = "completed" => task'[t].gate = task[t].gate
                   /\ ~(task'[t].state = "skipped" /\ task'[t].cause = "dependency_failed")
  BY <1>1 DEF PutBack, Again, Active
<1>3. Marks(task, task') /\ DOMAIN task' = D
  BY <1>2 DEF Marks
<1>4. Caused(task')
  BY <1>2, <1>3 DEF Caused
<1>5. Sound(task') /\ Follows(task, task')
  BY <1>1, <1>3, <1>4, MarkKeeps
<1>6. CancelHolds' /\ Rest' /\ Tells(agent')
  BY <1>1 DEF CancelHolds, Rest
<1> QED
  BY <1>3, <1>5, <1>6, FollowingKeeps

LEMMA MarkStep == ASSUME IInv, NEW h, ResumeMark(h) \/ RetryMark(h) PROVE Kept
<1>1. task \in [DOMAIN task -> TaskType]
  BY Parts, SoundTypes
<1>2. CASE ResumeMark(h)
  <2>1. PICK how : task' = [t \in DOMAIN task |-> Resumed(t, how[t])]
    BY <1>2 DEF ResumeMark
  <2>2. \A t \in DOMAIN task : PutBack(task[t], task'[t])
    BY <1>1, <2>1, ResumedIs
  <2> QED
    BY <1>2, <2>1, <2>2, PutBackKeeps DEF ResumeMark
<1>3. CASE RetryMark(h)
  <2>1. task' = [t \in DOMAIN task |-> Retried(t, h.wanted)]
    BY <1>3 DEF RetryMark
  <2>2. \A t \in DOMAIN task : PutBack(task[t], task'[t])
    BY <1>1, <2>1, RetriedIs
  <2> QED
    BY <1>3, <2>1, <2>2, PutBackKeeps DEF RetryMark
<1> QED
  BY <1>2, <1>3

LEMMA NewTaskIs ==
  /\ NewTask \in TaskType /\ NewTask.state = "blocked" /\ NewTask.revisions = 0
  BY DEF NewTask, TaskType, Waiting

LEMMA AddTaskStep == ASSUME IInv, AddTask PROVE Kept
<1> DEFINE D == DOMAIN task  n == Size(task)
<1>1. /\ Sound(task) /\ CancelHolds /\ Rest /\ Tells(agent) /\ task \in [D -> TaskType]
  BY Parts, SoundTypes
<1>2. /\ n \in Nat \ {0} /\ D = First(n) /\ n \in Spawned .. Len(Order) /\ D \subseteq Task
      /\ \A t \in D : DependsOn[t] \subseteq D /\ (ReviewOf[t] # None => ReviewOf[t] \in D)
  BY <1>1, PlanIs DEF Sound
<1>3. PICK new : new = Order[n + 1]
  OBVIOUS
<1>4. n < Len(Order) /\ task' = [t \in D \cup {new} |-> IF t \in D THEN task[t] ELSE NewTask]
  BY <1>3 DEF AddTask
<1>5. D \cup {new} = First(n + 1) /\ n + 1 \in Spawned .. Len(Order)
  <2>1. 1 .. n + 1 = (1 .. n) \cup {n + 1}
    BY <1>2
  <2> QED
    BY <1>2, <1>3, <1>4, <2>1, OrderIs DEF First
<1>6. new \in Task /\ new \notin D
  <2>1. n + 1 \in 1 .. Len(Order)
    BY <1>2, <1>4, OrderIs
  <2> QED
    BY <1>2, <1>3, <2>1, OrderIs DEF First
<1>7. /\ DOMAIN task' = D \cup {new} /\ task'[new] = NewTask
      /\ \A t \in D : task'[t] = task[t]
  BY <1>4, <1>6
<1>8. Planned(task')
  BY <1>1, <1>5, <1>7, <1>4, NewTaskIs DEF Planned
<1>9. Backed(task') /\ Passed(task')
  BY <1>1, <1>2, <1>7, NewTaskIs DEF Sound, Backed, Passed, Active
<1>10. \A t \in D : EffectivelyFailed(task, t) => EffectivelyFailed(task', t)
  BY <1>2, <1>7 DEF EffectivelyFailed, Reviewers
<1>11. Caused(task')
  <2> SUFFICES ASSUME NEW t \in D, task[t].state = "skipped",
                      task[t].cause = "dependency_failed"
               PROVE  \E d \in DependsOn[t] : EffectivelyFailed(task', d)
    BY <1>7, NewTaskIs DEF Caused
  <2> QED
    BY <1>1, <1>2, <1>10 DEF Sound, Caused
<1>12. Revised(task')
  <2>1. ASSUME NEW r \in Task, ReviewOf[r] = new PROVE task'[new].revisions <= MaxRevisions[r]
    BY <1>7, NewTaskIs, GraphAssumption
  <2> QED
    BY <1>1, <1>7, <2>1 DEF Sound, Revised
<1>13. Follows(task, task')
  BY <1>7 DEF Follows
<1>14. controls' \in 0 .. MaxControls /\ parallel' \in Nat
  <2>1. /\ controls < MaxControls /\ controls' = controls + 1 /\ controls \in 0 .. MaxControls
        /\ parallel' = IF parallel >= n THEN n + 1 ELSE parallel
        /\ parallel \in Nat
    BY <1>1 DEF AddTask, Request, Rest
  <2>2. MaxControls \in Nat
    BY GraphAssumption
  <2> QED
    BY <1>2, <2>1, <2>2
<1>15. UNCHANGED <<cancelled, queue, agent, budget, cancel, crashes>>
  BY DEF AddTask
<1>16. Rest' /\ CancelHolds' /\ Tells(agent')
  BY <1>1, <1>14, <1>15 DEF Rest, CancelHolds
<1> QED
  BY <1>7, <1>8, <1>9, <1>11, <1>12, <1>13, <1>16, FollowingKeeps DEF Sound
-----------------------------------------------------------------------------
(* The theorems. *)

LEMMA InitHolds == Init => IInv
<1> SUFFICES ASSUME Init PROVE IInv
  OBVIOUS
<1> DEFINE D == First(Spawned)
<1>1. task = [t \in D |-> NewTask] /\ Spawned \in Spawned .. Len(Order)
  BY OrderIs DEF Init, First
<1>2. Planned(task)
  BY <1>1, NewTaskIs DEF Planned
<1>3. Backed(task) /\ Passed(task) /\ Caused(task)
  BY <1>1, NewTaskIs DEF Backed, Passed, Caused, Active
<1>4. Revised(task)
  <2>1. \A r \in Task : 0 <= MaxRevisions[r]
    BY GraphAssumption
  <2> QED
    BY <1>1, <2>1, NewTaskIs DEF Revised
<1>5. cancelled \in BOOLEAN /\ budget \in BOOLEAN /\ queue \in SUBSET Task
  BY DEF Init
<1>6. parallel \in Nat /\ controls \in 0 .. MaxControls /\ crashes \in 0 .. MaxCrashes
  <2>1. MaxParallel \in Nat /\ MaxControls \in Nat /\ MaxCrashes \in Nat
    BY OrderIs, GraphAssumption
  <2> QED
    BY <2>1 DEF Init
<1>7. agent \in [Task -> Status] /\ Tells(agent)
  BY DEF Init, Status, Tells
<1>8. CancelHolds
  BY DEF Init, CancelHolds
<1> QED
  BY <1>2, <1>3, <1>4, <1>5, <1>6, <1>7, <1>8, Parts DEF Sound, Rest

LEMMA StepKeeps == IInv /\ [Next]_vars => Kept
<1> SUFFICES ASSUME IInv, [Next]_vars PROVE Kept
  OBVIOUS
<1>1. CASE Tick
  BY <1>1, TickStep
<1>2. CASE \E n \in 0 .. Size(task) : TickDies(n)
  BY <1>2, TickDiesStep
<1>3. CASE \E t \in DOMAIN task : AgentEnds(t) \/ AgentDespawned(t)
  BY <1>3, AgentStep
<1>4. CASE CancelTeam
  BY <1>4, CancelTeamStep
<1>5. CASE CancelWriteBack
  BY <1>5, CancelWriteBackStep
<1>6. CASE \E h \in pending : ResumeMark(h) \/ RetryMark(h)
  BY <1>6, MarkStep
<1>7. CASE AddTask
  BY <1>7, AddTaskStep
<1>8. CASE \/ BudgetExhausted \/ CancelQueue \/ ResumeTeam \/ UNCHANGED vars
           \/ \E wanted \in (SUBSET DOMAIN task) \ {{}} : RetryTasks(wanted)
  BY <1>8, OtherStep
<1> QED
  BY <1>1, <1>2, <1>3, <1>4, <1>5, <1>6, <1>7, <1>8 DEF Next

\* The invariant of all of it.
THEOREM Inductive == Spec => []IInv
<1>1. IInv /\ [Next]_vars => IInv'
  BY StepKeeps DEF Kept
<1> QED
  BY <1>1, InitHolds, PTL DEF Spec

\* The states of a team are those the code writes, for every plan; and a reviewed task is
\* sent back at most max_revisions times, however its reviews, its owner's retries and
\* resumes and the ticks that die are mixed (the bound of _task_review_decision).
THEOREM TypeCorrect == Spec => []TypeOK
<1>1. IInv => TypeOK
  BY DEF IInv
<1> QED
  BY <1>1, Inductive, PTL

\* No PASS outlives the work it was about: while a reviewer counts as completed, so does
\* its target, through revisions, resumes, retries and the copy a team cancel writes back.
THEOREM PassedTargetStandsHolds == Spec => []PassedTargetStands
<1>1. IInv => PassedTargetStands
  BY DEF IInv, Sound, Passed, PassedTargetStands
<1> QED
  BY <1>1, Inductive, PTL

\* A task skipped for a failed dependency has one that is failed now, whatever the owner
\* has put back since (_resume_team and retry let skipped tasks wait again).
THEOREM SkippedForCauseHolds == Spec => []SkippedForCause
<1>1. IInv => SkippedForCause
  BY DEF IInv, Sound, Caused, SkippedForCause
<1> QED
  BY <1>1, Inductive, PTL

\* No step of a team, a tick of any length or one that dies in it, starts a task before
\* its dependencies are completed and passed, or runs a finished task again.
THEOREM GatedStartHolds == Spec => GatedStart
<1>1. IInv /\ [Next]_vars => [StartsBehindGates /\ FinishedStays]_vars
  BY StepKeeps DEF Kept
<1> QED
  BY <1>1, Inductive, PTL DEF Spec, GatedStart
=============================================================================
