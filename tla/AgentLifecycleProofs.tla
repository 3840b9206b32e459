------------------------ MODULE AgentLifecycleProofs ------------------------
(***************************************************************************)
(* Proofs about AgentLifecycle, for any number of handlers, attempts and   *)
(* crashes: one terminal status per agent, no provider work under an agent *)
(* given up as never started, and capacity that outlives the provider.     *)
(***************************************************************************)
EXTENDS AgentLifecycle, TLAPS

\* Before the worker runs there is no attempt, and before the record no handler.
Beginnings ==
    /\ spawner \in {"write", "workflow", "launch", "release"} => worker = "none"
    /\ spawner = "write" => record = Blank /\ \A c \in Callers : caller[c] = Idle
    /\ worker \in {"none", "launched"} => attempt = 0 /\ provider = "none"
    /\ worker = "checking" => attempt < MaxAttempts

\* Without a recorded worker no attempt has begun, and none will under an agent given up.
Untouched == /\ attempt = 0 /\ provider = "none"
             /\ worker \in {"none", "launched", "leaving", "gone"}

NothingUnrecorded == /\ Exists /\ ~record.worker => Untouched
                     /\ record.neverStarted => record.status = "failed" /\ Untouched

\* An attempt that is over has an outcome, and none that was cancelled is reported.
OutcomeKnown ==
    /\ worker \in {"stopping", "waiting_out", "ended"} => outcome # "none"
    /\ worker = "finishing" => outcome \in {"completed", "failed"}

\* A worker that has something else to do than to look after a provider has none, and a
\* provider that is not recorded yet is not mistaken for the one of the attempt before.
OneProvider ==
    /\ worker \in {"none", "launched", "checking", "starting", "ended", "finishing", "leaving"}
          => ~ProviderRuns
    /\ worker \in {"starting", "spawned"} => record.provider = 0

\* The record of an agent that has ended, with no recorded provider running.
Stopped == \/ record.status = "gone"
           \/ record.status \in Terminal /\ "provider" \notin Live(record)

EndedStopped ==
    /\ record.status \in {"completed", "failed"} =>
          Stopped /\ worker \in {"none", "launched", "leaving", "gone"}
    /\ record.status = "cancelled" => record.cancellation # "none"
    /\ record.cancellation = "confirmed" => Stopped

\* What a handler holds may be old, but not about an agent that has ended.
CopyHolds(c) ==
    LET m == caller[c].meta
        s == caller[c].step
    IN  /\ m.status = "cancelled" =>
              \/ record.status = "gone"
              \/ record.status = "cancelled" /\ m.provider = record.provider
        /\ m.status \in Terminal /\ ~CancellationPending(m) => Stopped
        /\ s \in {"stop", "kill", "look"} => m.status = "cancelled"
        /\ s = "settle" => /\ record.status \in {"cancelled", "gone"}
                           /\ "provider" \notin caller[c].left => Stopped
        /\ s = "release" => Stopped

CopiesHold == \A c \in Callers : CopyHolds(c)

IInv == /\ TypeOK /\ Beginnings /\ NothingUnrecorded
        /\ OutcomeKnown /\ OneProvider /\ EndedStopped /\ CopiesHold

-----------------------------------------------------------------------------
Op   == {"none", "poll", "cancel", "tick", "despawn"}
Plan == {"idle", "normalize", "settle", "release", "act", "stop", "kill", "look"}
Proc == {"provider", "worker"}

LEMMA BlankType == Blank \in RecordType /\ Blank.cancellation = "none" /\ Blank.provider = 0
BY LifecycleAssumption DEF Blank, RecordType

\* The updates of a record that the handlers and the worker make.
LEMMA StatusType == ASSUME NEW m \in RecordType, NEW s \in Active \cup Terminal
              PROVE  [m EXCEPT !.status = s] \in RecordType
BY LifecycleAssumption DEF RecordType, Active, Terminal

LEMMA GoneType == ASSUME NEW m \in RecordType
              PROVE  [m EXCEPT !.status = "gone"] \in RecordType
BY LifecycleAssumption DEF RecordType, Active, Terminal

LEMMA BornType == ASSUME NEW m \in RecordType
              PROVE  [m EXCEPT !.status = "starting", !.lease = TRUE] \in RecordType
BY LifecycleAssumption DEF RecordType, Active, Terminal

LEMMA SpawnedType == ASSUME NEW m \in RecordType, NEW s \in Active \cup Terminal
              PROVE  [m EXCEPT !.worker = TRUE, !.status = s] \in RecordType
BY LifecycleAssumption DEF RecordType, Active, Terminal

LEMMA StartedType == ASSUME NEW m \in RecordType
              PROVE  [m EXCEPT !.status = "running", !.worker = TRUE] \in RecordType
BY LifecycleAssumption DEF RecordType, Active, Terminal

LEMMA ProviderType == ASSUME NEW m \in RecordType, NEW n \in 0 .. MaxAttempts
              PROVE  [m EXCEPT !.provider = n] \in RecordType
BY LifecycleAssumption DEF RecordType, Active, Terminal

LEMMA CompletedType == ASSUME NEW m \in RecordType, NEW s \in Terminal
              PROVE  [m EXCEPT !.status = s, !.provider = 0] \in RecordType
<1>1. 0 \in 0 .. MaxAttempts
  BY LifecycleAssumption
<1>2. [m EXCEPT !.provider = 0] \in RecordType
  BY <1>1, ProviderType
<1> QED
  BY <1>2 DEF RecordType

LEMMA LeaseType == ASSUME NEW m \in RecordType
              PROVE  [m EXCEPT !.lease = FALSE] \in RecordType
BY LifecycleAssumption DEF RecordType, Active, Terminal

LEMMA StopType == ASSUME NEW m \in RecordType
              PROVE  [m EXCEPT !.stopAsked = TRUE] \in RecordType
BY LifecycleAssumption DEF RecordType, Active, Terminal

LEMMA NeverType == ASSUME NEW m \in RecordType
              PROVE  [m EXCEPT !.status = "failed", !.neverStarted = TRUE] \in RecordType
BY LifecycleAssumption DEF RecordType, Active, Terminal

LEMMA CancellationType == ASSUME NEW m \in RecordType,
                     NEW s \in {"stopping", "unconfirmed", "confirmed"}
              PROVE  [m EXCEPT !.cancellation = s] \in RecordType
BY LifecycleAssumption DEF RecordType, Active, Terminal

LEMMA CallerTypes ==
  ASSUME TypeOK, NEW c \in Callers
  PROVE  /\ caller[c].op \in Op /\ caller[c].step \in Plan
         /\ Meta(c) \in RecordType /\ caller[c].left \in SUBSET Proc
BY DEF TypeOK, CallerType, Op, Plan, Proc, Meta

LEMMA ContinueType ==
  ASSUME TypeOK, NEW c \in Callers, NEW op \in Op, NEW step \in Plan,
         NEW m \in RecordType, NEW left \in SUBSET Proc, Continue(c, op, step, m, left)
  PROVE  caller' \in [Callers -> CallerType]
<1>1. [op |-> op, step |-> step, meta |-> m, left |-> left] \in CallerType
  BY DEF CallerType, Op, Plan, Proc
<1> QED
  BY <1>1 DEF TypeOK, Continue

LEMMA IdleType ==
  ASSUME TypeOK, NEW c \in Callers, caller' = [caller EXCEPT ![c] = Idle]
  PROVE  caller' \in [Callers -> CallerType]
<1>1. Idle \in CallerType
  BY BlankType DEF CallerType, Idle
<1> QED
  BY <1>1 DEF TypeOK

LEMMA ProceedType ==
  ASSUME TypeOK, NEW c \in Callers, NEW step \in Plan, NEW m \in RecordType,
         Proceed(c, step, m)
  PROVE  caller' \in [Callers -> CallerType]
<1>1. caller[c].op \in Op
  BY CallerTypes
<1>2. CASE step = "act" /\ caller[c].op = "poll"
  BY <1>2, IdleType DEF Proceed
<1>3. CASE ~(step = "act" /\ caller[c].op = "poll")
  <2> DEFINE copy == IF step = "release" THEN Blank ELSE m
  <2>1. copy \in RecordType /\ {} \in SUBSET Proc
    BY BlankType
  <2>2. Continue(c, caller[c].op, step, copy, {})
    BY <1>3 DEF Proceed
  <2> HIDE DEF copy
  <2> QED
    BY <1>1, <2>1, <2>2, ContinueType
<1> QED
  BY <1>2, <1>3

-----------------------------------------------------------------------------
\* The spawner, the worker and time keep the types; so does each handler.
LEMMA TypeInit == Init => TypeOK
<1> SUFFICES ASSUME Init PROVE TypeOK
  OBVIOUS
<1>1. Idle \in CallerType
  BY BlankType DEF Idle, CallerType
<1>2. caller \in [Callers -> CallerType]
  BY <1>1 DEF Init
<1>3. record \in RecordType /\ record.cancellation = "none"
  BY BlankType DEF Init
<1>4. attempt \in 0 .. MaxAttempts /\ crashes \in 0 .. MaxCrashes
  BY LifecycleAssumption DEF Init
<1> QED
  BY <1>2, <1>3, <1>4 DEF Init, TypeOK

LEMMA SpawnerTypes == ASSUME TypeOK, Spawner PROVE TypeOK'
<1> USE DEF TypeOK, work, time
<1>1. CASE WriteRecord
  <2>1. record' \in RecordType
    BY <1>1, BlankType, BornType DEF WriteRecord
  <2>2. record'.cancellation = "none"
    BY <1>1, BlankType DEF WriteRecord, RecordType
  <2> QED
    BY <1>1, <2>1, <2>2 DEF WriteRecord
<1>2. CASE BindFails
  BY <1>2 DEF BindFails
<1>3. CASE CreateWorkflow
  <2>1. CASE UNCHANGED record
    BY <1>3, <2>1 DEF CreateWorkflow
  <2>2. CASE record' = [Blank EXCEPT !.status = "gone"]
    <3>1. record' \in RecordType /\ record'.cancellation = "none"
      <4>1. record' \in RecordType
        BY <2>2, BlankType, GoneType
      <4>2. record'.cancellation = "none"
        BY <2>2, BlankType DEF RecordType
      <4> QED
        BY <4>1, <4>2
    <3> QED
      BY <1>3, <3>1 DEF CreateWorkflow
  <2> QED
    BY <1>3, <2>1, <2>2 DEF CreateWorkflow
<1>4. CASE LaunchWorker
  <2>0. record' = record \/ record' = [record EXCEPT !.status = "failed"]
    BY <1>4 DEF LaunchWorker, Claimed
  <2>1. record' \in RecordType
    <3>1. "failed" \in Active \cup Terminal
      BY DEF Terminal
    <3> QED
      BY <2>0, <3>1, StatusType
  <2>2. record'.cancellation # "none" => record'.status = "cancelled"
    BY <1>4 DEF LaunchWorker, Claimed, Terminal, RecordType
  <2> QED
    BY <1>4, <2>1, <2>2 DEF LaunchWorker
<1>5. CASE ReleaseUnlaunched
  BY <1>5 DEF ReleaseUnlaunched
<1>6. CASE RecordWorker
  <2> DEFINE s == IF record.status = "starting" THEN "running" ELSE record.status
  <2>1. s \in Active \cup Terminal
    BY <1>6 DEF RecordWorker, Exists, Active
  <2>2. record' = [record EXCEPT !.worker = TRUE, !.status = s]
    BY <1>6 DEF RecordWorker, RecordType
  <2>3. record' \in RecordType
    BY <2>1, <2>2, SpawnedType
  <2>4. record'.cancellation # "none" => record'.status = "cancelled"
    BY <1>6 DEF RecordWorker, RecordType
  <2> QED
    BY <1>6, <2>3, <2>4 DEF RecordWorker
<1>7. CASE SpawnerLosesRecord
  BY <1>7 DEF SpawnerLosesRecord
<1> QED
  BY <1>1, <1>2, <1>3, <1>4, <1>5, <1>6, <1>7 DEF Spawner

LEMMA WorkerTypes ==
  ASSUME TypeOK, Beginnings, OutcomeKnown, Worker \/ StopProvider \/ WorkerDies \/ ProviderEnds
  PROVE  TypeOK'
<1> USE DEF TypeOK, work, time
<1>1. CASE RecordWorkerStart
  <2>1. record' \in RecordType
    BY <1>1, StartedType DEF RecordWorkerStart
  <2>2. record'.cancellation # "none" => record'.status = "cancelled"
    BY <1>1 DEF RecordWorkerStart, RecordType, Terminal
  <2> QED
    BY <1>1, <2>1, <2>2 DEF RecordWorkerStart
<1>2. CASE BeginAttempt
  <2>1. record' \in RecordType
    <3>1. record' = record \/ record' = [record EXCEPT !.provider = 0]
      BY <1>2 DEF BeginAttempt
    <3>2. 0 \in 0 .. MaxAttempts
      BY LifecycleAssumption
    <3> QED
      BY <3>1, <3>2, ProviderType
  <2>2. record'.cancellation # "none" => record'.status = "cancelled"
    BY <1>2 DEF BeginAttempt, RecordType
  <2>3. attempt' \in 0 .. MaxAttempts
    BY <1>2, LifecycleAssumption DEF BeginAttempt, Beginnings
  <2> QED
    BY <1>2, <2>1, <2>2, <2>3 DEF BeginAttempt
<1>3. CASE StartProvider
  BY <1>3 DEF StartProvider
<1>4. CASE RecordProviderStart
  <2>1. record' \in RecordType
    <3>1. record' = record \/ record' = [record EXCEPT !.provider = attempt]
      BY <1>4 DEF RecordProviderStart
    <3> QED
      BY <3>1, ProviderType
  <2>2. record'.cancellation # "none" => record'.status = "cancelled"
    BY <1>4 DEF RecordProviderStart, RecordType
  <2> QED
    BY <1>4, <2>1, <2>2 DEF RecordProviderStart
<1>5. CASE StopProvider
  BY <1>5 DEF StopProvider
<1>6. CASE KillProvider
  BY <1>6 DEF KillProvider
<1>7. CASE ReapProvider
  BY <1>7 DEF ReapProvider
<1>8. CASE AfterAttempt
  <2>1. worker' \in {"leaving", "finishing", "checking"} /\ UNCHANGED <<record, outcome>>
    BY <1>8 DEF AfterAttempt
  <2> QED
    BY <1>8, <2>1 DEF AfterAttempt
<1>9. CASE RecordCompletion
  <2>1. CASE record.status \in Terminal
    BY <1>9, <2>1 DEF RecordCompletion
  <2>2. CASE record.status \notin Terminal
    <3>1. record' = [record EXCEPT !.status = outcome, !.provider = 0]
      BY <1>9, <2>2 DEF RecordCompletion, Claimed, RecordType
    <3>2. record.cancellation = "none"
      BY <2>2 DEF Terminal
    <3>3. outcome \in Terminal
      BY <1>9 DEF RecordCompletion, OutcomeKnown, Terminal
    <3>4. record' \in RecordType
      BY <3>1, <3>3, CompletedType
    <3>5. record'.cancellation = "none"
      BY <3>1, <3>2 DEF RecordType
    <3> QED
      BY <1>9, <3>4, <3>5 DEF RecordCompletion
  <2> QED
    BY <2>1, <2>2
<1>10. CASE WorkerLeaves
  <2>1. record' \in RecordType
    BY <1>10, LeaseType DEF WorkerLeaves, ReleaseAdmission
  <2>2. record'.cancellation # "none" => record'.status = "cancelled"
    BY <1>10 DEF WorkerLeaves, ReleaseAdmission, RecordType
  <2> QED
    BY <1>10, <2>1, <2>2 DEF WorkerLeaves, ReleaseAdmission
<1>11. CASE WorkerDies
  BY <1>11 DEF WorkerDies
<1>12. CASE ProviderEnds
  BY <1>12 DEF ProviderEnds
<1> QED
  BY <1>1, <1>2, <1>3, <1>4, <1>5, <1>6, <1>7, <1>8, <1>9, <1>10, <1>11, <1>12
     DEF Worker, WorkerLosesRecord

LEMMA BeginTypes ==
  ASSUME TypeOK, NEW c \in Callers, NEW op \in {"poll", "cancel", "tick", "despawn"},
         Begin(c, op)
  PROVE  TypeOK'
<1>1. caller' \in [Callers -> CallerType]
  <2>1. op \in Op /\ "normalize" \in Plan /\ {} \in SUBSET Proc /\ record \in RecordType
    BY DEF Op, Plan, TypeOK
  <2> QED
    BY <2>1, ContinueType DEF Begin
<1> QED
  BY <1>1 DEF Begin, TypeOK, work, time

LEMMA StepTypes ==
  ASSUME TypeOK, EndedStopped, CopiesHold, NEW c \in Callers, Step(c)
  PROVE  TypeOK'
<1> DEFINE m == Meta(c)
<1>0. /\ m \in RecordType /\ caller[c].op \in Op /\ record \in RecordType
      /\ {} \in SUBSET Proc
      /\ Live(m) \in SUBSET Proc
  BY CallerTypes DEF TypeOK, Live, Proc
<1>m. /\ m = caller[c].meta
      /\ "settle" \in Plan /\ "release" \in Plan /\ "act" \in Plan /\ "stop" \in Plan
      /\ "kill" \in Plan /\ "look" \in Plan /\ "poll" \in Op
  BY DEF Meta, Plan, Op
<1> HIDE DEF m
\* Steps that change neither the record nor the processes.
<1>1. CASE /\ UNCHANGED <<record, lease, spawner, work, time>>
           /\ caller' \in [Callers -> CallerType]
  BY <1>1 DEF TypeOK, work, time
\* Steps that change the processes, or the record, besides the handler.
<1>2. CASE /\ UNCHANGED <<record, lease, spawner, attempt, outcome, time>>
           /\ worker' \in {worker, "gone"} /\ provider' \in {provider, "killed"}
           /\ caller' \in [Callers -> CallerType]
  BY <1>2 DEF TypeOK, time
<1>3. CASE /\ UNCHANGED <<spawner, work, time>>
           /\ record' \in RecordType /\ lease' \in {"held", "released"}
           /\ record'.cancellation # "none" => record'.status = "cancelled"
           /\ caller' \in [Callers -> CallerType]
  BY <1>3 DEF TypeOK, work, time
<1>4. ASSUME NEW op \in Op, Reconcile(c, op)
      PROVE  TypeOK'
  <2>1. Continue(c, op, "settle", Blank, Live(m))
    BY <1>4 DEF Reconcile, m
  <2>2. caller' \in [Callers -> CallerType]
    BY <1>0, <1>m, <2>1, BlankType, ContinueType
  <2>3. worker' \in {worker, "gone"} /\ provider' \in {provider, "killed"}
    BY <1>4 DEF Reconcile, Killed
  <2> QED
    BY <1>2, <1>4, <2>2, <2>3 DEF Reconcile
<1>5. CASE NormalizePending(c)
  BY <1>0, <1>4, <1>5 DEF NormalizePending
<1>6. CASE NormalizeEnded(c)
  <2>1. \/ Proceed(c, "release", m)
        \/ Proceed(c, "act", m)
    BY <1>6 DEF NormalizeEnded, m
  <2>2. caller' \in [Callers -> CallerType]
    BY <1>0, <1>m, <2>1, ProceedType
  <2> QED
    BY <1>1, <1>6, <2>2 DEF NormalizeEnded
<1>7. CASE NormalizeNeverStarted(c)
  <2> DEFINE new == [record EXCEPT !.status = "failed", !.neverStarted = TRUE]
  <2>1. PICK r \in {record, new} :
           /\ record' = r
           /\ Proceed(c, "release", r) \/ Proceed(c, "act", r)
           /\ r = record \/ record.status \in Active
    BY <1>7 DEF NormalizeNeverStarted
  <2>2. r \in RecordType
    BY <1>0, <2>1, NeverType
  <2>3. caller' \in [Callers -> CallerType]
    BY <1>m, <2>1, <2>2, ProceedType
  <2>4. r.cancellation # "none" => r.status = "cancelled"
    BY <2>1, <1>0 DEF TypeOK, RecordType, Active
  <2> QED
    BY <1>3, <1>7, <2>1, <2>2, <2>3, <2>4 DEF NormalizeNeverStarted, TypeOK
<1>8. CASE NormalizeOrphan(c)
  <2>1. CASE m.stopAsked
    <3>1. Proceed(c, "act", m) /\ UNCHANGED record
      BY <1>8, <2>1 DEF NormalizeOrphan, m
    <3>2. caller' \in [Callers -> CallerType]
      BY <1>0, <1>m, <3>1, ProceedType
    <3>3. provider' \in {provider, "killed"}
      BY <1>8, <2>1 DEF NormalizeOrphan, Killed, m
    <3> QED
      BY <1>2, <1>8, <3>1, <3>2, <3>3 DEF NormalizeOrphan
  <2>2. CASE ~m.stopAsked
    <3> DEFINE r == [record EXCEPT !.stopAsked = TRUE]
    <3>1. record' = r /\ Proceed(c, "act", r) /\ UNCHANGED provider
      BY <1>8, <2>2 DEF NormalizeOrphan, m
    <3>2. r \in RecordType
      BY <1>0, StopType
    <3>3. caller' \in [Callers -> CallerType]
      BY <1>m, <3>1, <3>2, ProceedType
    <3>4. r.cancellation # "none" => r.status = "cancelled"
      BY <1>0 DEF TypeOK, RecordType
    <3> QED
      BY <1>3, <1>8, <3>1, <3>2, <3>3, <3>4 DEF NormalizeOrphan, TypeOK, work
  <2> QED
    BY <2>1, <2>2
<1>9. CASE NormalizeWorkerGone(c)
  <2> DEFINE new == [record EXCEPT !.status = "failed"]
  <2>1. PICK r \in {record, new} :
           /\ record' = r
           /\ Proceed(c, "release", r) \/ Proceed(c, "act", r)
           /\ r = record \/ record.status \in Active
    BY <1>9 DEF NormalizeWorkerGone
  <2>2. r \in RecordType
    <3>1. "failed" \in Active \cup Terminal
      BY DEF Terminal
    <3> QED
      BY <1>0, <2>1, <3>1, StatusType
  <2>3. caller' \in [Callers -> CallerType]
    BY <1>m, <2>1, <2>2, ProceedType
  <2>4. r.cancellation # "none" => r.status = "cancelled"
    BY <2>1, <1>0 DEF TypeOK, RecordType, Active
  <2> QED
    BY <1>3, <1>9, <2>1, <2>2, <2>3, <2>4 DEF NormalizeWorkerGone, TypeOK
<1>10. CASE NormalizeFine(c)
  <2>1. Proceed(c, "act", m)
    BY <1>10 DEF NormalizeFine, m
  <2>2. caller' \in [Callers -> CallerType]
    BY <1>0, <1>m, <2>1, ProceedType
  <2> QED
    BY <1>1, <1>10, <2>2 DEF NormalizeFine
<1>11. CASE Settle(c)
  <2>1. PICK s \in {"confirmed", "unconfirmed"} :
           LET r == [record EXCEPT !.cancellation = s]
           IN  record' = r /\ (Proceed(c, "release", r) \/ Proceed(c, "act", r))
    BY <1>11 DEF Settle
  <2> DEFINE r == [record EXCEPT !.cancellation = s]
  <2>2. r \in RecordType
    BY <1>0, CancellationType
  <2>3. caller' \in [Callers -> CallerType]
    BY <1>m, <2>1, <2>2, ProceedType
  <2>4. record.status = "cancelled"
    BY <1>11 DEF Settle, At, CopiesHold, CopyHolds, Exists, Active, Terminal
  <2>5. r.status = "cancelled"
    BY <2>4, <1>0 DEF RecordType
  <2> QED
    BY <1>3, <1>11, <2>1, <2>2, <2>3, <2>5 DEF Settle, TypeOK
<1>12. ASSUME ReleaseAdmission
       PROVE  /\ record' \in RecordType /\ lease' \in {"held", "released"}
              /\ record'.cancellation # "none" => record'.status = "cancelled"
  <2>1. record' \in RecordType
    BY <1>0, <1>12, LeaseType DEF ReleaseAdmission
  <2>2. record'.cancellation # "none" => record'.status = "cancelled"
    BY <1>12, <1>0 DEF TypeOK, RecordType, ReleaseAdmission
  <2> QED
    BY <1>12, <2>1, <2>2 DEF ReleaseAdmission
<1>13. CASE Release(c)
  <2>1. caller' \in [Callers -> CallerType]
    BY <1>m, <1>12, <1>13, ProceedType DEF Release
  <2> QED
    BY <1>3, <1>12, <1>13, <2>1 DEF Release
<1>14. CASE TickReconciles(c)
  <2>1. caller' \in [Callers -> CallerType]
    BY <1>14, IdleType DEF TickReconciles
  <2>2. CASE ReleaseAdmission
    BY <1>3, <1>12, <1>14, <2>1, <2>2 DEF TickReconciles
  <2>3. CASE UNCHANGED <<record, lease>>
    BY <1>1, <1>14, <2>1, <2>3 DEF TickReconciles
  <2> QED
    BY <1>14, <2>2, <2>3 DEF TickReconciles
<1>15. CASE Despawn(c)
  <2>1. caller' \in [Callers -> CallerType]
    BY <1>15, IdleType DEF Despawn
  <2>2. CASE lease' = "released" /\ record' = [Blank EXCEPT !.status = "gone"]
    <3>1. record' \in RecordType
      BY <2>2, BlankType, GoneType
    <3>2. record'.cancellation = "none"
      BY <2>2, BlankType DEF RecordType
    <3> QED
      BY <1>3, <1>15, <2>1, <2>2, <3>1, <3>2 DEF Despawn
  <2>3. CASE UNCHANGED <<record, lease>>
    BY <1>1, <1>15, <2>1, <2>3 DEF Despawn
  <2> QED
    BY <1>15, <2>2, <2>3 DEF Despawn
<1>16. CASE CancelPending(c)
  BY <1>m, <1>4, <1>16 DEF CancelPending
<1>17. CASE CancelEnded(c)
  <2>1. caller' \in [Callers -> CallerType]
    BY <1>0, <1>m, <1>17, BlankType, ContinueType DEF CancelEnded
  <2> QED
    BY <1>1, <1>17, <2>1 DEF CancelEnded
<1>18. CASE CancelMark(c)
  <2> DEFINE new == [Claimed(record, "cancelled") EXCEPT !.cancellation = "stopping"]
  <2>1. PICK r \in {record, new} :
           /\ record' = r
           /\ \/ Continue(c, "poll", "stop", r, {})
              \/ Continue(c, "poll", "release", Blank, {})
           /\ r = new => record.status \notin Terminal \/ r = record
    BY <1>18 DEF CancelMark
  <2>2. CASE r = record
    <3>1. caller' \in [Callers -> CallerType]
      BY <1>0, <1>m, <2>1, <2>2, BlankType, ContinueType
    <3> QED
      BY <1>1, <1>18, <2>1, <2>2, <3>1 DEF CancelMark
  <2>3. CASE r # record
    <3>1. r = [[record EXCEPT !.status = "cancelled"] EXCEPT !.cancellation = "stopping"]
      BY <2>1, <2>3 DEF Claimed
    <3>2. r \in RecordType
      <4>1. "cancelled" \in Active \cup Terminal
        BY DEF Terminal
      <4>2. [record EXCEPT !.status = "cancelled"] \in RecordType
        BY <1>0, <4>1, StatusType
      <4> QED
        BY <3>1, <4>2, CancellationType
    <3>3. r.status = "cancelled"
      BY <3>1, <1>0 DEF RecordType
    <3>4. caller' \in [Callers -> CallerType]
      BY <1>0, <1>m, <2>1, <3>2, BlankType, ContinueType
    <3> QED
      BY <1>3, <1>18, <2>1, <3>2, <3>3, <3>4 DEF CancelMark, TypeOK
  <2> QED
    BY <2>2, <2>3
<1>19. CASE StopAsk(c)
  <2>1. caller' \in [Callers -> CallerType]
    BY <1>0, <1>m, <1>19, ProceedType DEF StopAsk, m
  <2> QED
    BY <1>2, <1>19, <2>1 DEF StopAsk
<1>20. CASE StopKill(c)
  <2>1. caller' \in [Callers -> CallerType]
    BY <1>0, <1>m, <1>20, ProceedType DEF StopKill, m
  <2> QED
    BY <1>2, <1>20, <2>1 DEF StopKill
<1>21. CASE StopLook(c)
  <2>1. Continue(c, "poll", "settle", Blank, Live(m))
    BY <1>21 DEF StopLook, m
  <2>2. caller' \in [Callers -> CallerType]
    BY <1>0, <1>m, <2>1, BlankType, ContinueType
  <2> QED
    BY <1>1, <1>21, <2>2 DEF StopLook
<1>22. CASE LosesRecord(c)
  BY <1>1, <1>22, IdleType DEF LosesRecord
<1> QED
  BY <1>5, <1>6, <1>7, <1>8, <1>9, <1>10, <1>11, <1>13, <1>14, <1>15, <1>16, <1>17,
     <1>18, <1>19, <1>20, <1>21, <1>22 DEF Step

LEMMA TypeStep == ASSUME IInv, [Next]_vars PROVE TypeOK'
<1> USE DEF IInv
<1>1. CASE UNCHANGED vars
  BY <1>1 DEF TypeOK, vars
<1>2. CASE StartGoesLate \/ GracePasses
  BY <1>2 DEF StartGoesLate, GracePasses, TypeOK, work
<1>3. CASE ServerDies
  <2>1. Idle \in CallerType
    BY BlankType DEF Idle, CallerType
  <2>2. caller' \in [Callers -> CallerType]
    BY <1>3, <2>1 DEF ServerDies
  <2>3. crashes' \in 0 .. MaxCrashes
    BY <1>3, LifecycleAssumption DEF ServerDies, TypeOK
  <2> QED
    BY <1>3, <2>2, <2>3 DEF ServerDies, TypeOK, work
<1> QED
  BY <1>1, <1>2, <1>3, SpawnerTypes, WorkerTypes, BeginTypes, StepTypes DEF Next

-----------------------------------------------------------------------------
\* Nobody but the worker begins an attempt, and it begins none before it is recorded nor
\* after the agent was given up; it goes on from a provider when that has ended; an agent
\* ends after its provider, except by a cancel, which is confirmed after it.
Facts == Beginnings /\ NothingUnrecorded /\ OutcomeKnown /\ OneProvider /\ EndedStopped

LEMMA FactsStep == ASSUME IInv, [Next]_vars, TypeOK' PROVE Facts'
<1> USE LifecycleAssumption DEF IInv, Facts, TypeOK, RecordType, Beginnings, NothingUnrecorded,
       OutcomeKnown, OneProvider, EndedStopped, Untouched, Stopped, Exists, Active, Terminal,
       Claimed, ReleaseAdmission, Live, WorkerRuns, ProviderRuns, Blank, Idle, work, time
<1>1. CASE WriteRecord
  BY <1>1 DEF WriteRecord
<1>2. CASE BindFails
  BY <1>2 DEF BindFails
<1>3. CASE CreateWorkflow
  BY <1>3 DEF CreateWorkflow
<1>4. CASE LaunchWorker
  BY <1>4 DEF LaunchWorker
<1>5. CASE ReleaseUnlaunched
  BY <1>5 DEF ReleaseUnlaunched
<1>6. CASE RecordWorker
  BY <1>6 DEF RecordWorker
<1>7. CASE SpawnerLosesRecord
  BY <1>7 DEF SpawnerLosesRecord
<1>8. CASE RecordWorkerStart
  <2>1. worker = "launched" /\ UNCHANGED <<spawner, attempt, provider, outcome, caller>>
    BY <1>8 DEF RecordWorkerStart
  <2>2. CASE record.status \in Terminal
    <3>1. UNCHANGED record /\ worker' = "leaving"
      BY <1>8, <2>2 DEF RecordWorkerStart
    <3> QED
      BY <2>1, <3>1
  <2>3. CASE record.status \notin Terminal
    <3>1. /\ record' = [record EXCEPT !.status = "running", !.worker = TRUE]
          /\ worker' = "checking"
      BY <1>8, <2>3 DEF RecordWorkerStart
    <3>2. /\ record'.status = "running" /\ record'.worker
          /\ record'.cancellation = record.cancellation
          /\ record'.neverStarted = record.neverStarted
      BY <3>1
    <3>3. record.cancellation = "none" /\ ~record.neverStarted /\ spawner # "write"
      BY <1>8, <2>3 DEF RecordWorkerStart
    <3> QED
      BY LifecycleAssumption, <2>1, <3>1, <3>2, <3>3
  <2> QED
    BY <2>2, <2>3
<1>9. CASE BeginAttempt
  BY <1>9 DEF BeginAttempt
<1>10. CASE StartProvider
  BY <1>10 DEF StartProvider
<1>11. CASE RecordProviderStart
  BY <1>11 DEF RecordProviderStart
<1>12. CASE StopProvider
  BY <1>12 DEF StopProvider
<1>13. CASE KillProvider
  BY <1>13 DEF KillProvider
<1>14. CASE ReapProvider
  BY <1>14 DEF ReapProvider
<1>15. CASE AfterAttempt
  BY <1>15 DEF AfterAttempt
<1>16. CASE RecordCompletion
  BY <1>16 DEF RecordCompletion
<1>17. CASE WorkerLeaves
  BY <1>17 DEF WorkerLeaves
<1>18. CASE WorkerDies
  BY <1>18 DEF WorkerDies
<1>19. CASE ProviderEnds
  BY <1>19 DEF ProviderEnds
<1>20. CASE StartGoesLate
  BY <1>20 DEF StartGoesLate
<1>21. CASE GracePasses
  BY <1>21 DEF GracePasses
<1>22. CASE ServerDies
  BY <1>22 DEF ServerDies
<1>23. ASSUME NEW c \in Callers, Step(c) PROVE Facts'
  <2> USE DEF CopiesHold, CopyHolds, Continue, Proceed, Reconcile, Killed, At, Meta,
         CancellationPending
  <2>1. CASE NormalizePending(c)
    BY <2>1 DEF NormalizePending
  <2>2. CASE NormalizeEnded(c)
    BY <2>2 DEF NormalizeEnded
  <2>3. CASE NormalizeNeverStarted(c)
    BY <2>3 DEF NormalizeNeverStarted
  <2>4. CASE NormalizeOrphan(c)
    BY <2>4 DEF NormalizeOrphan
  <2>5. CASE NormalizeWorkerGone(c)
    BY <2>5 DEF NormalizeWorkerGone
  <2>6. CASE NormalizeFine(c)
    BY <2>6 DEF NormalizeFine
  <2>7. CASE Settle(c)
    BY <2>7 DEF Settle
  <2>8. CASE Release(c)
    BY <2>8 DEF Release
  <2>9. CASE TickReconciles(c)
    BY <2>9 DEF TickReconciles
  <2>10. CASE Despawn(c)
    BY <2>10 DEF Despawn
  <2>11. CASE CancelPending(c)
    BY <2>11 DEF CancelPending
  <2>12. CASE CancelEnded(c)
    BY <2>12 DEF CancelEnded
  <2>13. CASE CancelMark(c)
    BY <2>13 DEF CancelMark
  <2>14. CASE StopAsk(c)
    BY <2>14 DEF StopAsk
  <2>15. CASE StopKill(c)
    BY <2>15 DEF StopKill
  <2>16. CASE StopLook(c)
    BY <2>16 DEF StopLook
  <2>17. CASE LosesRecord(c)
    BY <2>17 DEF LosesRecord
  <2> QED
    BY <1>23, <2>1, <2>2, <2>3, <2>4, <2>5, <2>6, <2>7, <2>8, <2>9, <2>10,
       <2>11,
       <2>12, <2>13, <2>14, <2>15, <2>16, <2>17 DEF Step
<1>24. ASSUME NEW c \in Callers, NEW op \in {"poll", "cancel", "tick", "despawn"}, Begin(c, op)
       PROVE  Facts'
  BY <1>24 DEF Begin, Continue
<1>25. CASE UNCHANGED vars
  BY <1>25 DEF vars
<1> HIDE DEF IInv, Facts, TypeOK, RecordType, Beginnings, NothingUnrecorded, OutcomeKnown,
         OneProvider, EndedStopped
<1> QED
  BY <1>1, <1>2, <1>3, <1>4, <1>5, <1>6, <1>7, <1>8, <1>9, <1>10, <1>11, <1>12, <1>13,
     <1>14, <1>15, <1>16, <1>17, <1>18, <1>19, <1>20, <1>21, <1>22, <1>23, <1>24, <1>25
     DEF Next, Spawner, Worker, WorkerLosesRecord

-----------------------------------------------------------------------------
\* An agent ends once; a cancelled one keeps the provider recorded for it, and what has
\* stopped stays stopped.
LEMMA EndedStays ==
  ASSUME IInv, [Next]_vars
  PROVE  /\ record.status = "gone" => record'.status = "gone"
         /\ record.status = "cancelled" =>
               \/ record'.status = "gone"
               \/ record'.status = "cancelled" /\ record'.provider = record.provider
         /\ Stopped => Stopped'
         /\ record.status \in Terminal => record'.status \in {record.status, "gone"}
<1> DEFINE Goal == /\ record.status = "gone" => record'.status = "gone"
                   /\ record.status = "cancelled" =>
                         \/ record'.status = "gone"
                         \/ record'.status = "cancelled" /\ record'.provider = record.provider
                   /\ Stopped => Stopped'
                   /\ record.status \in Terminal => record'.status \in {record.status, "gone"}
<1> USE LifecycleAssumption DEF IInv, TypeOK, RecordType, Beginnings, NothingUnrecorded,
       OutcomeKnown, OneProvider, EndedStopped, Stopped, Exists, Active, Terminal,
       Claimed, ReleaseAdmission, Live, WorkerRuns, ProviderRuns, Blank, work, time
<1>1. CASE WriteRecord
  BY <1>1 DEF WriteRecord
<1>2. CASE BindFails
  BY <1>2 DEF BindFails
<1>3. CASE CreateWorkflow
  BY <1>3 DEF CreateWorkflow
<1>4. CASE LaunchWorker
  BY <1>4 DEF LaunchWorker
<1>5. CASE ReleaseUnlaunched
  BY <1>5 DEF ReleaseUnlaunched
<1>6. CASE RecordWorker
  BY <1>6 DEF RecordWorker
<1>7. CASE SpawnerLosesRecord
  BY <1>7 DEF SpawnerLosesRecord
<1>8. CASE RecordWorkerStart
  BY <1>8 DEF RecordWorkerStart
<1>9. CASE BeginAttempt
  BY <1>9 DEF BeginAttempt
<1>10. CASE StartProvider
  BY <1>10 DEF StartProvider
<1>11. CASE RecordProviderStart
  BY <1>11 DEF RecordProviderStart
<1>12. CASE StopProvider
  BY <1>12 DEF StopProvider
<1>13. CASE KillProvider
  BY <1>13 DEF KillProvider
<1>14. CASE ReapProvider
  BY <1>14 DEF ReapProvider
<1>15. CASE AfterAttempt
  BY <1>15 DEF AfterAttempt
<1>16. CASE RecordCompletion
  BY <1>16 DEF RecordCompletion
<1>17. CASE WorkerLeaves
  BY <1>17 DEF WorkerLeaves
<1>18. CASE WorkerDies
  BY <1>18 DEF WorkerDies
<1>19. CASE ProviderEnds
  BY <1>19 DEF ProviderEnds
<1>20. CASE StartGoesLate
  BY <1>20 DEF StartGoesLate
<1>21. CASE GracePasses
  BY <1>21 DEF GracePasses
<1>22. CASE ServerDies
  BY <1>22 DEF ServerDies
<1>23. ASSUME NEW c \in Callers, Step(c) PROVE Goal
  <2> USE DEF CopiesHold, CopyHolds, Reconcile, Killed, At, Meta, CancellationPending
  <2>1. CASE NormalizePending(c)
    BY <2>1 DEF NormalizePending
  <2>2. CASE NormalizeEnded(c)
    BY <2>2 DEF NormalizeEnded
  <2>3. CASE NormalizeNeverStarted(c)
    BY <2>3 DEF NormalizeNeverStarted
  <2>4. CASE NormalizeOrphan(c)
    BY <2>4 DEF NormalizeOrphan
  <2>5. CASE NormalizeWorkerGone(c)
    BY <2>5 DEF NormalizeWorkerGone
  <2>6. CASE NormalizeFine(c)
    BY <2>6 DEF NormalizeFine
  <2>7. CASE Settle(c)
    BY <2>7 DEF Settle
  <2>8. CASE Release(c)
    BY <2>8 DEF Release
  <2>9. CASE TickReconciles(c)
    BY <2>9 DEF TickReconciles
  <2>10. CASE Despawn(c)
    BY <2>10 DEF Despawn
  <2>11. CASE CancelPending(c)
    BY <2>11 DEF CancelPending
  <2>12. CASE CancelEnded(c)
    BY <2>12 DEF CancelEnded
  <2>13. CASE CancelMark(c)
    BY <2>13 DEF CancelMark
  <2>14. CASE StopAsk(c)
    BY <2>14 DEF StopAsk
  <2>15. CASE StopKill(c)
    BY <2>15 DEF StopKill
  <2>16. CASE StopLook(c)
    BY <2>16 DEF StopLook
  <2>17. CASE LosesRecord(c)
    BY <2>17 DEF LosesRecord
  <2> QED
    BY <1>23, <2>1, <2>2, <2>3, <2>4, <2>5, <2>6, <2>7, <2>8, <2>9, <2>10,
       <2>11, <2>12, <2>13, <2>14, <2>15, <2>16, <2>17 DEF Step
<1>24. ASSUME NEW c \in Callers, NEW op \in {"poll", "cancel", "tick", "despawn"}, Begin(c, op)
      PROVE  Goal
  BY <1>24 DEF Begin
<1>25. CASE UNCHANGED vars
  BY <1>25 DEF vars
<1> HIDE DEF IInv, TypeOK, RecordType, Beginnings, NothingUnrecorded, OutcomeKnown,
         OneProvider, EndedStopped, Stopped
<1> QED
  BY <1>1, <1>2, <1>3, <1>4, <1>5, <1>6, <1>7, <1>8, <1>9, <1>10, <1>11, <1>12, <1>13,
     <1>14, <1>15, <1>16, <1>17, <1>18, <1>19, <1>20, <1>21, <1>22, <1>23, <1>24, <1>25
     DEF Next, Spawner, Worker, WorkerLosesRecord

\* What a handler that does not move holds stays true.
LEMMA CopyStays ==
  ASSUME IInv, [Next]_vars, NEW d \in Callers, caller'[d] \in {caller[d], Idle}
  PROVE  CopyHolds(d)'
<1>1. CASE caller'[d] = Idle
  BY <1>1 DEF CopyHolds, Idle, Blank, Terminal
<1>2. CASE caller'[d] = caller[d]
  <2>1. CopyHolds(d)
    BY DEF IInv, CopiesHold
  <2> QED
    BY <1>2, <2>1, EndedStays DEF CopyHolds, CancellationPending
<1> QED
  BY <1>1, <1>2

LEMMA OthersHold ==
  ASSUME IInv, [Next]_vars, NEW c \in Callers, Step(c) \/ \E op \in Op : Begin(c, op),
         NEW d \in Callers, d # c
  PROVE  CopyHolds(d)'
<1>1. caller'[d] = caller[d]
  BY DEF IInv, TypeOK, Step, Begin, Continue, Proceed, Reconcile, NormalizePending,
     NormalizeEnded, NormalizeNeverStarted, NormalizeOrphan, NormalizeWorkerGone, NormalizeFine, Settle,
     Release, TickReconciles, Despawn, CancelPending, CancelEnded, CancelMark, StopAsk,
     StopKill, StopLook, LosesRecord
<1> QED
  BY <1>1, CopyStays

\* The handler that moves looks at the record under its lock, or at the processes.
LEMMA MoverHolds ==
  ASSUME IInv, [Next]_vars, TypeOK', Stopped => Stopped', NEW c \in Callers, Step(c)
  PROVE  CopyHolds(c)'
<1>1. CopyHolds(c)
  BY DEF IInv, CopiesHold
<1> USE <1>1, LifecycleAssumption DEF IInv, TypeOK, RecordType, EndedStopped, NothingUnrecorded,
       Untouched, Stopped, Exists,
       Active, Terminal, Claimed, ReleaseAdmission, Live, WorkerRuns, ProviderRuns, Blank, Idle,
       work, time, CopyHolds, Continue, Proceed, Reconcile, Killed, At, Meta, CancellationPending
<1>2. CASE NormalizePending(c)
  BY <1>2 DEF NormalizePending
<1>3. CASE NormalizeEnded(c)
  BY <1>3 DEF NormalizeEnded
<1>4. CASE NormalizeNeverStarted(c)
  BY <1>4 DEF NormalizeNeverStarted
<1>5. CASE NormalizeOrphan(c)
  BY <1>5 DEF NormalizeOrphan
<1>6. CASE NormalizeWorkerGone(c)
  BY <1>6 DEF NormalizeWorkerGone
<1>7. CASE NormalizeFine(c)
  BY <1>7 DEF NormalizeFine
<1>8. CASE Settle(c)
  BY <1>8 DEF Settle
<1>9. CASE Release(c)
  BY <1>9 DEF Release
<1>10. CASE TickReconciles(c)
  BY <1>10 DEF TickReconciles
<1>11. CASE Despawn(c)
  BY <1>11 DEF Despawn
<1>12. CASE CancelPending(c)
  BY <1>12 DEF CancelPending
<1>13. CASE CancelEnded(c)
  BY <1>13 DEF CancelEnded
<1>14. CASE CancelMark(c)
  <2>1. CASE record.status \in Terminal
    <3>1. record' = record /\ worker' = worker /\ provider' = provider /\ attempt' = attempt
      BY <1>14, <2>1 DEF CancelMark
    <3>2. CASE CancellationPending(record)
      <4>1. Continue(c, "poll", "stop", record, {})
        BY <1>14, <2>1, <3>2 DEF CancelMark
      <4> QED
        BY <3>1, <3>2, <4>1
    <3>3. CASE ~CancellationPending(record)
      <4>1. Continue(c, "poll", "release", Blank, {})
        BY <1>14, <2>1, <3>3 DEF CancelMark
      <4>2. Stopped
        BY <2>1, <3>3
      <4> QED
        BY <3>1, <4>1, <4>2
    <3> QED
      BY <3>2, <3>3
  <2>2. CASE record.status \notin Terminal
    <3> DEFINE m == [[record EXCEPT !.status = "cancelled"] EXCEPT !.cancellation = "stopping"]
    <3>1. record' = m /\ m.status = "cancelled" /\ m.cancellation = "stopping"
      BY <1>14, <2>2 DEF CancelMark
    <3>2. Continue(c, "poll", "stop", m, {})
      BY <1>14, <2>2, <3>1 DEF CancelMark
    <3> HIDE DEF m
    <3> QED
      BY <3>1, <3>2
  <2> QED
    BY <2>1, <2>2
<1>15. CASE StopAsk(c)
  BY <1>15 DEF StopAsk
<1>16. CASE StopKill(c)
  BY <1>16 DEF StopKill
<1>17. CASE StopLook(c)
  BY <1>17 DEF StopLook
<1>18. CASE LosesRecord(c)
  BY <1>18 DEF LosesRecord
<1> QED
  BY <1>2, <1>3, <1>4, <1>5, <1>6, <1>7, <1>8, <1>9, <1>10, <1>11, <1>12, <1>13, <1>14,
     <1>15, <1>16, <1>17, <1>18 DEF Step

\* A handler that begins reads the record as it is.
LEMMA BeginHolds ==
  ASSUME IInv, [Next]_vars, TypeOK', NEW c \in Callers,
         NEW op \in {"poll", "cancel", "tick", "despawn"}, Begin(c, op)
  PROVE  CopyHolds(c)'
<1>1. /\ UNCHANGED <<record, worker, attempt, provider>>
      /\ caller'[c].meta = record /\ caller'[c].step = "normalize"
  BY DEF Begin, Continue, work, IInv, TypeOK
<1> QED
  BY <1>1 DEF CopyHolds, IInv, EndedStopped, Stopped, CancellationPending, Live, TypeOK,
              RecordType, Terminal, ProviderRuns, WorkerRuns

-----------------------------------------------------------------------------
\* It holds at the start, and every step keeps it.
LEMMA InitIInv == Init => IInv
<1> SUFFICES ASSUME Init PROVE IInv
  OBVIOUS
<1>1. TypeOK
  BY TypeInit
<1>2. Beginnings /\ OutcomeKnown /\ OneProvider
  BY LifecycleAssumption DEF Init, Beginnings, OutcomeKnown, OneProvider, ProviderRuns, Blank
<1>3. NothingUnrecorded /\ EndedStopped
  BY DEF Init, NothingUnrecorded, EndedStopped, Untouched, Exists, Active, Terminal, Blank
<1>4. CopiesHold
  BY DEF Init, CopiesHold, CopyHolds, Idle, Blank, Terminal
<1> QED
  BY <1>1, <1>2, <1>3, <1>4 DEF IInv

LEMMA StepIInv == IInv /\ [Next]_vars => IInv'
<1> SUFFICES ASSUME IInv, [Next]_vars PROVE IInv'
  OBVIOUS
<1>1. TypeOK'
  BY TypeStep
<1>2. /\ Beginnings' /\ NothingUnrecorded' /\ OutcomeKnown'
      /\ OneProvider' /\ EndedStopped'
  BY <1>1, FactsStep DEF Facts
<1>3. CopiesHold'
  <2> SUFFICES ASSUME NEW d \in Callers PROVE CopyHolds(d)'
    BY DEF CopiesHold
  <2>1. CASE caller'[d] \in {caller[d], Idle}
    BY <2>1, CopyStays
  <2>2. CASE \E c \in Callers : Step(c)
    <3>1. PICK c \in Callers : Step(c)
      BY <2>2
    <3> QED
      BY <1>1, <3>1, EndedStays, MoverHolds, OthersHold
  <2>3. CASE \E c \in Callers : \E op \in {"poll", "cancel", "tick", "despawn"} : Begin(c, op)
    <3>1. PICK c \in Callers, op \in {"poll", "cancel", "tick", "despawn"} : Begin(c, op)
      BY <2>3
    <3>2. CASE d = c
      BY <1>1, <3>1, <3>2, BeginHolds
    <3>3. CASE d # c
      BY <3>1, <3>3, OthersHold DEF Op
    <3> QED
      BY <3>2, <3>3
  <2>4. CASE \/ UNCHANGED vars \/ Spawner \/ Worker \/ StopProvider \/ WorkerDies
             \/ ProviderEnds \/ StartGoesLate \/ GracePasses \/ ServerDies
    <3>1. UNCHANGED caller \/ caller' = [c \in Callers |-> Idle]
      BY <2>4 DEF vars, Spawner, Worker, WriteRecord, BindFails, CreateWorkflow, LaunchWorker,
         ReleaseUnlaunched, RecordWorker, SpawnerLosesRecord, RecordWorkerStart, BeginAttempt,
         StartProvider, RecordProviderStart, StopProvider, KillProvider, ReapProvider,
         AfterAttempt, RecordCompletion, WorkerLeaves, WorkerDies, WorkerLosesRecord,
         ProviderEnds, StartGoesLate, GracePasses, ServerDies
    <3> QED
      BY <2>1, <3>1
  <2> QED
    BY <2>2, <2>3, <2>4 DEF Next
<1> QED
  BY <1>1, <1>2, <1>3 DEF IInv

\* The inductive invariant holds of every state.
LEMMA Invariance == Spec => []IInv
BY InitIInv, StepIInv, PTL DEF Spec

\* The record, the processes and the handlers have their types in every state, and only
\* a cancelled agent has a cancellation (_claim_terminal_transition).
THEOREM TypeCorrect == Spec => []TypeOK
<1>1. IInv => TypeOK
  BY DEF IInv
<1> QED
  BY <1>1, Invariance, PTL

\* An agent that mark_never_started gave up has run no provider and will run none: its
\* worker, if it turns up, leaves before the first attempt.
THEOREM NeverStartedHolds == Spec => []NeverStartedRanNothing
<1>1. IInv => NeverStartedRanNothing
  BY DEF IInv, NothingUnrecorded, Untouched, NeverStartedRanNothing
<1> QED
  BY <1>1, Invariance, PTL

-----------------------------------------------------------------------------
\* Of the worker, the cancels and the repairs one ends the agent, and nobody ends it again:
\* what _claim_terminal_transition is for.
THEOREM OneTerminalStatusHolds == Spec => OneTerminalStatus
<1> DEFINE Keeps == record.status \in Terminal => record'.status \in {record.status, "gone"}
<1>1. ASSUME IInv, [Next]_vars PROVE [Keeps]_vars
  BY <1>1, EndedStays
<1> QED
  BY <1>1, Invariance, PTL DEF Spec, OneTerminalStatus

\* Who gives back capacity under a provider that the record knows.
Outlives == lease = "held" /\ lease' = "released" /\ "provider" \in Live(record)
            => \E c \in Callers : caller[c].op \in {"tick", "despawn"} /\ caller'[c] = Idle

LEMMA OutlivesStep == ASSUME IInv, [Next]_vars PROVE Outlives
<1> USE DEF Outlives
<1>0. "provider" \in Live(record) => ProviderRuns
  BY DEF Live
<1>1. CASE UNCHANGED lease
  BY <1>1
<1>2. CASE spawner \in {"write", "workflow", "release"}
  BY <1>0, <1>2 DEF IInv, Beginnings, ProviderRuns
<1>3. CASE WorkerLeaves
  BY <1>0, <1>3 DEF WorkerLeaves, IInv, OneProvider
<1>4. ASSUME NEW c \in Callers, Release(c) PROVE Outlives
  <2>1. Stopped /\ record.status # "gone"
    BY <1>4 DEF Release, At, IInv, CopiesHold, CopyHolds, Exists, Active, Terminal
  <2> QED
    BY <2>1 DEF Stopped
<1>5. ASSUME NEW c \in Callers, TickReconciles(c) \/ Despawn(c) PROVE Outlives
  <2>1. caller' = [caller EXCEPT ![c] = Idle] /\ caller[c].op \in {"tick", "despawn"}
    BY <1>5 DEF TickReconciles, Despawn
  <2>2. caller'[c] = Idle
    BY <2>1 DEF IInv, TypeOK
  <2> QED
    BY <2>1, <2>2
<1>6. CASE Spawner
  BY <1>1, <1>2, <1>6 DEF Spawner, WriteRecord, BindFails, CreateWorkflow, LaunchWorker,
     ReleaseUnlaunched, RecordWorker, SpawnerLosesRecord
<1>7. CASE Worker \/ StopProvider \/ WorkerDies \/ ProviderEnds
  BY <1>1, <1>3, <1>7 DEF Worker, RecordWorkerStart, BeginAttempt, StartProvider,
     RecordProviderStart, StopProvider, KillProvider, ReapProvider, AfterAttempt,
     RecordCompletion, WorkerDies, WorkerLosesRecord, ProviderEnds
<1>8. ASSUME NEW c \in Callers, Step(c) PROVE Outlives
  <2>1. \/ UNCHANGED lease
        \/ Release(c) \/ TickReconciles(c) \/ Despawn(c)
    BY <1>8 DEF Step, Reconcile, NormalizePending, NormalizeEnded, NormalizeNeverStarted,
       NormalizeOrphan, NormalizeWorkerGone, NormalizeFine, Settle, CancelPending, CancelEnded,
       CancelMark, StopAsk, StopKill, StopLook, LosesRecord
  <2> QED
    BY <1>1, <1>4, <1>5, <2>1
<1>9. ASSUME NEW c \in Callers, NEW op \in {"poll", "cancel", "tick", "despawn"}, Begin(c, op)
      PROVE  Outlives
  BY <1>1, <1>9 DEF Begin
<1>10. CASE UNCHANGED vars \/ StartGoesLate \/ GracePasses \/ ServerDies
  BY <1>1, <1>10 DEF vars, StartGoesLate, GracePasses, ServerDies
<1> HIDE DEF Outlives
<1> QED
  BY <1>6, <1>7, <1>8, <1>9, <1>10 DEF Next

\* Capacity that is given back by the worker, by a spawner that failed or by a poll or a
\* cancel is not in use by a provider that the record knows.
THEOREM CapacityOutlivesProviderHolds == Spec => CapacityOutlivesProvider
<1>1. IInv /\ [Next]_vars => [Outlives]_vars
  BY OutlivesStep
<1> QED
  BY <1>1, Invariance, PTL DEF Spec, CapacityOutlivesProvider, Outlives
=============================================================================
