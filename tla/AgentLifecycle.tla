--------------------------- MODULE AgentLifecycle ---------------------------
(***************************************************************************)
(* One delegated agent of a team (tools_agents.py): its record on disk,    *)
(* its admission lease, its worker process and the provider process the    *)
(* worker runs, once per attempt.  The spawner writes the record and       *)
(* starts the worker; handlers of the server and of other processes read   *)
(* the record, repair it (_normalize) and then poll, cancel, reconcile     *)
(* with the team (a tick) or despawn.  Every update of the record holds    *)
(* its lock and looks at it again; everything else works on a copy that    *)
(* may be old.                                                             *)
(*                                                                         *)
(* "failed" stands for failed, timeout and stalled.  A process id is the   *)
(* fact that one is recorded; of the provider, the attempt it belongs to.  *)
(* The lease is renewed while a provider runs; that it may lapse is left   *)
(* to module Admission.                                                    *)
(***************************************************************************)
EXTENDS Naturals, FiniteSets

CONSTANTS
    Callers,     \* the handlers that may run at the same time
    MaxAttempts, \* retries of the agent plus one
    MaxCrashes   \* bound: crashes of the server

ASSUME LifecycleAssumption == MaxAttempts \in Nat \ {0} /\ MaxCrashes \in Nat

VARIABLES
    record,      \* the agent's record (meta.json)
    lease,       \* its admission lease: "held" or "released"
    spawner,     \* what the spawner does next
    worker,      \* what the worker process does next
    attempt,     \* the number of the last attempt begun
    provider,    \* the provider process of that attempt
    outcome,     \* how that attempt ended
    caller,      \* each handler: what it does next, for what, on which copy
    startLate,   \* the start is older than _STALE_START_S
    graceOver,   \* a stop was asked for longer than _CANCEL_GRACE_S ago
    crashes

vars == <<record, lease, spawner, worker, attempt, provider, outcome, caller,
          startLate, graceOver, crashes>>
work == <<worker, attempt, provider, outcome>>
time == <<startLate, graceOver, crashes>>

Active   == {"starting", "running"}
Terminal == {"completed", "failed", "cancelled"}

\* The copy of a handler that holds none.
Blank == [status |-> "none", cancellation |-> "none", worker |-> FALSE, provider |-> 0,
          neverStarted |-> FALSE, stopAsked |-> FALSE, lease |-> FALSE]

Idle   == [op |-> "none", step |-> "idle", meta |-> Blank, left |-> {}]
Exists == record.status \in Active \cup Terminal

WorkerRuns   == worker \notin {"none", "gone"}
ProviderRuns == provider \in {"running", "killed"}

\* _live_agent_processes: the processes recorded in m that still run.
Live(m) == {p \in {"provider", "worker"} :
               IF p = "worker" THEN m.worker /\ WorkerRuns
                               ELSE m.provider # 0 /\ m.provider = attempt /\ ProviderRuns}

CancellationPending(m) == m.status = "cancelled" /\ m.cancellation \in {"stopping", "unconfirmed"}

\* _claim_terminal_transition: only an agent that has not ended can end.
Claimed(m, status) == IF m.status \in Terminal THEN m ELSE [m EXCEPT !.status = status]

\* _release_agent_admission, and the copy of the lease in the record.
ReleaseAdmission == lease' = "released" /\ record' = [record EXCEPT !.lease = FALSE]
-----------------------------------------------------------------------------
\* _spawn_internal: the lease is bound to the new agent and the record written, or
\* neither; a lease that could not be bound is given back.
WriteRecord == /\ spawner = "write"
               /\ record' = [Blank EXCEPT !.status = "starting", !.lease = TRUE]
               /\ spawner' = "workflow"
               /\ UNCHANGED <<lease, work, caller, time>>

BindFails == /\ spawner = "write"
             /\ lease' = "released" /\ spawner' = "done"
             /\ UNCHANGED <<record, work, caller, time>>

\* The workflow checkpoint of the agent is created, or the directory removed.
CreateWorkflow == /\ spawner = "workflow"
                  /\ \/ spawner' = "launch" /\ UNCHANGED <<record, lease>>
                     \/ /\ lease' = "released" /\ record' = [Blank EXCEPT !.status = "gone"]
                        /\ spawner' = "done"
                  /\ UNCHANGED <<work, caller, time>>

LaunchWorker == /\ spawner = "launch" /\ Exists
                /\ \/ worker' = "launched" /\ spawner' = "record" /\ UNCHANGED record
                   \/ /\ record' = Claimed(record, "failed")
                      /\ spawner' = "release" /\ UNCHANGED worker
                /\ UNCHANGED <<lease, attempt, provider, outcome, caller, time>>

ReleaseUnlaunched == /\ spawner = "release"
                     /\ lease' = "released" /\ spawner' = "done"
                     /\ UNCHANGED <<record, work, caller, time>>

RecordWorker == /\ spawner = "record" /\ Exists
                /\ record' = [record EXCEPT !.worker = TRUE,
                                            !.status = IF @ = "starting" THEN "running" ELSE @]
                /\ spawner' = "done"
                /\ UNCHANGED <<lease, work, caller, time>>

SpawnerLosesRecord == /\ spawner \in {"launch", "record"} /\ record.status = "gone"
                      /\ spawner' = "done"
                      /\ UNCHANGED <<record, lease, work, caller, time>>
-----------------------------------------------------------------------------
\* Mutant: only a cancelled agent is left alone, not one that was given up.
RecordWorkerStartUnlessCancelled ==
    /\ worker = "launched" /\ Exists
    /\ IF record.status = "cancelled"
       THEN worker' = "leaving" /\ UNCHANGED record
       ELSE /\ worker' = "checking"
            /\ record' = [record EXCEPT !.status = "running", !.worker = TRUE]
    /\ UNCHANGED <<lease, spawner, attempt, provider, outcome, caller, time>>

\* The worker's first act; one that finds the agent ended leaves at once.
RecordWorkerStart ==
    /\ worker = "launched" /\ Exists
    /\ IF record.status \in Terminal
       THEN worker' = "leaving" /\ UNCHANGED record
       ELSE /\ worker' = "checking"
            /\ record' = [record EXCEPT !.status = "running", !.worker = TRUE]
    /\ UNCHANGED <<lease, spawner, attempt, provider, outcome, caller, time>>

\* The top of the attempt loop; a retry forgets the provider of the attempt before.
BeginAttempt ==
    /\ worker = "checking" /\ Exists
    /\ IF record.status = "cancelled"
       THEN worker' = "leaving" /\ UNCHANGED <<record, attempt, provider>>
       ELSE /\ worker' = "starting" /\ attempt' = attempt + 1 /\ provider' = "none"
            /\ record' = [record EXCEPT !.provider = 0]
    /\ UNCHANGED <<lease, spawner, outcome, caller, time>>

StartProvider ==
    /\ worker = "starting"
    /\ \/ worker' = "spawned" /\ provider' = "running" /\ UNCHANGED outcome
       \/ worker' = "finishing" /\ outcome' = "failed" /\ UNCHANGED provider
    /\ UNCHANGED <<record, lease, spawner, attempt, caller, time>>

\* A provider that starts into a cancelled agent is not recorded: the worker sends it
\* TERM and waits for it.
RecordProviderStart ==
    /\ worker = "spawned" /\ Exists
    /\ IF record.status = "cancelled"
       THEN worker' = "waiting_out" /\ outcome' = "cancelled" /\ UNCHANGED record
       ELSE /\ worker' = "watching" /\ UNCHANGED outcome
            /\ record' = [record EXCEPT !.provider = attempt]
    /\ UNCHANGED <<lease, spawner, attempt, provider, caller, time>>

\* The loop that watches the provider: the agent is cancelled, or it ran too long,
\* printed too much or stalled; TERM, then KILL.
StopProvider ==
    /\ worker = "watching" /\ Exists /\ ProviderRuns
    /\ worker' = "stopping"
    /\ outcome' = IF record.status = "cancelled" THEN "cancelled" ELSE "failed"
    /\ UNCHANGED <<record, lease, spawner, attempt, provider, caller, time>>

KillProvider ==
    /\ worker = "stopping" /\ provider = "running"
    /\ provider' = "killed"
    /\ UNCHANGED <<record, lease, spawner, worker, attempt, outcome, caller, time>>

ReapProvider ==
    /\ worker \in {"watching", "stopping", "waiting_out"} /\ provider = "ended"
    /\ worker' = "ended"
    /\ outcome' \in IF worker = "watching" THEN {"completed", "failed"} ELSE {outcome}
    /\ UNCHANGED <<record, lease, spawner, attempt, provider, caller, time>>

\* What follows an attempt: leave a cancelled agent, finish, or try again.
AfterAttempt ==
    /\ worker = "ended" /\ Exists
    /\ IF record.status = "cancelled" \/ outcome = "cancelled" THEN worker' = "leaving"
       ELSE \/ worker' = "finishing"
            \/ outcome = "failed" /\ attempt < MaxAttempts /\ worker' = "checking"
    /\ UNCHANGED <<record, lease, spawner, attempt, provider, outcome, caller, time>>

RecordCompletion ==
    /\ worker = "finishing" /\ Exists
    /\ record' = IF record.status \in Terminal THEN record
                 ELSE [Claimed(record, outcome) EXCEPT !.provider = 0]
    /\ worker' = "leaving"
    /\ UNCHANGED <<lease, spawner, attempt, provider, outcome, caller, time>>

\* _main: whatever the worker did, its agent's capacity is given back.
WorkerLeaves ==
    /\ worker = "leaving" /\ Exists
    /\ ReleaseAdmission
    /\ worker' = "gone"
    /\ UNCHANGED <<spawner, attempt, provider, outcome, caller, time>>

\* The worker is killed, or finds the record removed; its provider runs on.
WorkerDies == /\ WorkerRuns
              /\ worker' = "gone"
              /\ UNCHANGED <<record, lease, spawner, attempt, provider, outcome, caller, time>>

WorkerLosesRecord == WorkerDies /\ record.status = "gone"

ProviderEnds == /\ ProviderRuns
                /\ provider' = "ended"
                /\ UNCHANGED <<record, lease, spawner, worker, attempt, outcome, caller, time>>

\* No process survives KILL.
KilledProviderEnds == provider = "killed" /\ ProviderEnds
-----------------------------------------------------------------------------
(* The handlers.  Each reads the record, normalises it, and acts on what   *)
(* came out of that.                                                       *)

Continue(c, op, step, meta, left) ==
    caller' = [caller EXCEPT ![c] = [op |-> op, step |-> step, meta |-> meta, left |-> left]]

\* A copy that is not looked at any more is dropped, and a poll ends with the repair.
Proceed(c, step, meta) ==
    IF step = "act" /\ caller[c].op = "poll" THEN caller' = [caller EXCEPT ![c] = Idle]
    ELSE Continue(c, caller[c].op, step, IF step = "release" THEN Blank ELSE meta, {})

\* The team's lock lets one tick reconcile at a time.
Begin(c, op) ==
    /\ caller[c] = Idle /\ Exists
    /\ op = "tick" => \A d \in Callers : caller[d].op # "tick"
    /\ Continue(c, op, "normalize", record, {})
    /\ UNCHANGED <<record, lease, spawner, work, time>>

At(c, step) == caller[c].step = step
Meta(c)     == caller[c].meta

\* Mutant: a provider that outlives TERM is never killed.
KilledNever(left) == provider

\* KILL to the processes in left, once the grace period is over.
Killed(left) == IF "provider" \in left /\ graceOver THEN "killed" ELSE provider

\* _reconcile_cancellation, up to the point where it writes what it saw.  The worker
\* does not survive a signal.
Reconcile(c, op) ==
    LET left == Live(Meta(c))
    IN  /\ provider' = Killed(left)
        /\ worker' = IF "worker" \in left THEN "gone" ELSE worker
        /\ Continue(c, op, "settle", Blank, left)
        /\ UNCHANGED <<record, lease, spawner, attempt, outcome, time>>

\* Mutant: a cancelled agent is like any other that ended.
NormalizePendingAsEnded(c) ==
    /\ At(c, "normalize") /\ CancellationPending(Meta(c))
    /\ Proceed(c, "release", Meta(c))
    /\ UNCHANGED <<record, lease, spawner, work, time>>

NormalizePending(c) == /\ At(c, "normalize") /\ CancellationPending(Meta(c))
                       /\ Reconcile(c, caller[c].op)


\* Mutant: the lease of an agent that has ended is not looked after.
NormalizeEndedKeepsLease(c) ==
    /\ At(c, "normalize") /\ Meta(c).status \in Terminal /\ ~CancellationPending(Meta(c))
    /\ Proceed(c, "act", Meta(c))
    /\ UNCHANGED <<record, lease, spawner, work, time>>

NormalizeEnded(c) ==
    /\ At(c, "normalize") /\ Meta(c).status \in Terminal /\ ~CancellationPending(Meta(c))
    /\ Proceed(c, IF Meta(c).lease THEN "release" ELSE "act", Meta(c))
    /\ UNCHANGED <<record, lease, spawner, work, time>>

\* mark_never_started; a server that is itself starting the agent waits instead.
NormalizeNeverStarted(c) ==
    LET given == ~record.worker /\ record.status \in Active
        m     == IF given THEN [record EXCEPT !.status = "failed", !.neverStarted = TRUE]
                 ELSE record
    IN  /\ At(c, "normalize") /\ Exists
        /\ Meta(c).status \in Active /\ ~Meta(c).worker /\ startLate
        /\ record' = m
        /\ Proceed(c, IF m.neverStarted THEN "release" ELSE "act", m)
        /\ UNCHANGED <<lease, spawner, work, time>>

\* A provider that outlived its worker is stopped first: TERM, then KILL.
NormalizeOrphan(c) ==
    /\ At(c, "normalize") /\ Exists
    /\ Meta(c).status \in Active /\ Meta(c).worker /\ ~WorkerRuns
    /\ "provider" \in Live(Meta(c))
    /\ IF Meta(c).stopAsked
       THEN provider' = Killed({"provider"}) /\ UNCHANGED record /\ Proceed(c, "act", Meta(c))
       ELSE LET m == [record EXCEPT !.stopAsked = TRUE]
            IN  record' = m /\ Proceed(c, "act", m) /\ UNCHANGED provider
    /\ UNCHANGED <<lease, spawner, worker, attempt, outcome, time>>

\* mark_failed: the worker is gone and its recorded provider too.
NormalizeWorkerGone(c) ==
    LET given == record.status \in Active /\ record.worker /\ "provider" \notin Live(record)
        m     == IF given THEN [record EXCEPT !.status = "failed"] ELSE record
    IN  /\ At(c, "normalize") /\ Exists
        /\ Meta(c).status \in Active /\ Meta(c).worker /\ ~WorkerRuns
        /\ "provider" \notin Live(Meta(c))
        /\ record' = m
        /\ Proceed(c, IF m.status = "failed" THEN "release" ELSE "act", m)
        /\ UNCHANGED <<lease, spawner, work, time>>

NormalizeFine(c) ==
    /\ At(c, "normalize") /\ Meta(c).status \in Active
    /\ IF Meta(c).worker THEN WorkerRuns ELSE ~startLate
    /\ Proceed(c, "act", Meta(c))
    /\ UNCHANGED <<record, lease, spawner, work, time>>

\* _settle_cancellation writes what was seen when the processes were looked at.
Settle(c) ==
    LET m == [record EXCEPT !.cancellation =
                 IF caller[c].left = {} THEN "confirmed" ELSE "unconfirmed"]
    IN  /\ At(c, "settle") /\ Exists
        /\ record' = m
        /\ Proceed(c, IF caller[c].left = {} THEN "release" ELSE "act", m)
        /\ UNCHANGED <<lease, spawner, work, time>>

Release(c) == /\ At(c, "release") /\ Exists
              /\ ReleaseAdmission
              /\ Proceed(c, "act", record')
              /\ UNCHANGED <<spawner, work, time>>

\* A tick gives back what an ended agent held; a despawn of one removes its record too.
TickReconciles(c) == /\ At(c, "act") /\ caller[c].op = "tick" /\ Exists
                     /\ IF Meta(c).status \in Terminal THEN ReleaseAdmission
                                                       ELSE UNCHANGED <<record, lease>>
                     /\ caller' = [caller EXCEPT ![c] = Idle]
                     /\ UNCHANGED <<spawner, work, time>>

Despawn(c) == /\ At(c, "act") /\ caller[c].op = "despawn" /\ Exists
              /\ IF Meta(c).status \in Terminal
                 THEN lease' = "released" /\ record' = [Blank EXCEPT !.status = "gone"]
                 ELSE UNCHANGED <<record, lease>>
              /\ caller' = [caller EXCEPT ![c] = Idle]
              /\ UNCHANGED <<spawner, work, time>>

\* agent_action(cancel): an open cancellation is gone on with, an ended agent's capacity
\* given back, any other agent is marked first.
CancelPending(c) == /\ At(c, "act") /\ caller[c].op = "cancel" /\ CancellationPending(Meta(c))
                    /\ Reconcile(c, "poll")

CancelEnded(c) == /\ At(c, "act") /\ caller[c].op = "cancel"
                  /\ Meta(c).status \in Terminal /\ ~CancellationPending(Meta(c))
                  /\ Continue(c, "poll", "release", Blank, {})
                  /\ UNCHANGED <<record, lease, spawner, work, time>>

CancelMark(c) ==
    LET m == IF record.status \in Terminal THEN record
             ELSE [Claimed(record, "cancelled") EXCEPT !.cancellation = "stopping"]
    IN  /\ At(c, "act") /\ caller[c].op = "cancel" /\ Exists /\ Meta(c).status \in Active
        /\ record' = m
        /\ IF CancellationPending(m) THEN Continue(c, "poll", "stop", m, {})
                                     ELSE Continue(c, "poll", "release", Blank, {})
        /\ UNCHANGED <<lease, spawner, work, time>>

\* _stop_agent_processes on the copy that the mark returned: TERM, KILL after the grace
\* period, and a last look.
StopAsk(c) == /\ At(c, "stop")
              /\ worker' = IF "worker" \in Live(Meta(c)) THEN "gone" ELSE worker
              /\ Proceed(c, "kill", Meta(c))
              /\ UNCHANGED <<record, lease, spawner, attempt, provider, outcome, time>>

StopKill(c) == /\ At(c, "kill")
               /\ provider' = IF "provider" \in Live(Meta(c)) THEN "killed" ELSE provider
               /\ Proceed(c, "look", Meta(c))
               /\ UNCHANGED <<record, lease, spawner, worker, attempt, outcome, time>>

StopLook(c) == /\ At(c, "look")
               /\ Continue(c, "poll", "settle", Blank, Live(Meta(c)))
               /\ UNCHANGED <<record, lease, spawner, work, time>>

\* The record was removed meanwhile: the handler answers 404.
LosesRecord(c) == /\ caller[c].step \in {"normalize", "settle", "release", "act"}
                  /\ record.status = "gone"
                  /\ caller' = [caller EXCEPT ![c] = Idle]
                  /\ UNCHANGED <<record, lease, spawner, work, time>>

Step(c) == \/ NormalizePending(c) \/ NormalizeEnded(c) \/ NormalizeNeverStarted(c)
           \/ NormalizeOrphan(c) \/ NormalizeWorkerGone(c) \/ NormalizeFine(c)
           \/ Settle(c) \/ Release(c)
           \/ TickReconciles(c) \/ Despawn(c)
           \/ CancelPending(c) \/ CancelEnded(c) \/ CancelMark(c)
           \/ StopAsk(c) \/ StopKill(c) \/ StopLook(c) \/ LosesRecord(c)
-----------------------------------------------------------------------------
StartGoesLate == /\ ~startLate /\ record.status = "starting"
                 /\ startLate' = TRUE
                 /\ UNCHANGED <<record, lease, spawner, work, caller, graceOver, crashes>>

GracePasses == /\ ~graceOver /\ (record.stopAsked \/ CancellationPending(record))
               /\ graceOver' = TRUE
               /\ UNCHANGED <<record, lease, spawner, work, caller, startLate, crashes>>

\* The server stops: the spawner and the handlers with it, not the worker.
ServerDies == /\ crashes < MaxCrashes /\ crashes' = crashes + 1
              /\ spawner' = IF spawner = "done" THEN "done" ELSE "dead"
              /\ caller' = [c \in Callers |-> Idle]
              /\ UNCHANGED <<record, lease, work, startLate, graceOver>>

Init == /\ record = Blank /\ lease = "held"
        /\ spawner = "write" /\ worker = "none" /\ attempt = 0 /\ provider = "none"
        /\ outcome = "none" /\ caller = [c \in Callers |-> Idle]
        /\ startLate = FALSE /\ graceOver = FALSE /\ crashes = 0

Spawner == WriteRecord \/ BindFails \/ CreateWorkflow \/ LaunchWorker \/ ReleaseUnlaunched
           \/ RecordWorker \/ SpawnerLosesRecord

Worker == RecordWorkerStart \/ BeginAttempt \/ StartProvider \/ RecordProviderStart
          \/ KillProvider \/ ReapProvider \/ AfterAttempt
          \/ RecordCompletion \/ WorkerLeaves \/ WorkerLosesRecord

Next == \/ Spawner \/ Worker \/ StopProvider \/ WorkerDies \/ ProviderEnds
        \/ \E c \in Callers : Step(c) \/ \E op \in {"poll", "cancel", "tick", "despawn"} : Begin(c, op)
        \/ StartGoesLate \/ GracePasses \/ ServerDies

Spec == Init /\ [][Next]_vars

\* The processes run; a watched provider ends or is stopped at its time limit; time
\* passes; and someone goes on reading the agent.
Fairness == /\ WF_vars(Spawner) /\ WF_vars(Worker) /\ WF_vars(StopProvider)
            /\ WF_vars(KilledProviderEnds)
            /\ WF_vars(StartGoesLate) /\ WF_vars(GracePasses)
            /\ \A c \in Callers : WF_vars(Step(c)) /\ SF_vars(Begin(c, "poll"))

FairSpec == Spec /\ Fairness
-----------------------------------------------------------------------------
RecordType == [status : {"none", "gone"} \cup Active \cup Terminal,
               cancellation : {"none", "stopping", "unconfirmed", "confirmed"},
               worker : BOOLEAN, provider : 0 .. MaxAttempts, neverStarted : BOOLEAN,
               stopAsked : BOOLEAN, lease : BOOLEAN]

CallerType == [op : {"none", "poll", "cancel", "tick", "despawn"},
               step : {"idle", "normalize", "settle", "release", "act", "stop", "kill", "look"},
               meta : RecordType, left : SUBSET {"provider", "worker"}]

\* The types; a cancellation belongs to an agent that is cancelled.
TypeOK == /\ record \in RecordType
          /\ record.cancellation # "none" => record.status = "cancelled"
          /\ lease \in {"held", "released"}
          /\ spawner \in {"write", "workflow", "launch", "record", "release", "done", "dead"}
          /\ worker \in {"none", "launched", "checking", "starting", "spawned", "watching",
                         "stopping", "waiting_out", "ended", "finishing", "leaving", "gone"}
          /\ attempt \in 0 .. MaxAttempts
          /\ provider \in {"none", "running", "killed", "ended"}
          /\ outcome \in {"none", "completed", "failed", "cancelled"}
          /\ caller \in [Callers -> CallerType]
          /\ startLate \in BOOLEAN /\ graceOver \in BOOLEAN /\ crashes \in 0 .. MaxCrashes

\* "Claimed first so the worker cannot record another result" (tools_agents.py:7417): of
\* the worker, the cancels and the repairs of a lost worker, one ends the agent, and what
\* it wrote stays.
OneTerminalStatus ==
    [][record.status \in Terminal => record'.status \in {record.status, "gone"}]_vars

\* "no provider work ran under this agent" (tools_agents.py:5535) is true of every agent
\* given up as never started, however late its worker turns up.
NeverStartedRanNothing == record.neverStarted => attempt = 0 /\ provider = "none"

\* No handler but a tick or a despawn (see CapacityHeldUntilStopped), and no leaving
\* worker, gives back capacity under a provider that the record knows to run.
CapacityOutlivesProvider ==
    [][/\ lease = "held" /\ lease' = "released" /\ "provider" \in Live(record)
       => \E c \in Callers : caller[c].op \in {"tick", "despawn"} /\ caller'[c] = Idle]_vars

\* Every agent with a record ends: a crash of the spawner, of the server or of the worker
\* at any step leaves something that a later reader repairs.
AgentEnds == record.status \in Active ~> record.status \notin Active

\* The capacity of an agent that has ended is given back by a reader, without waiting for
\* the lease to expire, whoever died between the two writes; a cancelled agent's once its
\* processes are gone, also when the provider ignores TERM (tools_agents.py:5408-5444, :5516).
EndedFreesCapacity == record.status \in Terminal ~> lease = "released"

\* "Capacity stays held until the cancelled processes are confirmed gone."
\* (tools_agents.py:5514)
CapacityHeldUntilStopped ==
    [][lease = "held" /\ lease' = "released" /\ Exists => "provider" \notin Live(record)]_vars

\* "Record whether the cancelled agent's processes stopped" (tools_agents.py:5408): when
\* the record says confirmed, no provider of the agent runs.
ConfirmedMeansStopped == record.cancellation = "confirmed" => ~ProviderRuns
=============================================================================
