----------------------------- MODULE TeamGraph ------------------------------
(***************************************************************************)
(* The scheduler of one agent team (tools_agents.py): the persisted graph  *)
(* of tasks, the tick that advances it under the team's file lock, and the *)
(* handlers that change it beside the tick: a team cancel (three steps,    *)
(* the last one writing back the copy the first one returned), resume and  *)
(* retry (a check on an unlocked read, then a change under the lock), and  *)
(* add_task.                                                               *)
(*                                                                         *)
(*   task    the tasks of the team file, in plan order                     *)
(*   queue   the tasks whose request is waiting in the admission queue     *)
(*   agent   what became of the newest agent of each task; a reviewer that *)
(*           completed is told by the decision of its quality gate         *)
(*           (active_agent_id is taken for it, though a resumed task may   *)
(*           name the one before until its new agent has started)          *)
(*                                                                         *)
(* The admission service answers as it likes (module Admission says how it *)
(* decides), and so do the spawn, the agents and the checkpoints that tell *)
(* whether a task may be started over.  A process that runs a tick may die *)
(* inside it.                                                              *)
(***************************************************************************)
EXTENDS Naturals, Sequences, FiniteSets

CONSTANTS
    None,         \* no target, no handler in progress
    Order,        \* the tasks in plan order, those that add_task may append last
    DependsOn,    \* the dependencies of each task, the reviewed one included
    ReviewOf,     \* the task a reviewer reviews, or None
    MaxRevisions, \* max_revisions of each reviewer
    Spawned,      \* how many tasks the team starts with
    MaxParallel,  \* max_parallel of the team when it starts
    MaxControls,  \* bound: cancels, resumes, retries and added tasks
    MaxCrashes    \* bound: ticks that die

Task == {Order[i] : i \in 1 .. Len(Order)}

\* _validate_team_graph: known dependencies, no cycle, one reviewer for a task.
\* add_task: a new task depends on tasks of the team.
ASSUME GraphAssumption ==
    /\ Order \in Seq(Task) /\ \A i, j \in 1 .. Len(Order) : Order[i] = Order[j] => i = j
    /\ DependsOn \in [Task -> SUBSET Task] /\ ReviewOf \in [Task -> Task \cup {None}]
    /\ \E rank \in [Task -> 1 .. Len(Order)] :
          \A t \in Task : \A d \in DependsOn[t] : rank[d] < rank[t]
    /\ \A i \in 1 .. Len(Order) : \A d \in DependsOn[Order[i]] :
          \E j \in 1 .. Len(Order) : Order[j] = d /\ (j <= Spawned \/ j < i)
    /\ \A t \in Task : ReviewOf[t] # None => ReviewOf[t] \in DependsOn[t]
    /\ \A r, s \in Task : ReviewOf[r] = ReviewOf[s] /\ ReviewOf[r] # None => r = s
    /\ MaxRevisions \in [Task -> Nat]
    /\ Spawned \in 1 .. Len(Order) /\ MaxParallel \in 1 .. Len(Order)
    /\ MaxControls \in Nat /\ MaxCrashes \in Nat
    /\ None \notin Task

VARIABLES task, cancelled, parallel,   \* the team file
          queue, agent,
          budget,     \* a deadline or usage threshold of the team is reached
          cancel,     \* the team cancel in progress, with the copy it holds
          pending,    \* the resumes and retries that have passed their check
          controls, crashes

file == <<task, cancelled, parallel>>
vars == <<task, cancelled, parallel, queue, agent, budget, cancel, pending, controls, crashes>>

Waiting   == {"blocked", "ready", "queued"}
Active    == {"spawning", "running"}
Failure   == {"failed", "quality_failed", "skipped", "cancelled"}
Terminal  == Failure \cup {"completed"}
Retryable == Failure

Ended == {"done", "pass", "fail", "invalid", "failed", "cancelled", "gone"}

NewTask == [state |-> "blocked", gate |-> "none", revisions |-> 0, cause |-> "none",
            lease |-> FALSE, resume |-> FALSE]

Size(T)         == Cardinality(DOMAIN T)
Reviewers(T, t) == {r \in DOMAIN T : ReviewOf[r] = t}
In(T, states)   == {t \in DOMAIN T : T[t].state \in states}
-----------------------------------------------------------------------------
(* One tick works on w: the team's tasks in memory, what they are in the   *)
(* file by now, the queue, the agents, and whether a spawn has failed.     *)

EffectivelyCompleted(T, t) ==
    /\ T[t].state = "completed"
    /\ \A r \in Reviewers(T, t) : T[r].state = "completed" /\ T[r].gate = "pass"

EffectivelyFailed(T, t) == \E x \in {t} \cup Reviewers(T, t) : T[x].state \in Failure

DependencySatisfied(T, t, d) == IF ReviewOf[t] = d THEN T[d].state = "completed"
                                                   ELSE EffectivelyCompleted(T, d)

\* The request is looked up for release only when no lease is noted in the task.
ReleaseTask(w, t) == [w EXCEPT !.queue = IF w.task[t].lease THEN @ ELSE @ \ {t},
                               !.task[t].lease = FALSE]

Settled(w, t, state, cause) ==
    [ReleaseTask(w, t) EXCEPT !.task[t].state = state, !.task[t].cause = cause]

RevisionsLeft(T, r) == T[ReviewOf[r]].revisions < MaxRevisions[r]

\* Mutant: the reviewer keeps the state it had before it asked for a revision.
SendBackTargetOnly(w, r) == [w EXCEPT !.task[ReviewOf[r]].state = "blocked",
                                      !.task[ReviewOf[r]].revisions = @ + 1,
                                      !.task[r].state = "completed"]

SendBack(w, r) == [w EXCEPT !.task[ReviewOf[r]].state = "blocked",
                            !.task[ReviewOf[r]].revisions = @ + 1,
                            !.task[ReviewOf[r]].cause = "none",
                            !.task[r].state = "blocked",
                            !.task[r].cause = "none"]

ReviewTask(w, r, decision) ==
    LET v == [w EXCEPT !.task[r].gate = decision]
    IN  IF decision = "pass" THEN Settled(v, r, "completed", "none")
        ELSE IF decision = "fail" /\ RevisionsLeft(v.task, r) THEN SendBack(ReleaseTask(v, r), r)
        ELSE Settled(v, r, "quality_failed", "other")

\* Mutant: a task whose spawn was lost goes on waiting for its agent.
ReconcileWaitsForLost(w, t) ==
    LET outcome == w.agent[t]
    IN  IF w.task[t].state \notin Active \/ outcome \in {"none", "gone"} THEN w
        ELSE CASE outcome = "live"           -> [w EXCEPT !.task[t].state = "running"]
               [] outcome \in {"pass", "fail", "invalid"} -> ReviewTask(w, t, outcome)
               [] outcome = "done"           -> Settled(w, t, "completed", "none")
               [] OTHER                      -> Settled(w, t, "failed", "other")

\* An agent that started but that the file does not know yet is taken over.
ReconcileTask(w, t) ==
    LET outcome == w.agent[t]
    IN  IF w.task[t].state \notin Active THEN w
        ELSE CASE outcome = "live"           -> [w EXCEPT !.task[t].state = "running"]
               [] outcome \in {"pass", "fail", "invalid"} -> ReviewTask(w, t, outcome)
               [] outcome = "done"           -> Settled(w, t, "completed", "none")
               [] outcome = "cancelled"      -> Settled(w, t, "cancelled", "other")
               [] OTHER                      -> Settled(w, t, "failed", "other")

Withdraw(w, t, state, cause) ==
    LET v == IF w.task[t].state = "queued" THEN ReleaseTask(w, t) ELSE w
    IN  [v EXCEPT !.task[t].state = state, !.task[t].cause = cause]

\* Mutant: a task that was let through is not looked at again (before #91).
SettleBlockedOnly(w, t) ==
    IF w.task[t].state # "blocked" THEN w
    ELSE IF \E d \in DependsOn[t] : EffectivelyFailed(w.task, d)
         THEN Withdraw(w, t, "skipped", "dependency_failed")
    ELSE IF \A d \in DependsOn[t] : DependencySatisfied(w.task, t, d)
         THEN [w EXCEPT !.task[t].state = "ready"]
    ELSE w

SettleTask(w, t) ==
    IF w.task[t].state \notin Waiting THEN w
    ELSE IF \E d \in DependsOn[t] : EffectivelyFailed(w.task, d)
         THEN Withdraw(w, t, "skipped", "dependency_failed")
    ELSE IF \A d \in DependsOn[t] : DependencySatisfied(w.task, t, d)
         THEN IF w.task[t].state = "blocked" THEN [w EXCEPT !.task[t].state = "ready"] ELSE w
    ELSE IF w.task[t].state # "blocked" THEN Withdraw(w, t, "blocked", w.task[t].cause)
    ELSE w

SkipUnstarted(w, t) == IF budget /\ w.task[t].state \in Waiting
                       THEN Withdraw(w, t, "skipped", "other") ELSE w

HasRoom(T) == Cardinality(In(T, Active)) < parallel

\* A new agent hides the one the task had; one that never came to be hides it too.
Replaced(status) == IF status = "none" THEN "none" ELSE "gone"

\* What one candidate meets: the admission service refuses it, queues it or admits
\* it; then the resume is not safe, the spawn fails, the agent starts, or the process
\* is lost between writing the task as "spawning" and starting its agent.
Answer == {"refused", "queued", "unsafe", "spawn_failed", "started", "lost"}

StartTask(w, t, answer) ==
    LET admitted == [w EXCEPT !.queue = @ \ {t}, !.task[t].lease = TRUE,
                              !.task[t].state = "spawning", !.task[t].resume = FALSE]
        written  == [admitted EXCEPT !.file = admitted.task, !.agent[t] = Replaced(@)]
    IN  IF w.task[t].state \notin {"ready", "queued"} \/ ~HasRoom(w.task) THEN w
        ELSE CASE answer = "refused"      -> Settled(w, t, "failed", "other")
               [] answer = "queued"       -> [w EXCEPT !.queue = @ \cup {t},
                                                       !.task[t].state = "queued"]
               [] answer = "unsafe"       -> Settled(admitted, t, "failed", "other")
               [] answer = "spawn_failed" -> [Settled(written, t, "failed", "other")
                                                EXCEPT !.spawnFailed = TRUE]
               [] answer = "started"      -> [written EXCEPT !.agent[t] = "live",
                                                             !.task[t].state = "running"]
               [] answer = "lost"         -> written

\* The passes of a tick.
Turn(pass, w, t, answers) == CASE pass = "reconcile" -> ReconcileTask(w, t)
                               [] pass = "settle"    -> SettleTask(w, t)
                               [] pass = "skip"      -> SkipUnstarted(w, t)
                               [] pass = "start"     -> StartTask(w, t, answers[t])

\* A pass gives the first n tasks their turn, in plan order; added ones come last.
Along(pass, w, n, answers) ==
    LET after[i \in 0 .. n] ==
            IF i = 0 THEN w
            ELSE CHOOSE next \in {Turn(pass, v, Order[i], answers) : v \in {after[i - 1]}} : TRUE
    IN  after[n]

\* _settle_team_dependencies.  A sweep after the first changes something only when
\* the one before skipped a task, so there is one sweep for each task.
Settle(w) ==
    LET n == Size(w.task)
        swept[i \in 0 .. n] ==
            IF i = 0 THEN w
            ELSE CHOOSE next \in {Along("settle", v, n, <<>>) : v \in {swept[i - 1]}} : TRUE
    IN  swept[n]

StartFirst(n, w, answers) == Along("start", w, n, answers)

Reconciled ==
    LET w == [task |-> task, file |-> task, queue |-> queue, agent |-> agent,
              spawnFailed |-> FALSE]
        v == Settle(Along("reconcile", w, Size(task), <<>>))
    IN  Along("skip", v, Size(task), <<>>)

\* Answers that matter: for tasks that can be started; "unsafe" only for one that was to
\* continue its last agent's session, "queued" not while the lease of its request lives.
Answers(w, allowed) ==
    {a \in [DOMAIN task -> allowed] :
       \A t \in DOMAIN task :
          IF w.task[t].state \in {"ready", "queued"}
          THEN /\ a[t] = "unsafe" => task[t].resume
               /\ a[t] = "queued" => ~(task[t].lease /\ agent[t] = "live")
          ELSE a[t] = "queued"}

TickAnswered(w, answers) ==
    LET u == StartFirst(Size(task), w, answers)
        v == IF u.spawnFailed THEN Settle(u) ELSE u
    IN  /\ task' = v.task /\ queue' = v.queue /\ agent' = v.agent
        /\ UNCHANGED <<cancelled, parallel, budget, cancel, pending, controls, crashes>>

Tick == /\ ~cancelled
        /\ \E w \in {Reconciled} :
              \E a \in Answers(w, Answer \ {"lost"}) : TickAnswered(w, a)

\* The tick of a team whose requests the admission service admits.
TickAdmitted == /\ ~cancelled
                /\ \E w \in {Reconciled} :
                      TickAnswered(w, [t \in DOMAIN task |-> "started"])

\* The process that runs the tick dies after the first n tasks had their turn.
TickDies(n) ==
    /\ ~cancelled /\ crashes < MaxCrashes
    /\ \E w \in {Reconciled} : \E a \in Answers(w, Answer) :
          /\ \A i \in 1 .. Size(task) : a[Order[i]] = "lost" => i = n
          /\ \E v \in {StartFirst(n, w, a)} :
                task' = v.file /\ queue' = v.queue /\ agent' = v.agent
    /\ crashes' = crashes + 1
    /\ UNCHANGED <<cancelled, parallel, budget, cancel, pending, controls>>
-----------------------------------------------------------------------------
\* The agent of a task ends; a reviewer that completes says what its gate decides.
Outcomes(t) == {"failed", "cancelled"} \cup
               (IF ReviewOf[t] = None THEN {"done"} ELSE {"pass", "fail", "invalid"})

AgentEnds(t) == /\ agent[t] = "live"
                /\ \E o \in Outcomes(t) : agent' = [agent EXCEPT ![t] = o]
                /\ UNCHANGED <<file, queue, budget, cancel, pending, controls, crashes>>

\* The records of an agent that has ended are removed (despawn).
AgentDespawned(t) == /\ agent[t] \in Ended \ {"gone"}
                     /\ agent' = [agent EXCEPT ![t] = "gone"]
                     /\ UNCHANGED <<file, queue, budget, cancel, pending, controls, crashes>>

BudgetExhausted == /\ ~budget
                   /\ budget' = TRUE
                   /\ UNCHANGED <<file, queue, agent, cancel, pending, controls, crashes>>
-----------------------------------------------------------------------------
\* One more of the owner's requests, up to the bound.
Request == controls < MaxControls /\ controls' = controls + 1

\* agent_action(team, "cancel"), first the mark under the team lock ...
CancelTeam ==
    LET marked == [t \in DOMAIN task |->
                     IF task[t].state \in Terminal THEN task[t]
                     ELSE [task[t] EXCEPT !.state = "cancelled", !.cause = "other"]]
    IN  /\ cancel = None /\ Request
        /\ task' = marked /\ cancelled' = TRUE
        /\ cancel' = [step |-> "dequeue", task |-> marked, parallel |-> parallel]
        /\ UNCHANGED <<parallel, queue, agent, budget, pending, crashes>>

\* ... then its queued requests are withdrawn ...
CancelQueue == /\ cancel # None /\ cancel.step = "dequeue"
               /\ queue' = {}
               /\ cancel' = [cancel EXCEPT !.step = "write_back"]
               /\ UNCHANGED <<file, agent, budget, pending, controls, crashes>>

\* ... and, when its agents have been told to stop, the copy is written once more.
CancelWriteBack == /\ cancel # None /\ cancel.step = "write_back"
                   /\ task' = cancel.task /\ cancelled' = TRUE /\ parallel' = cancel.parallel
                   /\ cancel' = None
                   /\ UNCHANGED <<queue, agent, budget, pending, controls, crashes>>

\* _resume_team: "The team is still running; wait for it or cancel it first."
ResumeTeam == /\ Request
              /\ In(task, Terminal) = DOMAIN task
              /\ pending' = pending \cup {[op |-> "resume", wanted |-> {}]}
              /\ UNCHANGED <<file, queue, agent, budget, cancel, crashes>>

\* How the last agent of a task lets it be picked up: a session that ended can be
\* continued, a task without effects starts over, any other is left to the owner.
Pickup(t) == CASE agent[t] = "none"                            -> {"restart"}
               [] agent[t] \in {"failed", "cancelled", "gone"} -> {"continue", "restart", "leave"}
               [] OTHER                                        -> {"restart", "leave"}

\* Mutant: skipped tasks stay as they are.
ResumedKeepsSkipped(t, how) ==
    IF task[t].state \in {"completed", "quality_failed", "skipped"} \/ how = "leave" THEN task[t]
    ELSE [task[t] EXCEPT !.state = "ready", !.cause = "none", !.resume = (how = "continue")]

Resumed(t, how) ==
    IF task[t].state = "skipped" THEN [task[t] EXCEPT !.state = "blocked", !.cause = "none"]
    ELSE IF task[t].state \in {"completed", "quality_failed"} \/ how = "leave" THEN task[t]
    ELSE [task[t] EXCEPT !.state = "ready", !.cause = "none",
                         !.resume = IF how = "continue" THEN TRUE ELSE @]

ResumeMark(h) ==
    /\ h.op = "resume"
    /\ \E how \in [DOMAIN task -> {"continue", "restart", "leave"}] :
          /\ \A t \in DOMAIN task : how[t] \in Pickup(t)
          /\ task' = [t \in DOMAIN task |-> Resumed(t, how[t])]
    /\ cancelled' = FALSE
    /\ pending' = pending \ {h}
    /\ UNCHANGED <<parallel, queue, agent, budget, cancel, controls, crashes>>

RetryTasks(wanted) == /\ Request
                      /\ wanted \subseteq In(task, Retryable)
                      /\ pending' = pending \cup {[op |-> "retry", wanted |-> wanted]}
                      /\ UNCHANGED <<file, queue, agent, budget, cancel, crashes>>

Retried(t, wanted) ==
    CASE t \in wanted /\ task[t].state \in Retryable ->
            [task[t] EXCEPT !.state = "ready", !.cause = "none", !.resume = FALSE]
      [] /\ t \notin wanted
         /\ task[t].state = "skipped" /\ task[t].cause = "dependency_failed" ->
            [task[t] EXCEPT !.state = "blocked", !.cause = "none"]
      [] OTHER -> task[t]

RetryMark(h) ==
    /\ h.op = "retry"
    /\ task' = [t \in DOMAIN task |-> Retried(t, h.wanted)]
    /\ cancelled' = FALSE
    /\ pending' = pending \ {h}
    /\ UNCHANGED <<parallel, queue, agent, budget, cancel, controls, crashes>>

\* A team that ran all its tasks at once runs the new one alongside them too.
AddTask == LET n == Size(task)
           IN  /\ n < Len(Order) /\ ~cancelled /\ ~budget /\ Request
               /\ task' = [t \in DOMAIN task \cup {Order[n + 1]} |->
                              IF t \in DOMAIN task THEN task[t] ELSE NewTask]
               /\ parallel' = IF parallel >= n THEN n + 1 ELSE parallel
               /\ UNCHANGED <<cancelled, queue, agent, budget, cancel, pending, crashes>>
-----------------------------------------------------------------------------
Init == /\ task = [t \in {Order[i] : i \in 1 .. Spawned} |-> NewTask]
        /\ cancelled = FALSE /\ parallel = MaxParallel
        /\ queue = {} /\ agent = [t \in Task |-> "none"]
        /\ budget = FALSE /\ cancel = None /\ pending = {}
        /\ controls = 0 /\ crashes = 0

Next == \/ Tick
        \/ \E n \in 0 .. Size(task) : TickDies(n)
        \/ \E t \in DOMAIN task : AgentEnds(t) \/ AgentDespawned(t)
        \/ BudgetExhausted
        \/ CancelTeam \/ CancelQueue \/ CancelWriteBack
        \/ ResumeTeam
        \/ \E h \in pending : ResumeMark(h) \/ RetryMark(h)
        \/ \E wanted \in (SUBSET DOMAIN task) \ {{}} : RetryTasks(wanted)
        \/ AddTask

Spec == Init /\ [][Next]_vars

\* Agents have timeouts, so each ends.  A worker's exit, a reader of the team and the
\* wake of queued teams all tick it, and the admission service admits in the end.
Fairness == /\ \A t \in Task : WF_vars(t \in DOMAIN task /\ AgentEnds(t))
            /\ SF_vars(TickAdmitted)

FairSpec == Spec /\ Fairness
-----------------------------------------------------------------------------
TaskType == [state : Waiting \cup Active \cup Terminal,
             gate : {"none", "pass", "fail", "invalid"}, revisions : Nat,
             cause : {"none", "dependency_failed", "other"},
             lease : BOOLEAN, resume : BOOLEAN]

\* The types; a reviewed task is revised at most max_revisions times, through any
\* mixture of reviews, retries, resumes and lost ticks.
TypeOK == /\ task \in [DOMAIN task -> TaskType] /\ DOMAIN task \subseteq Task
          /\ \A r \in DOMAIN task : ReviewOf[r] # None =>
                task[ReviewOf[r]].revisions <= MaxRevisions[r]
          /\ cancelled \in BOOLEAN /\ budget \in BOOLEAN /\ parallel \in Nat
          /\ queue \subseteq Task
          /\ agent \in [Task -> {"none", "live"} \cup Ended]
          /\ controls \in 0 .. MaxControls /\ crashes \in 0 .. MaxCrashes

\* "downstream tasks wait for the reviewer's PASS" (tools_agents.py:1147): a task goes
\* into the active states only when each dependency is completed and passed its
\* review, also when the dependency was sent back while the task was queued.
StartsBehindGates ==
    \A t \in DOMAIN task \cap DOMAIN task' :
       task[t].state \notin Active /\ task'[t].state \in Active =>
          \A d \in DependsOn[t] : DependencySatisfied(task', t, d)

\* "finished tasks never run again" (docs/agents-and-tasks.md:129): a completed task
\* leaves its state only for a revision its reviewer asks for; the write-back of a
\* team cancel, which restores an older copy, is left out here.
FinishedStays ==
    \A t \in DOMAIN task :
       task[t].state = "completed" =>
          \/ t \in DOMAIN task' /\ task'[t].state = "completed"
          \/ t \in DOMAIN task' /\ task'[t].revisions = task[t].revisions + 1
          \/ cancel # None /\ cancel' = None

\* Both, of every step of the team (tools_agents.py:1147, :2044-2062, :7831-7961).
GatedStart == [][StartsBehindGates /\ FinishedStays]_vars

\* A reviewer that has completed passed its target, and the target has not been given
\* back since: no PASS outlives the work it was about.
PassedTargetStands ==
    \A r \in DOMAIN task : ReviewOf[r] # None /\ task[r].state = "completed" =>
       task[r].gate = "pass" /\ task[ReviewOf[r]].state = "completed"

\* A task skipped for a failed dependency has one that is failed now: a retry or a
\* resume that picks the dependency up lets the task wait for it again.
SkippedForCause ==
    \A t \in DOMAIN task :
       task[t].state = "skipped" /\ task[t].cause = "dependency_failed" =>
          \E d \in DependsOn[t] : EffectivelyFailed(task, d)

\* Every task of the team ends: no gate, revision, skipped branch, lost tick or owner's
\* request leaves one waiting for something that never comes.
AllEnded == In(task, Terminal) = DOMAIN task
=============================================================================
