---------------------------- MODULE ScheduledTasks ----------------------------
(***************************************************************************)
(* One scheduled task of src/mcp_server/scheduled_tasks.py (the store) and *)
(* src/mcp_server/scheduled_task_runner.py (the loop and the runs): the    *)
(* loop thread that starts what is due, the threads that carry runs out,   *)
(* the script or agent a run starts, the owner's changes from the app, and *)
(* a server that may die at any point and start again.                     *)
(*                                                                         *)
(* Every step is one transaction of the store, so the loop's reads may be  *)
(* stale when it writes.  A time is a number of minutes: the loop sleeps   *)
(* at most one of them, and may wake arbitrarily late, as on a Mac that    *)
(* slept.  Scripts and agents run in sessions of their own and outlive the *)
(* server.                                                                 *)
(***************************************************************************)
EXTENDS Naturals, Sequences, FiniteSetsExt

CONSTANTS
    MaxTime,      \* bound of the clock
    Overdue,      \* OVERDUE_S: later than this, a run's time is missed
    MaxCounted,   \* MAX_COUNTED_SKIPS: run times looked at after the first
    Definitions,  \* the definitions the owner gives the task
    MaxChanges,   \* bound: actions of the owner
    MaxCrashes    \* bound: deaths of the server

Times == 1..MaxTime

ASSUME BoundsAssumption ==
    /\ MaxTime \in Nat /\ Overdue \in Nat
    /\ MaxCounted \in Nat /\ MaxChanges \in Nat /\ MaxCrashes \in Nat

ASSUME DefinitionsAssumption ==
    Definitions \subseteq [slots : SUBSET Times, busy : {"skip", "run_after"},
                           missed : {"skip", "run_once"}, agent : BOOLEAN]

VARIABLES
    task,     \* the task's row: definition, pause, next and waiting run
    runs,     \* the rows of its runs, in the order they were written
    work,     \* per run: its thread, its script or agent, and whether it is on record
    loop,     \* where the loop thread is, and what it read
    poked,    \* the loop's wake event
    now,      \* the clock
    changes,  \* the owner's actions so far
    crashes   \* the server's deaths so far

vars == <<task, runs, work, loop, poked, now, changes, crashes>>

NoTask == [slots |-> {}, busy |-> "skip", missed |-> "skip", agent |-> FALSE]
NoSlot == 0
Never  == MaxTime + 1

-----------------------------------------------------------------------------
(* The store *)

NextRun(definition, paused, after) ==
    LET later == {s \in definition.slots : s > after}
    IN  IF paused \/ later = {} THEN Never ELSE Min(later)

Running(r) == runs[r].status = "running"
IsRunning  == \E r \in DOMAIN runs : Running(r)
Active     == task.definition # NoTask /\ ~task.paused

\* Neither thread nor process: of a run that is over nothing else is kept.
Idle == [thread |-> "none", child |-> "none", agent |-> FALSE, noted |-> FALSE]

\* start_run and the launch of its thread.
StartRun(definition, trigger, slots, at) ==
    /\ ~IsRunning
    /\ runs' = Append(runs, [status |-> "running", trigger |-> trigger,
                             slots |-> slots, at |-> at])
    /\ work' = Append(work, [Idle EXCEPT !.thread = "begin", !.agent = definition.agent])
    /\ poked' = TRUE

RecordSkip(slots, at) ==
    /\ runs' = Append(runs, [status |-> "skipped", trigger |-> "schedule",
                             slots |-> slots, at |-> at])
    /\ work' = Append(work, Idle)
    /\ poked' = TRUE

\* A row deleted meanwhile stays deleted.
FinishRun(r, status) ==
    /\ runs' = IF runs[r].status = "gone" THEN runs ELSE [runs EXCEPT ![r].status = status]
    /\ poked' = (poked \/ runs[r].status # "gone")

-----------------------------------------------------------------------------
(* The loop *)

Asleep == [at |-> "asleep", now |-> 0, definition |-> NoTask, missed |-> {},
           slot |-> NoSlot, trigger |-> "schedule", waited |-> FALSE, left |-> {}]

LoopGoes(at) == loop' = [Asleep EXCEPT !.at = at, !.now = loop.now]

\* Mutant: a script that outlived the server is left to itself.
RecoverRunOnly(r) ==
    /\ loop.at = "recover" /\ r \in loop.left
    /\ loop' = [loop EXCEPT !.left = @ \ {r}]
    /\ FinishRun(r, "failed")
    /\ UNCHANGED <<task, work, now, changes, crashes>>

\* Mutant: a restart closes scripts, and leaves the agents to themselves.
RecoverScripts(r) ==
    /\ loop.at = "recover" /\ r \in loop.left
    /\ loop' = [loop EXCEPT !.left = @ \ {r}]
    /\ IF work[r].agent /\ work[r].noted
       THEN UNCHANGED <<runs, work, poked>>
       ELSE /\ FinishRun(r, "failed")
            /\ work' = [work EXCEPT ![r] = Idle]
    /\ UNCHANGED <<task, now, changes, crashes>>

\* What becomes of a script that outlived the server: it is found by its
\* record, and may not be stopped even so.
StopLeftScripts(r) ==
    IF work[r].child # "working" THEN {Idle}
    ELSE IF work[r].noted THEN {Idle, [work[r] EXCEPT !.child = "told"]}
    ELSE {work[r]}

\* One run that the server left open: its agent is followed, its script stopped.
RecoverRun(r) ==
    /\ loop.at = "recover" /\ r \in loop.left
    /\ loop' = [loop EXCEPT !.left = @ \ {r}]
    /\ IF work[r].agent /\ work[r].noted
       THEN /\ work' = [work EXCEPT ![r].thread = "wait"]
            /\ UNCHANGED <<runs, poked>>
       ELSE /\ FinishRun(r, "failed")
            /\ \E left \in StopLeftScripts(r) : work' = [work EXCEPT ![r] = left]
    /\ UNCHANGED <<task, now, changes, crashes>>

RecoverDone ==
    /\ loop.at = "recover" /\ loop.left = {}
    /\ loop' = [Asleep EXCEPT !.at = "tick"]
    /\ UNCHANGED <<task, runs, work, poked, now, changes, crashes>>

\* The tick reads the clock once, then looks for a run that waited.
Tick ==
    /\ loop.at = "tick"
    /\ loop' = IF Active /\ task.queued # NoSlot /\ ~IsRunning
               THEN [Asleep EXCEPT !.at = "start", !.now = now, !.waited = TRUE,
                                   !.definition = task.definition, !.slot = task.queued]
               ELSE [Asleep EXCEPT !.at = "look", !.now = now]
    /\ UNCHANGED <<task, runs, work, poked, now, changes, crashes>>

LookIdle ==
    /\ loop.at = "look"
    /\ ~Active \/ task.next > loop.now
    /\ loop' = [Asleep EXCEPT !.at = "rest"]
    /\ UNCHANGED <<task, runs, work, poked, now, changes, crashes>>

\* The run times in question: the one due and at most MaxCounted after it.
DueSlots ==
    LET due == {s \in task.definition.slots : task.next <= s /\ s <= loop.now}
    IN  {s \in due : Cardinality({t \in due : t < s}) <= MaxCounted}

CatchesUp(missed, fresh) ==
    missed # {} /\ fresh = {} /\ task.definition.missed = "run_once"

CaughtUp(missed) == Max(missed)

LookDue ==
    /\ loop.at = "look"
    /\ Active /\ task.next <= loop.now
    /\ LET missed  == {s \in DueSlots : loop.now - s > Overdue}
           fresh   == DueSlots \ missed
           catchUp == CatchesUp(missed, fresh)
       IN  loop' = [loop EXCEPT
             !.at         = "record",
             !.definition = task.definition,
             !.missed     = IF catchUp THEN missed \ {CaughtUp(missed)} ELSE missed,
             !.slot       = IF fresh # {} THEN Max(fresh)
                            ELSE IF catchUp THEN CaughtUp(missed) ELSE NoSlot,
             !.trigger    = IF catchUp THEN "catch_up" ELSE "schedule"]
    /\ UNCHANGED <<task, runs, work, poked, now, changes, crashes>>

RecordMissed ==
    /\ loop.at = "record"
    /\ IF loop.missed = {} THEN UNCHANGED <<runs, work, poked>>
                           ELSE RecordSkip(loop.missed, loop.now)
    /\ loop' = [loop EXCEPT !.missed = {},
                            !.at = IF loop.slot = NoSlot THEN "advance" ELSE "start"]
    /\ UNCHANGED <<task, now, changes, crashes>>

AfterStart == LoopGoes(IF loop.waited THEN "look" ELSE "advance")

\* Mutant: the wait is cleared by nothing.
LoopStartsKeepsWait ==
    /\ loop.at = "start"
    /\ StartRun(loop.definition, loop.trigger, {loop.slot}, loop.now)
    /\ AfterStart
    /\ UNCHANGED <<task, now, changes, crashes>>

\* A run that waited takes the wait with it, in the same transaction.
LoopStarts ==
    /\ loop.at = "start"
    /\ StartRun(loop.definition, loop.trigger, {loop.slot}, loop.now)
    /\ task' = IF loop.waited THEN [task EXCEPT !.queued = NoSlot] ELSE task
    /\ AfterStart
    /\ UNCHANGED <<now, changes, crashes>>

LoopFindsBusy ==
    /\ loop.at = "start"
    /\ IsRunning
    /\ loop' = [loop EXCEPT !.at = "busy"]
    /\ UNCHANGED <<task, runs, work, poked, now, changes, crashes>>

\* However many times come due meanwhile, one run waits: the first stays.
QueueAfterBusy ==
    /\ loop.at = "busy" /\ loop.definition.busy = "run_after"
    /\ task' = IF task.definition # NoTask /\ task.queued = NoSlot
               THEN [task EXCEPT !.queued = loop.slot] ELSE task
    /\ poked' = TRUE
    /\ AfterStart
    /\ UNCHANGED <<runs, work, now, changes, crashes>>

SkipBusy ==
    /\ loop.at = "busy" /\ loop.definition.busy = "skip"
    /\ RecordSkip({loop.slot}, loop.now)
    /\ AfterStart
    /\ UNCHANGED <<task, now, changes, crashes>>

\* Mutant: the clock is read again, after the tick decided what is due.
AdvanceFromNow ==
    /\ loop.at = "advance"
    /\ task' = [task EXCEPT !.next = NextRun(task.definition, task.paused, now)]
    /\ loop' = [Asleep EXCEPT !.at = "rest"]
    /\ UNCHANGED <<runs, work, poked, now, changes, crashes>>

Advance ==
    /\ loop.at = "advance"
    /\ task' = [task EXCEPT !.next = NextRun(task.definition, task.paused, loop.now)]
    /\ loop' = [Asleep EXCEPT !.at = "rest"]
    /\ UNCHANGED <<runs, work, poked, now, changes, crashes>>

\* Mutant: the event is cleared before the loop waits, not after.
RestClearing ==
    /\ loop.at = "rest"
    /\ loop' = [Asleep EXCEPT
                  !.now = IF ~Active \/ task.next = Never THEN Never ELSE now + 1]
    /\ poked' = FALSE
    /\ UNCHANGED <<task, runs, work, now, changes, crashes>>

\* sleep_for: with nothing to come, until a change; else for a minute at most.
Rest ==
    /\ loop.at = "rest"
    /\ loop' = [Asleep EXCEPT
                  !.now = IF ~Active \/ task.next = Never THEN Never
                          ELSE IF task.next <= now THEN now ELSE now + 1]
    /\ UNCHANGED <<task, runs, work, poked, now, changes, crashes>>

Wake ==
    /\ loop.at = "asleep"
    /\ poked \/ loop.now <= now
    /\ poked' = FALSE
    /\ loop' = [Asleep EXCEPT !.at = "tick"]
    /\ UNCHANGED <<task, runs, work, now, changes, crashes>>

-----------------------------------------------------------------------------
(* The threads of the runs, and what they start *)

\* Paused observation, a changed script, a failure to start, a recipe: no process.
EndWithoutChild(r) ==
    /\ work[r].thread = "begin"
    /\ work' = [work EXCEPT ![r] = Idle]
    /\ FinishRun(r, "ended")
    /\ UNCHANGED <<task, loop, now, changes, crashes>>

StartChild(r) ==
    /\ work[r].thread = "begin"
    /\ work' = [work EXCEPT ![r].thread = "note", ![r].child = "working"]
    /\ UNCHANGED <<task, runs, loop, poked, now, changes, crashes>>

\* The agent's id goes into the run's row, the script's pid next to its log;
\* the latter may fail.
NoteChild(r) ==
    /\ work[r].thread = "note"
    /\ \E noted \in {TRUE, work[r].agent} :
         work' = [work EXCEPT ![r].thread = "wait",
                              ![r].noted = noted]
    /\ UNCHANGED <<task, runs, loop, poked, now, changes, crashes>>

ChildEnds(r) ==
    /\ work[r].child \in {"working", "told"}
    /\ work' = [work EXCEPT ![r] = IF Running(r) \/ @.thread # "none"
                                        THEN [@ EXCEPT !.child = "ended"] ELSE Idle]
    /\ UNCHANGED <<task, runs, loop, poked, now, changes, crashes>>

\* The time or usage limit: a script is killed, an agent asked to stop.
StopChild(r) ==
    /\ work[r].thread = "wait" /\ work[r].child = "working"
    /\ work' = [work EXCEPT ![r].child = IF work[r].agent THEN "told" ELSE "ended"]
    /\ UNCHANGED <<task, runs, loop, poked, now, changes, crashes>>

\* An agent asked to stop is not waited for beyond its grace.
EndRun(r) ==
    /\ work[r].thread = "wait" /\ work[r].child \in {"ended", "told"}
    /\ work' = [work EXCEPT ![r] = IF @.child = "ended" THEN Idle
                                        ELSE [@ EXCEPT !.thread = "none"]]
    /\ FinishRun(r, "ended")
    /\ UNCHANGED <<task, loop, now, changes, crashes>>

-----------------------------------------------------------------------------
(* The owner *)

OwnerActs ==
    /\ loop.at # "down" /\ changes < MaxChanges
    /\ changes' = changes + 1

RunNow ==
    /\ OwnerActs
    /\ task.definition # NoTask
    /\ StartRun(task.definition, "manual", {}, now)
    /\ UNCHANGED <<task, loop, now, crashes>>

SetPaused ==
    /\ OwnerActs
    /\ task.definition # NoTask
    /\ task' = [task EXCEPT !.paused  = ~@,
                            !.next    = NextRun(task.definition, ~task.paused, now),
                            !.queued  = IF task.paused THEN @ ELSE NoSlot,
                            !.updated = now]
    /\ poked' = TRUE
    /\ UNCHANGED <<runs, work, loop, now, crashes>>

\* The owner's edit, or the approval of a suggested one.  A waiting run stays.
UpdateTask(definition) ==
    /\ OwnerActs
    /\ task.definition # NoTask
    /\ task' = [task EXCEPT !.definition = definition,
                            !.next       = NextRun(definition, task.paused, now),
                            !.updated    = now]
    /\ poked' = TRUE
    /\ UNCHANGED <<runs, work, loop, now, crashes>>

\* The row of the task and those of its runs go; threads and processes do not.
DeleteTask ==
    /\ OwnerActs
    /\ task.definition # NoTask
    /\ task' = [definition |-> NoTask, paused |-> FALSE, next |-> Never,
                queued |-> NoSlot, updated |-> now]
    /\ runs' = [r \in DOMAIN runs |-> [runs[r] EXCEPT !.status = "gone"]]
    /\ poked' = TRUE
    /\ UNCHANGED <<work, loop, now, crashes>>

-----------------------------------------------------------------------------
(* The machine *)

TimePasses ==
    /\ now < MaxTime
    /\ now' \in (now + 1)..MaxTime
    /\ UNCHANGED <<task, runs, work, loop, poked, changes, crashes>>

ServerDies ==
    /\ loop.at # "down" /\ crashes < MaxCrashes
    /\ crashes' = crashes + 1
    /\ loop' = [Asleep EXCEPT !.at = "down"]
    /\ poked' = FALSE
    /\ work' = [r \in DOMAIN work |-> [work[r] EXCEPT !.thread = "none"]]
    /\ UNCHANGED <<task, runs, now, changes>>

\* The loop reads the open runs as it starts, before the first request is served.
ServerStarts ==
    /\ loop.at = "down"
    /\ loop' = [Asleep EXCEPT !.at = "recover", !.left = {r \in DOMAIN runs : Running(r)}]
    /\ UNCHANGED <<task, runs, work, poked, now, changes, crashes>>

-----------------------------------------------------------------------------

Init ==
    /\ \E d \in Definitions :
         task = [definition |-> d, paused |-> FALSE, next |-> NextRun(d, FALSE, 0),
                 queued |-> NoSlot, updated |-> 0]
    /\ runs = <<>> /\ work = <<>>
    /\ loop = [Asleep EXCEPT !.at = "recover"]
    /\ poked = FALSE
    /\ now = 0 /\ changes = 0 /\ crashes = 0

LoopStep ==
    \/ \E r \in DOMAIN runs : RecoverRun(r)
    \/ RecoverDone \/ Tick \/ LookIdle \/ LookDue \/ RecordMissed
    \/ LoopStarts \/ LoopFindsBusy \/ QueueAfterBusy \/ SkipBusy
    \/ Advance \/ Rest \/ Wake

ThreadStep(r) == EndWithoutChild(r) \/ StartChild(r) \/ NoteChild(r) \/ EndRun(r)

Next ==
    \/ LoopStep
    \/ \E r \in DOMAIN runs : ThreadStep(r) \/ ChildEnds(r) \/ StopChild(r)
    \/ RunNow \/ SetPaused \/ DeleteTask
    \/ \E d \in Definitions : UpdateTask(d)
    \/ TimePasses \/ ServerDies \/ ServerStarts

Spec == Init /\ [][Next]_vars

\* Threads go on, a script or an agent ends (both have time limits), and a
\* server that died is started again.  Only finitely many runs exist, so
\* fairness to some thread is fairness to each.
FairSpec ==
    /\ Spec
    /\ WF_vars(LoopStep) /\ WF_vars(ServerStarts)
    /\ WF_vars(\E r \in DOMAIN runs : ThreadStep(r))
    /\ WF_vars(\E r \in DOMAIN runs : ChildEnds(r))

-----------------------------------------------------------------------------
(* Properties *)

Statuses == {"running", "ended", "failed", "skipped"}

\* Every variable holds a value of its type, and the next run of an active
\* task is one of its schedule's times (scheduled_tasks.py:555).
TypeOK ==
    /\ task \in [definition : Definitions \cup {NoTask}, paused : BOOLEAN,
                 next : Times \cup {Never}, queued : Times \cup {NoSlot},
                 updated : 0..MaxTime]
    /\ Active => task.next \in task.definition.slots \cup {Never}
    /\ runs \in Seq([status : Statuses \cup {"gone"}, slots : SUBSET Times,
                     trigger : {"schedule", "catch_up", "manual"}, at : 0..MaxTime])
    /\ work \in Seq([thread : {"none", "begin", "note", "wait"}, agent : BOOLEAN,
                     child : {"none", "working", "told", "ended"}, noted : BOOLEAN])
    /\ Len(work) = Len(runs)
    /\ poked \in BOOLEAN /\ now \in 0..MaxTime

\* One run per task at a time: at most one is open, and a run that is over
\* has left no script or agent at work that the store knows of and nobody
\* asked to stop, whoever died in between.
OneRunAtATime ==
    /\ \A q, r \in DOMAIN runs : Running(q) /\ Running(r) => q = r
    /\ \A r \in DOMAIN runs :
         work[r].child = "working" /\ work[r].noted => runs[r].status \in {"running", "gone"}

Started(r) == runs[r].status \in Statuses \ {"skipped"} /\ runs[r].trigger # "manual"

\* A scheduled time is accounted for when it, or a later time so close that
\* one tick may take both, is in the history or waits; or when it came due
\* while an earlier one waited or before that one started.
Accounted(s) ==
    LET near == s..(s + Overdue)
    IN  \/ task.queued \in near \cup (1..s)
        \/ \E r \in DOMAIN runs :
             \/ runs[r].slots \cap near # {}
             \/ /\ runs[r].trigger # "manual"
                /\ s <= runs[r].at /\ \E t \in runs[r].slots : t <= s

\* No time of the schedule is lost: once the next run lies beyond it, it
\* ran, was recorded as skipped, or is covered by another run, although the
\* tick decides on what it read before and the server may die between steps.
NoSlotLost ==
    Active => \A s \in task.definition.slots :
                task.updated < s /\ s < task.next => Accounted(s)

\* A time of the schedule starts one run, and one more for every death of the
\* server between the start and the advance.
SlotRunsOnce ==
    \A s \in Times :
      Cardinality({r \in DOMAIN runs : Started(r) /\ s \in runs[r].slots}) <= 1 + crashes

\* A run that began is closed, also when the server died under it.
RunEnds == \A r \in 1..(MaxTime + 1) : (r \in DOMAIN runs /\ Running(r)) ~> ~(r \in DOMAIN runs /\ Running(r))

\* What came due is looked at, and a run that waits is started, unless the
\* owner pauses or deletes the task: no wake-up is lost.
NothingLeftWaiting ==
    /\ (Active /\ task.next <= now) ~> ~(Active /\ task.next <= now)
    /\ (Active /\ task.queued # NoSlot) ~> ~(Active /\ task.queued # NoSlot)
=============================================================================
