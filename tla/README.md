# Verification of mac-mcp

mac-mcp is an MCP server for macOS: an assistant calls its tools to work on files, shells, browser and desktop, to
delegate work to teams of agents, and to run tasks on a schedule. This directory models the parts of it in which
processes, threads, crashes and clients meet: which agent may start and with which resources, how a team advances
and talks, how one agent lives and ends, what scheduled tasks start, what becomes of a tool call that is cut off, of
the files it changed and of the job it left running, what the owner's instructions to a conversation and messages to
a chat come to, how an update goes forward or back, and who starts and stops the server itself. TLC checks each
model on small instances; TLAPS proves the safety properties of all of them for every value of the constants.

Paths are relative to `src/mcp_server/` unless they start with `docs/`. `PROJECT.json` maps every definition to
the lines it stands for.

## 1. The system

| Part | State | Operations | Interacts with |
|---|---|---|---|
| Global agent admission, `agent_admission.py` | one JSON file under an exclusive lock: waiting requests with FIFO numbers, leases with resource claims, owner, expiry | request (idempotent), plan lease, extend, interactive claim, bind to an agent, heartbeat, cancel queued, release, snapshot | called by team ticks, spawns, computer plans, interactive tools; its leases are released by workers, polls, cancels, ticks |
| Team scheduler, `tools_agents.py` | team file: tasks in plan order, gates, revisions, leases noted, cancel and budget marks | tick (reconcile, settle dependencies, stop on budget, start), cancel, resume, retry, add task | admission, spawn, agents' results; ticked by worker exits, readers and a wake of queued teams |
| Agent lifecycle, `tools_agents.py` | `meta.json` of an agent, its worker process, one provider process per attempt | spawn, worker run with retries, repair (`_normalize`), poll, cancel, despawn | admission lease, team tick, durable workflow |
| Durable workflows, `workflow_checkpoints.py`, `idempotency.py`, `observability.py` | checkpoint per workflow (state, safety, open intents, receipts, resume generation), agent→workflow map, journal of idempotency keys | the wrapper's begin, result, abandon and release of each call; mark terminal, native activity, resume with bind, rollback and abort, retry | tools, clients that cancel, agents' ends |
| Scheduled tasks, `scheduled_tasks.py`, `scheduled_task_runner.py` | SQLite rows of tasks and runs; loop thread, run threads, scripts and agents outside the server | tick (missed and due times, skip, run after, catch up), run, stop, recover, run now, pause, edit, delete | agent lifecycle, folders, diagnoses, the app |
| Team messages, `team_messages.py`, `agent_message_bridge.py`, `tools_team_messages.py` | rooms, members with marks, deliveries in SQLite; one push file per Goose agent | join, leave, finish, send, copy to dependents, claim with a tool's result or a hook, push, unclaim, inbox | workers, tool wrapper, team tick |
| Steering, `steering.py` | sessions of conversations in memory: queue, ids of submissions, calls under way, what was delivered | prepare, begin and finish of each call, enqueue, expire, drop with the transport | tool wrapper, dashboard, menu app |
| Background jobs, `tools_jobs.py` | `meta.json` of a job, its shell and process group, reader and watcher threads, its file capture | start, watch, poll (which repairs), stop, delete | file transactions, server restarts |
| File transactions, `file_transactions.py`, `tools_files.py`, `shell_transactions.py` | journal of manifests and preimages on disk, two locks | prepare, write, commit, roll back, compose, capture, undo, prune, recover | file tools, shell captures, dashboard |
| Updates, `update_helper.py`, `update_state.py` | journal of steps, checkout, runtime files, environments and their marker, deployed record | prepare, merge, sync, stage, swap, health gate, commit, roll back, recover | supervisor, the owner's checkout |
| Life of the server, `cli.py`, `supervisor.py` | pid record, start lock, recorded intent, restart status, supervisor state | start, stop, restart with its worker, supervisor pass with back-off, an update's restart | launchd, updates, every other part |
| Browser tabs, `browser_tabs.py` | handles and leases with a time to live | lease, revalidate, release, take over | browser tools |
| Chat, `chat_sessions.py`, `acp_client.py` | chats in memory and in two files each: queue, transcript, turn, warm-up, agent process, idle and save timers | prompt, queue, take back, send now, stop, configure, delete, expire, restart | the app, agents |
| Owner prompts, `owner_prompts.py` | questions with deadlines | ask, answer, withdraw | tools, the app |

The other parts (adapters, readers, policies, routes, front ends, packaging) are listed in `PROJECT.json` with
the reason they are not modelled: tables and rules without interleaving, single system calls, or wording.

What makes these parts hard, and the property of each that a test would hardly reach:

* *Admission* is called by several processes; a request is retried, leases expire while their holder still
  lives, limits move with memory pressure, and an agent's own leases do not block it. Never two owners of
  conflicting resources, never one request in two places, no slot taken from an older request that could run.
* *Teams*: the tick works on memory and writes once or twice; cancel, resume, retry and a dying tick come in
  between. No task starts before its dependencies passed their gates, a PASS does not outlive the work it was
  about, finished tasks do not run again, and every team ends.
* *Agents*: worker, cancels, repairs and ticks all want to end the same agent on copies of its record. One
  ends it, an agent given up as never started has done nothing, capacity is not given back under a running
  provider, and whoever dies, a reader settles it.
* *Tool calls*: a tool cannot be stopped, writes may fail, the server may die between intent and receipt.
  Nothing that was changed goes unrecorded, and nothing is repeated by a resume, a retry or a key.
* *Schedules*: the tick reads the clock once and then writes in several transactions, with the owner and a
  crash in between. No time is lost or runs twice, no two runs at once, no wake-up is lost.
* *Files*: preimages, changes and records are separate writes; batches fail in the middle, crash, are pruned,
  and others write to the same paths. What is recorded as undoable can be undone, a failed call leaves nothing,
  and an undo spares what somebody wrote since.
* *Jobs*: processes outlive their shell and their server; watcher, polls and stops all may end the record.
  Ended means that nothing of it runs, its files are accounted for, and it does end.
* *Messages and instructions*: several channels show the same queue, are cut off, and give back what they took.
  Once, in order, and never lost without a word.
* *Updates*: every step may fail or be cut off, and so may the way back, with the owner at work beside.
* *The server's life*: four parties start and stop one server by files that only some of them lock.
* *Chat*: turns, stops, timers and failed starts of one agent interleave at every await. A message is asked once
  and never forgotten, and no agent process is left running without an owner.

`PROJECT.json` lists these as hazards at their lines, with the properties that would catch each, or why none does.

## 2. The modules

| Module | Models | Run | Proofs |
|---|---|---|---|
| `ResourceClaims` | claims and when two of them conflict | (used by Admission) | |
| `LeaseOwnership` | abstract: who owns which claims | refined in `stores` | |
| `Admission` | the admission service | `MCStores`: `stores` | `StoresProofs` |
| `TeamGraph` | the scheduler of one team | `MCTeamGraph`: `team_graph` | `TeamGraphProofs` |
| `AgentLifecycle` | one agent, its worker, provider and handlers | `MCAgentLifecycle`: `agent_lifecycle`, `agent_tick_releases`, `agent_orphan` | `AgentLifecycleProofs` |
| `ScheduledTasks` | one scheduled task, its loop and runs | `MCScheduledTasks`: `scheduled_tasks` | `ScheduledTasksProofs` |
| `DurableWorkflow` | one workflow, its calls, keys and resumes | `MCDurableWorkflow`: `tool_effects` | `DurableWorkflowProofs` |
| `FileTransactions` | the journal, the file tools and captures | `MCStores`: `stores` | `StoresProofs` |
| `Jobs` | one background job | `MCMachine`: `machine` | `MachineProofs` |
| `UpdateHelper` | updates, their way back and their recovery | `MCMachine`: `machine` | `MachineProofs` |
| `TeamMessages` | one team's room | `MCConversations`: `conversations` | `ConversationsProofs` |
| `Steering` | the owner's instructions to conversations | `MCConversations`: `conversations` | `ConversationsProofs` |
| `Chat` | one chat of Mac MCP Chat, its turns and its agent | `MCConversations`: `conversations`; `chat_comes_back` | `ConversationsProofs` |
| `ServerLife` | start, stop, restart, supervisor | `MCServerLife`: `server_life`, `stop_undone` | `ServerLifeProofs` |

Operators marked "Mutant" are faulty variants of the operator that
follows them; `PROJECT.json` names for every checked property one that breaks it.

Four MC modules run several machines side by side: `MCTeamGraph` (two teams), `MCStores` (admission, and two
instances of the file journal), `MCMachine` (jobs and updates) and `MCConversations` (steering, a room, a chat).
They EXTEND each machine, so that TLC evaluates its assumptions, and INSTANCE what runs a second time; a variable
chosen once (`shape`, `part`) says which of them moves, the others stay in an initial state. They share nothing,
so such a run is several runs in one; a property of an instance is named again there.

**Admission.** Each operation holds the file lock from its read to its write, so it is one action. An operation that
raises or finds a conflict writes nothing and is a stuttering step; its conditions are the guards of the step that
writes. The clock is the set `lapsed` of leases whose expiry has passed: any lease may lapse at any time, since a Mac
may sleep through every heartbeat. Pruning is part of the operations that prune (`Live`), not a step. `BindAgent`
asks nothing of the lease, as the code does not: a task that is resumed finds, under its old request, the lease its
cancelled agent still holds, and binds its new agent to it. `LeaseOwnership` therefore lets a holding be handed over
from whoever had it, but only to an agent that has no other. Memory pressure does not change within an operation. A
lease made for a plan or an interactive claim has no request (`None`) and weight 0. `started` is what is assumed of
the callers: `_spawn_internal` makes a new agent id, binds the lease to it and only then starts the worker, and only
a started agent claims for itself.

**TeamGraph.** `Tick` is `_team_tick_once` under the team lock: reconcile every active task with its agent,
settle dependencies until nothing changes, skip what a budget forbids, then offer each ready task to the
admission service. The service's answer, the outcome of the spawn and what a checkpoint allows are chosen
freely. `TickDies` is a process that dies after the first n tasks; only what `_write_team` had written stays.
Cancel is three steps (mark, dequeue, write the copy back), resume and retry are a check without the lock and a
change under it. Of agents, the newest of each task is followed; one that a resume made the team forget is not (the
code leaves its id in `active_agent_id` until the new agent has started, the model clears it).
One team cancel runs at a time.

**AgentLifecycle.** The record, the processes and the copies that handlers hold are separate variables; each
locked update of the record is an action, and each look at the processes is another. "failed" stands for failed,
timeout and stalled. A worker dies of a signal at once, a provider only of KILL. The write of the release in the
admission state and the note of it in the record are one step. `NormalizeNeverStarted` may also be taken by a
server that is itself starting the agent, which the code prevents: the model allows more than the code does.

**DurableWorkflow.** One action per locked write of the checkpoint, per transaction of the key journal, and per
turn of the wrapper in the event loop; a tool runs in a thread (`work`) that goes on when the client has given
up or the server has died, and may change something (`Act`, in `ran`) at any point while it runs. A write that
fails is passed over, as the wrapper does. The first agent has the workflow, later ones resume it by
prepare, record, bind, map, launch, with rollback and abort at every point. The generation stands for the resume
token. A tool that says it was refused, rejected or not dispatched did nothing; everything else it says about
its effect is left open. What a provider does with tools of its own only casts doubt (`NativeActivity`).

**ScheduledTasks.** One task whose schedule is a set of minutes. Every step is one store transaction; what the
loop read before is in `loop`, and the owner, other threads and crashes come between. Scripts and agents outlive
the server (`work[r].child`). A run closed by its own thread is "ended", one closed by recovery "failed". Stopping
a left script and closing its row are one step. `RunNow` reads the definition and starts the run in one step.

**FileTransactions.** `disk` is what lies at each path; a preimage and a fingerprint are the content itself. The
journal's lock is held over the many steps of a prepare and of a restore, the file tools' lock over a call
(`file`), and every other journal operation is one step. The owner, a command under capture and the clock
(`aged`, `expired`) act at any time. Calls are plans of writes, deletes and moves, in the three ways the tools
run them: single, all or nothing, loose.

**Jobs.** The starter, the watcher, the polls, two callers of `stop_job` and the server that dies; what runs under
`_LOCK` is one step. The shell (`leader`) and what it left behind (`group`) live on without the server; a process
that was sent SIGKILL counts as gone. A poll goes by the pid in the record: a job that is stopped while it starts,
before its pid is there, is taken for ended while its shell runs, which `EndedMeansStopped` excepts. The capture of
the job's files is a transaction that is open, committed or lost.

**UpdateHelper.** One action per step between two checkpoints, and the copies, swaps and deletions of trees as
two steps each, so that a crash finds them half done. A failed step goes the way back (`rollback`), a cut off
updater is taken up by the next launch from its journal (`rec_`). The steps of going back fail too (`BackFails`): a
tree, the checkout or the files stay where they are, or go back and what comes after them fails; a rollback notes
the part as not undone and goes on, a recovery gives up or, where the code lets the error out, is left to the next.
The owner commits, edits, cleans up and rebuilds the environment at any time. Three variables are history. `gap`
is set by the crashes and lost records that the recovery does not cover (`Gap`, `GapLost`). `hurt` is set by a failed
step of going back, by a fault that leaves the runtime's own checkout half copied, and by one after the environment's
commit: what is then not as before must be named by the record. `risked` has the kinds of work the owner did in a
window between a look of the updater and the step that relies on it (`Window`). §5 names all of them.

**TeamMessages.** Each call of the store is one transaction; what a push has claimed and not yet written is `batch`,
one for each process, since the lock of a push is one process's; what a finishing member still owes its dependents is
`due`. A push writes a list of the recent messages and then the agent's file made of it: `spilt` is what the list has
and the file has not, because the second write failed or the process died, until another push writes it, or loses it
to the list another process wrote. An agent's worker starts and ends attempts; between two a member counts as
finished. `seen` counts what a channel really showed, `late` is what a push gave back for an agent that had left. A
push that fails at its second file is the one way in which a message is shown twice, and `late` one of the ways in
which it is lost; the properties except them by name.

**Steering.** Every method of the manager is one step under its lock. A call of the wrapper is prepared, denied or
begun, and succeeds or fails, with other calls, submissions, expiry, lost transports and a restart in between.
Ids of submissions are numbered in the order of their first use. A transition the table refuses is the state
"raised", which `LifecycleTrue` excludes.

**Chat.** The server is one event loop, so what a handler does between two awaits is one step; the two halves of a
call that has nothing to wait for, and the two files of a save, are steps that nothing but a crash comes between
(`Runs`, `half`). `task` has the turn of each message and the warm-up with the await each is at; `lock` is the start
lock, `handler` the owner's calls that wait and a fired idle timer. A process that is being stopped ends at some
later step (`Exits`), and so may any other. `asked`, `dropped`, `lost` and `stray` are history: how often a message
was given to an agent, what the owner took back, what died with a call, and the processes the code has let go of.
When the server ends, any of its agents may go on: they run in sessions of their own, and only a shutdown stops them.

**ServerLife.** The pid record, the intent, the start lock and the restart status are files that each command
reads and writes one after the other; only the inner part of a start is under a lock. Each party (the owner, the
supervisor, the worker of a restart) has the step of the start or stop it is in (`op`), an update ends and
starts the server by itself. A record counts as valid only while the process it was made for runs, whatever
process gets its id later.

## 3. What the runs show

| Run | Instance | Shows |
|---|---|---|
| `stores` | 3 requests of 2 teams (one of them with two different caller limits), 2 agents, 2 providers with limits 2 and 1, global limit 2, queue of 2, 3 sequence numbers and 3 leases; nested paths, an application and its window; 2 paths, a write followed by a move all or nothing, a capture of a command that deletes, an owner's delete, a journal of 2 for 3 transactions, 1 upset; and with 2 transactions also a loose write and a command that writes what is too large for a preimage | `ExclusiveOwnership`, `OnePlacePerRequest`, `WithinCapacity`, `OlderRunnableKeepsSlot`, and that the service implements `LeaseOwnership` (`OwnershipSpec`); what is undoable can be restored, a compound keeps its children, a failed call leaves nothing behind, an undo spares newer work |
| `team_graph` | "order": coder, reviewer with one revision, a task downstream, a fourth that may be added, one slot, 2 owner requests; "gates": a reviewer reviewed by another, two slots, one request, one lost tick, under fairness | of the first team: nothing starts before its gates and what finished stays finished (`GatedStart`), no PASS outlives its work (`PassedTargetStands`), skips have a cause (`SkippedForCause`); the second team ends (`TeamEnds`) |
| `agent_lifecycle` | 1 handler that polls, cancels, ticks and despawns, 2 attempts, one crash of the server, worker deaths anywhere, under fairness | never started means nothing ran, capacity outlives the provider but for ticks and despawns, the agent ends, and its capacity comes back |
| `scheduled_tasks` | 2 minutes, tolerance 0, one change by the owner and one crash, under fairness | one run at a time, no time lost, each time once per life of the server, open runs are closed, nothing due or waiting is forgotten |
| `tool_effects` | 2 calls with one key and one without, 2 agents, 2 resumers, 2 resumes, `MAX_PENDING_EFFECTS` 2, any number of server deaths | nothing changed goes unrecorded, nobody acts beside the owner, nothing is repeated by a retry or a key |
| `machine` | one job with 2 callers and one death of the server, under fairness; updates with and without their own checkout and new dependencies: 3 launches, 3 faults, 2 steps of the owner | an ended job runs nothing and accounts for its files, and it ends; an update ends whole, is taken back whole or says what is not (`EndsWhole`), the owner's work stays |
| `conversations` | 2 conversations (one a transport), 2 calls at once, 3 presses of Send, 4 accepted, 2 sessions, 1 restart, every limit 1; a room with 2 agents of one task (only the first opens it itself), the lead and a dependent task, 2 messages, a page of 1, pushes of 2 processes, 1 upset; a chat with 2 messages, 2 other calls or timers at once, 2 agent processes, 1 upset | instructions are handed over once or end, sessions say what is so, a press is queued once; messages are shown in order, and once but for a push whose second file failed, and reach the lead when their recipient finished without them, but for what was given back too late; no chat message is asked twice or goes missing, and no agent process of a server that runs is left alone |
| `server_life` | 1 place the owner types at, the supervisor, a restart's worker and an update; 2 commands, 2 upsets, 2 process ids, one recovery attempt, 2 unhealthy passes, under fairness | overlapping starts make one server, and a server that is meant to run comes back |
| `agent_tick_releases` | 1 handler, no crash | **violated**: a tick gives back capacity under a provider that is being cancelled |
| `agent_orphan` | 1 handler, no crash | **violated**: a cancellation is confirmed while the provider runs |
| `stop_undone` | as `server_life`, without fairness | **violated**: a supervisor's pass undoes the owner's stop |
| `chat_comes_back` | 1 call, 1 message | **violated**: a deleted chat is written again |

**The bounds.** Two holders, two teams and nested claims are what a conflict needs, a third request what the order of
three needs; the sequence numbers and lease ids bound how many requests come, not what the state holds at one time. A
team needs a reviewer, its target and something downstream of both for every gate, and a second reviewer on top of
the first for a gate that is itself sent back. One handler of an agent races worker, spawner and provider, and can do
everything again after it has finished; the proofs do not bound handlers. Two attempts make a first and a last. Two
minutes give a missed and a due time. Two calls under one key, and a third that is free, fill the two places of open
intents when closing writes fail, so the refused call at the limit occurs; two agents make one hand-over, and the
second generation comes of an abort. A journal of two meets its third transaction with a compound and its child in
it. Three launches of the updater with three faults are an update that is cut off, its recovery that fails or is cut
off, and the recovery of that; or an update after a recovery. Two steps of the owner make a change in a window and
one beside it. Steering with every limit at 1 evicts an id twice within four submissions. A page of one makes every
channel leave something behind. In `server_life` two ids let an old and a new server live at once, and one recovery
attempt reaches the back-off. Runs of `DurableWorkflow` have any number of crashes, the others as many as stated;
the proofs do not bound them.

Deadlock is not checked: each bounded system may stop, with the requests used up, the agent ended, the clock at
its end or the calls over.

**Fairness**, only where liveness is checked.

* `TeamGraph` ("gates"): an agent ends (worker time limits), and the tick that is admitted is taken if it is
  possible again and again: worker exits, readers of the team and the wake of queued teams all tick, and the
  admission service serves in FIFO order. Without the second, a service that always answers "queued" keeps a
  team waiting.
* `AgentLifecycle`: processes go on, time passes, a killed provider ends, and someone goes on reading the agent
  (strong fairness of a poll; agents are repaired only by readers, and the dashboard, the team tick and
  `agent_result` are such readers). No fairness for cancels, despawns, or a provider that ends by itself: a
  watched one is stopped at its time limit.
* `ScheduledTasks`: the loop and the run threads go on, a child ends (limits), and the supervisor starts a
  server that died. No fairness of the owner or of the clock.
* `Jobs`: the starter, the watcher and a stop that has begun go on, the readers end when nothing holds their
  pipe, time limits pass, and somebody polls. No fairness for what the job's processes do.
* `ServerLife`: launchd starts a pass every 30 seconds, a command goes on and ends within its timeouts, a process
  that boots or leaves gets there, a restart status grows old and so do recovery attempts. Nothing is assumed of
  the owner, and a hung server stays hung.

## 4. What is proved

By TLAPS, for every value of the constants under the assumptions named in the modules (`AskAssumption`,
`NoneAssumption`, `LimitAssumption`, `LifecycleAssumption`, `CallAssumption`, `MaxCrashesAssumption`,
`OwnerAssumption`, `BoundsAssumption`, `DefinitionsAssumption`, `GraphAssumption`, `RoomAssumption`, `SetupsAssumption`,
`FilesAssumption`, `ChatAssumption`: what the records of calls and definitions contain, that limits and bounds are
naturals, that absent values are not real ones, that names of agents, of the lead and of tasks differ, and that the
plan of a team is one `_validate_team_graph` accepts; TLC evaluates each of them).

**`StoresProofs`**, of Admission: `TypeCorrect`, `OneLeasePerAgentHolds`, `ExclusiveOwnershipHolds`,
`LapsedNeverReturnsHolds`, `OnePlacePerRequestHolds`, `WithinCapacityHolds`, `OlderRunnableKeepsSlotHolds` and
`ImplementsOwnership`, the refinement of `LeaseOwnership`. The inductive invariant adds to the properties that
lease ids are unique and below the next one, and that every owner of a lease was started. The last is what makes
`BindAgent` safe, whosever lease it takes: the agent it binds is new, so it has no lease yet. Exclusive ownership alone is not inductive:
binding a lease to an agent that holds another would make two leases one owner's, and an interactive claim of that
agent would be allowed to overlap both. Capacity is counted with cardinalities (`CapInv`): every operation but a
grant keeps the number of active leases or lowers it, also where it puts one lease in the place of another
(`Weighs`), and a grant was measured just before against limits that are never above the configured ones.
`OlderRunnableKeepsSlotHolds` is about the step that admits a request: it leaves a slot, in the whole and with its
own provider, for every older request of the queue that could start, and takes nothing they claim
(`FairLeavesSlot`), which is counted like the capacity. The property names the call that is admitted
(`RequestAdmission(a)`): two calls of one request may come with different limits, and said of whatever call could
have admitted the request it is false.

Of FileTransactions: `FilesTypeCorrect`, `ChildrenKeptHolds`, `ChangesCanBeRestoredHolds`,
`FailedCallLeavesNothingHolds`, `UndoSparesNewerWorkHolds`, for every set of paths, contents, plans and captures and
every size of the journal. None of the four is about one step: between the preimage and the undo others write,
transactions are pruned and expire, and three parties hold what they read in memory. `FilesInv` follows a change all
the way. `Sound` says of the manifests by themselves what an undo relies on (one preimage per path, a fingerprint
for each in what is committed and undoable, and of a committed compound that has not expired every child, older
than itself and no compound). `CallHolds`, `CaptureHolds` and `RestoreHolds` tie the memory of those at work to the state of their
transaction, and say who can be at work beside whom. `Owing`, `SavedFits` and `DiskFits` are the call's accounts:
what differs from its beginning was written by others or is owed, what is owed has a preimage, and the preimages are
those of the beginning; `RolledBack` says how far a failed call has restored. `Spares` is the hard one: an undo of a
compound looks at the paths before it begins, but then restores one transaction after another, each of which must
find what *it* left there. `Chained` says so of the transactions that remain: for each path the first of them that
touches it finds its own fingerprint on disk, and each later one finds it in the preimage of the one before.
`Unchanged` and `Contiguous`, which the code checks beforehand, are shown to establish it, and each restored preimage
to keep it, but at paths that others write meanwhile.

**`AgentLifecycleProofs`**: `TypeCorrect`, `NeverStartedHolds`, `OneTerminalStatusHolds`,
`CapacityOutlivesProviderHolds`. The invariant says where the processes can be at each step of spawner and worker
(`Beginnings`, `OneProvider`), that without a recorded worker no attempt has begun, and none will under an agent
given up (`NothingUnrecorded`), what the worker knows of its outcome (`OutcomeKnown`), that an agent that failed,
completed or is confirmed cancelled has no recorded provider running (`EndedStopped`), and what the copy of a
handler, however old, still says truly (`CopiesHold`). The copies are the core of it: a handler acts on what it
read long ago.

**`DurableWorkflowProofs`**: `TypeCorrect`, `NoEffectUnrecordedHolds`, `CurrentActsHolds`, `OutcomeStandsHolds`,
`RetryReplaysNothingHolds`, `KeyRunsOnceHolds`. The invariant ties the wrapper to the checkpoint: a tool at work
has an open intent unless the checkpoint is in doubt (`WorkIsOpen`), a released call did nothing (`BegunWorks`), a
held key has one holder and a free one nobody (`KeysHeld`), a new agent is its resumer's own and has not begun
until it is launched (`OwnChild`, `Started`), a completed workflow belongs to an agent that completed
(`CompletedIsCurrent`), and a retried agent cannot begin (`RetriedIsOver`). A write of the checkpoint that closes
an intent is summarised once (`Closes`) and every way a call can end uses it.

**`ScheduledTasksProofs`**: `TypeCorrect`, `OneRunAtATimeHolds`, `NoSlotLostHolds`, `SlotRunsOnceHolds`. Types
include the loop's own copy of what it read (`LoopOK`), and need that the least time after a moment is one of the
schedule's (`NextRunIs`); that a set of times has a least and a greatest is proved from the well-foundedness of
the naturals. One run at a time rests on where threads may be (`OneInv`): a thread belongs to an open run, a dead
server has none, and the runs a new server has still to recover are open and have none yet. Without it recovery
could close a run that somebody still works on. That no time is lost is not inductive, for in the middle of a tick
times have come that no row tells of yet: `KeptInv` says what the loop still owes for them at each of its places
(`RecordOwes`, `StartOwes`, `AdvanceOwes`), that the next run was only ever moved past what had come
(`PassedCame`), and that a run that waits is never later than what the loop has in hand (`WaitsEarlier`, `Near`),
which is where the bound `MAX_COUNTED_SKIPS` matters. That a time starts one run is a count: the runs it started,
whether it waits, and whether the loop will still come to it add up to at most one and the deaths of the server
(`Load`, `OnceInv`). Each step takes as much from one summand as it adds to another; only a death before the
advance lets the loop come to a time again.

**`ServerLifeProofs`**: `TypeCorrect`, `StartsOneServerHolds`. From its look at the processes to its end a start
holds the lock (`LockHeld`), and a server that boots belongs to a start that waits for it, or to an update
(`BootingIsAwaited`): so who spawns a server under the lock finds none that is booting. `BelowLimit` and
`WorkerRests` carry what the supervisor's and the worker's own counters need.

**`MachineProofs`**, of Jobs: `TypeCorrect`, `EndedMeansStoppedHolds`, `FilesAccountedHolds`. No process is recorded
and no watcher runs before the starter has registered the job (`BeforeRegister`), and the watcher goes on to the end
only when it saw that nothing runs any more, which then stays so (`WatcherSaw`).

Of UpdateHelper: `UpdateTypeCorrect`, `EndsWholeHolds`, `OwnersWorkStaysHolds`, for any number of updates, faults and
steps of the owner. `UpdateInv` has three parts. `Seen` holds always, whatever failed and whatever the owner did: an
updater at a step that overwrites something has looked, and what it saw is still so unless the owner acted in a
window. The second part holds beside an owner at work, until `gap` is set: what lies where the
environments are swapped (`Trees`), what the updater holds in memory (`Hands`), how far the release is deployed at
each place (`Forward`), and which status the journal may have there (`Statuses`); the last matters because a crash
leaves nothing but that status, and a recovery goes back or forward by it alone. While the owner leaves it alone
(`Alone`), source, files, record and environment have all come exactly as far as the place says (`Going`), or can be
taken back from where they are, by the rollback and by a recovery after it, but for the parts that are noted as not
undone (`GoingBack`, `Revertible`); an update that was cut off is undone, done or such (`Between`), and one that has
ended is what its record says (`Ended`). A half copied checkout of its own is dirty, so it is never undone:
`Halfway` and `hurt` carry it to the record that names it. Nothing but `Seen` is said once `gap` is set: there the
code does not cover itself (§5).

**`TeamGraphProofs`**: `TypeCorrect`, `PassedTargetStandsHolds`, `SkippedForCauseHolds`, `GatedStartHolds`, for
every plan (nested reviewers too), every number of requests of the owner and of ticks that die. A tick is one step
that gives each task several turns, so what the passes keep is an invariant of its own: a set of working states
for each pass (`Looking` while agents are reconciled, `Going` from then on, `Gated` once dependencies are
settled), which every turn stays in and `AlongStays` carries over the tasks, by induction on how many had their
turn. A reviewer's revision is the hard turn (`SendBackKeeps`): it takes a completed target back, which no other
reviewer may have passed, for a task has one. From then on the tick only moves tasks that wait (`LateMoveKeeps`),
so a gate that is open stays open until the tick is over, and one sweep over the tasks in any order leaves none
let through that lacks what it depends on (`SettlePass`). Between the steps the invariant adds to the properties
that a reviewer runs only on a completed target (`Backed`), that no target was sent back too often (`Revised`),
and that the copy a team cancel holds is itself sound and ended (`CancelHolds`).

**`ConversationsProofs`**, of Steering: `TypeCorrect`, `LifecycleTrueHolds`, `InstructionAccountedHolds`,
`AcceptedOnceHolds`. Every
session is in order by itself (`Fine`: types, lengths of its indexes, and what it shows is so), an instruction
waits in one conversation only (`Apart`), and each was shown once, ended, or waits (`Accounted`). That an id is
accepted once needs to know what each conversation remembers of it (`Remembers`): the index of its session, the
tombstone of the session's end, or as many others accepted since as both can hold.

Of TeamMessages: `RoomTypeCorrect`, `ShownOnceInOrderHolds`, `UnseenReachesLeadHolds`. The property says what lies
below one mark; `Marked` adds the other (what lies below the mark of reading was opened), which an inbox needs,
since it moves both. That nothing is shown twice rests on `ShownOnce`: what a channel showed, or a list holds that no
file has yet, has a row, so no claim takes it; `Claims` says that it is in no batch, so a push that fails does not
give it back; and `ClaimsApart` that two processes never push the same message. What a push gave back after its list had it
is excepted in each, by name (`spilt[a].ever`). Each claim is downward closed
(`EarliestIs`), which is why the mark passes nothing over. A copy is of a noted message (`Copied`), and what is
owed to a dependent has no copy yet (`OwedOnce`): so an agent that finishes later, which copies only what is not
noted, copies nothing again. `Reached` is the first half of the property for every message of the room.

Of Chat: `ChatTypeCorrect`, `MessageAccountedHolds`, `AgentsAccountedHolds`, for any number of messages, calls,
processes and upsets and every length of the queue. Handlers await in the middle, so the invariant (`ChatInv`) says
what each of them has in hand while it waits. On the messages (`Base`): the queue holds no message twice and none
that was not sent (`Lists`); the record on the disk has the same queue but between the halves of a save, and what was
asked is not in it, so that a restart asks nothing again (`OnDisk`); a message that waits or is in a call's hand has
no turn, and one in a turn stands in the transcript and is given to an agent by that turn alone (`Places`); what one
call has in hand no other has (`Errands`); and each message is somewhere (`Accounts`). On the processes
(`AgentsInv`): until who holds the start lock has an agent, the chat has none (`Locking`); a cancelled turn has a
call that waits for it (`Hits`); each process that runs has an owner (`AgentsOwned`); and while the chat's agent
runs without an idle timer, somebody is on the way who will set it: a turn, a call that will close a turn cancelled
before its first line, or the warm-up that started the agent (`WillArm`). The last is the heart of
`AgentsAccounted`: the property speaks of a chat at rest, and only the promise of those still at work carries it
there.

Of these, `OneLeasePerAgent`, `LapsedNeverReturns`, `OneTerminalStatus` and `OutcomeStands` are proved only, and
no run checks them.

**Only model-checked**: liveness, that is `TeamEnds`, `AgentEnds`, `EndedFreesCapacity`, `RunEnds`,
`NothingLeftWaiting`, `JobEnds` and `ComesBack`, which with ENABLED is beyond the prover; every other property of a
passing run is a theorem. Induction over data with the library's theorems is beyond it too; the inductions above are
over the naturals, from their well-foundedness, on a set named in the lemma. No module declares a RECURSIVE operator.

## 5. Findings

* `agent_tick_releases`: a team tick takes a cancelled agent for stopped while its processes still run and gives
  its lease back (tools_agents.py:1763); the comment at :5514 says capacity stays held until they are gone.
* `agent_orphan`: between starting a provider (:9296) and recording its pid (:9315), a cancel finds only the
  worker, stops it, and confirms; the provider runs on unknown.
* `chat_comes_back`: deleting a chat ends neither its warm-up nor a save that is still to come, and either writes the
  files again after the folder was removed (chat_sessions.py:1078, :831, :1340); the chat is back after a restart.
* `stop_undone`: the supervisor reads the intent at the beginning of a pass (supervisor.py:202), waits for a
  health check and perhaps for a server to be ended, and then calls `cli start`, which records "running" without
  looking (cli.py:1770). A `mac-mcp stop` in between is undone for good; docs/reference.md:71 says it never is.

Seen while modelling and not made runs of their own. A server that dies between preparing a resume and binding it
leaves the workflow "resuming" for good (workflow_checkpoints.py:876); a team cancel writes back an old copy of the
team (tools_agents.py:7698); with more than 500 missed times the catch-up run is for the 501st, not the latest
(scheduled_task_runner.py:806); a job's starter writes its copy of the record over a stop's mark
(tools_jobs.py:599). Further:

* *Teams and agents.* `_release_task_admission` looks a request up only if no lease id is noted
  (tools_agents.py:1103), so a task skipped after cancel and resume leaves its request in the queue. A refused
  admission fails a task without `spawn_failed` (:1877). A tick asks for every startable task even with room for
  one (:1859). `retry` does not ask whether the agent has ended (:7484), and a resumed task finds the lease of its
  cancelled agent under its old request id (:1062). A disk error while a worker watches makes a failed agent whose
  provider is not stopped (:9562).
* *Schedules.* Of several times within `OVERDUE_S` only the last is run, and the earlier are not recorded (:821); a
  crash between `spawn_agent` and `note_agent` leaves an agent its run does not know (:416).
* *Files and jobs.* A crash in the middle of a compound undo leaves it half undone (file_transactions.py:924); the
  dashboard's undo takes no lock of the file tools (dashboard_routes.py:726); a crash between starting a job and
  recording its pid leaves it running unknown (tools_jobs.py:434), one that is stopped in that moment is reported as
  ended while it runs (:467), and a job that never launched keeps
  "capturing".
* *Messages.* An agent killed by a cancel stays a member for ever (team_messages.py:335), though
  docs/agents-and-tasks.md:45 says senders are told, and nothing is passed on for one that quits the room; an
  `unclaim` after the member finished loses the message (:558); a failed second push file gives back what the list of
  recent messages already has, and the next push shows it twice (agent_message_bridge.py:272), though
  docs/agents-and-tasks.md:47 says once; pushes of two processes overwrite each other's list and file (:245); a
  crash between finishing a member and passing on loses the copies.
* *Steering.* A call that starts beside another one acknowledges what the agent has not seen (steering.py:390); a
  result lost on its way loses the instruction it carried; queueing does not lengthen a session's life.
* *Chat.* A Stop that crosses a full answer lets the next waiting message go out, and send-now then starts a second
  turn beside it (chat_sessions.py:1022), though :1027 says "not after Stop"; send-now loses its message if the
  server dies, or the stopped turn ends in an error, while it waits; a Stop while an agent is being closed lets the
  process go; a warm-up that ends without a sign-in leaves its agent without an idle timer (:1328);
  agents of a server that died go on unknown to the next one (acp_client.py:64).
* *Updates*, not recovered from (`Gap`, `GapLost`). A crash while the previous environment is given up makes the
  recovery take a half deleted tree for the whole (update_helper.py:1771). If the updater died in that commit with the
  previous environment still there, and its recovery put it back and died too, the next one reads "committed" (:1786)
  and completes the new code on the old environment. A `dependency_committed` record that does not land rolls the
  code back over new dependencies (:2266), and a crash in that rollback is reported "recovered" (:1790). If the record
  of a rollback does not land (:2307) and it is cut off, the recovery goes by the older status.
* *Updates*, left hurt (`hurt`) but said in the record, or not. A checkout that is the runtime itself and was left half
  copied has uncommitted files, which rollback and recovery take for the owner's and refuse (:1658, :1703, :1816),
  though docs/install.md:148 says an update that stops half way is recovered; a failed restore after the deployed
  record was written leaves that record at the new commit, and later updates think they are up to date (:2361,
  :1998); a recovery that gave up is not retried (update_state.py:13), though docs/install.md:135 offers it.
* *Updates and the owner* (`Window`). A commit between `git status` and `git reset` is moved off its branch
  (:1654-1661); an edit of the runtime's own checkout between the merge check and the copy (:2121-2161), or between
  the guard and the restore (:2343-2360), is overwritten; an environment rebuilt during a swap is deleted or
  replaced (:1508-1529, :1557), and so is one that a recovery finds after a death in the commit (:1761-1774).
* *The server's life.* `unhealthy_passes` is kept over skipped passes and over a new server process, so a fresh
  server may be ended after one bad check where docs/reference.md:71 says four in a row; `stop` takes no start lock
  and goes by the record alone, so it may report "stopped" beside a live server (cli.py:250); an update's restart
  takes no start lock.

## 6. What is left out

* *Admission*: the files behind the state (lock, atomic write, backup), attempt counts and timestamps.
* *TeamGraph*: task contents, provider and model choice, budgets as numbers, agents the team has forgotten.
* *AgentLifecycle*: disk errors while the worker runs, results and their contract, worktrees, process ids used
  again, lease expiry (in Admission), messages and apply/discard.
* *DurableWorkflow*: hashes, session ids and input hashes (taken to match), arguments that differ under one key
  (refused by the code), the expiry of keys after 24 hours or 2000 entries, the truncation of the receipt list,
  a disk error while a resume is bound, attended chats, the automatic retry inside a worker.
* *ScheduledTasks*: suggestions and approvals beyond the owner's edit, folder triggers, resume and check again,
  data steps, retention, calendar rules, store errors, an agent record that cannot be read.
* *FileTransactions*: modes, links and directories, sizes but for "too large", the text of diffs.
* *Jobs*: output and its caps, pruning, the difference between a stall and a time limit.
* *TeamMessages*: bodies, kinds, keys of repeated sends, the rate per minute, named rooms, hook tokens.
* *Steering*: attention marks, labels, the recent rows but for what they say of an instruction, clients without ids.
* *Chat*: what answers say, permission requests, settings that need no restart, credentials, private chats, streams,
  the summary that is carried over, errors of the disk.
* *UpdateHelper*: the choice and signature of a release, overlays, the menu app, backups.
* *ServerLife*: tunnels, foreign listeners and records that cannot be verified, the start through the native
  helper, more than one port.

Not modelled: tabs, owner prompts, the computer plan and the remaining parts, each with its reason in
`PROJECT.json`.

## 7. Plan

Done: the fourteen modules above. Next:

1. Models of the admission state's files, of owner prompts (an answer after the question timed out, a card claimed
   twice) and of tab leases.
2. The composition of `AgentLifecycle` with `Admission`, in which a lease that lapses under a running agent, and a
   tick that gives one back, are steps of one system.
