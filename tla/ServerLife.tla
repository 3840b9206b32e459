----------------------------- MODULE ServerLife -----------------------------
(***************************************************************************)
(* Who starts and stops the server: the commands `mac-mcp start`, `stop`   *)
(* and `restart` (cli.py), and the crash supervisor that launchd runs      *)
(* every 30 seconds (supervisor.py).                                       *)
(*                                                                         *)
(*   server   the server processes; one that is up or hung listens         *)
(*   record   mac-mcp.pid                                                  *)
(*   intent   server-intent.json                                           *)
(*   lock     who holds server-start.lock                                  *)
(*   op       the start or stop each actor is in                           *)
(*   restart  the one-shot worker of a restart, and restart-status.json    *)
(*   pass     the supervisor's pass, and its supervisor-state.json         *)
(*   update   an update that holds update.lock                             *)
(*                                                                         *)
(* Commands read and write these files one after the other, and only the   *)
(* inner part of a start is under a lock.                                  *)
(***************************************************************************)
EXTENDS Naturals

CONSTANTS Owner,          \* where the owner types commands: a terminal, the menu app
          Pid,            \* process ids
          RecoveryLimit,  \* RECOVERY_LIMIT
          UnhealthyPasses,\* UNHEALTHY_PASSES_BEFORE_RESTART
          MaxCommands,    \* bound: commands of the owner
          MaxUpsets       \* bound: crashes, hangs, slow starts, reboots, updates

ASSUME LimitAssumption == {RecoveryLimit, UnhealthyPasses} \subseteq Nat \ {0}
ASSUME OwnerAssumption == {"none", "supervisor", "worker"} \cap Owner = {} /\ "none" \notin Pid

VARIABLES server, record, intent, lock, op, restart, pass, update,
          commands, upsets
files == <<record, intent>>
vars == <<server, record, intent, lock, op, restart, pass, update, commands, upsets>>
-----------------------------------------------------------------------------
None == "none"
Actor == Owner \cup {"supervisor", "worker"}

NoOp == [cmd |-> None, pc |-> None, pid |-> None, ok |-> FALSE]
Begin(cmd, pc) == [cmd |-> cmd, pc |-> pc, pid |-> None, ok |-> FALSE]
Ended(ok) == [cmd |-> None, pc |-> "ended", pid |-> None, ok |-> ok]

Alive == {p \in Pid : server[p] # "gone"}
Listening == {p \in Pid : server[p] \in {"up", "hung"}}
Healthy == \E p \in Pid : server[p] = "up"
Recorded == record \in Alive     \* the record is of a process that still runs
Upset == upsets < MaxUpsets /\ upsets' = upsets + 1

\* An id nobody waits for any more.  A record is of one process, not of its id: see Spawn.
Fresh == {p \in Pid : server[p] = "gone" /\ \A a \in Actor : op[a].pid # p}
-----------------------------------------------------------------------------
(* start, _start_server *)

StartRecords(a) ==
    /\ op[a].cmd = "start" /\ op[a].pc = "record"
    /\ intent' = "running"
    /\ op' = [op EXCEPT ![a].pc = "lock"]
    /\ UNCHANGED <<server, record, lock, restart, pass, update, commands, upsets>>

\* Mutant: starts do not exclude each other.
LockIgnored == TRUE
LockFree == lock = None
StartLocks(a) ==
    /\ op[a].cmd = "start" /\ op[a].pc = "lock" /\ LockFree
    /\ lock' = a
    /\ op' = [op EXCEPT ![a].pc = "look"]
    /\ UNCHANGED <<server, files, restart, pass, update, commands, upsets>>
\* The other start takes longer than the wait for the lock.
StartGivesUp(a) ==
    /\ op[a].cmd = "start" /\ op[a].pc = "lock" /\ lock # None
    /\ Upset
    /\ op' = [op EXCEPT ![a] = Ended(FALSE)]
    /\ UNCHANGED <<server, files, lock, restart, pass, update, commands>>

\* What _start_server_locked finds: the recorded process, else a listener it adopts.
StartFinds(a) ==
    /\ op[a].cmd = "start" /\ op[a].pc = "look"
    /\ \E p \in Alive :
         /\ IF Recorded THEN p = record ELSE Listening = {p}
         /\ record' = p
         /\ op' = [op EXCEPT ![a].pc = "found", ![a].pid = p]
    /\ UNCHANGED <<server, intent, lock, restart, pass, update, commands, upsets>>
Spawn(a) ==
    /\ op[a].cmd = "start" /\ op[a].pc = "look" /\ ~Recorded /\ Listening = {}
    /\ \E p \in Fresh :
         /\ server' = [server EXCEPT ![p] = "booting"]
         /\ op' = [op EXCEPT ![a].pc = "spawned", ![a].pid = p]
    /\ record' = None
    /\ UNCHANGED <<intent, lock, restart, pass, update, commands, upsets>>
\* Half a second later the new process is recorded, if it still runs.
RecordSpawned(a) ==
    /\ op[a].cmd = "start" /\ op[a].pc = "spawned"
    /\ IF op[a].pid \in Alive
       THEN /\ record' = op[a].pid /\ op' = [op EXCEPT ![a].pc = "wait"]
            /\ UNCHANGED lock
       ELSE /\ record' = None /\ op' = [op EXCEPT ![a] = Ended(FALSE)]
            /\ lock' = None
    /\ UNCHANGED <<server, intent, restart, pass, update, commands, upsets>>

StartReady(a) ==
    /\ op[a].cmd = "start" /\ op[a].pc \in {"found", "wait"} /\ server[op[a].pid] = "up"
    /\ lock' = None
    /\ op' = [op EXCEPT ![a] = Ended(TRUE)]
    /\ UNCHANGED <<server, files, restart, pass, update, commands, upsets>>
\* Not healthy in time: what this start spawned is ended, what it found is left.
StartNotReady(a) ==
    /\ op[a].cmd = "start" /\ op[a].pc \in {"found", "wait"}
    /\ IF server[op[a].pid] = "booting" THEN Upset
       ELSE server[op[a].pid] # "up" /\ UNCHANGED upsets
    /\ IF op[a].pc = "wait"
       THEN server' = [server EXCEPT ![op[a].pid] = "gone"] /\ record' = None
       ELSE UNCHANGED <<server, record>>
    /\ lock' = None
    /\ op' = [op EXCEPT ![a] = Ended(FALSE)]
    /\ UNCHANGED <<intent, restart, pass, update, commands>>
-----------------------------------------------------------------------------
(* stop, _stop_pid; with --keep-intent it begins at "look" *)

StopRecords(a) ==
    /\ op[a].cmd = "stop" /\ op[a].pc = "record"
    /\ intent' = "stopped"
    /\ op' = [op EXCEPT ![a].pc = "look"]
    /\ UNCHANGED <<server, record, lock, restart, pass, update, commands, upsets>>

\* _resolve_server_identity, then SIGTERM.  A booting server dies of it, a hung one does not heed it.
StopTerminates(a) ==
    /\ op[a].cmd = "stop" /\ op[a].pc = "look"
    /\ \E p \in Alive :
         /\ IF Recorded THEN p = record ELSE Listening = {p}
         /\ record' = p
         /\ server' = [server EXCEPT ![p] = CASE @ = "up" -> "leaving" [] @ = "booting" -> "gone"
                                              [] OTHER -> @]
         /\ op' = [op EXCEPT ![a].pc = "wait", ![a].pid = p]
    /\ UNCHANGED <<intent, lock, restart, pass, update, commands, upsets>>
\* There is no server to stop.
StopFindsNone(a) ==
    /\ op[a].cmd = "stop" /\ op[a].pc = "look" /\ ~Recorded /\ Listening = {}
    /\ record' = None
    /\ op' = [op EXCEPT ![a] = Ended(TRUE)]
    /\ UNCHANGED <<server, intent, lock, restart, pass, update, commands, upsets>>
\* The wait goes by the record alone: it is over when the recorded process has ended, or when
\* somebody has removed the record.
StopSeesItGone(a) ==
    /\ op[a].cmd = "stop" /\ op[a].pc = "wait" /\ ~Recorded
    /\ record' = None
    /\ op' = [op EXCEPT ![a] = Ended(TRUE)]
    /\ UNCHANGED <<server, intent, lock, restart, pass, update, commands, upsets>>
\* The wait is over: SIGKILL with --force, and an error without it.
StopKills(a) ==
    /\ op[a].cmd = "stop" /\ op[a].pc = "wait" /\ Recorded /\ record = op[a].pid
    /\ server' = [server EXCEPT ![record] = "gone"] /\ record' = None
    /\ op' = [op EXCEPT ![a] = Ended(TRUE)]
    /\ UNCHANGED <<intent, lock, restart, pass, update, commands, upsets>>
StopFails(a) ==
    /\ op[a].cmd = "stop" /\ op[a].pc = "wait" /\ Recorded
    /\ a \in Owner \/ record # op[a].pid
    /\ op' = [op EXCEPT ![a] = Ended(FALSE)]
    /\ UNCHANGED <<server, files, lock, restart, pass, update, commands, upsets>>
-----------------------------------------------------------------------------
(* The owner *)

Command(a) ==
    /\ commands < MaxCommands /\ commands' = commands + 1
    /\ a \in Owner /\ op[a].cmd = None
OwnerStarts(a) ==
    /\ Command(a) /\ op' = [op EXCEPT ![a] = Begin("start", "record")]
    /\ UNCHANGED <<server, files, lock, restart, pass, update, upsets>>
OwnerStops(a) ==
    /\ Command(a) /\ op' = [op EXCEPT ![a] = Begin("stop", "record")]
    /\ UNCHANGED <<server, files, lock, restart, pass, update, upsets>>
\* _spawn_detached_restart; another one in progress is left alone.
OwnerRestarts(a) ==
    /\ Command(a) /\ restart.pc = None
    /\ restart' = [pc |-> "waiting", open |-> TRUE]
    /\ UNCHANGED <<server, files, lock, op, pass, update, upsets>>
-----------------------------------------------------------------------------
(* The worker of a restart *)

Worker == op["worker"]
WorkerDone == [pc |-> None, open |-> FALSE]

PreflightFails ==
    /\ restart.pc = "waiting" /\ restart' = WorkerDone
    /\ UNCHANGED <<server, files, lock, op, pass, update, commands, upsets>>
WorkerStops ==
    /\ restart.pc = "waiting"
    /\ restart' = [restart EXCEPT !.pc = "stopping"]
    /\ op' = [op EXCEPT !["worker"] = Begin("stop", "look")]
    /\ UNCHANGED <<server, files, lock, pass, update, commands, upsets>>
WorkerStarts ==
    /\ restart.pc = "stopping" /\ Worker.pc = "ended" /\ (Worker.ok \/ (Listening = {} /\ ~Recorded))
    /\ restart' = [restart EXCEPT !.pc = "starting"]
    /\ op' = [op EXCEPT !["worker"] = Begin("start", "record")]
    /\ UNCHANGED <<server, files, lock, pass, update, commands, upsets>>
\* _recover_failed_restart: one more try.
WorkerRetries ==
    /\ restart.pc = "starting" /\ Worker.pc = "ended" /\ ~Healthy
    /\ restart' = [restart EXCEPT !.pc = "retrying"]
    /\ op' = [op EXCEPT !["worker"] = Begin("start", "record")]
    /\ UNCHANGED <<server, files, lock, pass, update, commands, upsets>>
WorkerEnds ==
    /\ Worker.pc = "ended"
    /\ CASE restart.pc = "stopping" -> ~Worker.ok /\ (Listening # {} \/ Recorded)
         [] restart.pc = "starting" -> Healthy
         [] OTHER -> TRUE
    /\ restart' = WorkerDone
    /\ op' = [op EXCEPT !["worker"] = NoOp]
    /\ UNCHANGED <<server, files, lock, pass, update, commands, upsets>>
\* RESTART_IN_PROGRESS_S after a worker died the status counts for nothing.
RestartStale ==
    /\ restart = [pc |-> None, open |-> TRUE] /\ restart' = WorkerDone
    /\ UNCHANGED <<server, files, lock, op, pass, update, commands, upsets>>
-----------------------------------------------------------------------------
(* The supervisor: run_once *)

\* The pass reads the intent, then the update lock, then the status of a restart.
PassReads ==
    /\ pass.pc = "idle"
    /\ pass' = CASE intent # "running" -> [pass EXCEPT !.unhealthy = 0, !.login = FALSE]
                 [] intent = "running" /\ (update # None \/ restart.open) -> [pass EXCEPT !.login = FALSE]
                 [] OTHER -> [pass EXCEPT !.pc = "look"]
    /\ pass' # pass
    /\ UNCHANGED <<server, files, lock, op, restart, update, commands, upsets>>

Present == Recorded \/ Listening # {}
Back(p) == [p EXCEPT !.pc = "idle", !.login = FALSE]

\* Mutant: an unresponsive server is started again without being stopped.
RecoverByStart(how) ==
    [IF pass.recent < RecoveryLimit THEN [pass EXCEPT !.pc = "start"] ELSE Back(pass)
     EXCEPT !.unhealthy = IF Present THEN UnhealthyPasses ELSE @]
Recover(how) ==
    [IF pass.recent < RecoveryLimit THEN [pass EXCEPT !.pc = how] ELSE Back(pass)
     EXCEPT !.unhealthy = IF Present THEN UnhealthyPasses ELSE @]

\* It asks the server and, when that does not answer, looks for its process.
PassLooks ==
    /\ pass.pc = "look"
    /\ \/ Healthy /\ pass' = [Back(pass) EXCEPT !.unhealthy = 0]
       \/ ~Healthy /\ Present /\ pass.unhealthy + 1 < UnhealthyPasses
            /\ pass' = [Back(pass) EXCEPT !.unhealthy = pass.unhealthy + 1]
       \/ ~Healthy /\ Present /\ pass.unhealthy + 1 >= UnhealthyPasses /\ pass' = Recover("stop")
       \/ ~Present /\ pass.login /\ pass' = [pass EXCEPT !.pc = "login"]
       \/ ~Present /\ ~pass.login /\ pass' = Recover("start")
    /\ UNCHANGED <<server, files, lock, op, restart, update, commands, upsets>>

Supervisor == op["supervisor"]
PassStops ==
    /\ pass.pc = "stop" /\ Supervisor = NoOp
    /\ op' = [op EXCEPT !["supervisor"] = Begin("stop", "look")]
    /\ UNCHANGED <<server, files, lock, restart, pass, update, commands, upsets>>
PassStarts ==
    /\ \/ pass.pc = "stop" /\ Supervisor.pc = "ended"
       \/ pass.pc \in {"start", "login"} /\ Supervisor = NoOp
    /\ pass' = [pass EXCEPT !.pc = IF @ = "login" THEN "login" ELSE "starting"]
    /\ op' = [op EXCEPT !["supervisor"] = Begin("start", "record")]
    /\ UNCHANGED <<server, files, lock, restart, update, commands, upsets>>
\* A start at login is no recovery attempt.
PassEnds ==
    /\ pass.pc \in {"starting", "login"} /\ Supervisor.pc = "ended"
    /\ pass' = [Back(pass) EXCEPT !.unhealthy = 0,
                                  !.recent = IF pass.pc = "login" THEN @ ELSE @ + 1]
    /\ op' = [op EXCEPT !["supervisor"] = NoOp]
    /\ UNCHANGED <<server, files, lock, restart, update, commands, upsets>>

\* The oldest attempt is RECOVERY_WINDOW_S ago.
AttemptAges ==
    /\ pass.recent > 0 /\ pass' = [pass EXCEPT !.recent = @ - 1]
    /\ UNCHANGED <<server, files, lock, op, restart, update, commands, upsets>>
-----------------------------------------------------------------------------
(* The processes, an update, and the Mac *)

\* A server that comes up beside one that listens cannot bind the port and exits.
Boots ==
    /\ \E p \in Pid : /\ server[p] = "booting"
                     /\ server' = [server EXCEPT ![p] = IF Listening = {} THEN "up" ELSE "gone"]
    /\ UNCHANGED <<files, lock, op, restart, pass, update, commands, upsets>>
Leaves ==
    /\ \E p \in Pid : server[p] = "leaving" /\ server' = [server EXCEPT ![p] = "gone"]
    /\ UNCHANGED <<files, lock, op, restart, pass, update, commands, upsets>>
Crashes ==
    /\ \E p \in Alive : server' = [server EXCEPT ![p] = "gone"]
    /\ Upset
    /\ UNCHANGED <<files, lock, op, restart, pass, update, commands>>
Hangs ==
    /\ \E p \in Pid : server[p] = "up" /\ server' = [server EXCEPT ![p] = "hung"]
    /\ Upset
    /\ UNCHANGED <<files, lock, op, restart, pass, update, commands>>

\* update_helper.py takes update.lock and no other: _restart_cli ends the recorded server, or a
\* listener, and starts the new one itself.  It may also end before it restarts anything.
UpdateBegins ==
    /\ update = None /\ Healthy /\ Upset /\ update' = "locked"
    /\ UNCHANGED <<server, files, lock, op, restart, pass, commands>>
UpdateStops ==
    /\ update = "locked"
    /\ server' = [p \in Pid |-> IF p = record \/ (~Recorded /\ Listening = {p}) THEN "gone" ELSE server[p]]
    /\ record' = None /\ update' = "stopped"
    /\ UNCHANGED <<intent, lock, op, restart, pass, commands, upsets>>
UpdateStarts ==
    /\ update = "stopped"
    /\ \E p \in Fresh : server' = [server EXCEPT ![p] = "booting"] /\ record' = p
    /\ update' = "started"
    /\ UNCHANGED <<intent, lock, op, restart, pass, commands, upsets>>
UpdateEnds ==
    /\ update \in {"locked", "started"} /\ (update = "started" => "booting" \notin {server[p] : p \in Pid})
    /\ update' = None
    /\ UNCHANGED <<server, files, lock, op, restart, pass, commands, upsets>>

\* Everything that runs is gone; the files stay, and the next pass is the first since the boot.
Reboot ==
    /\ Upset
    /\ server' = [p \in Pid |-> "gone"] /\ lock' = None
    /\ op' = [a \in Actor |-> NoOp] /\ update' = None
    /\ restart' = [restart EXCEPT !.pc = None]
    /\ pass' = [pass EXCEPT !.pc = "idle", !.login = TRUE]
    /\ UNCHANGED <<files, commands>>
-----------------------------------------------------------------------------
Init == /\ server = [p \in Pid |-> "gone"] /\ record = None /\ intent = None /\ lock = None
        /\ op = [a \in Actor |-> NoOp]
        /\ restart = WorkerDone /\ update = None
        /\ pass = [pc |-> "idle", unhealthy |-> 0, recent |-> 0, login |-> FALSE]
        /\ commands = 0 /\ upsets = 0

StartStep(a) == StartRecords(a) \/ StartLocks(a) \/ StartFinds(a)
                  \/ Spawn(a) \/ RecordSpawned(a) \/ StartReady(a) \/ StartNotReady(a)
StopStep(a) == StopRecords(a) \/ StopTerminates(a) \/ StopFindsNone(a) \/ StopSeesItGone(a)
                 \/ StopKills(a) \/ StopFails(a)
WorkerStep == PreflightFails \/ WorkerStops \/ WorkerStarts \/ WorkerRetries \/ WorkerEnds
PassStep == PassReads \/ PassLooks \/ PassStops \/ PassStarts \/ PassEnds
UpdateStep == UpdateStops \/ UpdateStarts \/ UpdateEnds

Next == \/ \E a \in Actor : StartStep(a) \/ StartGivesUp(a) \/ StopStep(a)
        \/ \E a \in Owner : OwnerStarts(a) \/ OwnerStops(a) \/ OwnerRestarts(a)
        \/ WorkerStep \/ RestartStale \/ PassStep \/ AttemptAges
        \/ Boots \/ Leaves \/ Crashes \/ Hangs
        \/ UpdateBegins \/ UpdateStep \/ Reboot

Spec == Init /\ [][Next]_vars

\* launchd starts a pass every 30 seconds, commands run on and end in bounded time, processes that
\* boot or leave get there, and time passes.
Fairness == /\ \A a \in Actor : WF_vars(StartStep(a)) /\ WF_vars(StopStep(a))
            /\ WF_vars(WorkerStep) /\ WF_vars(PassStep) /\ WF_vars(UpdateStep)
            /\ WF_vars(RestartStale) /\ WF_vars(AttemptAges) /\ WF_vars(Boots) /\ WF_vars(Leaves)
FairSpec == Spec /\ Fairness
-----------------------------------------------------------------------------
\* Processes, files, commands and passes have their types.
TypeOK ==
    /\ server \in [Pid -> {"gone", "booting", "up", "hung", "leaving"}]
    /\ record \in Pid \cup {None} /\ intent \in {None, "running", "stopped"}
    /\ lock \in Actor \cup {None}
    /\ op \in [Actor -> [cmd : {None, "start", "stop"},
                        pc : {None, "record", "lock", "look", "found", "spawned", "wait", "ended"},
                        pid : Pid \cup {None}, ok : BOOLEAN]]
    /\ restart \in [pc : {None, "waiting", "stopping", "starting", "retrying"}, open : BOOLEAN]
    /\ pass \in [pc : {"idle", "look", "stop", "start", "starting", "login"},
                 unhealthy : 0..UnhealthyPasses, recent : 0..RecoveryLimit, login : BOOLEAN]
    /\ update \in {None, "locked", "stopped", "started"}

\* However starts by the owner, the supervisor and a restart overlap with each other and with stops,
\* no start begins a server beside one that runs or boots (cli.py:381-402, :417-556); an update,
\* which takes no start lock, is the exception, and a server on its way out does not count.
StartsOneServer ==
    [][\A a \in Actor : Spawn(a) /\ update = None => \A p \in Pid : server[p] \in {"gone", "leaving"}]_vars

\* A server that is meant to run comes back after crashes, hangs, failed starts, an update or a
\* reboot, unless the owner stops it (supervisor.py:180-268).
ComesBack == intent = "running" ~> (Healthy \/ intent = "stopped")

\* docs/reference.md:71 and cli.py:1835: a stop records itself first, so the supervisor never undoes
\* it: while the intent is "stopped", the supervisor starts nothing.
StopStays == [][intent = "stopped" => ~StartRecords("supervisor")]_vars
=============================================================================
