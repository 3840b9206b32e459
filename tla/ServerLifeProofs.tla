-------------------------- MODULE ServerLifeProofs --------------------------
(***************************************************************************)
(* Proofs about ServerLife, for any number of places the owner types at,   *)
(* commands, process ids, crashes and limits: starts make one server.      *)
(***************************************************************************)
EXTENDS ServerLife, TLAPS

\* A recovery is only begun below the limit.
BelowLimit == pass.pc \in {"stop", "start", "starting"} => pass.recent < RecoveryLimit

\* From its look at the processes to its end a start holds the lock.
Locked(a) == op[a].cmd = "start" /\ op[a].pc \in {"look", "found", "spawned", "wait"}
LockHeld == \A a \in Actor : Locked(a) => lock = a

\* A server that boots belongs to a start that waits for it, or to an update.
Awaits(a, p) == op[a].cmd = "start" /\ op[a].pc \in {"spawned", "wait"} /\ op[a].pid = p
BootingIsAwaited ==
    \A p \in Pid : server[p] = "booting" => update = "started" \/ \E a \in Actor : Awaits(a, p)

\* Between two restarts their worker does nothing.
WorkerRests == restart.pc \in {None, "waiting"} => op["worker"] = NoOp

ServerType == server \in [Pid -> {"gone", "booting", "up", "hung", "leaving"}]
OpRec == [cmd : {None, "start", "stop"},
          pc : {None, "record", "lock", "look", "found", "spawned", "wait", "ended"},
          pid : Pid \cup {None}, ok : BOOLEAN]
PassRec == [pc : {"idle", "look", "stop", "start", "starting", "login"},
            unhealthy : 0..UnhealthyPasses, recent : 0..RecoveryLimit, login : BOOLEAN]
RestartRec == [pc : {None, "waiting", "stopping", "starting", "retrying"}, open : BOOLEAN]
OpType == op \in [Actor -> OpRec]
PassType == pass \in PassRec
RestType == /\ record \in Pid \cup {None} /\ intent \in {None, "running", "stopped"}
            /\ lock \in Actor \cup {None}
            /\ restart \in RestartRec
            /\ update \in {None, "locked", "stopped", "started"}

IInv == ServerType /\ OpType /\ PassType /\ RestType /\ BelowLimit /\ LockHeld /\ BootingIsAwaited
        /\ WorkerRests
-----------------------------------------------------------------------------
LEMMA Parts == IInv => TypeOK
BY DEF IInv, TypeOK, ServerType, OpType, OpRec, PassType, PassRec, RestType, RestartRec

\* A step of one actor in its start or stop.
OpMoves(a, r) == r \in OpRec /\ op' = [op EXCEPT ![a] = r]

LEMMA OpMove ==
    ASSUME OpType, NEW a \in Actor, NEW r, OpMoves(a, r)
    PROVE  /\ OpType' /\ op'[a] = r
           /\ \A b \in Actor : b # a => op'[b] = op[b]
BY DEF OpType, OpMoves

LEMMA OneChange ==
    ASSUME OpType, NEW a \in Actor,
           NEW c \in {"record", "lock", "look", "found", "spawned", "wait", "ended"},
           op' = [op EXCEPT ![a].pc = c]
    PROVE  /\ OpMoves(a, [op[a] EXCEPT !.pc = c])
           /\ op'[a].cmd = op[a].cmd /\ op'[a].pc = c /\ op'[a].pid = op[a].pid
BY DEF OpType, OpRec, OpMoves

LEMMA TwoChanges ==
    ASSUME OpType, NEW a \in Actor, NEW p \in Pid, NEW c \in {"found", "spawned", "wait"},
           op' = [op EXCEPT ![a].pc = c, ![a].pid = p]
    PROVE  /\ OpMoves(a, [op[a] EXCEPT !.pc = c, !.pid = p])
           /\ op'[a].cmd = op[a].cmd /\ op'[a].pc = c /\ op'[a].pid = p
<1>1. op' = [op EXCEPT ![a] = [@ EXCEPT !.pc = c, !.pid = p]]
  BY DEF OpType, OpRec
<1>2. op[a] \in OpRec
  BY DEF OpType
<1>3. [op[a] EXCEPT !.pc = c, !.pid = p] \in OpRec
  BY <1>2 DEF OpRec
<1> QED
  BY <1>1, <1>2, <1>3 DEF OpType, OpRec, OpMoves

LEMMA OpBegins ==
    ASSUME NEW c \in {"start", "stop"}, NEW q \in {"record", "look"}
    PROVE  Begin(c, q) \in OpRec
BY DEF OpRec, Begin, None
LEMMA OpEnds == ASSUME NEW b \in BOOLEAN PROVE Ended(b) \in OpRec
BY DEF OpRec, Ended, None
LEMMA OpRests == NoOp \in OpRec
BY DEF OpRec, NoOp, None

\* A step that leaves the starts and the lock alone, and lets no server boot.
LEMMA OthersKeep ==
    ASSUME IInv, UNCHANGED <<op, lock>>, update' = update \/ update # "started",
           restart'.pc \in {None, "waiting"} => restart.pc \in {None, "waiting"},
           \A p \in Pid : server'[p] = "booting" => server[p] = "booting"
    PROVE  LockHeld' /\ BootingIsAwaited' /\ WorkerRests'
BY DEF IInv, LockHeld, Locked, BootingIsAwaited, Awaits, WorkerRests

\* A step of an actor that is in a start or a stop.
LEMMA WorkerKept ==
    ASSUME IInv, NEW a \in Actor, \A b \in Actor : b # a => op'[b] = op[b],
           op[a].cmd # None, restart' = restart
    PROVE  WorkerRests'
BY DEF IInv, WorkerRests, NoOp, Actor

\* A step of one actor that takes no part in the start's lock keeps who holds it.
LEMMA LockKept ==
    ASSUME IInv, NEW a \in Actor, \A b \in Actor : b # a => op'[b] = op[b],
           lock' = lock, Locked(a)' => Locked(a)
    PROVE  LockHeld'
BY DEF IInv, LockHeld, Locked

\* The holder gives the lock back, and nobody else is inside.
LEMMA LockGiven ==
    ASSUME IInv, NEW a \in Actor, \A b \in Actor : b # a => op'[b] = op[b],
           Locked(a), ~Locked(a)'
    PROVE  LockHeld'
BY DEF IInv, LockHeld, Locked

LEMMA BootingKept ==
    ASSUME IInv, NEW a \in Actor, \A b \in Actor : b # a => op'[b] = op[b],
           update' = update,
           \A p \in Pid : server'[p] = "booting" =>
               Awaits(a, p)' \/ (server[p] = "booting" /\ ~Awaits(a, p))
    PROVE  BootingIsAwaited'
BY DEF IInv, BootingIsAwaited, Awaits
-----------------------------------------------------------------------------
(* The steps of a start *)

LEMMA StartRecordsKeeps == ASSUME IInv, NEW a \in Actor, StartRecords(a) PROVE IInv'
<1>1. OpMoves(a, [op[a] EXCEPT !.pc = "lock"]) /\ op'[a].cmd = op[a].cmd /\ op'[a].pc = "lock"
      /\ op'[a].pid = op[a].pid
  BY OneChange DEF IInv, StartRecords
<1>2. OpType' /\ \A b \in Actor : b # a => op'[b] = op[b]
  BY <1>1, OpMove DEF IInv
<1>3. ServerType' /\ PassType' /\ RestType' /\ BelowLimit'
  BY DEF IInv, StartRecords, ServerType, PassType, RestType, BelowLimit, None, files
<1>4. LockHeld'
  BY <1>1, <1>2, LockKept DEF IInv, StartRecords, Locked
<1>5. BootingIsAwaited'
  BY <1>1, <1>2, BootingKept DEF IInv, StartRecords, Awaits, ServerType
<1>6. WorkerRests'
  BY <1>2, WorkerKept DEF StartRecords, None
<1> QED
  BY <1>2, <1>3, <1>4, <1>5, <1>6 DEF IInv

LEMMA StartLocksKeeps == ASSUME IInv, NEW a \in Actor, StartLocks(a) PROVE IInv'
<1>1. OpMoves(a, [op[a] EXCEPT !.pc = "look"]) /\ op'[a].cmd = op[a].cmd /\ op'[a].pc = "look"
      /\ op'[a].pid = op[a].pid
  BY OneChange DEF IInv, StartLocks
<1>2. OpType' /\ \A b \in Actor : b # a => op'[b] = op[b]
  BY <1>1, OpMove DEF IInv
<1>3. ServerType' /\ PassType' /\ RestType' /\ BelowLimit'
  BY DEF IInv, StartLocks, ServerType, PassType, RestType, BelowLimit, None, files
<1>4. \A b \in Actor : ~Locked(b)
  BY OwnerAssumption DEF IInv, StartLocks, LockFree, LockHeld, None, Actor
<1>5. LockHeld'
  BY <1>1, <1>2, <1>4 DEF StartLocks, LockHeld, Locked
<1>6. BootingIsAwaited'
  BY <1>1, <1>2, BootingKept DEF StartLocks, Awaits, ServerType
<1>7. WorkerRests'
  BY <1>2, WorkerKept DEF StartLocks, None
<1> QED
  BY <1>2, <1>3, <1>5, <1>6, <1>7 DEF IInv

LEMMA StartGivesUpKeeps == ASSUME IInv, NEW a \in Actor, StartGivesUp(a) PROVE IInv'
<1>1. OpMoves(a, Ended(FALSE))
  BY OpEnds DEF StartGivesUp, OpMoves
<1>2. OpType' /\ \A b \in Actor : b # a => op'[b] = op[b]
  BY <1>1, OpMove DEF IInv
<1>2a. op'[a].cmd # "start"
  BY <1>1, OpMove DEF IInv, Ended, None
<1>3. ServerType' /\ PassType' /\ RestType' /\ BelowLimit'
  BY DEF IInv, StartGivesUp, ServerType, PassType, RestType, BelowLimit, None, files
<1>4. LockHeld'
  BY <1>1, <1>2, <1>2a, LockKept DEF IInv, StartGivesUp, Locked
<1>5. BootingIsAwaited'
  BY <1>1, <1>2, <1>2a, BootingKept DEF IInv, StartGivesUp, Awaits, ServerType
<1>6. WorkerRests'
  BY <1>2, WorkerKept DEF StartGivesUp, None
<1> QED
  BY <1>2, <1>3, <1>4, <1>5, <1>6 DEF IInv

LEMMA StartFindsKeeps == ASSUME IInv, NEW a \in Actor, StartFinds(a) PROVE IInv'
<1> PICK p \in Pid : /\ op' = [op EXCEPT ![a].pc = "found", ![a].pid = p]
                     /\ record' = p
  BY DEF StartFinds, Alive, Fresh
<1>1. OpMoves(a, [op[a] EXCEPT !.pc = "found", !.pid = p]) /\ op'[a].cmd = op[a].cmd
      /\ op'[a].pc = "found" /\ op'[a].pid = p
  BY TwoChanges DEF IInv
<1>2. OpType' /\ \A b \in Actor : b # a => op'[b] = op[b]
  BY <1>1, OpMove DEF IInv
<1>3. /\ UNCHANGED <<server, intent, lock, restart, pass, update>>
      /\ op[a].cmd = "start" /\ op[a].pc = "look"
  BY DEF StartFinds
<1>4. ServerType' /\ PassType' /\ RestType' /\ BelowLimit'
  BY <1>3 DEF IInv, ServerType, PassType, RestType, BelowLimit
<1>5. LockHeld'
  BY <1>1, <1>2, <1>3, LockKept DEF Locked
<1>6. BootingIsAwaited'
  BY <1>1, <1>2, <1>3, BootingKept DEF Awaits
<1>7. WorkerRests'
  BY <1>2, <1>3, WorkerKept DEF None
<1> QED
  BY <1>2, <1>4, <1>5, <1>6, <1>7 DEF IInv

LEMMA SpawnKeeps == ASSUME IInv, NEW a \in Actor, Spawn(a) PROVE IInv'
<1> PICK p \in Pid : /\ op' = [op EXCEPT ![a].pc = "spawned", ![a].pid = p]
                     /\ server' = [server EXCEPT ![p] = "booting"]
  BY DEF Spawn, Alive, Fresh
<1>1. OpMoves(a, [op[a] EXCEPT !.pc = "spawned", !.pid = p]) /\ op'[a].cmd = op[a].cmd
      /\ op'[a].pc = "spawned" /\ op'[a].pid = p
  BY TwoChanges DEF IInv
<1>2. OpType' /\ \A b \in Actor : b # a => op'[b] = op[b]
  BY <1>1, OpMove DEF IInv
<1>3. /\ UNCHANGED <<intent, lock, restart, pass, update>> /\ record' = None
      /\ op[a].cmd = "start" /\ op[a].pc = "look"
  BY DEF Spawn
<1>4. ServerType' /\ PassType' /\ RestType' /\ BelowLimit'
  BY <1>3 DEF IInv, ServerType, PassType, RestType, BelowLimit
<1>5. LockHeld'
  BY <1>1, <1>2, <1>3, LockKept DEF Locked
<1>6. BootingIsAwaited'
  BY <1>1, <1>2, <1>3, BootingKept DEF IInv, Awaits, ServerType
<1>7. WorkerRests'
  BY <1>2, <1>3, WorkerKept DEF None
<1> QED
  BY <1>2, <1>4, <1>5, <1>6, <1>7 DEF IInv

LEMMA RecordSpawnedKeeps == ASSUME IInv, NEW a \in Actor, RecordSpawned(a) PROVE IInv'
<1>1. ServerType' /\ PassType' /\ RestType' /\ BelowLimit'
  BY DEF IInv, RecordSpawned, ServerType, PassType, RestType, BelowLimit, None, files, Alive
<1>2. CASE op[a].pid \in Alive
  <2>1. OpMoves(a, [op[a] EXCEPT !.pc = "wait"]) /\ op'[a].cmd = op[a].cmd /\ op'[a].pc = "wait"
        /\ op'[a].pid = op[a].pid
    BY <1>2, OneChange DEF IInv, RecordSpawned
  <2>2. OpType' /\ \A b \in Actor : b # a => op'[b] = op[b]
    BY <2>1, OpMove DEF IInv
  <2>3. LockHeld'
    BY <1>2, <2>1, <2>2, LockKept DEF RecordSpawned, Locked
  <2>4. BootingIsAwaited'
    BY <2>1, <2>2, BootingKept DEF RecordSpawned, Awaits
  <2>5. WorkerRests'
    BY <2>2, WorkerKept DEF RecordSpawned, None
  <2> QED
    BY <1>1, <2>2, <2>3, <2>4, <2>5 DEF IInv
<1>3. CASE op[a].pid \notin Alive
  <2>1. OpMoves(a, Ended(FALSE))
    BY <1>3, OpEnds DEF RecordSpawned, OpMoves
  <2>2. OpType' /\ \A b \in Actor : b # a => op'[b] = op[b]
    BY <2>1, OpMove DEF IInv
  <2>3. op'[a].cmd # "start"
    BY <2>1, OpMove DEF IInv, Ended, None
  <2>4. LockHeld'
    BY <2>2, <2>3, LockGiven DEF RecordSpawned, Locked
  <2>5. BootingIsAwaited'
    BY <1>3, <2>2, <2>3, BootingKept DEF IInv, RecordSpawned, Awaits, Alive, ServerType
  <2>6. WorkerRests'
    BY <2>2, WorkerKept DEF RecordSpawned, None
  <2> QED
    BY <1>1, <2>2, <2>4, <2>5, <2>6 DEF IInv
<1> QED
  BY <1>2, <1>3

LEMMA StartNotReadyKeeps == ASSUME IInv, NEW a \in Actor, StartNotReady(a) PROVE IInv'
<1>1. OpMoves(a, Ended(FALSE))
  BY OpEnds DEF StartNotReady, OpMoves
<1>2. OpType' /\ \A b \in Actor : b # a => op'[b] = op[b]
  BY <1>1, OpMove DEF IInv
<1>3. op'[a].cmd # "start"
  BY <1>1, OpMove DEF IInv, Ended, None
<1>4. ServerType' /\ PassType' /\ RestType' /\ BelowLimit'
  BY DEF IInv, StartNotReady, ServerType, PassType, RestType, BelowLimit, None, files
<1>5. LockHeld'
  BY <1>2, <1>3, LockGiven DEF StartNotReady, Locked
<1>6. BootingIsAwaited'
  BY <1>2, <1>3, BootingKept DEF IInv, StartNotReady, Awaits, ServerType
<1>7. WorkerRests'
  BY <1>2, WorkerKept DEF StartNotReady, None
<1> QED
  BY <1>2, <1>4, <1>5, <1>6, <1>7 DEF IInv

LEMMA StartReadyKeeps == ASSUME IInv, NEW a \in Actor, StartReady(a) PROVE IInv'
<1>1. OpMoves(a, Ended(TRUE))
  BY OpEnds DEF StartReady, OpMoves
<1>2. OpType' /\ \A b \in Actor : b # a => op'[b] = op[b]
  BY <1>1, OpMove DEF IInv
<1>2a. op'[a].cmd # "start"
  BY <1>1, OpMove DEF IInv, Ended, None
<1>3. ServerType' /\ PassType' /\ RestType' /\ BelowLimit'
  BY DEF IInv, StartReady, ServerType, PassType, RestType, BelowLimit, None, files
<1>4. LockHeld'
  BY <1>1, <1>2, <1>2a, LockGiven DEF IInv, StartReady, Locked
<1>5. BootingIsAwaited'
  BY <1>1, <1>2, <1>2a, BootingKept DEF IInv, StartReady, Awaits, ServerType
<1>6. WorkerRests'
  BY <1>2, WorkerKept DEF StartReady, None
<1> QED
  BY <1>2, <1>3, <1>4, <1>5, <1>6 DEF IInv

-----------------------------------------------------------------------------
(* The steps of a stop *)

LEMMA StopRecordsKeeps == ASSUME IInv, NEW a \in Actor, StopRecords(a) PROVE IInv'
<1>1. OpMoves(a, [op[a] EXCEPT !.pc = "look"]) /\ op'[a].cmd = op[a].cmd /\ op'[a].pc = "look"
      /\ op'[a].pid = op[a].pid
  BY OneChange DEF IInv, StopRecords
<1>2. OpType' /\ \A b \in Actor : b # a => op'[b] = op[b]
  BY <1>1, OpMove DEF IInv
<1>3. ServerType' /\ PassType' /\ RestType' /\ BelowLimit'
  BY DEF IInv, StopRecords, ServerType, PassType, RestType, BelowLimit, None, files
<1>4. LockHeld'
  BY <1>1, <1>2, LockKept DEF IInv, StopRecords, Locked
<1>5. BootingIsAwaited'
  BY <1>1, <1>2, BootingKept DEF IInv, StopRecords, Awaits, ServerType
<1>6. WorkerRests'
  BY <1>2, WorkerKept DEF StopRecords, None
<1> QED
  BY <1>2, <1>3, <1>4, <1>5, <1>6 DEF IInv

LEMMA StopTerminatesKeeps == ASSUME IInv, NEW a \in Actor, StopTerminates(a) PROVE IInv'
<1> PICK p \in Pid :
      /\ op' = [op EXCEPT ![a].pc = "wait", ![a].pid = p] /\ record' = p
      /\ server' = [server EXCEPT ![p] = CASE @ = "up" -> "leaving" [] @ = "booting" -> "gone"
                                           [] OTHER -> @]
  BY DEF StopTerminates, Alive
<1>1. OpMoves(a, [op[a] EXCEPT !.pc = "wait", !.pid = p]) /\ op'[a].cmd = op[a].cmd
      /\ op'[a].pc = "wait" /\ op'[a].pid = p
  BY TwoChanges DEF IInv
<1>2. OpType' /\ \A b \in Actor : b # a => op'[b] = op[b]
  BY <1>1, OpMove DEF IInv
<1>3. UNCHANGED <<intent, lock, restart, pass, update>> /\ op[a].cmd = "stop"
  BY DEF StopTerminates
<1>4. ServerType' /\ PassType' /\ RestType' /\ BelowLimit'
  BY <1>3 DEF IInv, ServerType, PassType, RestType, BelowLimit
<1>5. LockHeld'
  BY <1>1, <1>2, <1>3, LockKept DEF Locked
<1>6. BootingIsAwaited'
  BY <1>1, <1>2, <1>3, BootingKept DEF IInv, Awaits, ServerType
<1>7. WorkerRests'
  BY <1>2, <1>3, WorkerKept DEF None
<1> QED
  BY <1>2, <1>4, <1>5, <1>6, <1>7 DEF IInv

LEMMA StopFindsNoneKeeps == ASSUME IInv, NEW a \in Actor, StopFindsNone(a) PROVE IInv'
<1>1. OpMoves(a, Ended(TRUE))
  BY OpEnds DEF StopFindsNone, OpMoves
<1>2. OpType' /\ \A b \in Actor : b # a => op'[b] = op[b]
  BY <1>1, OpMove DEF IInv
<1>2a. op'[a].cmd # "start"
  BY <1>1, OpMove DEF IInv, Ended, None
<1>3. ServerType' /\ PassType' /\ RestType' /\ BelowLimit'
  BY DEF IInv, StopFindsNone, ServerType, PassType, RestType, BelowLimit, None, files
<1>4. LockHeld'
  BY <1>1, <1>2, <1>2a, LockKept DEF IInv, StopFindsNone, Locked
<1>5. BootingIsAwaited'
  BY <1>1, <1>2, <1>2a, BootingKept DEF IInv, StopFindsNone, Awaits, ServerType
<1>6. WorkerRests'
  BY <1>2, WorkerKept DEF StopFindsNone, None
<1> QED
  BY <1>2, <1>3, <1>4, <1>5, <1>6 DEF IInv

LEMMA StopSeesItGoneKeeps == ASSUME IInv, NEW a \in Actor, StopSeesItGone(a) PROVE IInv'
<1>1. OpMoves(a, Ended(TRUE))
  BY OpEnds DEF StopSeesItGone, OpMoves
<1>2. OpType' /\ \A b \in Actor : b # a => op'[b] = op[b]
  BY <1>1, OpMove DEF IInv
<1>2a. op'[a].cmd # "start"
  BY <1>1, OpMove DEF IInv, Ended, None
<1>3. ServerType' /\ PassType' /\ RestType' /\ BelowLimit'
  BY DEF IInv, StopSeesItGone, ServerType, PassType, RestType, BelowLimit, None, files
<1>4. LockHeld'
  BY <1>1, <1>2, <1>2a, LockKept DEF IInv, StopSeesItGone, Locked
<1>5. BootingIsAwaited'
  BY <1>1, <1>2, <1>2a, BootingKept DEF IInv, StopSeesItGone, Awaits, ServerType
<1>6. WorkerRests'
  BY <1>2, WorkerKept DEF StopSeesItGone, None
<1> QED
  BY <1>2, <1>3, <1>4, <1>5, <1>6 DEF IInv

LEMMA StopKillsKeeps == ASSUME IInv, NEW a \in Actor, StopKills(a) PROVE IInv'
<1>1. OpMoves(a, Ended(TRUE))
  BY OpEnds DEF StopKills, OpMoves
<1>2. OpType' /\ \A b \in Actor : b # a => op'[b] = op[b]
  BY <1>1, OpMove DEF IInv
<1>2a. op'[a].cmd # "start"
  BY <1>1, OpMove DEF IInv, Ended, None
<1>3. ServerType' /\ PassType' /\ RestType' /\ BelowLimit'
  BY DEF IInv, StopKills, ServerType, PassType, RestType, BelowLimit, None, files
<1>4. LockHeld'
  BY <1>1, <1>2, <1>2a, LockKept DEF IInv, StopKills, Locked
<1>5. BootingIsAwaited'
  BY <1>1, <1>2, <1>2a, BootingKept DEF IInv, StopKills, Awaits, ServerType
<1>6. WorkerRests'
  BY <1>2, WorkerKept DEF StopKills, None
<1> QED
  BY <1>2, <1>3, <1>4, <1>5, <1>6 DEF IInv

LEMMA StopFailsKeeps == ASSUME IInv, NEW a \in Actor, StopFails(a) PROVE IInv'
<1>1. OpMoves(a, Ended(FALSE))
  BY OpEnds DEF StopFails, OpMoves
<1>2. OpType' /\ \A b \in Actor : b # a => op'[b] = op[b]
  BY <1>1, OpMove DEF IInv
<1>2a. op'[a].cmd # "start"
  BY <1>1, OpMove DEF IInv, Ended, None
<1>3. ServerType' /\ PassType' /\ RestType' /\ BelowLimit'
  BY DEF IInv, StopFails, ServerType, PassType, RestType, BelowLimit, None, files
<1>4. LockHeld'
  BY <1>1, <1>2, <1>2a, LockKept DEF IInv, StopFails, Locked
<1>5. BootingIsAwaited'
  BY <1>1, <1>2, <1>2a, BootingKept DEF IInv, StopFails, Awaits, ServerType
<1>6. WorkerRests'
  BY <1>2, WorkerKept DEF StopFails, None
<1> QED
  BY <1>2, <1>3, <1>4, <1>5, <1>6 DEF IInv

-----------------------------------------------------------------------------
(* Who begins a start or a stop, or is done with it *)

LEMMA OwnerStartsKeeps == ASSUME IInv, NEW a \in Owner, OwnerStarts(a) PROVE IInv'
<1>1. a \in Actor /\ OpMoves(a, Begin("start", "record"))
  BY OpBegins DEF OwnerStarts, OpMoves, Actor, Command
<1>2. OpType' /\ op'[a] = Begin("start", "record") /\ \A b \in Actor : b # a => op'[b] = op[b]
  BY <1>1, OpMove DEF IInv
<1>3. ServerType' /\ PassType' /\ RestType' /\ BelowLimit'
  BY LimitAssumption DEF IInv, OwnerStarts, ServerType, PassType, RestType, BelowLimit, None,
     files, PassRec, RestartRec, WorkerDone, Back
<1>4. ~Locked(a)' /\ \A p : ~Awaits(a, p)'
  BY <1>2 DEF Locked, Awaits, Begin, None
<1>5. LockHeld'
  BY <1>1, <1>2, <1>4, LockKept DEF OwnerStarts
<1>6. BootingIsAwaited'
  BY <1>1, <1>2, <1>4, BootingKept DEF OwnerStarts, Awaits, Command, None
<1>7. WorkerRests'
  BY <1>2, OwnerAssumption DEF IInv, OwnerStarts, WorkerRests, Actor, None, NoOp
<1> QED
  BY <1>2, <1>3, <1>5, <1>6, <1>7 DEF IInv

LEMMA OwnerStopsKeeps == ASSUME IInv, NEW a \in Owner, OwnerStops(a) PROVE IInv'
<1>1. a \in Actor /\ OpMoves(a, Begin("stop", "record"))
  BY OpBegins DEF OwnerStops, OpMoves, Actor, Command
<1>2. OpType' /\ op'[a] = Begin("stop", "record") /\ \A b \in Actor : b # a => op'[b] = op[b]
  BY <1>1, OpMove DEF IInv
<1>3. ServerType' /\ PassType' /\ RestType' /\ BelowLimit'
  BY LimitAssumption DEF IInv, OwnerStops, ServerType, PassType, RestType, BelowLimit, None, files,
     PassRec, RestartRec, WorkerDone, Back
<1>4. ~Locked(a)' /\ \A p : ~Awaits(a, p)'
  BY <1>2 DEF Locked, Awaits, Begin, None
<1>5. LockHeld'
  BY <1>1, <1>2, <1>4, LockKept DEF OwnerStops
<1>6. BootingIsAwaited'
  BY <1>1, <1>2, <1>4, BootingKept DEF OwnerStops, Awaits, Command, None
<1>7. WorkerRests'
  BY <1>2, OwnerAssumption DEF IInv, OwnerStops, WorkerRests, Actor, None, NoOp
<1> QED
  BY <1>2, <1>3, <1>5, <1>6, <1>7 DEF IInv

LEMMA WorkerStopsKeeps == ASSUME IInv, WorkerStops PROVE IInv'
<1>1. "worker" \in Actor /\ OpMoves("worker", Begin("stop", "look"))
  BY OpBegins DEF WorkerStops, OpMoves, Actor, Command
<1>2. OpType' /\ op'["worker"] = Begin("stop", "look")
      /\ \A b \in Actor : b # "worker" => op'[b] = op[b]
  BY <1>1, OpMove DEF IInv
<1>3. ServerType' /\ PassType' /\ RestType' /\ BelowLimit'
  BY LimitAssumption DEF IInv, WorkerStops, ServerType, PassType, RestType, BelowLimit, None,
     files, PassRec, RestartRec, WorkerDone, Back
<1>4. ~Locked("worker")' /\ \A p : ~Awaits("worker", p)'
  BY <1>2 DEF Locked, Awaits, Begin, None
<1>5. LockHeld'
  BY <1>1, <1>2, <1>4, LockKept DEF WorkerStops
<1>6. BootingIsAwaited'
  BY <1>1, <1>2, <1>4, BootingKept DEF WorkerStops, Awaits, IInv, WorkerRests, NoOp, None
<1>7. WorkerRests'
  BY <1>2, OwnerAssumption DEF IInv, WorkerStops, WorkerRests, Actor, None, NoOp
<1> QED
  BY <1>2, <1>3, <1>5, <1>6, <1>7 DEF IInv

LEMMA WorkerStartsKeeps == ASSUME IInv, WorkerStarts PROVE IInv'
<1>1. "worker" \in Actor /\ OpMoves("worker", Begin("start", "record"))
  BY OpBegins DEF WorkerStarts, OpMoves, Actor, Command
<1>2. OpType' /\ op'["worker"] = Begin("start", "record")
      /\ \A b \in Actor : b # "worker" => op'[b] = op[b]
  BY <1>1, OpMove DEF IInv
<1>3. ServerType' /\ PassType' /\ RestType' /\ BelowLimit'
  BY LimitAssumption DEF IInv, WorkerStarts, ServerType, PassType, RestType, BelowLimit, None,
     files, PassRec, RestartRec, WorkerDone, Back
<1>4. ~Locked("worker")' /\ \A p : ~Awaits("worker", p)'
  BY <1>2 DEF Locked, Awaits, Begin, None
<1>5. LockHeld'
  BY <1>1, <1>2, <1>4, LockKept DEF WorkerStarts
<1>6. BootingIsAwaited'
  BY <1>1, <1>2, <1>4, BootingKept DEF WorkerStarts, Awaits, Worker
<1>7. WorkerRests'
  BY <1>2, OwnerAssumption DEF IInv, WorkerStarts, WorkerRests, Actor, None, NoOp
<1> QED
  BY <1>2, <1>3, <1>5, <1>6, <1>7 DEF IInv

LEMMA WorkerRetriesKeeps == ASSUME IInv, WorkerRetries PROVE IInv'
<1>1. "worker" \in Actor /\ OpMoves("worker", Begin("start", "record"))
  BY OpBegins DEF WorkerRetries, OpMoves, Actor, Command
<1>2. OpType' /\ op'["worker"] = Begin("start", "record")
      /\ \A b \in Actor : b # "worker" => op'[b] = op[b]
  BY <1>1, OpMove DEF IInv
<1>3. ServerType' /\ PassType' /\ RestType' /\ BelowLimit'
  BY LimitAssumption DEF IInv, WorkerRetries, ServerType, PassType, RestType, BelowLimit, None,
     files, PassRec, RestartRec, WorkerDone, Back
<1>4. ~Locked("worker")' /\ \A p : ~Awaits("worker", p)'
  BY <1>2 DEF Locked, Awaits, Begin, None
<1>5. LockHeld'
  BY <1>1, <1>2, <1>4, LockKept DEF WorkerRetries
<1>6. BootingIsAwaited'
  BY <1>1, <1>2, <1>4, BootingKept DEF WorkerRetries, Awaits, Worker
<1>7. WorkerRests'
  BY <1>2, OwnerAssumption DEF IInv, WorkerRetries, WorkerRests, Actor, None, NoOp
<1> QED
  BY <1>2, <1>3, <1>5, <1>6, <1>7 DEF IInv

LEMMA WorkerEndsKeeps == ASSUME IInv, WorkerEnds PROVE IInv'
<1>1. "worker" \in Actor /\ OpMoves("worker", NoOp)
  BY OpRests DEF WorkerEnds, OpMoves, Actor, Command
<1>2. OpType' /\ op'["worker"] = NoOp /\ \A b \in Actor : b # "worker" => op'[b] = op[b]
  BY <1>1, OpMove DEF IInv
<1>3. ServerType' /\ PassType' /\ RestType' /\ BelowLimit'
  BY LimitAssumption DEF IInv, WorkerEnds, ServerType, PassType, RestType, BelowLimit, None, files,
     PassRec, RestartRec, WorkerDone, Back
<1>4. ~Locked("worker")' /\ \A p : ~Awaits("worker", p)'
  BY <1>2 DEF Locked, Awaits, NoOp, None
<1>5. LockHeld'
  BY <1>1, <1>2, <1>4, LockKept DEF WorkerEnds
<1>6. BootingIsAwaited'
  BY <1>1, <1>2, <1>4, BootingKept DEF WorkerEnds, Awaits, Worker
<1>7. WorkerRests'
  BY <1>2, OwnerAssumption DEF IInv, WorkerEnds, WorkerRests, Actor, None, NoOp
<1> QED
  BY <1>2, <1>3, <1>5, <1>6, <1>7 DEF IInv

LEMMA PassStopsKeeps == ASSUME IInv, PassStops PROVE IInv'
<1>1. "supervisor" \in Actor /\ OpMoves("supervisor", Begin("stop", "look"))
  BY OpBegins DEF PassStops, OpMoves, Actor, Command
<1>2. OpType' /\ op'["supervisor"] = Begin("stop", "look")
      /\ \A b \in Actor : b # "supervisor" => op'[b] = op[b]
  BY <1>1, OpMove DEF IInv
<1>3. ServerType' /\ PassType' /\ RestType' /\ BelowLimit'
  BY LimitAssumption DEF IInv, PassStops, ServerType, PassType, RestType, BelowLimit, None, files,
     PassRec, RestartRec, WorkerDone, Back
<1>4. ~Locked("supervisor")' /\ \A p : ~Awaits("supervisor", p)'
  BY <1>2 DEF Locked, Awaits, Begin, None
<1>5. LockHeld'
  BY <1>1, <1>2, <1>4, LockKept DEF PassStops
<1>6. BootingIsAwaited'
  BY <1>1, <1>2, <1>4, BootingKept DEF PassStops, Awaits, Supervisor, NoOp, None
<1>7. WorkerRests'
  BY <1>2, OwnerAssumption DEF IInv, PassStops, WorkerRests, Actor, None, NoOp
<1> QED
  BY <1>2, <1>3, <1>5, <1>6, <1>7 DEF IInv

LEMMA PassStartsKeeps == ASSUME IInv, PassStarts PROVE IInv'
<1>1. "supervisor" \in Actor /\ OpMoves("supervisor", Begin("start", "record"))
  BY OpBegins DEF PassStarts, OpMoves, Actor, Command
<1>2. OpType' /\ op'["supervisor"] = Begin("start", "record")
      /\ \A b \in Actor : b # "supervisor" => op'[b] = op[b]
  BY <1>1, OpMove DEF IInv
<1>3. ServerType' /\ PassType' /\ RestType' /\ BelowLimit'
  BY LimitAssumption DEF IInv, PassStarts, ServerType, PassType, RestType, BelowLimit, None, files,
     PassRec, RestartRec, WorkerDone, Back
<1>4. ~Locked("supervisor")' /\ \A p : ~Awaits("supervisor", p)'
  BY <1>2 DEF Locked, Awaits, Begin, None
<1>5. LockHeld'
  BY <1>1, <1>2, <1>4, LockKept DEF PassStarts
<1>6. BootingIsAwaited'
  BY <1>1, <1>2, <1>4, BootingKept DEF PassStarts, Awaits, Supervisor, NoOp, None
<1>7. WorkerRests'
  BY <1>2, OwnerAssumption DEF IInv, PassStarts, WorkerRests, Actor, None, NoOp
<1> QED
  BY <1>2, <1>3, <1>5, <1>6, <1>7 DEF IInv

LEMMA PassEndsKeeps == ASSUME IInv, PassEnds PROVE IInv'
<1>1. "supervisor" \in Actor /\ OpMoves("supervisor", NoOp)
  BY OpRests DEF PassEnds, OpMoves, Actor, Command
<1>2. OpType' /\ op'["supervisor"] = NoOp /\ \A b \in Actor : b # "supervisor" => op'[b] = op[b]
  BY <1>1, OpMove DEF IInv
<1>3. ServerType' /\ PassType' /\ RestType' /\ BelowLimit'
  <2>1. PICK r \in 0..RecoveryLimit : pass' = [pc |-> "idle", unhealthy |-> 0, recent |-> r, login |-> FALSE]
    <3>1. CASE pass.pc = "login"
      BY <3>1 DEF IInv, PassEnds, Back, PassType, PassRec
    <3>2. CASE pass.pc = "starting"
      <4>1. pass.recent + 1 \in 0..RecoveryLimit
        BY <3>2, LimitAssumption DEF IInv, BelowLimit, PassType, PassRec
      <4> QED
        BY <3>2, <4>1 DEF IInv, PassEnds, Back, PassType, PassRec
    <3> QED
      BY <3>1, <3>2 DEF PassEnds
  <2>2. PassType' /\ BelowLimit'
    BY <2>1, LimitAssumption DEF PassType, PassRec, BelowLimit
  <2>3. ServerType' /\ RestType'
    BY DEF IInv, PassEnds, ServerType, RestType, files
  <2> QED
    BY <2>2, <2>3
<1>4. ~Locked("supervisor")' /\ \A p : ~Awaits("supervisor", p)'
  BY <1>2 DEF Locked, Awaits, NoOp, None
<1>5. LockHeld'
  BY <1>1, <1>2, <1>4, LockKept DEF PassEnds
<1>6. BootingIsAwaited'
  BY <1>1, <1>2, <1>4, BootingKept DEF PassEnds, Awaits, Supervisor
<1>7. WorkerRests'
  BY <1>2, OwnerAssumption DEF IInv, PassEnds, WorkerRests, Actor, None, NoOp
<1> QED
  BY <1>2, <1>3, <1>5, <1>6, <1>7 DEF IInv

-----------------------------------------------------------------------------
(* Everything else leaves the starts alone *)

LEMMA PreflightFailsKeeps == ASSUME IInv, PreflightFails PROVE IInv'
<1>1. ServerType' /\ PassType' /\ RestType' /\ BelowLimit'
  BY LimitAssumption DEF IInv, PreflightFails, ServerType, PassType, RestType, BelowLimit, None,
     files, PassRec, RestartRec, WorkerDone
<1>2. OpType'
  BY DEF IInv, PreflightFails, OpType
<1>3. LockHeld' /\ BootingIsAwaited' /\ WorkerRests'
  BY OthersKeep DEF IInv, PreflightFails, ServerType, None, WorkerDone
<1> QED
  BY <1>1, <1>2, <1>3 DEF IInv

LEMMA RestartStaleKeeps == ASSUME IInv, RestartStale PROVE IInv'
<1>1. ServerType' /\ PassType' /\ RestType' /\ BelowLimit'
  BY LimitAssumption DEF IInv, RestartStale, ServerType, PassType, RestType, BelowLimit, None,
     files, PassRec, RestartRec, WorkerDone
<1>2. OpType'
  BY DEF IInv, RestartStale, OpType
<1>3. LockHeld' /\ BootingIsAwaited' /\ WorkerRests'
  BY OthersKeep DEF IInv, RestartStale, ServerType, None, WorkerDone
<1> QED
  BY <1>1, <1>2, <1>3 DEF IInv

LEMMA AttemptAgesKeeps == ASSUME IInv, AttemptAges PROVE IInv'
<1>1. ServerType' /\ PassType' /\ RestType' /\ BelowLimit'
  BY LimitAssumption DEF IInv, AttemptAges, ServerType, PassType, RestType, BelowLimit, None,
     files, PassRec, RestartRec
<1>2. OpType'
  BY DEF IInv, AttemptAges, OpType
<1>3. LockHeld' /\ BootingIsAwaited' /\ WorkerRests'
  BY OthersKeep DEF IInv, AttemptAges, ServerType, None
<1> QED
  BY <1>1, <1>2, <1>3 DEF IInv

LEMMA BootsKeeps == ASSUME IInv, Boots PROVE IInv'
<1>1. ServerType' /\ PassType' /\ RestType' /\ BelowLimit'
  BY LimitAssumption DEF IInv, Boots, ServerType, PassType, RestType, BelowLimit, None, files,
     PassRec, RestartRec
<1>2. OpType'
  BY DEF IInv, Boots, OpType
<1>3. LockHeld' /\ BootingIsAwaited' /\ WorkerRests'
  BY OthersKeep DEF IInv, Boots, ServerType, None
<1> QED
  BY <1>1, <1>2, <1>3 DEF IInv

LEMMA LeavesKeeps == ASSUME IInv, Leaves PROVE IInv'
<1>1. ServerType' /\ PassType' /\ RestType' /\ BelowLimit'
  BY LimitAssumption DEF IInv, Leaves, ServerType, PassType, RestType, BelowLimit, None, files,
     PassRec, RestartRec
<1>2. OpType'
  BY DEF IInv, Leaves, OpType
<1>3. LockHeld' /\ BootingIsAwaited' /\ WorkerRests'
  BY OthersKeep DEF IInv, Leaves, ServerType, None
<1> QED
  BY <1>1, <1>2, <1>3 DEF IInv

LEMMA CrashesKeeps == ASSUME IInv, Crashes PROVE IInv'
<1>1. ServerType' /\ PassType' /\ RestType' /\ BelowLimit'
  BY LimitAssumption DEF IInv, Crashes, ServerType, PassType, RestType, BelowLimit, None, files,
     PassRec, RestartRec, Alive
<1>2. OpType'
  BY DEF IInv, Crashes, OpType
<1>3. LockHeld' /\ BootingIsAwaited' /\ WorkerRests'
  BY OthersKeep DEF IInv, Crashes, ServerType, None
<1> QED
  BY <1>1, <1>2, <1>3 DEF IInv

LEMMA HangsKeeps == ASSUME IInv, Hangs PROVE IInv'
<1>1. ServerType' /\ PassType' /\ RestType' /\ BelowLimit'
  BY LimitAssumption DEF IInv, Hangs, ServerType, PassType, RestType, BelowLimit, None, files,
     PassRec, RestartRec
<1>2. OpType'
  BY DEF IInv, Hangs, OpType
<1>3. LockHeld' /\ BootingIsAwaited' /\ WorkerRests'
  BY OthersKeep DEF IInv, Hangs, ServerType, None
<1> QED
  BY <1>1, <1>2, <1>3 DEF IInv

LEMMA UpdateBeginsKeeps == ASSUME IInv, UpdateBegins PROVE IInv'
<1>1. ServerType' /\ PassType' /\ RestType' /\ BelowLimit'
  BY LimitAssumption DEF IInv, UpdateBegins, ServerType, PassType, RestType, BelowLimit, None,
     files, PassRec, RestartRec
<1>2. OpType'
  BY DEF IInv, UpdateBegins, OpType
<1>3. LockHeld' /\ BootingIsAwaited' /\ WorkerRests'
  BY OthersKeep DEF IInv, UpdateBegins, ServerType, None
<1> QED
  BY <1>1, <1>2, <1>3 DEF IInv

LEMMA UpdateStopsKeeps == ASSUME IInv, UpdateStops PROVE IInv'
<1>1. ServerType' /\ PassType' /\ RestType' /\ BelowLimit'
  BY LimitAssumption DEF IInv, UpdateStops, ServerType, PassType, RestType, BelowLimit, None,
     files, PassRec, RestartRec
<1>2. OpType'
  BY DEF IInv, UpdateStops, OpType
<1>3. LockHeld' /\ BootingIsAwaited' /\ WorkerRests'
  BY OthersKeep DEF IInv, UpdateStops, ServerType, None
<1> QED
  BY <1>1, <1>2, <1>3 DEF IInv

LEMMA Limits == RecoveryLimit \in Nat /\ UnhealthyPasses \in Nat /\ 0 \in 0..UnhealthyPasses
BY LimitAssumption

\* What one change of a pass keeps.
LEMMA PassMoves ==
    ASSUME NEW p \in PassRec, NEW c \in {"idle", "look", "stop", "start", "starting", "login"}
    PROVE  /\ [p EXCEPT !.pc = c] \in PassRec
           /\ [p EXCEPT !.pc = c].pc = c /\ [p EXCEPT !.pc = c].recent = p.recent
BY DEF PassRec
LEMMA PassCounts ==
    ASSUME NEW p \in PassRec, NEW u \in 0..UnhealthyPasses
    PROVE  /\ [p EXCEPT !.unhealthy = u] \in PassRec
           /\ [p EXCEPT !.unhealthy = u].pc = p.pc /\ [p EXCEPT !.unhealthy = u].recent = p.recent
           /\ [p EXCEPT !.unhealthy = u, !.login = FALSE] \in PassRec
           /\ [p EXCEPT !.unhealthy = u, !.login = FALSE].pc = p.pc
BY DEF PassRec
LEMMA PassRests ==
    ASSUME NEW p \in PassRec
    PROVE  /\ [p EXCEPT !.login = FALSE] \in PassRec /\ [p EXCEPT !.login = FALSE].pc = p.pc
           /\ Back(p) \in PassRec /\ Back(p).pc = "idle" /\ Back(p).unhealthy = p.unhealthy
BY DEF PassRec, Back

LEMMA PassReadsKeeps == ASSUME IInv, PassReads PROVE IInv'
<1> pass \in PassRec /\ pass.pc = "idle"
  BY DEF IInv, PassType, PassReads
<1>1. PassType' /\ BelowLimit'
  <2>1. CASE intent # "running"
    <3>1. pass' = [pass EXCEPT !.unhealthy = 0, !.login = FALSE]
      BY <2>1 DEF PassReads
    <3> QED
      BY <3>1, Limits, PassMoves, PassCounts, PassRests DEF PassType, BelowLimit
  <2>2. CASE intent = "running" /\ (update # None \/ restart.open)
    <3>1. pass' = [pass EXCEPT !.login = FALSE]
      BY <2>2 DEF PassReads
    <3> QED
      BY <3>1, Limits, PassMoves, PassCounts, PassRests DEF PassType, BelowLimit
  <2>3. CASE intent = "running" /\ ~(update # None \/ restart.open)
    <3>1. pass' = [pass EXCEPT !.pc = "look"]
      BY <2>3 DEF PassReads
    <3> QED
      BY <3>1, Limits, PassMoves, PassCounts, PassRests DEF PassType, BelowLimit
  <2> QED
    BY <2>1, <2>2, <2>3
<1>2. ServerType' /\ RestType' /\ OpType'
  BY DEF IInv, PassReads, ServerType, RestType, OpType, files
<1>3. LockHeld' /\ BootingIsAwaited' /\ WorkerRests'
  BY OthersKeep DEF PassReads
<1> QED
  BY <1>1, <1>2, <1>3 DEF IInv

\* What a pass decides: it is over, or it begins a recovery below the limit.
LEMMA RecoverTypes ==
    ASSUME pass \in PassRec, NEW how \in {"stop", "start"}
    PROVE  /\ Recover(how) \in PassRec
           /\ Recover(how).pc \in {"stop", "start", "starting"} => Recover(how).recent < RecoveryLimit
<1> DEFINE q == IF pass.recent < RecoveryLimit THEN [pass EXCEPT !.pc = how] ELSE Back(pass)
           u == IF Present THEN UnhealthyPasses ELSE q.unhealthy
<1> how \in {"idle", "look", "stop", "start", "starting", "login"}
  OBVIOUS
<1>1. q \in PassRec /\ (q.pc \in {"stop", "start", "starting"} => q.recent < RecoveryLimit)
  <2>1. CASE pass.recent < RecoveryLimit
    <3>1. q = [pass EXCEPT !.pc = how]
      BY <2>1
    <3>2. [pass EXCEPT !.pc = how] \in PassRec /\ [pass EXCEPT !.pc = how].recent = pass.recent
      BY PassMoves
    <3> HIDE DEF q
    <3> QED
      BY <2>1, <3>1, <3>2
  <2>2. CASE ~(pass.recent < RecoveryLimit)
    BY <2>2, PassRests
  <2> QED
    BY <2>1, <2>2
<1>2. u \in 0..UnhealthyPasses
  BY <1>1, LimitAssumption DEF PassRec
<1>3. Recover(how) = [q EXCEPT !.unhealthy = u]
  BY <1>1 DEF Recover, PassRec
<1> HIDE DEF q, u
<1>4. [q EXCEPT !.unhealthy = u] \in PassRec /\ [q EXCEPT !.unhealthy = u].pc = q.pc
      /\ [q EXCEPT !.unhealthy = u].recent = q.recent
  BY <1>1, <1>2, PassCounts
<1> QED
  BY <1>1, <1>3, <1>4

LEMMA PassLooksKeeps == ASSUME IInv, PassLooks PROVE IInv'
<1> pass \in PassRec
  BY DEF IInv, PassType
<1> DEFINE Good(q) == q \in PassRec
                        /\ (q.pc \in {"stop", "start", "starting"} => q.recent < RecoveryLimit)
<1>1. Good(pass')
  <2>1. CASE pass' = [Back(pass) EXCEPT !.unhealthy = 0]
    <3>1. Back(pass) \in PassRec /\ Back(pass).pc = "idle"
      BY PassRests
    <3> QED
      BY <2>1, <3>1, Limits, PassCounts
  <2>2. CASE pass' = [Back(pass) EXCEPT !.unhealthy = pass.unhealthy + 1]
             /\ pass.unhealthy + 1 < UnhealthyPasses
    <3>1. Back(pass) \in PassRec /\ Back(pass).pc = "idle"
      BY PassRests
    <3>2. pass.unhealthy + 1 \in 0..UnhealthyPasses
      BY <2>2, LimitAssumption DEF PassRec
    <3> QED
      BY <2>2, <3>1, <3>2, PassCounts
  <2>3. CASE pass' = [pass EXCEPT !.pc = "login"]
    BY <2>3, PassMoves
  <2>4. CASE pass' \in {Recover("stop"), Recover("start")}
    BY <2>4, RecoverTypes
  <2> QED
    BY <2>1, <2>2, <2>3, <2>4 DEF PassLooks
<1>2. PassType' /\ BelowLimit'
  BY <1>1 DEF PassType, BelowLimit
<1>3. ServerType' /\ RestType' /\ OpType'
  BY DEF IInv, PassLooks, ServerType, RestType, OpType, files
<1>4. LockHeld' /\ BootingIsAwaited' /\ WorkerRests'
  BY OthersKeep DEF PassLooks
<1> QED
  BY <1>2, <1>3, <1>4 DEF IInv

LEMMA OwnerRestartsKeeps == ASSUME IInv, NEW a \in Owner, OwnerRestarts(a) PROVE IInv'
<1>1. ServerType' /\ PassType' /\ RestType' /\ BelowLimit' /\ OpType'
  BY DEF IInv, OwnerRestarts, ServerType, PassType, RestType, BelowLimit, OpType, RestartRec, files
<1>2. LockHeld' /\ BootingIsAwaited' /\ WorkerRests'
  BY OthersKeep DEF OwnerRestarts
<1> QED
  BY <1>1, <1>2 DEF IInv

\* The server an update starts is its own until it is up.
LEMMA UpdateStartsKeeps == ASSUME IInv, UpdateStarts PROVE IInv'
<1>1. ServerType' /\ PassType' /\ RestType' /\ BelowLimit' /\ OpType'
  BY DEF IInv, UpdateStarts, ServerType, PassType, RestType, BelowLimit, OpType, Fresh
<1>2. LockHeld' /\ BootingIsAwaited' /\ WorkerRests'
  BY DEF IInv, UpdateStarts, LockHeld, Locked, BootingIsAwaited, WorkerRests
<1> QED
  BY <1>1, <1>2 DEF IInv

LEMMA UpdateEndsKeeps == ASSUME IInv, UpdateEnds PROVE IInv'
<1>1. ServerType' /\ PassType' /\ RestType' /\ BelowLimit' /\ OpType'
  BY DEF IInv, UpdateEnds, ServerType, PassType, RestType, BelowLimit, OpType, files
<1>2. LockHeld'
  BY DEF IInv, UpdateEnds, LockHeld, Locked
<1>3. BootingIsAwaited'
  BY DEF IInv, UpdateEnds, BootingIsAwaited, Awaits
<1>4. WorkerRests'
  BY DEF IInv, UpdateEnds, WorkerRests
<1> QED
  BY <1>1, <1>2, <1>3, <1>4 DEF IInv

LEMMA RebootKeeps == ASSUME IInv, Reboot PROVE IInv'
<1>1. ServerType' /\ PassType' /\ RestType' /\ BelowLimit'
  BY DEF IInv, Reboot, ServerType, PassType, RestType, BelowLimit, PassRec, RestartRec, files, None
<1>2. OpType'
  BY OpRests DEF Reboot, OpType
<1>3. LockHeld'
  BY DEF Reboot, LockHeld, Locked, NoOp, None
<1>4. BootingIsAwaited'
  BY DEF Reboot, BootingIsAwaited
<1>5. WorkerRests'
  BY DEF Reboot, WorkerRests, Actor
<1> QED
  BY <1>1, <1>2, <1>3, <1>4, <1>5 DEF IInv
-----------------------------------------------------------------------------
LEMMA InitHolds == Init => IInv
<1> SUFFICES ASSUME Init PROVE IInv
  OBVIOUS
<1>1. ServerType /\ PassType /\ RestType /\ BelowLimit
  BY LimitAssumption DEF Init, ServerType, PassType, RestType, BelowLimit, PassRec, RestartRec,
     WorkerDone, None
<1>2. OpType
  BY OpRests DEF Init, OpType
<1>3. LockHeld
  BY DEF Init, LockHeld, Locked, NoOp, None
<1>4. BootingIsAwaited
  BY DEF Init, BootingIsAwaited
<1>5. WorkerRests
  BY DEF Init, WorkerRests, Actor
<1> QED
  BY <1>1, <1>2, <1>3, <1>4, <1>5 DEF IInv

LEMMA StepKeeps == IInv /\ [Next]_vars => IInv'
<1> SUFFICES ASSUME IInv, [Next]_vars PROVE IInv'
  OBVIOUS
<1>1. ASSUME NEW a \in Actor, StartStep(a) \/ StartGivesUp(a) PROVE IInv'
  BY <1>1, StartRecordsKeeps, StartLocksKeeps, StartFindsKeeps, SpawnKeeps, RecordSpawnedKeeps,
     StartReadyKeeps, StartNotReadyKeeps, StartGivesUpKeeps DEF StartStep
<1>2. ASSUME NEW a \in Actor, StopStep(a) PROVE IInv'
  BY <1>2, StopRecordsKeeps, StopTerminatesKeeps, StopFindsNoneKeeps, StopSeesItGoneKeeps,
     StopKillsKeeps, StopFailsKeeps DEF StopStep
<1>3. ASSUME NEW a \in Owner, OwnerStarts(a) \/ OwnerStops(a) \/ OwnerRestarts(a) PROVE IInv'
  BY <1>3, OwnerStartsKeeps, OwnerStopsKeeps, OwnerRestartsKeeps
<1>4. CASE WorkerStep \/ RestartStale
  BY <1>4, PreflightFailsKeeps, WorkerStopsKeeps, WorkerStartsKeeps, WorkerRetriesKeeps,
     WorkerEndsKeeps,
     RestartStaleKeeps DEF WorkerStep
<1>5. CASE PassStep \/ AttemptAges
  BY <1>5, PassReadsKeeps, PassLooksKeeps, PassStopsKeeps, PassStartsKeeps, PassEndsKeeps,
     AttemptAgesKeeps DEF PassStep
<1>6. CASE Boots \/ Leaves \/ Crashes \/ Hangs
  BY <1>6, BootsKeeps, LeavesKeeps, CrashesKeeps, HangsKeeps
<1>7. CASE UpdateBegins \/ UpdateStep \/ Reboot
  BY <1>7, UpdateBeginsKeeps, UpdateStopsKeeps, UpdateStartsKeeps, UpdateEndsKeeps, RebootKeeps
     DEF UpdateStep
<1>8. CASE UNCHANGED vars
  BY <1>8 DEF vars, files, IInv, ServerType, OpType, PassType, RestType, BelowLimit, LockHeld,
     Locked,
     BootingIsAwaited, Awaits, WorkerRests
<1> QED
  BY <1>1, <1>2, <1>3, <1>4, <1>5, <1>6, <1>7, <1>8 DEF Next

LEMMA Invariant == Spec => []IInv
BY InitHolds, StepKeeps, PTL DEF Spec

\* Processes, files, commands and passes keep their types (supervisor.py:185-268, cli.py:381-556).
THEOREM TypeCorrect == Spec => []TypeOK
BY Invariant, Parts, PTL

\* No start begins a server beside one that runs or boots: who starts holds the lock, so no other
\* start waits for a server of its own (cli.py:381-402, :417-556).
THEOREM StartsOneServerHolds == Spec => StartsOneServer
<1>1. ASSUME IInv, NEW a \in Actor, Spawn(a), update = None, NEW p \in Pid
      PROVE  server[p] \in {"gone", "leaving"}
  <2>1. server[p] \notin {"up", "hung"}
    BY <1>1 DEF Spawn, Listening
  <2>2. Locked(a) /\ ~Awaits(a, p)
    BY <1>1 DEF Spawn, Locked, Awaits
  <2>3. \A b \in Actor : ~Awaits(b, p)
    BY <1>1, <2>2 DEF IInv, LockHeld, Locked, Awaits
  <2>4. server[p] # "booting"
    BY <1>1, <2>3 DEF IInv, BootingIsAwaited, None
  <2> QED
    BY <1>1, <2>1, <2>4 DEF IInv, ServerType
<1>2. IInv /\ [Next]_vars =>
        [\A a \in Actor : Spawn(a) /\ update = None => \A p \in Pid : server[p] \in {"gone", "leaving"}]_vars
  BY <1>1
<1> QED
  BY <1>2, Invariant, PTL DEF Spec, StartsOneServer
=============================================================================
