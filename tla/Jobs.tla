-------------------------------- MODULE Jobs --------------------------------
(***************************************************************************)
(* One background job (tools_jobs.py): the thread that starts it, the      *)
(* thread that watches it, the calls that poll, stop and delete it, and    *)
(* the server that may die under all of them.                              *)
(*                                                                         *)
(*   record   meta.json of the job                                         *)
(*   leader   the shell of the job; group: other processes of its group    *)
(*   procs    the job is in _PROCS                                         *)
(*   readers  the threads that drain its output                            *)
(*   starter  the thread inside start_background_job                       *)
(*   watcher  the thread of _watch_process                                 *)
(*   stopper  what each caller of stop_job still has to do                 *)
(*   capture  the file transaction that records what the job changes       *)
(*                                                                         *)
(* What runs under _LOCK is one step.  Processes live on when the server   *)
(* dies.  A process that was sent SIGKILL counts as gone.                  *)
(***************************************************************************)
EXTENDS Naturals

CONSTANTS Caller,     \* who may call stop_job
          MaxCrashes  \* bound: deaths of the server

ASSUME MaxCrashesAssumption == MaxCrashes \in Nat

VARIABLES record, leader, group, procs, readers, starter, watcher, stopper, capture,
          late,       \* _STALE_START_S has passed since the record was written
          overdue,    \* the time limit or the limit on silence has passed
          crashes
process == <<leader, group>>
clock == <<late, overdue>>
vars == <<record, leader, group, procs, readers, starter, watcher, stopper, capture,
          late, overdue, crashes>>
-----------------------------------------------------------------------------
Ending == {"completed", "timeout", "killed", "failed"}

\* A record; `files` is filesystem_outcome.
Record == [status : {"starting", "running", "stopping"} \cup Ending,
           pid : BOOLEAN, ended : BOOLEAN, timedOut : BOOLEAN,
           files : {"none", "capturing", "captured", "unknown"}]
NoRecord == [status |-> "none", pid |-> FALSE, ended |-> FALSE, timedOut |-> FALSE, files |-> "none"]
Recorded == record # NoRecord

\* _surviving_group, and both together.
Survives == leader # "running" /\ group
Alive    == leader = "running" \/ group

\* Mutant: the record of a job that ended while nobody watched leaves its capture open.
FinalizedIfWatched(r, works) ==
    IF ~procs \/ r.files \in {"none", "captured"} THEN r
    ELSE [r EXCEPT !.files = IF works /\ capture = "open" THEN "captured" ELSE "unknown"]

\* _finalize_job_capture: what the record says then, and what becomes of the capture.
Finalized(r, works) ==
    IF r.files \in {"none", "captured"} THEN r
    ELSE [r EXCEPT !.files = IF works /\ capture = "open" THEN "captured" ELSE "unknown"]
CaptureAfter(r, works) ==
    IF r.files \in {"none", "captured"} \/ ~works \/ capture # "open" THEN capture ELSE "committed"
-----------------------------------------------------------------------------
(* _normalize_status, which every call makes first *)

NeverStarted == record.status = "starting" /\ ~record.pid /\ ~procs /\ late
\* Mutant: a job that was stopped is taken for finished although nobody wrote its end.
MayHaveEndedUnlessKilled == record.status \in {"running", "stopping"}
\* A stopped job is "killed" before its processes are gone.
MayHaveEnded == record.status \in {"running", "stopping"}
                  \/ (record.status = "killed" /\ ~record.ended)

\* The processes are gone, as far as the record knows them, and nobody has written it down yet.
EndedUnseen == \/ procs /\ leader = "exited" /\ ~group /\ readers # "reading"
               \/ ~procs /\ ~(record.pid /\ Alive) /\ ~record.ended

\* The outcome a poll writes: `ok` is the exit code, which only the server that started it knows.
PolledStatus(ok) ==
    CASE record.status = "killed" -> "killed"
      [] record.status = "stopping" -> IF record.timedOut THEN "timeout" ELSE "failed"
      [] OTHER -> IF procs /\ ok THEN "completed" ELSE "failed"

\* The record and the rest after a call has looked at them.
Look(r, p, cap) ==
    \/ /\ NeverStarted
       /\ r = [record EXCEPT !.status = "failed", !.ended = TRUE]
       /\ p = procs /\ cap = capture
    \/ /\ ~NeverStarted /\ MayHaveEnded /\ EndedUnseen
       /\ \E ok, works \in BOOLEAN :
            LET done == [record EXCEPT !.status = PolledStatus(ok), !.ended = TRUE]
            IN  r = Finalized(done, works) /\ cap = CaptureAfter(done, works)
       /\ p = FALSE
    \/ /\ ~NeverStarted /\ ~(MayHaveEnded /\ EndedUnseen)
       /\ r = record /\ p = procs /\ cap = capture
-----------------------------------------------------------------------------
(* start_background_job *)

\* Up to the first record; a reversible job opens a capture before.
Create(reversible) ==
    /\ starter = "idle" /\ ~Recorded
    /\ record' = [status |-> "starting", pid |-> FALSE, ended |-> FALSE, timedOut |-> FALSE,
                  files |-> IF reversible THEN "capturing" ELSE "none"]
    /\ capture' = IF reversible THEN "open" ELSE "none"
    /\ starter' = "launch"
    /\ UNCHANGED <<process, procs, readers, watcher, stopper, clock, crashes>>

Launch ==
    /\ starter = "launch"
    /\ leader' = "running" /\ starter' = "register"
    /\ UNCHANGED <<record, group, procs, readers, watcher, stopper, capture, clock, crashes>>

\* The record the starter holds since Create is written over whatever is there by now.
Own == [status |-> "starting", pid |-> FALSE, ended |-> FALSE, timedOut |-> FALSE,
        files |-> IF capture = "none" THEN "none" ELSE "capturing"]

LaunchFails ==
    /\ starter = "launch"
    /\ capture' = IF capture = "open" THEN "aborted" ELSE capture
    /\ record' = [Own EXCEPT !.status = "failed", !.ended = TRUE]
    /\ starter' = "done"
    /\ UNCHANGED <<process, procs, readers, watcher, stopper, clock, crashes>>

Register ==
    /\ starter = "register"
    /\ procs' = TRUE
    /\ record' = [Own EXCEPT !.status = "running", !.pid = TRUE]
    /\ starter' = "readers"
    /\ UNCHANGED <<process, readers, watcher, stopper, capture, clock, crashes>>

StartReaders ==
    /\ starter = "readers"
    /\ readers' = "reading" /\ starter' = "watch"
    /\ UNCHANGED <<record, process, procs, watcher, stopper, capture, clock, crashes>>

\* The watcher finds nothing to watch if a poll has ended the job already.
StartWatcher ==
    /\ starter = "watch"
    /\ watcher' = IF procs THEN "poll" ELSE "none"
    /\ starter' = "done"
    /\ UNCHANGED <<record, process, procs, readers, stopper, capture, clock, crashes>>
-----------------------------------------------------------------------------
(* _watch_process *)

Watch(from, to) == watcher = from /\ watcher' = to

\* proc.poll(), before the lock is taken.
PollProcess ==
    /\ IF leader = "running" THEN Watch("poll", "limits") ELSE Watch("poll", "left")
    /\ UNCHANGED <<record, process, procs, readers, starter, stopper, capture, clock, crashes>>

\* The limits, under the lock, for the shell and then for what it left behind.
Stopping == [record EXCEPT !.status = "stopping", !.timedOut = TRUE]
WithinLimits ==
    /\ ~overdue /\ Recorded
    /\ Watch("limits", "poll")
    /\ UNCHANGED <<record, process, procs, readers, starter, stopper, capture, clock, crashes>>
OverLimit ==
    /\ overdue /\ Recorded
    /\ \/ Watch("limits", "term")
       \/ Survives /\ Watch("left", "term")
    /\ record' = Stopping
    /\ UNCHANGED <<process, procs, readers, starter, stopper, capture, clock, crashes>>

\* A job that a call has ended and another has deleted has no record to read: the thread dies of it.
FindsNoRecord ==
    /\ ~Recorded
    /\ Watch("limits", "none")
    /\ UNCHANGED <<record, process, procs, readers, starter, stopper, capture, clock, crashes>>

\* Mutant: what the shell leaves behind does not keep the job open.
AllLeftShellOnly == TRUE
AllLeft == ~Survives

\* _terminate_process: SIGTERM, and SIGKILL after the grace.
TermEnds ==
    /\ ~Alive
    /\ Watch("term", "drain")
    /\ UNCHANGED <<record, process, procs, readers, starter, stopper, capture, clock, crashes>>
TermKills ==
    /\ Alive
    /\ Watch("term", "drain")
    /\ leader' = "exited" /\ group' = FALSE
    /\ UNCHANGED <<record, procs, readers, starter, stopper, capture, clock, crashes>>
AllGone ==
    /\ AllLeft
    /\ Watch("left", "drain")
    /\ UNCHANGED <<record, process, procs, readers, starter, stopper, capture, clock, crashes>>

\* The readers are waited for, but not longer than _READER_DRAIN_S.
Drained ==
    /\ Watch("drain", "write")
    /\ readers' = "none"
    /\ UNCHANGED <<record, process, procs, starter, stopper, capture, clock, crashes>>

WatchedStatus(ok) ==
    CASE record.status = "killed" -> "killed"
      [] record.timedOut \/ record.status = "timeout" -> "timeout"
      [] OTHER -> IF ok THEN "completed" ELSE "failed"

WriteOutcome ==
    /\ Watch("write", "none")
    /\ procs' = FALSE
    /\ IF Recorded
       THEN \E ok, works \in BOOLEAN :
              LET done == [record EXCEPT !.status = WatchedStatus(ok), !.ended = TRUE]
              IN  record' = Finalized(done, works) /\ capture' = CaptureAfter(done, works)
       ELSE UNCHANGED <<record, capture>>
    /\ UNCHANGED <<process, readers, starter, stopper, clock, crashes>>
-----------------------------------------------------------------------------
(* The calls *)

\* get_job_status, list_jobs, wait_jobs
Poll == /\ Recorded
        /\ Look(record', procs', capture')
        /\ UNCHANGED <<process, readers, starter, watcher, stopper, clock, crashes>>

\* delete_job, and prune_jobs of a job past the limits: only what is not active.
Active(r, p) == p \/ r.status \in {"starting", "running", "stopping"} \/ ~r.ended
Delete == /\ Recorded
          /\ \E r \in Record, p \in BOOLEAN :
               /\ Look(r, p, capture')
               /\ procs' = p
               /\ record' = IF Active(r, p) THEN r ELSE NoRecord
          /\ UNCHANGED <<process, readers, starter, watcher, stopper, clock, crashes>>

\* stop_job: the mark, under the lock; then the signal.
StopMarks(c) ==
    /\ Recorded /\ stopper[c] = "idle"
    /\ \E r \in Record :
         /\ Look(r, procs', capture')
         /\ IF r.status \in {"running", "stopping", "starting"}
            THEN /\ record' = [r EXCEPT !.status = "killed"]
                 /\ stopper' = [stopper EXCEPT ![c] = IF r.pid THEN "term" ELSE "done"]
            ELSE /\ record' = r
                 /\ UNCHANGED stopper
    /\ UNCHANGED <<process, readers, starter, watcher, clock, crashes>>

\* The processes are found through _PROCS, or by their pid after a restart.
StopEnds(c) ==
    /\ stopper[c] = "term" /\ ~Alive
    /\ stopper' = [stopper EXCEPT ![c] = "done"]
    /\ UNCHANGED <<record, process, procs, readers, starter, watcher, capture, clock, crashes>>
StopKills(c) ==
    /\ stopper[c] = "term" /\ Alive
    /\ leader' = "exited" /\ group' = FALSE
    /\ stopper' = [stopper EXCEPT ![c] = "done"]
    /\ UNCHANGED <<record, procs, readers, starter, watcher, capture, clock, crashes>>
-----------------------------------------------------------------------------
(* The job itself, time, and the server *)

Forks == leader = "running" /\ group' = TRUE
         /\ UNCHANGED <<record, leader, procs, readers, starter, watcher, stopper, capture, clock, crashes>>
LeaderExits == leader = "running" /\ leader' = "exited"
         /\ UNCHANGED <<record, group, procs, readers, starter, watcher, stopper, capture, clock, crashes>>
GroupEnds == group /\ group' = FALSE
         /\ UNCHANGED <<record, leader, procs, readers, starter, watcher, stopper, capture, clock, crashes>>
\* The pipes are closed once the shell is gone and what it left behind is, or never had them.
ReadersEnd == readers = "reading" /\ leader = "exited" /\ readers' = "ended"
         /\ UNCHANGED <<record, process, procs, starter, watcher, stopper, capture, clock, crashes>>

StartGoesLate == /\ Recorded /\ ~late /\ late' = TRUE
                 /\ UNCHANGED <<record, process, procs, readers, starter, watcher, stopper, capture, overdue, crashes>>
LimitPasses == /\ Recorded /\ ~overdue /\ overdue' = TRUE
               /\ UNCHANGED <<record, process, procs, readers, starter, watcher, stopper, capture, late, crashes>>

\* The threads and the tables of the server are gone; records, captures and processes stay.
Crash == /\ crashes < MaxCrashes /\ crashes' = crashes + 1
         /\ procs' = FALSE /\ readers' = "none" /\ watcher' = "none"
         /\ starter' = IF starter = "idle" THEN "idle" ELSE "done"
         /\ stopper' = [c \in Caller |-> IF stopper[c] = "term" THEN "done" ELSE stopper[c]]
         /\ UNCHANGED <<record, process, capture, clock>>

\* The server dies after a capture is finalized and before the record says so.
CrashAtFinalize ==
    /\ Recorded /\ record.files = "capturing" /\ capture = "open"
    /\ (watcher = "write" \/ (MayHaveEnded /\ EndedUnseen))
    /\ capture' = "committed"
    /\ crashes < MaxCrashes /\ crashes' = crashes + 1
    /\ procs' = FALSE /\ readers' = "none" /\ watcher' = "none" /\ starter' = "done"
    /\ stopper' = [c \in Caller |-> IF stopper[c] = "term" THEN "done" ELSE stopper[c]]
    /\ UNCHANGED <<record, process, clock>>
-----------------------------------------------------------------------------
Init == /\ record = NoRecord /\ leader = "none" /\ group = FALSE
        /\ procs = FALSE /\ readers = "none" /\ starter = "idle" /\ watcher = "none"
        /\ stopper = [c \in Caller |-> "idle"] /\ capture = "none"
        /\ late = FALSE /\ overdue = FALSE /\ crashes = 0

Starter == Launch \/ LaunchFails \/ Register \/ StartReaders \/ StartWatcher
Watcher == PollProcess \/ WithinLimits \/ OverLimit \/ FindsNoRecord \/ TermEnds \/ TermKills
             \/ AllGone \/ Drained \/ WriteOutcome

Next == \/ \E reversible \in BOOLEAN : Create(reversible)
        \/ Starter \/ Watcher \/ Poll \/ Delete
        \/ \E c \in Caller : StopMarks(c) \/ StopEnds(c) \/ StopKills(c)
        \/ Forks \/ LeaderExits \/ GroupEnds \/ ReadersEnd
        \/ StartGoesLate \/ LimitPasses \/ Crash \/ CrashAtFinalize

Spec == Init /\ [][Next]_vars

\* The threads run on, time passes, readers see the end of their pipes, a caller that sent a
\* signal waits out the grace, and somebody polls (wait_jobs, or the next call of prune_jobs).
Fairness == /\ WF_vars(Starter) /\ WF_vars(Watcher)
            /\ WF_vars(Poll) /\ WF_vars(StartGoesLate) /\ WF_vars(LimitPasses)
            /\ WF_vars(ReadersEnd)
            /\ \A c \in Caller : WF_vars(StopEnds(c) \/ StopKills(c))
FairSpec == Spec /\ Fairness
-----------------------------------------------------------------------------
\* The record, the processes and the threads have their types.
TypeOK ==
    /\ record \in Record \cup {NoRecord}
    /\ leader \in {"none", "running", "exited"} /\ group \in BOOLEAN
    /\ procs \in BOOLEAN /\ readers \in {"none", "reading", "ended"}
    /\ starter \in {"idle", "launch", "register", "readers", "watch", "done"}
    /\ watcher \in {"none", "poll", "limits", "left", "term", "drain", "write"}
    /\ stopper \in [Caller -> {"idle", "term", "done"}]
    /\ capture \in {"none", "open", "committed", "aborted"}
    /\ late \in BOOLEAN /\ overdue \in BOOLEAN /\ crashes \in 0..MaxCrashes

\* A job that is reported as ended runs no process any more, neither its shell nor what the shell
\* left behind, whoever of watcher, poll and stop has ended it, also after a restart
\* (tools_jobs.py:183-197, :371-425, :444-483).  Excepted is a job that was stopped while it started:
\* a poll that comes before the starter writes its pid takes it for ended (:467).
EndedMeansStopped == record.ended /\ record.pid => ~Alive

\* A job that ran and has ended says what became of the files it changed: captured or unknown, but
\* never still "capturing" (tools_jobs.py:310-333), although watcher and polls end it in turns and
\* the server may die in between.
FilesAccounted == record.ended /\ record.pid => record.files # "capturing"

\* Every job comes to an end, by itself or by its limits, and its record says so, unless the server
\* died and its processes run on, whose limits nobody keeps then (tools_jobs.py:336-425, :431-483).
JobEnds == Recorded ~> (~Recorded \/ record.ended \/ (crashes > 0 /\ Alive))
=============================================================================
