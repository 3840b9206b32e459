---------------------------- MODULE MachineProofs ----------------------------
(***************************************************************************)
(* Proofs about the two machines that outlive the server.                  *)
(*   Jobs          for any number of callers and deaths of the server: a   *)
(*                 job that is reported as ended runs no process, and says *)
(*                 what became of its files                                *)
(*   UpdateHelper  for any number of updates, faults and interventions of  *)
(*                 the owner: an update ends whole, and spares the owner's *)
(*                 work                                                    *)
(***************************************************************************)
EXTENDS Jobs, UpdateHelper, TLAPS

\* Until Register nobody watches the job and no record has its pid, so that whoever ends the record
\* before says nothing of the process.
BeforeRegister ==
    /\ starter \in {"idle", "launch", "register"} => ~record.pid
    /\ starter # "done" => watcher = "none"

\* The watcher goes on to the end only when nothing runs any more.
WatcherSaw ==
    /\ watcher = "left" => leader # "running"
    /\ watcher \in {"drain", "write"} => ~Alive

IInv == TypeOK /\ BeforeRegister /\ WatcherSaw /\ EndedMeansStopped /\ FilesAccounted

RecordType  == record \in Record \cup {NoRecord} /\ capture \in {"none", "open", "committed", "aborted"}
ProcessType == leader \in {"none", "running", "exited"} /\ group \in BOOLEAN
ThreadType  == /\ procs \in BOOLEAN /\ readers \in {"none", "reading", "ended"}
               /\ starter \in {"idle", "launch", "register", "readers", "watch", "done"}
               /\ watcher \in {"none", "poll", "limits", "left", "term", "drain", "write"}
               /\ stopper \in [Caller -> {"idle", "term", "done"}]
ClockType   == late \in BOOLEAN /\ overdue \in BOOLEAN /\ crashes \in 0..MaxCrashes

LEMMA RecordFields ==
    ASSUME TypeOK
    PROVE  /\ record.pid \in BOOLEAN /\ record.ended \in BOOLEAN /\ record.timedOut \in BOOLEAN
           /\ NoRecord.pid = FALSE /\ NoRecord.ended = FALSE
           /\ Recorded => record \in Record
<1>1. NoRecord.pid = FALSE /\ NoRecord.ended = FALSE /\ NoRecord.timedOut = FALSE
  BY DEF NoRecord
<1>2. Recorded => record \in Record
  BY DEF TypeOK, Recorded
<1>3. record = NoRecord => record.pid \in BOOLEAN /\ record.ended \in BOOLEAN /\ record.timedOut \in BOOLEAN
  BY <1>1
<1>4. record \in Record => record.pid \in BOOLEAN /\ record.ended \in BOOLEAN /\ record.timedOut \in BOOLEAN
  BY DEF Record
<1> QED
  BY <1>1, <1>2, <1>3, <1>4 DEF TypeOK
-----------------------------------------------------------------------------
(* What a look at the record may make of it *)

\* Finalizing the capture changes what the record says of the files, and that it does say.
LEMMA FinalizedIs ==
    ASSUME NEW r \in Record, NEW works \in BOOLEAN,
           capture \in {"none", "open", "committed", "aborted"}
    PROVE  /\ Finalized(r, works) \in Record
           /\ Finalized(r, works).pid = r.pid /\ Finalized(r, works).ended = r.ended
           /\ Finalized(r, works).status = r.status
           /\ Finalized(r, works).files # "capturing"
           /\ CaptureAfter(r, works) \in {"none", "open", "committed", "aborted"}
BY DEF Finalized, CaptureAfter, Record

\* A record that is ended by a look is ended when nothing runs, or was never started.
LEMMA LookIs ==
    ASSUME IInv, Recorded, NEW r, NEW p, NEW cap, Look(r, p, cap)
    PROVE  /\ r \in Record /\ p \in BOOLEAN /\ cap \in {"none", "open", "committed", "aborted"}
           /\ r.pid = record.pid
           /\ r.ended /\ r.pid => ~Alive /\ r.files # "capturing"
           /\ procs \/ ~p
<1> USE DEF IInv
<1>0. record \in Record /\ capture \in {"none", "open", "committed", "aborted"} /\ procs \in BOOLEAN
  BY DEF TypeOK, Recorded
<1>1. CASE /\ NeverStarted
           /\ r = [record EXCEPT !.status = "failed", !.ended = TRUE]
           /\ p = procs /\ cap = capture
  <2>1. ~record.pid
    BY <1>1 DEF NeverStarted
  <2>2. r \in Record /\ r.pid = record.pid
    BY <1>0, <1>1 DEF Record, Ending
  <2> QED
    BY <1>0, <1>1, <2>1, <2>2
<1>2. CASE /\ ~NeverStarted /\ MayHaveEnded /\ EndedUnseen
           /\ \E ok, works \in BOOLEAN :
                LET done == [record EXCEPT !.status = PolledStatus(ok), !.ended = TRUE]
                IN  r = Finalized(done, works) /\ cap = CaptureAfter(done, works)
           /\ p = FALSE
  <2> PICK ok \in BOOLEAN, works \in BOOLEAN :
        /\ r = Finalized([record EXCEPT !.status = PolledStatus(ok), !.ended = TRUE], works)
        /\ cap = CaptureAfter([record EXCEPT !.status = PolledStatus(ok), !.ended = TRUE], works)
    BY <1>2
  <2> DEFINE done == [record EXCEPT !.status = PolledStatus(ok), !.ended = TRUE]
  <2>1. PolledStatus(ok) \in Ending
    BY DEF PolledStatus, Ending
  <2>2. done \in Record /\ done.pid = record.pid
    BY <1>0, <2>1 DEF Record
  <2>3. record.pid => ~Alive
    BY <1>2 DEF EndedUnseen, Alive
  <2> HIDE DEF done
  <2>4. r = Finalized(done, works) /\ cap = CaptureAfter(done, works)
    BY DEF done
  <2>5. /\ r \in Record /\ r.pid = record.pid /\ r.files # "capturing"
        /\ cap \in {"none", "open", "committed", "aborted"}
    BY <1>0, <2>2, <2>4, FinalizedIs
  <2> QED
    BY <1>2, <2>3, <2>5
<1>3. CASE /\ ~NeverStarted /\ ~(MayHaveEnded /\ EndedUnseen)
           /\ r = record /\ p = procs /\ cap = capture
  BY <1>0, <1>3 DEF EndedMeansStopped, FilesAccounted
<1> QED
  BY <1>1, <1>2, <1>3 DEF Look
-----------------------------------------------------------------------------
LEMMA InitHolds == Init => IInv
<1> SUFFICES ASSUME Init PROVE IInv
  OBVIOUS
<1>1. TypeOK
  <2>1. RecordType /\ ProcessType /\ ThreadType
    BY DEF Init, RecordType, ProcessType, ThreadType
  <2>2. 0 \in 0..MaxCrashes
    BY MaxCrashesAssumption
  <2>3. ClockType
    BY <2>2 DEF Init, ClockType
  <2> QED
    BY <2>1, <2>3 DEF TypeOK, RecordType, ProcessType, ThreadType, ClockType
<1> QED
  BY <1>1, RecordFields DEF Init, IInv, BeforeRegister, WatcherSaw, EndedMeansStopped,
     FilesAccounted, Alive
-----------------------------------------------------------------------------
(* The starter *)

LEMMA CreateKeeps == ASSUME IInv, NEW reversible \in BOOLEAN, Create(reversible) PROVE IInv'
<1>1. TypeOK'
  BY RecordFields DEF IInv, TypeOK, Create, process, clock, Record, Recorded
<1>2. BeforeRegister' /\ WatcherSaw'
  BY RecordFields DEF IInv, BeforeRegister, WatcherSaw, Create, Alive, process, clock, Record,
     Recorded
<1>3. EndedMeansStopped' /\ FilesAccounted'
  BY RecordFields DEF IInv, TypeOK, BeforeRegister, WatcherSaw, EndedMeansStopped, FilesAccounted,
     Create, Alive, process, clock, Record, Recorded
<1> QED
  BY <1>1, <1>2, <1>3 DEF IInv

LEMMA LaunchKeeps == ASSUME IInv, Launch PROVE IInv'
<1>1. TypeOK'
  BY RecordFields DEF IInv, TypeOK, Launch, process, clock
<1>2. BeforeRegister' /\ WatcherSaw'
  BY RecordFields DEF IInv, BeforeRegister, WatcherSaw, Launch, Alive, process, clock
<1>3. EndedMeansStopped' /\ FilesAccounted'
  BY RecordFields DEF IInv, TypeOK, BeforeRegister, WatcherSaw, EndedMeansStopped, FilesAccounted,
     Launch, Alive, process, clock
<1> QED
  BY <1>1, <1>2, <1>3 DEF IInv

LEMMA LaunchFailsKeeps == ASSUME IInv, LaunchFails PROVE IInv'
<1>1. TypeOK'
  <2>1. RecordType'
    BY DEF IInv, TypeOK, RecordType, LaunchFails, process, clock, Own, Record, Ending
  <2>2. ProcessType'
    BY DEF IInv, TypeOK, ProcessType, LaunchFails, process, clock, Own, Record, Ending
  <2>3. ThreadType'
    BY DEF IInv, TypeOK, ThreadType, LaunchFails, process, clock, Own, Record, Ending
  <2>4. ClockType'
    BY RecordFields DEF IInv, TypeOK, ClockType, LaunchFails, process, clock, Own, Record, Ending
  <2> QED
    BY <2>1, <2>2, <2>3, <2>4 DEF TypeOK, RecordType, ProcessType, ThreadType, ClockType
<1>2. BeforeRegister' /\ WatcherSaw'
  BY RecordFields DEF IInv, BeforeRegister, WatcherSaw, LaunchFails, Alive, process, clock, Own,
     Record, Ending
<1>3. EndedMeansStopped' /\ FilesAccounted'
  BY RecordFields DEF IInv, TypeOK, BeforeRegister, WatcherSaw, EndedMeansStopped, FilesAccounted,
     LaunchFails, Alive, process, clock, Own, Record, Ending
<1> QED
  BY <1>1, <1>2, <1>3 DEF IInv

LEMMA RegisterKeeps == ASSUME IInv, Register PROVE IInv'
<1>1. TypeOK'
  <2>1. RecordType'
    BY DEF IInv, TypeOK, RecordType, Register, process, clock, Own, Record
  <2>2. ProcessType'
    BY DEF IInv, TypeOK, ProcessType, Register, process, clock, Own, Record
  <2>3. ThreadType'
    BY DEF IInv, TypeOK, ThreadType, Register, process, clock, Own, Record
  <2>4. ClockType'
    BY RecordFields DEF IInv, TypeOK, ClockType, Register, process, clock, Own, Record
  <2> QED
    BY <2>1, <2>2, <2>3, <2>4 DEF TypeOK, RecordType, ProcessType, ThreadType, ClockType
<1>2. BeforeRegister' /\ WatcherSaw'
  BY RecordFields DEF IInv, BeforeRegister, WatcherSaw, Register, Alive, process, clock, Own, Record
<1>3. EndedMeansStopped' /\ FilesAccounted'
  BY RecordFields DEF IInv, TypeOK, BeforeRegister, WatcherSaw, EndedMeansStopped, FilesAccounted,
     Register, Alive, process, clock, Own, Record
<1> QED
  BY <1>1, <1>2, <1>3 DEF IInv

LEMMA StartReadersKeeps == ASSUME IInv, StartReaders PROVE IInv'
<1>1. TypeOK'
  BY RecordFields DEF IInv, TypeOK, StartReaders, process, clock
<1>2. BeforeRegister' /\ WatcherSaw'
  BY RecordFields DEF IInv, BeforeRegister, WatcherSaw, StartReaders, Alive, process, clock
<1>3. EndedMeansStopped' /\ FilesAccounted'
  BY RecordFields DEF IInv, TypeOK, BeforeRegister, WatcherSaw, EndedMeansStopped, FilesAccounted,
     StartReaders, Alive, process, clock
<1> QED
  BY <1>1, <1>2, <1>3 DEF IInv

LEMMA StartWatcherKeeps == ASSUME IInv, StartWatcher PROVE IInv'
<1>1. TypeOK'
  BY RecordFields DEF IInv, TypeOK, StartWatcher, process, clock
<1>2. BeforeRegister' /\ WatcherSaw'
  BY RecordFields DEF IInv, BeforeRegister, WatcherSaw, StartWatcher, Alive, process, clock
<1>3. EndedMeansStopped' /\ FilesAccounted'
  BY RecordFields DEF IInv, TypeOK, BeforeRegister, WatcherSaw, EndedMeansStopped, FilesAccounted,
     StartWatcher, Alive, process, clock
<1> QED
  BY <1>1, <1>2, <1>3 DEF IInv
-----------------------------------------------------------------------------
(* The watcher *)

LEMMA PollProcessKeeps == ASSUME IInv, PollProcess PROVE IInv'
<1>1. TypeOK'
  BY RecordFields DEF IInv, TypeOK, PollProcess, process, clock, Watch
<1>2. BeforeRegister' /\ WatcherSaw'
  BY RecordFields DEF IInv, BeforeRegister, WatcherSaw, PollProcess, Alive, process, clock, Watch
<1>3. EndedMeansStopped' /\ FilesAccounted'
  BY RecordFields DEF IInv, TypeOK, BeforeRegister, WatcherSaw, EndedMeansStopped, FilesAccounted,
     PollProcess, Alive, process, clock, Watch
<1> QED
  BY <1>1, <1>2, <1>3 DEF IInv

LEMMA WithinLimitsKeeps == ASSUME IInv, WithinLimits PROVE IInv'
<1>1. TypeOK'
  BY RecordFields DEF IInv, TypeOK, WithinLimits, process, clock, Watch
<1>2. BeforeRegister' /\ WatcherSaw'
  BY RecordFields DEF IInv, BeforeRegister, WatcherSaw, WithinLimits, Alive, process, clock, Watch
<1>3. EndedMeansStopped' /\ FilesAccounted'
  BY RecordFields DEF IInv, TypeOK, BeforeRegister, WatcherSaw, EndedMeansStopped, FilesAccounted,
     WithinLimits, Alive, process, clock, Watch
<1> QED
  BY <1>1, <1>2, <1>3 DEF IInv

LEMMA FindsNoRecordKeeps == ASSUME IInv, FindsNoRecord PROVE IInv'
<1>1. TypeOK'
  BY RecordFields DEF IInv, TypeOK, FindsNoRecord, process, clock, Watch
<1>2. BeforeRegister' /\ WatcherSaw'
  BY RecordFields DEF IInv, BeforeRegister, WatcherSaw, FindsNoRecord, Alive, process, clock, Watch
<1>3. EndedMeansStopped' /\ FilesAccounted'
  BY RecordFields DEF IInv, TypeOK, BeforeRegister, WatcherSaw, EndedMeansStopped, FilesAccounted,
     FindsNoRecord, Alive, process, clock, Watch
<1> QED
  BY <1>1, <1>2, <1>3 DEF IInv

LEMMA OverLimitKeeps == ASSUME IInv, OverLimit PROVE IInv'
<1>1. TypeOK'
  BY RecordFields DEF IInv, TypeOK, OverLimit, process, clock, Watch, Stopping, Record, Recorded
<1>2. BeforeRegister' /\ WatcherSaw'
  BY RecordFields DEF IInv, BeforeRegister, WatcherSaw, OverLimit, Alive, process, clock, Watch,
     Stopping, Record, Recorded
<1>3. EndedMeansStopped' /\ FilesAccounted'
  BY RecordFields DEF IInv, TypeOK, BeforeRegister, WatcherSaw, EndedMeansStopped, FilesAccounted,
     OverLimit, Alive, process, clock, Watch, Stopping, Record, Recorded
<1> QED
  BY <1>1, <1>2, <1>3 DEF IInv

LEMMA TermEndsKeeps == ASSUME IInv, TermEnds PROVE IInv'
<1>1. TypeOK'
  BY RecordFields DEF IInv, TypeOK, TermEnds, process, clock, Watch
<1>2. BeforeRegister' /\ WatcherSaw'
  BY RecordFields DEF IInv, BeforeRegister, WatcherSaw, TermEnds, Alive, process, clock, Watch
<1>3. EndedMeansStopped' /\ FilesAccounted'
  BY RecordFields DEF IInv, TypeOK, BeforeRegister, WatcherSaw, EndedMeansStopped, FilesAccounted,
     TermEnds, Alive, process, clock, Watch
<1> QED
  BY <1>1, <1>2, <1>3 DEF IInv

LEMMA TermKillsKeeps == ASSUME IInv, TermKills PROVE IInv'
<1>1. TypeOK'
  BY RecordFields DEF IInv, TypeOK, TermKills, process, clock, Watch
<1>2. BeforeRegister' /\ WatcherSaw'
  BY RecordFields DEF IInv, BeforeRegister, WatcherSaw, TermKills, Alive, process, clock, Watch
<1>3. EndedMeansStopped' /\ FilesAccounted'
  BY RecordFields DEF IInv, TypeOK, BeforeRegister, WatcherSaw, EndedMeansStopped, FilesAccounted,
     TermKills, Alive, process, clock, Watch
<1> QED
  BY <1>1, <1>2, <1>3 DEF IInv

LEMMA AllGoneKeeps == ASSUME IInv, AllGone PROVE IInv'
<1>1. TypeOK'
  BY RecordFields DEF IInv, TypeOK, AllGone, process, clock, Watch, AllLeft, Survives
<1>2. BeforeRegister' /\ WatcherSaw'
  BY RecordFields DEF IInv, BeforeRegister, WatcherSaw, AllGone, Alive, process, clock, Watch,
     AllLeft, Survives
<1>3. EndedMeansStopped' /\ FilesAccounted'
  BY RecordFields DEF IInv, TypeOK, BeforeRegister, WatcherSaw, EndedMeansStopped, FilesAccounted,
     AllGone, Alive, process, clock, Watch, AllLeft, Survives
<1> QED
  BY <1>1, <1>2, <1>3 DEF IInv

LEMMA DrainedKeeps == ASSUME IInv, Drained PROVE IInv'
<1>1. TypeOK'
  BY RecordFields DEF IInv, TypeOK, Drained, process, clock, Watch
<1>2. BeforeRegister' /\ WatcherSaw'
  BY RecordFields DEF IInv, BeforeRegister, WatcherSaw, Drained, Alive, process, clock, Watch
<1>3. EndedMeansStopped' /\ FilesAccounted'
  BY RecordFields DEF IInv, TypeOK, BeforeRegister, WatcherSaw, EndedMeansStopped, FilesAccounted,
     Drained, Alive, process, clock, Watch
<1> QED
  BY <1>1, <1>2, <1>3 DEF IInv

LEMMA WriteOutcomeKeeps == ASSUME IInv, WriteOutcome PROVE IInv'
<1>1. ~Alive /\ watcher' = "none" /\ procs' = FALSE
      /\ UNCHANGED <<leader, group, readers, starter, stopper, late, overdue, crashes>>
  BY DEF IInv, WatcherSaw, WriteOutcome, Watch, process, clock
<1>2. CASE ~Recorded
  <2>1. UNCHANGED <<record, capture>>
    BY <1>2 DEF WriteOutcome
  <2>2. TypeOK'
    BY <1>1, <2>1 DEF IInv, TypeOK
  <2>3. BeforeRegister' /\ WatcherSaw'
    BY <1>1, <2>1 DEF IInv, BeforeRegister, WatcherSaw
  <2>4. EndedMeansStopped' /\ FilesAccounted'
    BY <1>1, <2>1 DEF IInv, EndedMeansStopped, FilesAccounted, Alive
  <2> QED
    BY <2>2, <2>3, <2>4 DEF IInv
<1>3. CASE Recorded
  <2> PICK ok \in BOOLEAN, works \in BOOLEAN :
        /\ record' = Finalized([record EXCEPT !.status = WatchedStatus(ok), !.ended = TRUE], works)
        /\ capture' = CaptureAfter([record EXCEPT !.status = WatchedStatus(ok), !.ended = TRUE], works)
    BY <1>3 DEF WriteOutcome
  <2> DEFINE done == [record EXCEPT !.status = WatchedStatus(ok), !.ended = TRUE]
  <2>1. record \in Record /\ capture \in {"none", "open", "committed", "aborted"}
    BY <1>3 DEF IInv, TypeOK, Recorded
  <2>2. WatchedStatus(ok) \in Ending
    BY DEF WatchedStatus, Ending
  <2>3. done \in Record /\ done.pid = record.pid
    BY <2>1, <2>2 DEF Record
  <2> HIDE DEF done
  <2>4. record' = Finalized(done, works) /\ capture' = CaptureAfter(done, works)
    BY DEF done
  <2>5. record' \in Record /\ record'.pid = record.pid /\ record'.files # "capturing"
        /\ capture' \in {"none", "open", "committed", "aborted"}
    BY <2>1, <2>3, <2>4, FinalizedIs
  <2>6. TypeOK'
    BY <1>1, <2>5 DEF IInv, TypeOK
  <2>7. BeforeRegister' /\ WatcherSaw'
    BY <1>1, <2>5 DEF IInv, BeforeRegister, WatcherSaw
  <2>8. EndedMeansStopped' /\ FilesAccounted'
    BY <1>1, <2>5 DEF EndedMeansStopped, FilesAccounted, Alive
  <2> QED
    BY <2>6, <2>7, <2>8 DEF IInv
<1> QED
  BY <1>2, <1>3
-----------------------------------------------------------------------------
(* The calls *)

\* What a call leaves alone, and a record that a look has made.
LEMMA CallKeeps ==
    ASSUME IInv, UNCHANGED <<leader, group, readers, starter, watcher, late, overdue, crashes>>,
           record' \in Record \cup {NoRecord}, procs' \in BOOLEAN,
           capture' \in {"none", "open", "committed", "aborted"},
           stopper' \in [Caller -> {"idle", "term", "done"}],
           record'.pid => record.pid,
           record'.ended /\ record'.pid => ~Alive /\ record'.files # "capturing"
    PROVE  IInv'
<1>1. TypeOK'
  BY DEF IInv, TypeOK
<1>2. BeforeRegister' /\ WatcherSaw'
  BY RecordFields DEF IInv, BeforeRegister, WatcherSaw, Alive
<1>3. EndedMeansStopped' /\ FilesAccounted'
  BY DEF EndedMeansStopped, FilesAccounted, Alive
<1> QED
  BY <1>1, <1>2, <1>3 DEF IInv

LEMMA PollKeeps == ASSUME IInv, Poll PROVE IInv'
<1>1. Recorded /\ Look(record', procs', capture')
      /\ UNCHANGED <<leader, group, readers, starter, watcher, stopper, late, overdue, crashes>>
  BY DEF Poll, process, clock
<1>2. stopper' \in [Caller -> {"idle", "term", "done"}]
  BY <1>1 DEF IInv, TypeOK
<1> QED
  BY <1>1, <1>2, LookIs, CallKeeps

LEMMA DeleteKeeps == ASSUME IInv, Delete PROVE IInv'
<1> PICK r \in Record, p \in BOOLEAN :
      Look(r, p, capture') /\ procs' = p /\ record' = IF Active(r, p) THEN r ELSE NoRecord
  BY DEF Delete
<1>1. Recorded /\ UNCHANGED <<leader, group, readers, starter, watcher, stopper, late, overdue, crashes>>
  BY DEF Delete, process, clock
<1>2. stopper' \in [Caller -> {"idle", "term", "done"}]
  BY <1>1 DEF IInv, TypeOK
<1>3. /\ r \in Record /\ capture' \in {"none", "open", "committed", "aborted"} /\ r.pid = record.pid
      /\ r.ended /\ r.pid => ~Alive /\ r.files # "capturing"
  BY <1>1, LookIs
<1>4. record' = r \/ record' = NoRecord
  OBVIOUS
<1>5. ~NoRecord.pid
  BY DEF NoRecord
<1> QED
  BY <1>1, <1>2, <1>3, <1>4, <1>5, CallKeeps

LEMMA StopMarksKeeps == ASSUME IInv, NEW c \in Caller, StopMarks(c) PROVE IInv'
<1> PICK r \in Record :
      /\ Look(r, procs', capture')
      /\ IF r.status \in {"running", "stopping", "starting"}
         THEN /\ record' = [r EXCEPT !.status = "killed"]
              /\ stopper' = [stopper EXCEPT ![c] = IF r.pid THEN "term" ELSE "done"]
         ELSE record' = r /\ UNCHANGED stopper
  BY DEF StopMarks
<1>1. Recorded /\ UNCHANGED <<leader, group, readers, starter, watcher, late, overdue, crashes>>
  BY DEF StopMarks, process, clock
<1>2. stopper' \in [Caller -> {"idle", "term", "done"}]
  BY DEF IInv, TypeOK
<1>3. /\ procs' \in BOOLEAN /\ capture' \in {"none", "open", "committed", "aborted"}
      /\ r.pid = record.pid /\ (r.ended /\ r.pid => ~Alive /\ r.files # "capturing")
  BY <1>1, LookIs
<1>4. /\ record' \in Record /\ record'.pid = r.pid /\ record'.ended = r.ended
      /\ record'.files = r.files
  BY DEF Record, Ending
<1> QED
  BY <1>1, <1>2, <1>3, <1>4, CallKeeps

LEMMA StopEndsKeeps == ASSUME IInv, NEW c \in Caller, StopEnds(c) PROVE IInv'
<1>1. TypeOK'
  BY RecordFields DEF IInv, TypeOK, StopEnds, process, clock
<1>2. BeforeRegister' /\ WatcherSaw'
  BY RecordFields DEF IInv, BeforeRegister, WatcherSaw, StopEnds, Alive, process, clock
<1>3. EndedMeansStopped' /\ FilesAccounted'
  BY RecordFields DEF IInv, TypeOK, BeforeRegister, WatcherSaw, EndedMeansStopped, FilesAccounted,
     StopEnds, Alive, process, clock
<1> QED
  BY <1>1, <1>2, <1>3 DEF IInv

LEMMA StopKillsKeeps == ASSUME IInv, NEW c \in Caller, StopKills(c) PROVE IInv'
<1>1. TypeOK'
  <2>1. RecordType'
    BY DEF IInv, TypeOK, RecordType, StopKills, process, clock
  <2>2. ProcessType'
    BY DEF IInv, TypeOK, ProcessType, StopKills, process, clock
  <2>3. ThreadType'
    BY DEF IInv, TypeOK, ThreadType, StopKills, process, clock
  <2>4. ClockType'
    BY RecordFields DEF IInv, TypeOK, ClockType, StopKills, process, clock
  <2> QED
    BY <2>1, <2>2, <2>3, <2>4 DEF TypeOK, RecordType, ProcessType, ThreadType, ClockType
<1>2. BeforeRegister' /\ WatcherSaw'
  BY RecordFields DEF IInv, BeforeRegister, WatcherSaw, StopKills, Alive, process, clock
<1>3. EndedMeansStopped' /\ FilesAccounted'
  BY RecordFields DEF IInv, TypeOK, BeforeRegister, WatcherSaw, EndedMeansStopped, FilesAccounted,
     StopKills, Alive, process, clock
<1> QED
  BY <1>1, <1>2, <1>3 DEF IInv
-----------------------------------------------------------------------------
(* The job itself, time, and the server *)

LEMMA ForksKeeps == ASSUME IInv, Forks PROVE IInv'
<1>1. TypeOK'
  BY RecordFields DEF IInv, TypeOK, Forks, process, clock
<1>2. BeforeRegister' /\ WatcherSaw'
  BY RecordFields DEF IInv, BeforeRegister, WatcherSaw, Forks, Alive, process, clock
<1>3. EndedMeansStopped' /\ FilesAccounted'
  BY RecordFields DEF IInv, TypeOK, BeforeRegister, WatcherSaw, EndedMeansStopped, FilesAccounted,
     Forks, Alive, process, clock
<1> QED
  BY <1>1, <1>2, <1>3 DEF IInv

LEMMA LeaderExitsKeeps == ASSUME IInv, LeaderExits PROVE IInv'
<1>1. TypeOK'
  BY RecordFields DEF IInv, TypeOK, LeaderExits, process, clock
<1>2. BeforeRegister' /\ WatcherSaw'
  BY RecordFields DEF IInv, BeforeRegister, WatcherSaw, LeaderExits, Alive, process, clock
<1>3. EndedMeansStopped' /\ FilesAccounted'
  BY RecordFields DEF IInv, TypeOK, BeforeRegister, WatcherSaw, EndedMeansStopped, FilesAccounted,
     LeaderExits, Alive, process, clock
<1> QED
  BY <1>1, <1>2, <1>3 DEF IInv

LEMMA GroupEndsKeeps == ASSUME IInv, GroupEnds PROVE IInv'
<1>1. TypeOK'
  <2>1. RecordType'
    BY DEF IInv, TypeOK, RecordType, GroupEnds, process, clock
  <2>2. ProcessType'
    BY DEF IInv, TypeOK, ProcessType, GroupEnds, process, clock
  <2>3. ThreadType'
    BY DEF IInv, TypeOK, ThreadType, GroupEnds, process, clock
  <2>4. ClockType'
    BY RecordFields DEF IInv, TypeOK, ClockType, GroupEnds, process, clock
  <2> QED
    BY <2>1, <2>2, <2>3, <2>4 DEF TypeOK, RecordType, ProcessType, ThreadType, ClockType
<1>2. BeforeRegister' /\ WatcherSaw'
  BY RecordFields DEF IInv, BeforeRegister, WatcherSaw, GroupEnds, Alive, process, clock
<1>3. EndedMeansStopped' /\ FilesAccounted'
  BY RecordFields DEF IInv, TypeOK, BeforeRegister, WatcherSaw, EndedMeansStopped, FilesAccounted,
     GroupEnds, Alive, process, clock
<1> QED
  BY <1>1, <1>2, <1>3 DEF IInv

LEMMA ReadersEndKeeps == ASSUME IInv, ReadersEnd PROVE IInv'
<1>1. TypeOK'
  BY RecordFields DEF IInv, TypeOK, ReadersEnd, process, clock
<1>2. BeforeRegister' /\ WatcherSaw'
  BY RecordFields DEF IInv, BeforeRegister, WatcherSaw, ReadersEnd, Alive, process, clock
<1>3. EndedMeansStopped' /\ FilesAccounted'
  BY RecordFields DEF IInv, TypeOK, BeforeRegister, WatcherSaw, EndedMeansStopped, FilesAccounted,
     ReadersEnd, Alive, process, clock
<1> QED
  BY <1>1, <1>2, <1>3 DEF IInv

LEMMA StartGoesLateKeeps == ASSUME IInv, StartGoesLate PROVE IInv'
<1>1. TypeOK'
  BY RecordFields DEF IInv, TypeOK, StartGoesLate, process, clock
<1>2. BeforeRegister' /\ WatcherSaw'
  BY RecordFields DEF IInv, BeforeRegister, WatcherSaw, StartGoesLate, Alive, process, clock
<1>3. EndedMeansStopped' /\ FilesAccounted'
  BY RecordFields DEF IInv, TypeOK, BeforeRegister, WatcherSaw, EndedMeansStopped, FilesAccounted,
     StartGoesLate, Alive, process, clock
<1> QED
  BY <1>1, <1>2, <1>3 DEF IInv

LEMMA LimitPassesKeeps == ASSUME IInv, LimitPasses PROVE IInv'
<1>1. TypeOK'
  BY RecordFields DEF IInv, TypeOK, LimitPasses, process, clock
<1>2. BeforeRegister' /\ WatcherSaw'
  BY RecordFields DEF IInv, BeforeRegister, WatcherSaw, LimitPasses, Alive, process, clock
<1>3. EndedMeansStopped' /\ FilesAccounted'
  BY RecordFields DEF IInv, TypeOK, BeforeRegister, WatcherSaw, EndedMeansStopped, FilesAccounted,
     LimitPasses, Alive, process, clock
<1> QED
  BY <1>1, <1>2, <1>3 DEF IInv

LEMMA CrashKeeps == ASSUME IInv, Crash PROVE IInv'
<1>1. TypeOK'
  <2>1. RecordType'
    BY DEF IInv, TypeOK, RecordType, Crash, process, clock
  <2>2. ProcessType'
    BY DEF IInv, TypeOK, ProcessType, Crash, process, clock
  <2>3. ThreadType'
    BY DEF IInv, TypeOK, ThreadType, Crash, process, clock
  <2>4. ClockType'
    BY MaxCrashesAssumption, RecordFields DEF IInv, TypeOK, ClockType, Crash, process, clock
  <2> QED
    BY <2>1, <2>2, <2>3, <2>4 DEF TypeOK, RecordType, ProcessType, ThreadType, ClockType
<1>2. BeforeRegister' /\ WatcherSaw'
  BY MaxCrashesAssumption, RecordFields DEF IInv, BeforeRegister, WatcherSaw, Crash, Alive,
     process, clock
<1>3. EndedMeansStopped' /\ FilesAccounted'
  BY MaxCrashesAssumption, RecordFields DEF IInv, TypeOK, BeforeRegister, WatcherSaw,
     EndedMeansStopped, FilesAccounted, Crash, Alive, process, clock
<1> QED
  BY <1>1, <1>2, <1>3 DEF IInv

LEMMA CrashAtFinalizeKeeps == ASSUME IInv, CrashAtFinalize PROVE IInv'
<1>1. TypeOK'
  <2>1. RecordType'
    BY DEF IInv, TypeOK, RecordType, CrashAtFinalize, process, clock
  <2>2. ProcessType'
    BY DEF IInv, TypeOK, ProcessType, CrashAtFinalize, process, clock
  <2>3. ThreadType'
    BY DEF IInv, TypeOK, ThreadType, CrashAtFinalize, process, clock
  <2>4. ClockType'
    BY MaxCrashesAssumption, RecordFields DEF IInv, TypeOK, ClockType, CrashAtFinalize, process,
       clock
  <2> QED
    BY <2>1, <2>2, <2>3, <2>4 DEF TypeOK, RecordType, ProcessType, ThreadType, ClockType
<1>2. BeforeRegister' /\ WatcherSaw'
  BY MaxCrashesAssumption, RecordFields DEF IInv, BeforeRegister, WatcherSaw, CrashAtFinalize,
     Alive, process, clock
<1>3. EndedMeansStopped' /\ FilesAccounted'
  BY MaxCrashesAssumption, RecordFields DEF IInv, TypeOK, BeforeRegister, WatcherSaw,
     EndedMeansStopped, FilesAccounted, CrashAtFinalize, Alive, process, clock
<1> QED
  BY <1>1, <1>2, <1>3 DEF IInv
-----------------------------------------------------------------------------

LEMMA StepKeeps == IInv /\ [Next]_vars => IInv'
<1> SUFFICES ASSUME IInv, [Next]_vars PROVE IInv'
  OBVIOUS
<1>1. ASSUME NEW reversible \in BOOLEAN, Create(reversible) PROVE IInv'
  BY <1>1, CreateKeeps
<1>2. CASE Starter
  BY <1>2, LaunchKeeps, LaunchFailsKeeps, RegisterKeeps, StartReadersKeeps,
     StartWatcherKeeps DEF Starter
<1>3. CASE Watcher
  BY <1>3, PollProcessKeeps, WithinLimitsKeeps, OverLimitKeeps, FindsNoRecordKeeps, TermEndsKeeps,
     TermKillsKeeps, AllGoneKeeps, DrainedKeeps, WriteOutcomeKeeps DEF Watcher
<1>4. CASE Poll \/ Delete
  BY <1>4, PollKeeps, DeleteKeeps
<1>5. ASSUME NEW c \in Caller, StopMarks(c) \/ StopEnds(c) \/ StopKills(c) PROVE IInv'
  BY <1>5, StopMarksKeeps, StopEndsKeeps, StopKillsKeeps
<1>6. CASE Forks \/ LeaderExits \/ GroupEnds \/ ReadersEnd \/ StartGoesLate \/ LimitPasses
  BY <1>6, ForksKeeps, LeaderExitsKeeps, GroupEndsKeeps, ReadersEndKeeps, StartGoesLateKeeps,
     LimitPassesKeeps
<1>7. CASE Crash \/ CrashAtFinalize
  BY <1>7, CrashKeeps, CrashAtFinalizeKeeps
<1>8. CASE UNCHANGED vars
  BY <1>8 DEF vars, IInv, TypeOK, BeforeRegister, WatcherSaw, EndedMeansStopped, FilesAccounted,
     Alive
<1> QED
  BY <1>1, <1>2, <1>3, <1>4, <1>5, <1>6, <1>7, <1>8 DEF Next

LEMMA Invariant == Spec => []IInv
BY InitHolds, StepKeeps, PTL DEF Spec

\* The record, the processes and the threads keep their types (tools_jobs.py:336-483).
THEOREM TypeCorrect == Spec => []TypeOK
<1>1. IInv => TypeOK
  BY DEF IInv
<1> QED
  BY <1>1, Invariant, PTL

\* A job that is reported as ended runs no process any more: a poll ends it only when nothing runs,
\* and the watcher writes its end only after what ran is gone (tools_jobs.py:183-197, :371-483).
THEOREM EndedMeansStoppedHolds == Spec => []EndedMeansStopped
<1>1. IInv => EndedMeansStopped
  BY DEF IInv
<1> QED
  BY <1>1, Invariant, PTL

\* A job that ran and has ended says what became of its files: whoever ends it finalizes its capture
\* in the same write (tools_jobs.py:310-333).
THEOREM FilesAccountedHolds == Spec => []FilesAccounted
<1>1. IInv => FilesAccounted
  BY DEF IInv
<1> QED
  BY <1>1, Invariant, PTL
-----------------------------------------------------------------------------
(* Updates.  The invariant says, at each place of the updater, what is on disk and what of it the  *)
(* journal knows, as long as no step that the recovery does not cover was hit (gap).               *)

\* The places of the updater, in their order.
Starting     == {"idle", "check", "prepare"}
Copying      == {"updating", "merge", "merged", "syncing", "sync", "sync_rest"}
Dropping     == {"drop", "drop_rest", "committed"}
Deploying    == {"deployed", "commit", "unmark", "finish"} \cup Dropping
Swapped      == {"activated", "restarting", "health", "verified", "deploy"} \cup Deploying
Synchronised == {"synced", "stage", "activating", "swap_out", "swap_in"} \cup Swapped
Restoring    == {"rb_some", "rb_rest", "rec_some", "rec_rest"}
RollingBack  == {"rollback", "rb_out", "rb_in", "rb_repo", "rb_reset", "rb_files", "rb_some", "rb_rest", "rb_end"}
Recovering   == {"rec_env", "rec_out", "rec_in", "rec_final"} \cup PutBack
Place        == Starting \cup Copying \cup Synchronised \cup RollingBack \cup Recovering
\* Where a file is half copied.
Halfway      == {"sync_rest", "rb_rest", "rec_rest"}

\* What the owner did before a look stands in the way of the step that follows the look.
Seen ==
    /\ pc \in {"rb_reset", "rec_reset"} /\ "commit" \notin risked => head # "own"
    /\ setup.same /\ "edit" \notin risked =>
         /\ pc \in Copying => (dirty => held.carried)
         /\ pc \in Restoring => ~dirty
    /\ "env" \notin risked =>
         /\ pc \in {"swap_in", "rb_out"} => env.active # "own"
         /\ pc = "rec_out" => env.active # "own" \/ journal.status = "dependency_commit_started"

\* Whatever the owner does: the environment's trees, what the updater holds, how far the release is
\* deployed, and which records the journal may bear where.
Trees ==
    /\ pc \in {"activating", "swap_out", "swap_in"} => env.candidate = "new"
    /\ pc \in {"stage", "activating", "swap_out", "swap_in"} => setup.deps
    /\ pc \in {"activating", "swap_out"} => env.active # "none"
    /\ pc \in {"swap_in", "rec_out", "rec_in"} => env.previous # "none"
    /\ pc \in Swapped \ {"committed", "finish"} /\ held.swapped => env.previous # "none"
    /\ pc \in Dropping => env.active \in {"new", "own"} /\ ~mark
Hands ==
    /\ pc \in {"check", "prepare"} \cup Recovering => held = Nothing
    /\ pc \in {"swap_out", "swap_in"} \/ held.swapped => held.env /\ journal.env
    /\ pc \in Swapped /\ setup.deps => held.swapped
    /\ held.swapped => setup.deps
    /\ pc \in Copying \cup (Synchronised \ Swapped) => ~held.swapped
    /\ pc \in {"commit", "unmark"} \cup Dropping => held.swapped
    /\ pc = "rollback" /\ journal.status = "dependency_commit_started" => held.swapped
    /\ pc \in Copying \cup Synchronised \cup {"rollback"} => held.undone = {}
Forward ==
    /\ pc \in Synchronised => files = "new"
    /\ pc \in Deploying => deployed = "new"
    /\ pc = "finish" /\ held.swapped => journal.status = "dependency_committed"
    /\ journal.status = "completed" => pc \in {"idle", "check"} /\ Released
Committed == files = "new" /\ deployed = "new" /\ env.active \in {"new", "own"} /\ ~mark
Statuses ==
    /\ pc \in Place
    /\ journal.before.deployed = "old"
    /\ pc \in Copying \cup Synchronised \cup Recovering => journal.status \in Incomplete
    /\ pc \in {"check", "prepare"} => journal.status \notin Incomplete
    /\ journal.status = "dependency_commit_started" =>
         /\ pc \in {"idle", "unmark", "rollback"} \cup Dropping \cup Recovering
         /\ journal.env
         /\ pc \in {"idle", "rec_env", "rollback"} /\ env.previous = "none" => Committed
    /\ pc \in {"unmark"} \cup Dropping => journal.status = "dependency_commit_started"
    /\ pc = "rec_final" => journal.status \in Committing /\ Committed /\ env.previous = "none"
    /\ journal.status = "dependency_committed" =>
         pc \in {"idle", "finish", "rec_env", "rec_final"} /\ journal.env /\ Committed

\* While the owner leaves it alone: as before the update, or the release as a whole, ...
Was     == journal.before
OldTree == env.active = Was.tree /\ env.previous = "none"
NoTree  == env.active = "none" /\ env.previous = Was.tree
NewTree == env.active = "new" /\ env.previous = Was.tree /\ mark
Both    == env.active = "new" /\ env.previous = Was.tree /\ ~mark
Apart   == env.active = "new" /\ ~mark /\ env.failed = "none"
Undone  == head = Was.head /\ files = Was.files /\ deployed = "old" /\ env.active = Was.tree
Done    == head = "new" /\ files = "new" /\ deployed = "new" /\ (setup.deps => env.active = "new")
\* ... or what can be taken back by one who knows of copied files iff `noted`.
Revertible(noted) ==
    /\ head \in {Was.head, "new"}
    /\ noted \/ (deployed = "old" /\ files = IF setup.same THEN head ELSE Was.files)

Unowned ==
    /\ ~dirty /\ head # "own" /\ Was.head # "own"
    /\ env.active \in {"old", "new", "none"} /\ Was.tree \in {"old", "new", "none"}
    /\ journal.env \/ held.env => Was.tree # "none"
    /\ setup.same => Was.files = Was.head /\ files \in {head, "part"}
    /\ HalfCopied => hurt \/ pc \in Halfway
\* On the way forward source, files, record and environment have come as far as the place says.
Going ==
    /\ pc \in {"prepare", "updating", "merge"} => Undone /\ ~held.moved /\ ~held.synced /\ ~journal.synced
    /\ pc \in {"merged", "syncing"} => ~held.synced /\ ~journal.synced
    /\ pc \in {"merged", "syncing", "sync"} => deployed = "old" /\ files = IF setup.same THEN "new" ELSE Was.files
    /\ pc \in {"merged", "syncing", "sync", "sync_rest"} \cup Synchronised =>
         head = "new" /\ (held.moved <=> Was.head = "old")
    /\ pc \in {"sync", "sync_rest"} \cup Synchronised => journal.synced /\ held.synced
    /\ pc \in {"sync_rest"} \cup (Synchronised \ Deploying) => deployed = "old"
    /\ pc \in {"prepare", "synced", "stage", "activating", "swap_out"} \cup Copying => OldTree /\ ~mark
    /\ pc \in {"activating", "swap_out"} => Was.tree # "none"
    /\ pc = "swap_in" => NoTree /\ mark
    /\ pc \in Swapped \ Dropping => IF held.swapped THEN pc = "finish" \/ NewTree ELSE OldTree
    /\ pc = "drop" => Both
    /\ pc \in Dropping => env.active = "new" /\ env.previous \in {"none", "cut", Was.tree}
    /\ pc \in {"prepare"} \cup Copying \cup Synchronised => env.failed = "none"
    /\ pc \in Halfway => files = "part"
\* On the way back what is left can be taken back, by the rollback and by a recovery after it, and
\* what did not go back is noted.
CommitLost == /\ Apart /\ env.previous \in {"none", "cut", Was.tree} /\ Done /\ hurt
              /\ journal.status = "dependency_commit_started"
EnvLeft == "env" \in held.undone /\ journal.env /\ (NoTree \/ NewTree \/ Apart)
GoingBack ==
    /\ pc = "rollback" => Revertible(journal.synced) /\ (journal.synced => held.synced)
    /\ pc = "rollback" => IF held.swapped THEN NewTree \/ CommitLost ELSE OldTree
    /\ pc \in RollingBack \ {"rollback"} => journal.synced = held.synced /\ (held.undone # {} => hurt)
    /\ pc \in {"rollback", "rb_out", "rb_in", "rb_repo"} => head = (IF held.moved THEN "new" ELSE Was.head)
    /\ pc \in {"rb_reset", "rec_reset"} => ~HalfCopied
    /\ pc \in (RollingBack \ {"rollback"}) \cup {"rec_out", "rec_in"} \cup PutBack => Revertible(journal.synced)
    /\ pc = "rb_out" => NewTree /\ journal.env
    /\ pc = "rec_out" => journal.env /\ (NewTree \/ (journal.status = "dependency_commit_started" /\ Both))
    /\ pc \in {"rb_in", "rec_in"} => NoTree /\ journal.env
    /\ pc \in PutBack => OldTree
    /\ pc \in {"rb_repo", "rb_reset", "rb_files", "rb_some", "rb_rest", "rb_end"} => OldTree \/ EnvLeft
    /\ pc \in {"rb_files", "rb_some", "rb_rest", "rb_end"} => head = Was.head \/ "repo" \in held.undone
    /\ pc \in {"rec_files", "rec_some", "rec_rest"} => head = Was.head
    /\ pc \in Restoring => journal.synced /\ (setup.same => head = Was.head)
    /\ pc = "rb_end" /\ "files" \notin held.undone =>
         deployed = "old" /\ ((setup.same /\ "repo" \in held.undone) \/ files = Was.files)
    /\ pc = "rec_end" => Undone
\* An update that was cut off can be taken back or is committed; one that ended is undone or done, or
\* says what is not.
Between ==
    /\ pc \in {"idle", "rec_env"} /\ journal.status \in Incomplete =>
         \/ journal.status = "dependency_committed"
         \/ journal.status = "dependency_commit_started" /\ Done /\ env.previous = "none"
         \/ /\ Revertible(journal.synced)
            /\ \/ OldTree /\ journal.status # "dependency_commit_started"
               \/ journal.env /\ (NoTree \/ NewTree)
               \/ journal.env /\ journal.status = "dependency_commit_started" /\ Both
    /\ journal.status = "dependency_committed" \/ pc = "rec_final" => Done
Ended ==
    journal.status \notin Incomplete =>
         /\ pc \notin Starting =>
              held = Nothing /\ ~journal.synced /\ pc \in {"rollback", "rb_repo", "rb_files", "rb_end"} /\ Undone /\ OldTree
         /\ pc \in {"idle", "check"} =>
             /\ journal.status = "recovered" => Undone
             /\ journal.status \in {"failed", "recovery_failed"} => Kept
             /\ journal.status = "failed" /\ ~hurt => Undone
             /\ journal.status = "recovery_failed" /\ ~hurt => Undone \/ Done
Alone == Unowned /\ Going /\ GoingBack /\ Between /\ Ended

UpdateInv == UpdateTypes /\ Seen /\ (~gap => Trees /\ Hands /\ Forward /\ Statuses /\ (owner = 0 => Alone))

PlainTypes ==
    /\ setup \in [same: BOOLEAN, deps: BOOLEAN]
    /\ head \in {"old", "new", "own"} /\ dirty \in BOOLEAN
    /\ files \in {"old", "part", "new"} /\ deployed \in {"old", "new"} /\ mark \in BOOLEAN
    /\ gap \in BOOLEAN /\ hurt \in BOOLEAN /\ risked \subseteq {"commit", "edit", "env"} /\ owner \in Nat
TreeTypes == env \in [active: Tree, previous: Tree, candidate: Tree, failed: Tree]
JournalTypes ==
    journal \in [status : Incomplete \cup {"none", "starting", "completed", "failed", "recovered", "recovery_failed"},
                 synced : BOOLEAN, env : BOOLEAN, undone : SUBSET Part,
                 before : [head : {"old", "new", "own"}, files : {"old", "part", "new"},
                           deployed : {"old", "new"}, tree : Tree]]
HeldTypes == held \in [moved: BOOLEAN, synced: BOOLEAN, env: BOOLEAN, swapped: BOOLEAN, carried: BOOLEAN,
                       undone: SUBSET Part]
-----------------------------------------------------------------------------
(* The steps of an update, of a rollback and of a recovery *)

USE DEF Starting, Copying, Dropping, Deploying, Swapped, Synchronised, Restoring, RollingBack, Recovering, PutBack,
        Place, Halfway, Was, OldTree, NoTree, NewTree, Both, Apart, CommitLost, EnvLeft, Undone, Done, Committed, Revertible,
        Released, Incomplete, Committing, Tree, Part, Nothing, Goes, Journaled, Checkpoint, repo, runtime, trees, counts,
        Whole, EnvMatches, StagingGone, Dirty, HalfCopied, MayReset, MayRestore, GoesBack, StaysHere, Back, Gap, Fault

LEMMA UpToDateKeeps ==
    ASSUME UpdateInv, UpToDate
    PROVE  UpdateInv'
<1>0. /\ env'.active = env.active /\ env'.previous \in {env.previous, "none"}
      /\ UNCHANGED <<setup, head, dirty, files, deployed, mark, journal, held, gap, hurt, risked, owner>>
      /\ pc = "check" /\ pc' = "idle"
  BY DEF UpdateInv, UpdateTypes, UpToDate
<1>1. PlainTypes'
  BY DEF UpdateInv, UpdateTypes, PlainTypes, UpToDate
<1>2. TreeTypes'
  <2>1. StagingGone(env) \in [active: Tree, previous: Tree, candidate: Tree, failed: Tree]
    BY DEF UpdateInv, UpdateTypes
  <2>2. env' = env \/ env' = StagingGone(env)
    BY DEF UpToDate
  <2> QED
    BY <2>1, <2>2 DEF UpdateInv, UpdateTypes, TreeTypes
<1>3. JournalTypes'
  BY DEF UpdateInv, UpdateTypes, JournalTypes, UpToDate
<1>4. HeldTypes'
  BY DEF UpdateInv, UpdateTypes, HeldTypes, UpToDate
<1>5. Seen'
  BY <1>0 DEF UpdateInv, UpdateTypes, Seen
<1>6. ASSUME ~gap' PROVE Trees'
  BY <1>6, <1>0 DEF UpdateInv, UpdateTypes, Trees, Hands, Forward, Statuses
<1>7. ASSUME ~gap' PROVE Hands'
  BY <1>7, <1>0 DEF UpdateInv, UpdateTypes, Trees, Hands, Forward, Statuses
<1>8. ASSUME ~gap' PROVE Forward'
  BY <1>8, <1>0 DEF UpdateInv, UpdateTypes, Trees, Hands, Forward, Statuses
<1>9. ASSUME ~gap' PROVE Statuses'
  BY <1>9, <1>0 DEF UpdateInv, UpdateTypes, Trees, Hands, Forward, Statuses
<1>10. ASSUME ~gap', owner' = 0 PROVE Unowned'
  BY <1>10, <1>0 DEF UpdateInv, UpdateTypes, Trees, Hands, Forward, Statuses, Alone, Unowned, Going, GoingBack
<1>11. ASSUME ~gap', owner' = 0 PROVE Going'
  BY <1>11, <1>0 DEF UpdateInv, UpdateTypes, Trees, Hands, Forward, Statuses, Alone, Unowned, Going, Ended
<1>12. ASSUME ~gap', owner' = 0 PROVE GoingBack'
  BY <1>12, <1>0
     DEF UpdateInv, UpdateTypes, Trees, Hands, Forward, Statuses, Alone, Unowned, Going, GoingBack,
         Between, Ended
<1>13. ASSUME ~gap', owner' = 0 PROVE Between'
  BY <1>13, <1>0
     DEF UpdateInv, UpdateTypes, Trees, Hands, Forward, Statuses, Alone, Unowned, Going, GoingBack,
         Between, Ended
<1>14. ASSUME ~gap', owner' = 0 PROVE Ended'
  BY <1>14, <1>0
     DEF UpdateInv, UpdateTypes, Trees, Hands, Forward, Statuses, Alone, Unowned, Going, GoingBack,
         Between, Ended, Kept
<1>15. UpdateTypes'
  BY <1>1, <1>2, <1>3, <1>4 DEF UpdateTypes, PlainTypes, TreeTypes, JournalTypes, HeldTypes
<1> QED
  BY <1>5, <1>6, <1>7, <1>8, <1>9, <1>10, <1>11, <1>12, <1>13, <1>14, <1>15 DEF UpdateInv, Alone

LEMMA CheckKeeps ==
    ASSUME UpdateInv, Check
    PROVE  UpdateInv'
<1>1. PlainTypes'
  BY DEF UpdateInv, UpdateTypes, PlainTypes, Check
<1>2. TreeTypes'
  BY DEF UpdateInv, UpdateTypes, TreeTypes, Check
<1>3. JournalTypes'
  BY DEF UpdateInv, UpdateTypes, JournalTypes, Check
<1>4. HeldTypes'
  BY DEF UpdateInv, UpdateTypes, HeldTypes, Check
<1>5. Seen'
  BY DEF UpdateInv, UpdateTypes, Seen, Check
<1>6. ASSUME ~gap' PROVE Trees'
  BY <1>6 DEF UpdateInv, UpdateTypes, Trees, Hands, Forward, Statuses, Check
<1>7. ASSUME ~gap' PROVE Hands'
  BY <1>7 DEF UpdateInv, UpdateTypes, Trees, Hands, Forward, Statuses, Check
<1>8. ASSUME ~gap' PROVE Forward'
  BY <1>8 DEF UpdateInv, UpdateTypes, Trees, Hands, Forward, Statuses, Check
<1>9. ASSUME ~gap' PROVE Statuses'
  BY <1>9 DEF UpdateInv, UpdateTypes, Trees, Hands, Forward, Statuses, Check
<1>10. ASSUME ~gap', owner' = 0 PROVE Unowned'
  BY <1>10 DEF UpdateInv, UpdateTypes, Trees, Hands, Forward, Statuses, Alone, Unowned, Going, GoingBack, Check
<1>11. ASSUME ~gap', owner' = 0 PROVE Going'
  BY <1>11 DEF UpdateInv, UpdateTypes, Trees, Hands, Forward, Statuses, Alone, Unowned, Going, Ended, Check
<1>12. ASSUME ~gap', owner' = 0 PROVE GoingBack'
  BY <1>12
     DEF UpdateInv, UpdateTypes, Trees, Hands, Forward, Statuses, Alone, Unowned, Going, GoingBack,
         Between, Ended, Check
<1>13. ASSUME ~gap', owner' = 0 PROVE Between'
  BY <1>13
     DEF UpdateInv, UpdateTypes, Trees, Hands, Forward, Statuses, Alone, Unowned, Going, GoingBack,
         Between, Ended, Check
<1>14. ASSUME ~gap', owner' = 0 PROVE Ended'
  BY <1>14
     DEF UpdateInv, UpdateTypes, Trees, Hands, Forward, Statuses, Alone, Unowned, Going, GoingBack,
         Between, Ended, Kept, Check
<1>15. UpdateTypes'
  BY <1>1, <1>2, <1>3, <1>4 DEF UpdateTypes, PlainTypes, TreeTypes, JournalTypes, HeldTypes
<1> QED
  BY <1>5, <1>6, <1>7, <1>8, <1>9, <1>10, <1>11, <1>12, <1>13, <1>14, <1>15 DEF UpdateInv, Alone

LEMMA PrepareKeeps ==
    ASSUME UpdateInv, Prepare
    PROVE  UpdateInv'
<1>1. PlainTypes'
  BY DEF UpdateInv, UpdateTypes, PlainTypes, Prepare
<1>2. TreeTypes'
  BY DEF UpdateInv, UpdateTypes, TreeTypes, Prepare
<1>3. JournalTypes'
  BY DEF UpdateInv, UpdateTypes, JournalTypes, Prepare
<1>4. HeldTypes'
  BY DEF UpdateInv, UpdateTypes, HeldTypes, Prepare
<1>5. Seen'
  BY DEF UpdateInv, UpdateTypes, Seen, Prepare
<1>6. ASSUME ~gap' PROVE Trees'
  BY <1>6 DEF UpdateInv, UpdateTypes, Trees, Hands, Forward, Statuses, Prepare
<1>7. ASSUME ~gap' PROVE Hands'
  BY <1>7 DEF UpdateInv, UpdateTypes, Trees, Hands, Forward, Statuses, Prepare
<1>8. ASSUME ~gap' PROVE Forward'
  BY <1>8 DEF UpdateInv, UpdateTypes, Trees, Hands, Forward, Statuses, Prepare
<1>9. ASSUME ~gap' PROVE Statuses'
  BY <1>9 DEF UpdateInv, UpdateTypes, Trees, Hands, Forward, Statuses, Prepare
<1>10. ASSUME ~gap', owner' = 0 PROVE Unowned'
  BY <1>10
     DEF UpdateInv, UpdateTypes, Trees, Hands, Forward, Statuses, Alone, Unowned, Going, GoingBack,
         Prepare
<1>11. ASSUME ~gap', owner' = 0 PROVE Going'
  BY <1>11 DEF UpdateInv, UpdateTypes, Trees, Hands, Forward, Statuses, Alone, Unowned, Going, Ended, Prepare
<1>12. ASSUME ~gap', owner' = 0 PROVE GoingBack'
  BY <1>12
     DEF UpdateInv, UpdateTypes, Trees, Hands, Forward, Statuses, Alone, Unowned, Going, GoingBack,
         Between, Ended, Prepare
<1>13. ASSUME ~gap', owner' = 0 PROVE Between'
  BY <1>13
     DEF UpdateInv, UpdateTypes, Trees, Hands, Forward, Statuses, Alone, Unowned, Going, GoingBack,
         Between, Ended, Prepare
<1>14. ASSUME ~gap', owner' = 0 PROVE Ended'
  BY <1>14
     DEF UpdateInv, UpdateTypes, Trees, Hands, Forward, Statuses, Alone, Unowned, Going, GoingBack,
         Between, Ended, Kept, Prepare
<1>15. UpdateTypes'
  BY <1>1, <1>2, <1>3, <1>4 DEF UpdateTypes, PlainTypes, TreeTypes, JournalTypes, HeldTypes
<1> QED
  BY <1>5, <1>6, <1>7, <1>8, <1>9, <1>10, <1>11, <1>12, <1>13, <1>14, <1>15 DEF UpdateInv, Alone

LEMMA MergeKeeps ==
    ASSUME UpdateInv, Merge
    PROVE  UpdateInv'
<1>0. /\ pc = "merge" /\ pc' \in {"merged", "rollback"}
      /\ head' = (IF pc' = "merged" THEN "new" ELSE head) /\ files' = IF pc' = "merged" /\ setup.same THEN "new" ELSE files
      /\ held'.synced = held.synced /\ held'.swapped = held.swapped /\ (pc' = "merged" => (held'.moved <=> head = "old"))
      /\ UNCHANGED <<setup, dirty, deployed, env, mark, journal, gap, hurt, risked, owner>>
  BY DEF UpdateInv, UpdateTypes, Merge
<1>1. PlainTypes'
  BY DEF UpdateInv, UpdateTypes, PlainTypes, Merge
<1>2. TreeTypes'
  BY DEF UpdateInv, UpdateTypes, TreeTypes, Merge
<1>3. JournalTypes'
  BY DEF UpdateInv, UpdateTypes, JournalTypes, Merge
<1>4. HeldTypes'
  <2> DEFINE was == (head = "old")
  <2>1. was \in BOOLEAN
    OBVIOUS
  <2>2. held' = held \/ held' = [held EXCEPT !.moved = was]
    BY DEF Merge
  <2> HIDE DEF was
  <2> QED
    BY <2>1, <2>2 DEF UpdateInv, UpdateTypes, HeldTypes
<1>5. Seen'
  BY DEF UpdateInv, UpdateTypes, Seen, Merge
<1>6. ASSUME ~gap' PROVE Trees'
  BY <1>6 DEF UpdateInv, UpdateTypes, Trees, Hands, Forward, Statuses, Merge
<1>7. ASSUME ~gap' PROVE Hands'
  BY <1>7 DEF UpdateInv, UpdateTypes, Trees, Hands, Forward, Statuses, Merge
<1>8. ASSUME ~gap' PROVE Forward'
  BY <1>8 DEF UpdateInv, UpdateTypes, Trees, Hands, Forward, Statuses, Merge
<1>9. ASSUME ~gap' PROVE Statuses'
  BY <1>9 DEF UpdateInv, UpdateTypes, Trees, Hands, Forward, Statuses, Merge
<1>10. ASSUME ~gap', owner' = 0 PROVE Unowned'
  BY <1>10 DEF UpdateInv, UpdateTypes, Trees, Hands, Forward, Statuses, Alone, Unowned, Going, GoingBack, Merge
<1>11. ASSUME ~gap', owner' = 0 PROVE Going'
  BY <1>11, <1>0 DEF UpdateInv, UpdateTypes, Trees, Hands, Forward, Statuses, Alone, Unowned, Going, Ended
<1>12. ASSUME ~gap', owner' = 0 PROVE GoingBack'
  BY <1>12
     DEF UpdateInv, UpdateTypes, Trees, Hands, Forward, Statuses, Alone, Unowned, Going, GoingBack,
         Between, Ended, Merge
<1>13. ASSUME ~gap', owner' = 0 PROVE Between'
  BY <1>13
     DEF UpdateInv, UpdateTypes, Trees, Hands, Forward, Statuses, Alone, Unowned, Going, GoingBack,
         Between, Ended, Merge
<1>14. ASSUME ~gap', owner' = 0 PROVE Ended'
  BY <1>14
     DEF UpdateInv, UpdateTypes, Trees, Hands, Forward, Statuses, Alone, Unowned, Going, GoingBack,
         Between, Ended, Kept, Merge
<1>15. UpdateTypes'
  BY <1>1, <1>2, <1>3, <1>4 DEF UpdateTypes, PlainTypes, TreeTypes, JournalTypes, HeldTypes
<1> QED
  BY <1>5, <1>6, <1>7, <1>8, <1>9, <1>10, <1>11, <1>12, <1>13, <1>14, <1>15 DEF UpdateInv, Alone

LEMMA BeginSyncKeeps ==
    ASSUME UpdateInv, BeginSync
    PROVE  UpdateInv'
<1>1. PlainTypes'
  BY DEF UpdateInv, UpdateTypes, PlainTypes, BeginSync, SyncingNoted
<1>2. TreeTypes'
  BY DEF UpdateInv, UpdateTypes, TreeTypes, BeginSync, SyncingNoted
<1>3. JournalTypes'
  BY DEF UpdateInv, UpdateTypes, JournalTypes, BeginSync, SyncingNoted
<1>4. HeldTypes'
  BY DEF UpdateInv, UpdateTypes, HeldTypes, BeginSync, SyncingNoted
<1>5. Seen'
  BY DEF UpdateInv, UpdateTypes, Seen, BeginSync, SyncingNoted
<1>6. ASSUME ~gap' PROVE Trees'
  BY <1>6 DEF UpdateInv, UpdateTypes, Trees, Hands, Forward, Statuses, BeginSync, SyncingNoted
<1>7. ASSUME ~gap' PROVE Hands'
  BY <1>7 DEF UpdateInv, UpdateTypes, Trees, Hands, Forward, Statuses, BeginSync, SyncingNoted
<1>8. ASSUME ~gap' PROVE Forward'
  BY <1>8 DEF UpdateInv, UpdateTypes, Trees, Hands, Forward, Statuses, BeginSync, SyncingNoted
<1>9. ASSUME ~gap' PROVE Statuses'
  BY <1>9 DEF UpdateInv, UpdateTypes, Trees, Hands, Forward, Statuses, BeginSync, SyncingNoted
<1>10. ASSUME ~gap', owner' = 0 PROVE Unowned'
  BY <1>10
     DEF UpdateInv, UpdateTypes, Trees, Hands, Forward, Statuses, Alone, Unowned, Going, GoingBack,
         BeginSync, SyncingNoted
<1>11. ASSUME ~gap', owner' = 0 PROVE Going'
  BY <1>11
     DEF UpdateInv, UpdateTypes, Trees, Hands, Forward, Statuses, Alone, Unowned, Going, Ended,
         BeginSync, SyncingNoted
<1>12. ASSUME ~gap', owner' = 0 PROVE GoingBack'
  BY <1>12
     DEF UpdateInv, UpdateTypes, Trees, Hands, Forward, Statuses, Alone, Unowned, Going, GoingBack,
         Between, Ended, BeginSync, SyncingNoted
<1>13. ASSUME ~gap', owner' = 0 PROVE Between'
  BY <1>13
     DEF UpdateInv, UpdateTypes, Trees, Hands, Forward, Statuses, Alone, Unowned, Going, GoingBack,
         Between, Ended, BeginSync, SyncingNoted
<1>14. ASSUME ~gap', owner' = 0 PROVE Ended'
  BY <1>14
     DEF UpdateInv, UpdateTypes, Trees, Hands, Forward, Statuses, Alone, Unowned, Going, GoingBack,
         Between, Ended, Kept, BeginSync, SyncingNoted
<1>15. UpdateTypes'
  BY <1>1, <1>2, <1>3, <1>4 DEF UpdateTypes, PlainTypes, TreeTypes, JournalTypes, HeldTypes
<1> QED
  BY <1>5, <1>6, <1>7, <1>8, <1>9, <1>10, <1>11, <1>12, <1>13, <1>14, <1>15 DEF UpdateInv, Alone

LEMMA SyncSomeKeeps ==
    ASSUME UpdateInv, SyncSome
    PROVE  UpdateInv'
<1>1. PlainTypes'
  BY DEF UpdateInv, UpdateTypes, PlainTypes, SyncSome, SyncOver
<1>2. TreeTypes'
  BY DEF UpdateInv, UpdateTypes, TreeTypes, SyncSome, SyncOver
<1>3. JournalTypes'
  BY DEF UpdateInv, UpdateTypes, JournalTypes, SyncSome, SyncOver
<1>4. HeldTypes'
  BY DEF UpdateInv, UpdateTypes, HeldTypes, SyncSome, SyncOver
<1>5. Seen'
  BY DEF UpdateInv, UpdateTypes, Seen, SyncSome, SyncOver
<1>6. ASSUME ~gap' PROVE Trees'
  BY <1>6 DEF UpdateInv, UpdateTypes, Trees, Hands, Forward, Statuses, SyncSome, SyncOver
<1>7. ASSUME ~gap' PROVE Hands'
  BY <1>7 DEF UpdateInv, UpdateTypes, Trees, Hands, Forward, Statuses, SyncSome, SyncOver
<1>8. ASSUME ~gap' PROVE Forward'
  BY <1>8 DEF UpdateInv, UpdateTypes, Trees, Hands, Forward, Statuses, SyncSome, SyncOver
<1>9. ASSUME ~gap' PROVE Statuses'
  BY <1>9 DEF UpdateInv, UpdateTypes, Trees, Hands, Forward, Statuses, SyncSome, SyncOver
<1>10. ASSUME ~gap', owner' = 0 PROVE Unowned'
  <2>1. Alone /\ UpdateTypes
    BY <1>10 DEF UpdateInv, SyncSome
  <2>2. ~dirty /\ pc = "sync"
    BY <2>1 DEF Alone, Unowned, Going, SyncSome
  <2>3. dirty' = dirty \/ dirty' = FALSE
    BY Zenon DEF SyncSome, SyncOver
  <2>4. ~dirty'
    BY <2>2, <2>3, Zenon
  <2>5. files' = "part" /\ pc' \in {"sync_rest", "synced"} /\ (pc = "sync" => pc' = "sync_rest")
        /\ UNCHANGED <<setup, head, env, journal, held>>
    BY <2>2 DEF SyncSome
  <2> QED
    BY <2>1, <2>2, <2>4, <2>5 DEF Alone, Unowned
<1>11. ASSUME ~gap', owner' = 0 PROVE Going'
  BY <1>11
     DEF UpdateInv, UpdateTypes, Trees, Hands, Forward, Statuses, Alone, Unowned, Going, Ended, SyncSome,
         SyncOver
<1>12. ASSUME ~gap', owner' = 0 PROVE GoingBack'
  BY <1>12
     DEF UpdateInv, UpdateTypes, Trees, Hands, Forward, Statuses, Alone, Unowned, Going, GoingBack,
         Between, Ended, SyncSome, SyncOver
<1>13. ASSUME ~gap', owner' = 0 PROVE Between'
  BY <1>13
     DEF UpdateInv, UpdateTypes, Trees, Hands, Forward, Statuses, Alone, Unowned, Going, GoingBack,
         Between, Ended, SyncSome, SyncOver
<1>14. ASSUME ~gap', owner' = 0 PROVE Ended'
  BY <1>14
     DEF UpdateInv, UpdateTypes, Trees, Hands, Forward, Statuses, Alone, Unowned, Going, GoingBack,
         Between, Ended, Kept, SyncSome, SyncOver
<1>15. UpdateTypes'
  BY <1>1, <1>2, <1>3, <1>4 DEF UpdateTypes, PlainTypes, TreeTypes, JournalTypes, HeldTypes
<1> QED
  BY <1>5, <1>6, <1>7, <1>8, <1>9, <1>10, <1>11, <1>12, <1>13, <1>14, <1>15 DEF UpdateInv, Alone

LEMMA SyncRestKeeps ==
    ASSUME UpdateInv, SyncRest
    PROVE  UpdateInv'
<1>1. PlainTypes'
  BY DEF UpdateInv, UpdateTypes, PlainTypes, SyncRest, SyncOver
<1>2. TreeTypes'
  BY DEF UpdateInv, UpdateTypes, TreeTypes, SyncRest, SyncOver
<1>3. JournalTypes'
  BY DEF UpdateInv, UpdateTypes, JournalTypes, SyncRest, SyncOver
<1>4. HeldTypes'
  BY DEF UpdateInv, UpdateTypes, HeldTypes, SyncRest, SyncOver
<1>5. Seen'
  BY DEF UpdateInv, UpdateTypes, Seen, SyncRest, SyncOver
<1>6. ASSUME ~gap' PROVE Trees'
  BY <1>6 DEF UpdateInv, UpdateTypes, Trees, Hands, Forward, Statuses, SyncRest, SyncOver
<1>7. ASSUME ~gap' PROVE Hands'
  BY <1>7 DEF UpdateInv, UpdateTypes, Trees, Hands, Forward, Statuses, SyncRest, SyncOver
<1>8. ASSUME ~gap' PROVE Forward'
  BY <1>8 DEF UpdateInv, UpdateTypes, Trees, Hands, Forward, Statuses, SyncRest, SyncOver
<1>9. ASSUME ~gap' PROVE Statuses'
  BY <1>9 DEF UpdateInv, UpdateTypes, Trees, Hands, Forward, Statuses, SyncRest, SyncOver
<1>10. ASSUME ~gap', owner' = 0 PROVE Unowned'
  <2>1. Alone /\ UpdateTypes
    BY <1>10 DEF UpdateInv, SyncRest
  <2>2. ~dirty /\ head = "new" /\ pc = "sync_rest"
    BY <2>1 DEF Alone, Unowned, Going, SyncRest
  <2>3. dirty' = dirty \/ dirty' = FALSE
    BY Zenon DEF SyncRest, SyncOver
  <2>4. ~dirty'
    BY <2>2, <2>3, Zenon
  <2>5. files' = "new" /\ pc' \in {"sync_rest", "synced"} /\ (pc = "sync" => pc' = "sync_rest")
        /\ UNCHANGED <<setup, head, env, journal, held>>
    BY <2>2 DEF SyncRest
  <2> QED
    BY <2>1, <2>2, <2>4, <2>5 DEF Alone, Unowned
<1>11. ASSUME ~gap', owner' = 0 PROVE Going'
  BY <1>11
     DEF UpdateInv, UpdateTypes, Trees, Hands, Forward, Statuses, Alone, Unowned, Going, Ended, SyncRest,
         SyncOver
<1>12. ASSUME ~gap', owner' = 0 PROVE GoingBack'
  BY <1>12
     DEF UpdateInv, UpdateTypes, Trees, Hands, Forward, Statuses, Alone, Unowned, Going, GoingBack,
         Between, Ended, SyncRest, SyncOver
<1>13. ASSUME ~gap', owner' = 0 PROVE Between'
  BY <1>13
     DEF UpdateInv, UpdateTypes, Trees, Hands, Forward, Statuses, Alone, Unowned, Going, GoingBack,
         Between, Ended, SyncRest, SyncOver
<1>14. ASSUME ~gap', owner' = 0 PROVE Ended'
  BY <1>14
     DEF UpdateInv, UpdateTypes, Trees, Hands, Forward, Statuses, Alone, Unowned, Going, GoingBack,
         Between, Ended, Kept, SyncRest, SyncOver
<1>15. UpdateTypes'
  BY <1>1, <1>2, <1>3, <1>4 DEF UpdateTypes, PlainTypes, TreeTypes, JournalTypes, HeldTypes
<1> QED
  BY <1>5, <1>6, <1>7, <1>8, <1>9, <1>10, <1>11, <1>12, <1>13, <1>14, <1>15 DEF UpdateInv, Alone

LEMMA SyncedKeeps ==
    ASSUME UpdateInv, Synced
    PROVE  UpdateInv'
<1>0. /\ journal'.status = "runtime_synced" /\ journal'.synced /\ journal'.env = journal.env
      /\ journal'.before = journal.before
      /\ pc = "synced" /\ pc' = IF setup.deps THEN "stage" ELSE "restarting"
      /\ UNCHANGED <<setup, head, files, dirty, deployed, env, mark, held, gap, hurt, risked, owner>>
  BY DEF UpdateInv, UpdateTypes, Synced
<1>1. PlainTypes'
  BY DEF UpdateInv, UpdateTypes, PlainTypes, Synced
<1>2. TreeTypes'
  BY DEF UpdateInv, UpdateTypes, TreeTypes, Synced
<1>3. JournalTypes'
  BY DEF UpdateInv, UpdateTypes, JournalTypes, Synced
<1>4. HeldTypes'
  BY DEF UpdateInv, UpdateTypes, HeldTypes, Synced
<1>5. Seen'
  BY DEF UpdateInv, UpdateTypes, Seen, Synced
<1>6. ASSUME ~gap' PROVE Trees'
  BY <1>6 DEF UpdateInv, UpdateTypes, Trees, Hands, Forward, Statuses, Synced
<1>7. ASSUME ~gap' PROVE Hands'
  BY <1>7 DEF UpdateInv, UpdateTypes, Trees, Hands, Forward, Statuses, Synced
<1>8. ASSUME ~gap' PROVE Forward'
  BY <1>8 DEF UpdateInv, UpdateTypes, Trees, Hands, Forward, Statuses, Synced
<1>9. ASSUME ~gap' PROVE Statuses'
  BY <1>9 DEF UpdateInv, UpdateTypes, Trees, Hands, Forward, Statuses, Synced
<1>10. ASSUME ~gap', owner' = 0 PROVE Unowned'
  BY <1>10 DEF UpdateInv, UpdateTypes, Trees, Hands, Forward, Statuses, Alone, Unowned, Going, GoingBack, Synced
<1>11. ASSUME ~gap', owner' = 0 PROVE Going'
  BY <1>11, <1>0 DEF UpdateInv, UpdateTypes, Trees, Hands, Forward, Statuses, Alone, Unowned, Going, Ended
<1>12. ASSUME ~gap', owner' = 0 PROVE GoingBack'
  BY <1>12
     DEF UpdateInv, UpdateTypes, Trees, Hands, Forward, Statuses, Alone, Unowned, Going, GoingBack,
         Between, Ended, Synced
<1>13. ASSUME ~gap', owner' = 0 PROVE Between'
  BY <1>13
     DEF UpdateInv, UpdateTypes, Trees, Hands, Forward, Statuses, Alone, Unowned, Going, GoingBack,
         Between, Ended, Synced
<1>14. ASSUME ~gap', owner' = 0 PROVE Ended'
  BY <1>14
     DEF UpdateInv, UpdateTypes, Trees, Hands, Forward, Statuses, Alone, Unowned, Going, GoingBack,
         Between, Ended, Kept, Synced
<1>15. UpdateTypes'
  BY <1>1, <1>2, <1>3, <1>4 DEF UpdateTypes, PlainTypes, TreeTypes, JournalTypes, HeldTypes
<1> QED
  BY <1>5, <1>6, <1>7, <1>8, <1>9, <1>10, <1>11, <1>12, <1>13, <1>14, <1>15 DEF UpdateInv, Alone

LEMMA StageKeeps ==
    ASSUME UpdateInv, Stage
    PROVE  UpdateInv'
<1>1. PlainTypes'
  BY DEF UpdateInv, UpdateTypes, PlainTypes, Stage
<1>2. TreeTypes'
  BY DEF UpdateInv, UpdateTypes, TreeTypes, Stage
<1>3. JournalTypes'
  BY DEF UpdateInv, UpdateTypes, JournalTypes, Stage
<1>4. HeldTypes'
  BY DEF UpdateInv, UpdateTypes, HeldTypes, Stage
<1>5. Seen'
  BY DEF UpdateInv, UpdateTypes, Seen, Stage
<1>6. ASSUME ~gap' PROVE Trees'
  BY <1>6 DEF UpdateInv, UpdateTypes, Trees, Hands, Forward, Statuses, Stage
<1>7. ASSUME ~gap' PROVE Hands'
  BY <1>7 DEF UpdateInv, UpdateTypes, Trees, Hands, Forward, Statuses, Stage
<1>8. ASSUME ~gap' PROVE Forward'
  BY <1>8 DEF UpdateInv, UpdateTypes, Trees, Hands, Forward, Statuses, Stage
<1>9. ASSUME ~gap' PROVE Statuses'
  BY <1>9 DEF UpdateInv, UpdateTypes, Trees, Hands, Forward, Statuses, Stage
<1>10. ASSUME ~gap', owner' = 0 PROVE Unowned'
  BY <1>10 DEF UpdateInv, UpdateTypes, Trees, Hands, Forward, Statuses, Alone, Unowned, Going, GoingBack, Stage
<1>11. ASSUME ~gap', owner' = 0 PROVE Going'
  BY <1>11 DEF UpdateInv, UpdateTypes, Trees, Hands, Forward, Statuses, Alone, Unowned, Going, Ended, Stage
<1>12. ASSUME ~gap', owner' = 0 PROVE GoingBack'
  BY <1>12
     DEF UpdateInv, UpdateTypes, Trees, Hands, Forward, Statuses, Alone, Unowned, Going, GoingBack,
         Between, Ended, Stage
<1>13. ASSUME ~gap', owner' = 0 PROVE Between'
  BY <1>13
     DEF UpdateInv, UpdateTypes, Trees, Hands, Forward, Statuses, Alone, Unowned, Going, GoingBack,
         Between, Ended, Stage
<1>14. ASSUME ~gap', owner' = 0 PROVE Ended'
  BY <1>14
     DEF UpdateInv, UpdateTypes, Trees, Hands, Forward, Statuses, Alone, Unowned, Going, GoingBack,
         Between, Ended, Kept, Stage
<1>15. UpdateTypes'
  BY <1>1, <1>2, <1>3, <1>4 DEF UpdateTypes, PlainTypes, TreeTypes, JournalTypes, HeldTypes
<1> QED
  BY <1>5, <1>6, <1>7, <1>8, <1>9, <1>10, <1>11, <1>12, <1>13, <1>14, <1>15 DEF UpdateInv, Alone

LEMMA ActivatingKeeps ==
    ASSUME UpdateInv, Activating
    PROVE  UpdateInv'
<1>1. PlainTypes'
  BY DEF UpdateInv, UpdateTypes, PlainTypes, Activating
<1>2. TreeTypes'
  BY DEF UpdateInv, UpdateTypes, TreeTypes, Activating
<1>3. JournalTypes'
  BY DEF UpdateInv, UpdateTypes, JournalTypes, Activating
<1>4. HeldTypes'
  BY DEF UpdateInv, UpdateTypes, HeldTypes, Activating
<1>5. Seen'
  BY DEF UpdateInv, UpdateTypes, Seen, Activating
<1>6. ASSUME ~gap' PROVE Trees'
  BY <1>6 DEF UpdateInv, UpdateTypes, Trees, Hands, Forward, Statuses, Activating
<1>7. ASSUME ~gap' PROVE Hands'
  BY <1>7 DEF UpdateInv, UpdateTypes, Trees, Hands, Forward, Statuses, Activating
<1>8. ASSUME ~gap' PROVE Forward'
  BY <1>8 DEF UpdateInv, UpdateTypes, Trees, Hands, Forward, Statuses, Activating
<1>9. ASSUME ~gap' PROVE Statuses'
  BY <1>9 DEF UpdateInv, UpdateTypes, Trees, Hands, Forward, Statuses, Activating
<1>10. ASSUME ~gap', owner' = 0 PROVE Unowned'
  BY <1>10
     DEF UpdateInv, UpdateTypes, Trees, Hands, Forward, Statuses, Alone, Unowned, Going, GoingBack,
         Activating
<1>11. ASSUME ~gap', owner' = 0 PROVE Going'
  BY <1>11 DEF UpdateInv, UpdateTypes, Trees, Hands, Forward, Statuses, Alone, Unowned, Going, Ended, Activating
<1>12. ASSUME ~gap', owner' = 0 PROVE GoingBack'
  BY <1>12
     DEF UpdateInv, UpdateTypes, Trees, Hands, Forward, Statuses, Alone, Unowned, Going, GoingBack,
         Between, Ended, Activating
<1>13. ASSUME ~gap', owner' = 0 PROVE Between'
  BY <1>13
     DEF UpdateInv, UpdateTypes, Trees, Hands, Forward, Statuses, Alone, Unowned, Going, GoingBack,
         Between, Ended, Activating
<1>14. ASSUME ~gap', owner' = 0 PROVE Ended'
  BY <1>14
     DEF UpdateInv, UpdateTypes, Trees, Hands, Forward, Statuses, Alone, Unowned, Going, GoingBack,
         Between, Ended, Kept, Activating
<1>15. UpdateTypes'
  BY <1>1, <1>2, <1>3, <1>4 DEF UpdateTypes, PlainTypes, TreeTypes, JournalTypes, HeldTypes
<1> QED
  BY <1>5, <1>6, <1>7, <1>8, <1>9, <1>10, <1>11, <1>12, <1>13, <1>14, <1>15 DEF UpdateInv, Alone

LEMMA SwapOutKeeps ==
    ASSUME UpdateInv, SwapOut
    PROVE  UpdateInv'
<1>1. PlainTypes'
  BY DEF UpdateInv, UpdateTypes, PlainTypes, SwapOut
<1>2. TreeTypes'
  BY DEF UpdateInv, UpdateTypes, TreeTypes, SwapOut
<1>3. JournalTypes'
  BY DEF UpdateInv, UpdateTypes, JournalTypes, SwapOut
<1>4. HeldTypes'
  BY DEF UpdateInv, UpdateTypes, HeldTypes, SwapOut
<1>5. Seen'
  BY DEF UpdateInv, UpdateTypes, Seen, SwapOut
<1>6. ASSUME ~gap' PROVE Trees'
  BY <1>6 DEF UpdateInv, UpdateTypes, Trees, Hands, Forward, Statuses, SwapOut
<1>7. ASSUME ~gap' PROVE Hands'
  BY <1>7 DEF UpdateInv, UpdateTypes, Trees, Hands, Forward, Statuses, SwapOut
<1>8. ASSUME ~gap' PROVE Forward'
  BY <1>8 DEF UpdateInv, UpdateTypes, Trees, Hands, Forward, Statuses, SwapOut
<1>9. ASSUME ~gap' PROVE Statuses'
  BY <1>9 DEF UpdateInv, UpdateTypes, Trees, Hands, Forward, Statuses, SwapOut
<1>10. ASSUME ~gap', owner' = 0 PROVE Unowned'
  BY <1>10
     DEF UpdateInv, UpdateTypes, Trees, Hands, Forward, Statuses, Alone, Unowned, Going, GoingBack,
         SwapOut
<1>11. ASSUME ~gap', owner' = 0 PROVE Going'
  BY <1>11 DEF UpdateInv, UpdateTypes, Trees, Hands, Forward, Statuses, Alone, Unowned, Going, Ended, SwapOut
<1>12. ASSUME ~gap', owner' = 0 PROVE GoingBack'
  BY <1>12
     DEF UpdateInv, UpdateTypes, Trees, Hands, Forward, Statuses, Alone, Unowned, Going, GoingBack,
         Between, Ended, SwapOut
<1>13. ASSUME ~gap', owner' = 0 PROVE Between'
  BY <1>13
     DEF UpdateInv, UpdateTypes, Trees, Hands, Forward, Statuses, Alone, Unowned, Going, GoingBack,
         Between, Ended, SwapOut
<1>14. ASSUME ~gap', owner' = 0 PROVE Ended'
  BY <1>14
     DEF UpdateInv, UpdateTypes, Trees, Hands, Forward, Statuses, Alone, Unowned, Going, GoingBack,
         Between, Ended, Kept, SwapOut
<1>15. UpdateTypes'
  BY <1>1, <1>2, <1>3, <1>4 DEF UpdateTypes, PlainTypes, TreeTypes, JournalTypes, HeldTypes
<1> QED
  BY <1>5, <1>6, <1>7, <1>8, <1>9, <1>10, <1>11, <1>12, <1>13, <1>14, <1>15 DEF UpdateInv, Alone

LEMMA SwapInKeeps ==
    ASSUME UpdateInv, SwapIn
    PROVE  UpdateInv'
<1>0. /\ env'.active = env.candidate /\ env'.previous = env.previous /\ env'.failed = env.failed
      /\ held'.swapped /\ held'.moved = held.moved /\ held'.synced = held.synced
      /\ pc = "swap_in" /\ pc' = "activated"
      /\ UNCHANGED <<setup, head, files, dirty, deployed, mark, journal, gap, hurt, risked, owner>>
  BY DEF UpdateInv, UpdateTypes, SwapIn
<1>1. PlainTypes'
  BY DEF UpdateInv, UpdateTypes, PlainTypes, SwapIn
<1>2. TreeTypes'
  BY DEF UpdateInv, UpdateTypes, TreeTypes, SwapIn
<1>3. JournalTypes'
  BY DEF UpdateInv, UpdateTypes, JournalTypes, SwapIn
<1>4. HeldTypes'
  BY DEF UpdateInv, UpdateTypes, HeldTypes, SwapIn
<1>5. Seen'
  BY DEF UpdateInv, UpdateTypes, Seen, SwapIn
<1>6. ASSUME ~gap' PROVE Trees'
  BY <1>6 DEF UpdateInv, UpdateTypes, Trees, Hands, Forward, Statuses, SwapIn
<1>7. ASSUME ~gap' PROVE Hands'
  BY <1>7 DEF UpdateInv, UpdateTypes, Trees, Hands, Forward, Statuses, SwapIn
<1>8. ASSUME ~gap' PROVE Forward'
  BY <1>8 DEF UpdateInv, UpdateTypes, Trees, Hands, Forward, Statuses, SwapIn
<1>9. ASSUME ~gap' PROVE Statuses'
  BY <1>9 DEF UpdateInv, UpdateTypes, Trees, Hands, Forward, Statuses, SwapIn
<1>10. ASSUME ~gap', owner' = 0 PROVE Unowned'
  BY <1>10 DEF UpdateInv, UpdateTypes, Trees, Hands, Forward, Statuses, Alone, Unowned, Going, GoingBack, SwapIn
<1>11. ASSUME ~gap', owner' = 0 PROVE Going'
  BY <1>11, <1>0 DEF UpdateInv, UpdateTypes, Trees, Hands, Forward, Statuses, Alone, Unowned, Going, Ended
<1>12. ASSUME ~gap', owner' = 0 PROVE GoingBack'
  BY <1>12
     DEF UpdateInv, UpdateTypes, Trees, Hands, Forward, Statuses, Alone, Unowned, Going, GoingBack,
         Between, Ended, SwapIn
<1>13. ASSUME ~gap', owner' = 0 PROVE Between'
  BY <1>13
     DEF UpdateInv, UpdateTypes, Trees, Hands, Forward, Statuses, Alone, Unowned, Going, GoingBack,
         Between, Ended, SwapIn
<1>14. ASSUME ~gap', owner' = 0 PROVE Ended'
  BY <1>14
     DEF UpdateInv, UpdateTypes, Trees, Hands, Forward, Statuses, Alone, Unowned, Going, GoingBack,
         Between, Ended, Kept, SwapIn
<1>15. UpdateTypes'
  BY <1>1, <1>2, <1>3, <1>4 DEF UpdateTypes, PlainTypes, TreeTypes, JournalTypes, HeldTypes
<1> QED
  BY <1>5, <1>6, <1>7, <1>8, <1>9, <1>10, <1>11, <1>12, <1>13, <1>14, <1>15 DEF UpdateInv, Alone

LEMMA SwapInFailsKeeps ==
    ASSUME UpdateInv, SwapInFails
    PROVE  UpdateInv'
<1>1. PlainTypes'
  BY DEF UpdateInv, UpdateTypes, PlainTypes, SwapInFails
<1>2. TreeTypes'
  BY DEF UpdateInv, UpdateTypes, TreeTypes, SwapInFails
<1>3. JournalTypes'
  BY DEF UpdateInv, UpdateTypes, JournalTypes, SwapInFails
<1>4. HeldTypes'
  BY DEF UpdateInv, UpdateTypes, HeldTypes, SwapInFails
<1>5. Seen'
  BY DEF UpdateInv, UpdateTypes, Seen, SwapInFails
<1>6. ASSUME ~gap' PROVE Trees'
  BY <1>6 DEF UpdateInv, UpdateTypes, Trees, Hands, Forward, Statuses, SwapInFails
<1>7. ASSUME ~gap' PROVE Hands'
  BY <1>7 DEF UpdateInv, UpdateTypes, Trees, Hands, Forward, Statuses, SwapInFails
<1>8. ASSUME ~gap' PROVE Forward'
  BY <1>8 DEF UpdateInv, UpdateTypes, Trees, Hands, Forward, Statuses, SwapInFails
<1>9. ASSUME ~gap' PROVE Statuses'
  BY <1>9 DEF UpdateInv, UpdateTypes, Trees, Hands, Forward, Statuses, SwapInFails
<1>10. ASSUME ~gap', owner' = 0 PROVE Unowned'
  BY <1>10
     DEF UpdateInv, UpdateTypes, Trees, Hands, Forward, Statuses, Alone, Unowned, Going, GoingBack,
         SwapInFails
<1>11. ASSUME ~gap', owner' = 0 PROVE Going'
  BY <1>11
     DEF UpdateInv, UpdateTypes, Trees, Hands, Forward, Statuses, Alone, Unowned, Going, Ended,
         SwapInFails
<1>12. ASSUME ~gap', owner' = 0 PROVE GoingBack'
  BY <1>12
     DEF UpdateInv, UpdateTypes, Trees, Hands, Forward, Statuses, Alone, Unowned, Going, GoingBack,
         Between, Ended, SwapInFails
<1>13. ASSUME ~gap', owner' = 0 PROVE Between'
  BY <1>13
     DEF UpdateInv, UpdateTypes, Trees, Hands, Forward, Statuses, Alone, Unowned, Going, GoingBack,
         Between, Ended, SwapInFails
<1>14. ASSUME ~gap', owner' = 0 PROVE Ended'
  BY <1>14
     DEF UpdateInv, UpdateTypes, Trees, Hands, Forward, Statuses, Alone, Unowned, Going, GoingBack,
         Between, Ended, Kept, SwapInFails
<1>15. UpdateTypes'
  BY <1>1, <1>2, <1>3, <1>4 DEF UpdateTypes, PlainTypes, TreeTypes, JournalTypes, HeldTypes
<1> QED
  BY <1>5, <1>6, <1>7, <1>8, <1>9, <1>10, <1>11, <1>12, <1>13, <1>14, <1>15 DEF UpdateInv, Alone

LEMMA HealthKeeps ==
    ASSUME UpdateInv, Health
    PROVE  UpdateInv'
<1>1. PlainTypes'
  BY DEF UpdateInv, UpdateTypes, PlainTypes, Health
<1>2. TreeTypes'
  BY DEF UpdateInv, UpdateTypes, TreeTypes, Health
<1>3. JournalTypes'
  BY DEF UpdateInv, UpdateTypes, JournalTypes, Health
<1>4. HeldTypes'
  BY DEF UpdateInv, UpdateTypes, HeldTypes, Health
<1>5. Seen'
  BY DEF UpdateInv, UpdateTypes, Seen, Health
<1>6. ASSUME ~gap' PROVE Trees'
  BY <1>6 DEF UpdateInv, UpdateTypes, Trees, Hands, Forward, Statuses, Health
<1>7. ASSUME ~gap' PROVE Hands'
  BY <1>7 DEF UpdateInv, UpdateTypes, Trees, Hands, Forward, Statuses, Health
<1>8. ASSUME ~gap' PROVE Forward'
  BY <1>8 DEF UpdateInv, UpdateTypes, Trees, Hands, Forward, Statuses, Health
<1>9. ASSUME ~gap' PROVE Statuses'
  BY <1>9 DEF UpdateInv, UpdateTypes, Trees, Hands, Forward, Statuses, Health
<1>10. ASSUME ~gap', owner' = 0 PROVE Unowned'
  BY <1>10 DEF UpdateInv, UpdateTypes, Trees, Hands, Forward, Statuses, Alone, Unowned, Going, GoingBack, Health
<1>11. ASSUME ~gap', owner' = 0 PROVE Going'
  BY <1>11 DEF UpdateInv, UpdateTypes, Trees, Hands, Forward, Statuses, Alone, Unowned, Going, Ended, Health
<1>12. ASSUME ~gap', owner' = 0 PROVE GoingBack'
  BY <1>12
     DEF UpdateInv, UpdateTypes, Trees, Hands, Forward, Statuses, Alone, Unowned, Going, GoingBack,
         Between, Ended, Health
<1>13. ASSUME ~gap', owner' = 0 PROVE Between'
  BY <1>13
     DEF UpdateInv, UpdateTypes, Trees, Hands, Forward, Statuses, Alone, Unowned, Going, GoingBack,
         Between, Ended, Health
<1>14. ASSUME ~gap', owner' = 0 PROVE Ended'
  BY <1>14
     DEF UpdateInv, UpdateTypes, Trees, Hands, Forward, Statuses, Alone, Unowned, Going, GoingBack,
         Between, Ended, Kept, Health
<1>15. UpdateTypes'
  BY <1>1, <1>2, <1>3, <1>4 DEF UpdateTypes, PlainTypes, TreeTypes, JournalTypes, HeldTypes
<1> QED
  BY <1>5, <1>6, <1>7, <1>8, <1>9, <1>10, <1>11, <1>12, <1>13, <1>14, <1>15 DEF UpdateInv, Alone

LEMMA WriteDeployedKeeps ==
    ASSUME UpdateInv, WriteDeployed
    PROVE  UpdateInv'
<1>1. PlainTypes'
  BY DEF UpdateInv, UpdateTypes, PlainTypes, WriteDeployed
<1>2. TreeTypes'
  BY DEF UpdateInv, UpdateTypes, TreeTypes, WriteDeployed
<1>3. JournalTypes'
  BY DEF UpdateInv, UpdateTypes, JournalTypes, WriteDeployed
<1>4. HeldTypes'
  BY DEF UpdateInv, UpdateTypes, HeldTypes, WriteDeployed
<1>5. Seen'
  BY DEF UpdateInv, UpdateTypes, Seen, WriteDeployed
<1>6. ASSUME ~gap' PROVE Trees'
  BY <1>6 DEF UpdateInv, UpdateTypes, Trees, Hands, Forward, Statuses, WriteDeployed
<1>7. ASSUME ~gap' PROVE Hands'
  BY <1>7 DEF UpdateInv, UpdateTypes, Trees, Hands, Forward, Statuses, WriteDeployed
<1>8. ASSUME ~gap' PROVE Forward'
  BY <1>8 DEF UpdateInv, UpdateTypes, Trees, Hands, Forward, Statuses, WriteDeployed
<1>9. ASSUME ~gap' PROVE Statuses'
  BY <1>9 DEF UpdateInv, UpdateTypes, Trees, Hands, Forward, Statuses, WriteDeployed
<1>10. ASSUME ~gap', owner' = 0 PROVE Unowned'
  BY <1>10
     DEF UpdateInv, UpdateTypes, Trees, Hands, Forward, Statuses, Alone, Unowned, Going, GoingBack,
         WriteDeployed
<1>11. ASSUME ~gap', owner' = 0 PROVE Going'
  BY <1>11
     DEF UpdateInv, UpdateTypes, Trees, Hands, Forward, Statuses, Alone, Unowned, Going, Ended,
         WriteDeployed
<1>12. ASSUME ~gap', owner' = 0 PROVE GoingBack'
  BY <1>12
     DEF UpdateInv, UpdateTypes, Trees, Hands, Forward, Statuses, Alone, Unowned, Going, GoingBack,
         Between, Ended, WriteDeployed
<1>13. ASSUME ~gap', owner' = 0 PROVE Between'
  BY <1>13
     DEF UpdateInv, UpdateTypes, Trees, Hands, Forward, Statuses, Alone, Unowned, Going, GoingBack,
         Between, Ended, WriteDeployed
<1>14. ASSUME ~gap', owner' = 0 PROVE Ended'
  BY <1>14
     DEF UpdateInv, UpdateTypes, Trees, Hands, Forward, Statuses, Alone, Unowned, Going, GoingBack,
         Between, Ended, Kept, WriteDeployed
<1>15. UpdateTypes'
  BY <1>1, <1>2, <1>3, <1>4 DEF UpdateTypes, PlainTypes, TreeTypes, JournalTypes, HeldTypes
<1> QED
  BY <1>5, <1>6, <1>7, <1>8, <1>9, <1>10, <1>11, <1>12, <1>13, <1>14, <1>15 DEF UpdateInv, Alone

LEMMA DeployedKeeps ==
    ASSUME UpdateInv, Deployed
    PROVE  UpdateInv'
<1>1. PlainTypes'
  BY DEF UpdateInv, UpdateTypes, PlainTypes, Deployed
<1>2. TreeTypes'
  BY DEF UpdateInv, UpdateTypes, TreeTypes, Deployed
<1>3. JournalTypes'
  BY DEF UpdateInv, UpdateTypes, JournalTypes, Deployed
<1>4. HeldTypes'
  BY DEF UpdateInv, UpdateTypes, HeldTypes, Deployed
<1>5. Seen'
  BY DEF UpdateInv, UpdateTypes, Seen, Deployed
<1>6. ASSUME ~gap' PROVE Trees'
  BY <1>6 DEF UpdateInv, UpdateTypes, Trees, Hands, Forward, Statuses, Deployed
<1>7. ASSUME ~gap' PROVE Hands'
  BY <1>7 DEF UpdateInv, UpdateTypes, Trees, Hands, Forward, Statuses, Deployed
<1>8. ASSUME ~gap' PROVE Forward'
  BY <1>8 DEF UpdateInv, UpdateTypes, Trees, Hands, Forward, Statuses, Deployed
<1>9. ASSUME ~gap' PROVE Statuses'
  BY <1>9 DEF UpdateInv, UpdateTypes, Trees, Hands, Forward, Statuses, Deployed
<1>10. ASSUME ~gap', owner' = 0 PROVE Unowned'
  BY <1>10
     DEF UpdateInv, UpdateTypes, Trees, Hands, Forward, Statuses, Alone, Unowned, Going, GoingBack,
         Deployed
<1>11. ASSUME ~gap', owner' = 0 PROVE Going'
  BY <1>11 DEF UpdateInv, UpdateTypes, Trees, Hands, Forward, Statuses, Alone, Unowned, Going, Ended, Deployed
<1>12. ASSUME ~gap', owner' = 0 PROVE GoingBack'
  BY <1>12
     DEF UpdateInv, UpdateTypes, Trees, Hands, Forward, Statuses, Alone, Unowned, Going, GoingBack,
         Between, Ended, Deployed
<1>13. ASSUME ~gap', owner' = 0 PROVE Between'
  BY <1>13
     DEF UpdateInv, UpdateTypes, Trees, Hands, Forward, Statuses, Alone, Unowned, Going, GoingBack,
         Between, Ended, Deployed
<1>14. ASSUME ~gap', owner' = 0 PROVE Ended'
  BY <1>14
     DEF UpdateInv, UpdateTypes, Trees, Hands, Forward, Statuses, Alone, Unowned, Going, GoingBack,
         Between, Ended, Kept, Deployed
<1>15. UpdateTypes'
  BY <1>1, <1>2, <1>3, <1>4 DEF UpdateTypes, PlainTypes, TreeTypes, JournalTypes, HeldTypes
<1> QED
  BY <1>5, <1>6, <1>7, <1>8, <1>9, <1>10, <1>11, <1>12, <1>13, <1>14, <1>15 DEF UpdateInv, Alone

LEMMA UnmarkKeeps ==
    ASSUME UpdateInv, Unmark
    PROVE  UpdateInv'
<1>1. PlainTypes'
  BY DEF UpdateInv, UpdateTypes, PlainTypes, Unmark
<1>2. TreeTypes'
  BY DEF UpdateInv, UpdateTypes, TreeTypes, Unmark
<1>3. JournalTypes'
  BY DEF UpdateInv, UpdateTypes, JournalTypes, Unmark
<1>4. HeldTypes'
  BY DEF UpdateInv, UpdateTypes, HeldTypes, Unmark
<1>5. Seen'
  BY DEF UpdateInv, UpdateTypes, Seen, Unmark
<1>6. ASSUME ~gap' PROVE Trees'
  BY <1>6 DEF UpdateInv, UpdateTypes, Trees, Hands, Forward, Statuses, Unmark
<1>7. ASSUME ~gap' PROVE Hands'
  BY <1>7 DEF UpdateInv, UpdateTypes, Trees, Hands, Forward, Statuses, Unmark
<1>8. ASSUME ~gap' PROVE Forward'
  BY <1>8 DEF UpdateInv, UpdateTypes, Trees, Hands, Forward, Statuses, Unmark
<1>9. ASSUME ~gap' PROVE Statuses'
  BY <1>9 DEF UpdateInv, UpdateTypes, Trees, Hands, Forward, Statuses, Unmark
<1>10. ASSUME ~gap', owner' = 0 PROVE Unowned'
  BY <1>10 DEF UpdateInv, UpdateTypes, Trees, Hands, Forward, Statuses, Alone, Unowned, Going, GoingBack, Unmark
<1>11. ASSUME ~gap', owner' = 0 PROVE Going'
  BY <1>11 DEF UpdateInv, UpdateTypes, Trees, Hands, Forward, Statuses, Alone, Unowned, Going, Ended, Unmark
<1>12. ASSUME ~gap', owner' = 0 PROVE GoingBack'
  BY <1>12
     DEF UpdateInv, UpdateTypes, Trees, Hands, Forward, Statuses, Alone, Unowned, Going, GoingBack,
         Between, Ended, Unmark
<1>13. ASSUME ~gap', owner' = 0 PROVE Between'
  BY <1>13
     DEF UpdateInv, UpdateTypes, Trees, Hands, Forward, Statuses, Alone, Unowned, Going, GoingBack,
         Between, Ended, Unmark
<1>14. ASSUME ~gap', owner' = 0 PROVE Ended'
  BY <1>14
     DEF UpdateInv, UpdateTypes, Trees, Hands, Forward, Statuses, Alone, Unowned, Going, GoingBack,
         Between, Ended, Kept, Unmark
<1>15. UpdateTypes'
  BY <1>1, <1>2, <1>3, <1>4 DEF UpdateTypes, PlainTypes, TreeTypes, JournalTypes, HeldTypes
<1> QED
  BY <1>5, <1>6, <1>7, <1>8, <1>9, <1>10, <1>11, <1>12, <1>13, <1>14, <1>15 DEF UpdateInv, Alone

LEMMA DropSomeKeeps ==
    ASSUME UpdateInv, DropSome
    PROVE  UpdateInv'
<1>1. PlainTypes'
  BY DEF UpdateInv, UpdateTypes, PlainTypes, DropSome
<1>2. TreeTypes'
  BY DEF UpdateInv, UpdateTypes, TreeTypes, DropSome
<1>3. JournalTypes'
  BY DEF UpdateInv, UpdateTypes, JournalTypes, DropSome
<1>4. HeldTypes'
  BY DEF UpdateInv, UpdateTypes, HeldTypes, DropSome
<1>5. Seen'
  BY DEF UpdateInv, UpdateTypes, Seen, DropSome
<1>6. ASSUME ~gap' PROVE Trees'
  BY <1>6 DEF UpdateInv, UpdateTypes, Trees, Hands, Forward, Statuses, DropSome
<1>7. ASSUME ~gap' PROVE Hands'
  BY <1>7 DEF UpdateInv, UpdateTypes, Trees, Hands, Forward, Statuses, DropSome
<1>8. ASSUME ~gap' PROVE Forward'
  BY <1>8 DEF UpdateInv, UpdateTypes, Trees, Hands, Forward, Statuses, DropSome
<1>9. ASSUME ~gap' PROVE Statuses'
  BY <1>9 DEF UpdateInv, UpdateTypes, Trees, Hands, Forward, Statuses, DropSome
<1>10. ASSUME ~gap', owner' = 0 PROVE Unowned'
  BY <1>10
     DEF UpdateInv, UpdateTypes, Trees, Hands, Forward, Statuses, Alone, Unowned, Going, GoingBack,
         DropSome
<1>11. ASSUME ~gap', owner' = 0 PROVE Going'
  BY <1>11 DEF UpdateInv, UpdateTypes, Trees, Hands, Forward, Statuses, Alone, Unowned, Going, Ended, DropSome
<1>12. ASSUME ~gap', owner' = 0 PROVE GoingBack'
  BY <1>12
     DEF UpdateInv, UpdateTypes, Trees, Hands, Forward, Statuses, Alone, Unowned, Going, GoingBack,
         Between, Ended, DropSome
<1>13. ASSUME ~gap', owner' = 0 PROVE Between'
  BY <1>13
     DEF UpdateInv, UpdateTypes, Trees, Hands, Forward, Statuses, Alone, Unowned, Going, GoingBack,
         Between, Ended, DropSome
<1>14. ASSUME ~gap', owner' = 0 PROVE Ended'
  BY <1>14
     DEF UpdateInv, UpdateTypes, Trees, Hands, Forward, Statuses, Alone, Unowned, Going, GoingBack,
         Between, Ended, Kept, DropSome
<1>15. UpdateTypes'
  BY <1>1, <1>2, <1>3, <1>4 DEF UpdateTypes, PlainTypes, TreeTypes, JournalTypes, HeldTypes
<1> QED
  BY <1>5, <1>6, <1>7, <1>8, <1>9, <1>10, <1>11, <1>12, <1>13, <1>14, <1>15 DEF UpdateInv, Alone

LEMMA DropRestKeeps ==
    ASSUME UpdateInv, DropRest
    PROVE  UpdateInv'
<1>1. PlainTypes'
  BY DEF UpdateInv, UpdateTypes, PlainTypes, DropRest
<1>2. TreeTypes'
  BY DEF UpdateInv, UpdateTypes, TreeTypes, DropRest
<1>3. JournalTypes'
  BY DEF UpdateInv, UpdateTypes, JournalTypes, DropRest
<1>4. HeldTypes'
  BY DEF UpdateInv, UpdateTypes, HeldTypes, DropRest
<1>5. Seen'
  BY DEF UpdateInv, UpdateTypes, Seen, DropRest
<1>6. ASSUME ~gap' PROVE Trees'
  BY <1>6 DEF UpdateInv, UpdateTypes, Trees, Hands, Forward, Statuses, DropRest
<1>7. ASSUME ~gap' PROVE Hands'
  BY <1>7 DEF UpdateInv, UpdateTypes, Trees, Hands, Forward, Statuses, DropRest
<1>8. ASSUME ~gap' PROVE Forward'
  BY <1>8 DEF UpdateInv, UpdateTypes, Trees, Hands, Forward, Statuses, DropRest
<1>9. ASSUME ~gap' PROVE Statuses'
  BY <1>9 DEF UpdateInv, UpdateTypes, Trees, Hands, Forward, Statuses, DropRest
<1>10. ASSUME ~gap', owner' = 0 PROVE Unowned'
  BY <1>10
     DEF UpdateInv, UpdateTypes, Trees, Hands, Forward, Statuses, Alone, Unowned, Going, GoingBack,
         DropRest
<1>11. ASSUME ~gap', owner' = 0 PROVE Going'
  BY <1>11 DEF UpdateInv, UpdateTypes, Trees, Hands, Forward, Statuses, Alone, Unowned, Going, Ended, DropRest
<1>12. ASSUME ~gap', owner' = 0 PROVE GoingBack'
  BY <1>12
     DEF UpdateInv, UpdateTypes, Trees, Hands, Forward, Statuses, Alone, Unowned, Going, GoingBack,
         Between, Ended, DropRest
<1>13. ASSUME ~gap', owner' = 0 PROVE Between'
  BY <1>13
     DEF UpdateInv, UpdateTypes, Trees, Hands, Forward, Statuses, Alone, Unowned, Going, GoingBack,
         Between, Ended, DropRest
<1>14. ASSUME ~gap', owner' = 0 PROVE Ended'
  BY <1>14
     DEF UpdateInv, UpdateTypes, Trees, Hands, Forward, Statuses, Alone, Unowned, Going, GoingBack,
         Between, Ended, Kept, DropRest
<1>15. UpdateTypes'
  BY <1>1, <1>2, <1>3, <1>4 DEF UpdateTypes, PlainTypes, TreeTypes, JournalTypes, HeldTypes
<1> QED
  BY <1>5, <1>6, <1>7, <1>8, <1>9, <1>10, <1>11, <1>12, <1>13, <1>14, <1>15 DEF UpdateInv, Alone

LEMMA UpdatingKeeps ==
    ASSUME UpdateInv, Checkpoint("updating", "repo_updating", "merge")
    PROVE  UpdateInv'
<1>1. PlainTypes'
  BY DEF UpdateInv, UpdateTypes, PlainTypes
<1>2. TreeTypes'
  BY DEF UpdateInv, UpdateTypes, TreeTypes
<1>3. JournalTypes'
  BY DEF UpdateInv, UpdateTypes, JournalTypes
<1>4. HeldTypes'
  BY DEF UpdateInv, UpdateTypes, HeldTypes
<1>5. Seen'
  BY DEF UpdateInv, UpdateTypes, Seen
<1>6. ASSUME ~gap' PROVE Trees'
  BY <1>6 DEF UpdateInv, UpdateTypes, Trees, Hands, Forward, Statuses
<1>7. ASSUME ~gap' PROVE Hands'
  BY <1>7 DEF UpdateInv, UpdateTypes, Trees, Hands, Forward, Statuses
<1>8. ASSUME ~gap' PROVE Forward'
  BY <1>8 DEF UpdateInv, UpdateTypes, Trees, Hands, Forward, Statuses
<1>9. ASSUME ~gap' PROVE Statuses'
  BY <1>9 DEF UpdateInv, UpdateTypes, Trees, Hands, Forward, Statuses
<1>10. ASSUME ~gap', owner' = 0 PROVE Unowned'
  BY <1>10 DEF UpdateInv, UpdateTypes, Trees, Hands, Forward, Statuses, Alone, Unowned, Going, GoingBack
<1>11. ASSUME ~gap', owner' = 0 PROVE Going'
  BY <1>11 DEF UpdateInv, UpdateTypes, Trees, Hands, Forward, Statuses, Alone, Unowned, Going, Ended
<1>12. ASSUME ~gap', owner' = 0 PROVE GoingBack'
  BY <1>12
     DEF UpdateInv, UpdateTypes, Trees, Hands, Forward, Statuses, Alone, Unowned, Going, GoingBack,
         Between, Ended
<1>13. ASSUME ~gap', owner' = 0 PROVE Between'
  BY <1>13
     DEF UpdateInv, UpdateTypes, Trees, Hands, Forward, Statuses, Alone, Unowned, Going, GoingBack,
         Between, Ended
<1>14. ASSUME ~gap', owner' = 0 PROVE Ended'
  BY <1>14
     DEF UpdateInv, UpdateTypes, Trees, Hands, Forward, Statuses, Alone, Unowned, Going, GoingBack,
         Between, Ended, Kept
<1>15. UpdateTypes'
  BY <1>1, <1>2, <1>3, <1>4 DEF UpdateTypes, PlainTypes, TreeTypes, JournalTypes, HeldTypes
<1> QED
  BY <1>5, <1>6, <1>7, <1>8, <1>9, <1>10, <1>11, <1>12, <1>13, <1>14, <1>15 DEF UpdateInv, Alone

LEMMA MergedKeeps ==
    ASSUME UpdateInv, Checkpoint("merged", "repo_updated", "syncing")
    PROVE  UpdateInv'
<1>1. PlainTypes'
  BY DEF UpdateInv, UpdateTypes, PlainTypes
<1>2. TreeTypes'
  BY DEF UpdateInv, UpdateTypes, TreeTypes
<1>3. JournalTypes'
  BY DEF UpdateInv, UpdateTypes, JournalTypes
<1>4. HeldTypes'
  BY DEF UpdateInv, UpdateTypes, HeldTypes
<1>5. Seen'
  BY DEF UpdateInv, UpdateTypes, Seen
<1>6. ASSUME ~gap' PROVE Trees'
  BY <1>6 DEF UpdateInv, UpdateTypes, Trees, Hands, Forward, Statuses
<1>7. ASSUME ~gap' PROVE Hands'
  BY <1>7 DEF UpdateInv, UpdateTypes, Trees, Hands, Forward, Statuses
<1>8. ASSUME ~gap' PROVE Forward'
  BY <1>8 DEF UpdateInv, UpdateTypes, Trees, Hands, Forward, Statuses
<1>9. ASSUME ~gap' PROVE Statuses'
  BY <1>9 DEF UpdateInv, UpdateTypes, Trees, Hands, Forward, Statuses
<1>10. ASSUME ~gap', owner' = 0 PROVE Unowned'
  BY <1>10 DEF UpdateInv, UpdateTypes, Trees, Hands, Forward, Statuses, Alone, Unowned, Going, GoingBack
<1>11. ASSUME ~gap', owner' = 0 PROVE Going'
  BY <1>11 DEF UpdateInv, UpdateTypes, Trees, Hands, Forward, Statuses, Alone, Unowned, Going, Ended
<1>12. ASSUME ~gap', owner' = 0 PROVE GoingBack'
  BY <1>12
     DEF UpdateInv, UpdateTypes, Trees, Hands, Forward, Statuses, Alone, Unowned, Going, GoingBack,
         Between, Ended
<1>13. ASSUME ~gap', owner' = 0 PROVE Between'
  BY <1>13
     DEF UpdateInv, UpdateTypes, Trees, Hands, Forward, Statuses, Alone, Unowned, Going, GoingBack,
         Between, Ended
<1>14. ASSUME ~gap', owner' = 0 PROVE Ended'
  BY <1>14
     DEF UpdateInv, UpdateTypes, Trees, Hands, Forward, Statuses, Alone, Unowned, Going, GoingBack,
         Between, Ended, Kept
<1>15. UpdateTypes'
  BY <1>1, <1>2, <1>3, <1>4 DEF UpdateTypes, PlainTypes, TreeTypes, JournalTypes, HeldTypes
<1> QED
  BY <1>5, <1>6, <1>7, <1>8, <1>9, <1>10, <1>11, <1>12, <1>13, <1>14, <1>15 DEF UpdateInv, Alone

LEMMA ActivatedKeeps ==
    ASSUME UpdateInv, Checkpoint("activated", "dependencies_activated", "restarting")
    PROVE  UpdateInv'
<1>1. PlainTypes'
  BY DEF UpdateInv, UpdateTypes, PlainTypes
<1>2. TreeTypes'
  BY DEF UpdateInv, UpdateTypes, TreeTypes
<1>3. JournalTypes'
  BY DEF UpdateInv, UpdateTypes, JournalTypes
<1>4. HeldTypes'
  BY DEF UpdateInv, UpdateTypes, HeldTypes
<1>5. Seen'
  BY DEF UpdateInv, UpdateTypes, Seen
<1>6. ASSUME ~gap' PROVE Trees'
  BY <1>6 DEF UpdateInv, UpdateTypes, Trees, Hands, Forward, Statuses
<1>7. ASSUME ~gap' PROVE Hands'
  BY <1>7 DEF UpdateInv, UpdateTypes, Trees, Hands, Forward, Statuses
<1>8. ASSUME ~gap' PROVE Forward'
  BY <1>8 DEF UpdateInv, UpdateTypes, Trees, Hands, Forward, Statuses
<1>9. ASSUME ~gap' PROVE Statuses'
  BY <1>9 DEF UpdateInv, UpdateTypes, Trees, Hands, Forward, Statuses
<1>10. ASSUME ~gap', owner' = 0 PROVE Unowned'
  BY <1>10 DEF UpdateInv, UpdateTypes, Trees, Hands, Forward, Statuses, Alone, Unowned, Going, GoingBack
<1>11. ASSUME ~gap', owner' = 0 PROVE Going'
  BY <1>11 DEF UpdateInv, UpdateTypes, Trees, Hands, Forward, Statuses, Alone, Unowned, Going, Ended
<1>12. ASSUME ~gap', owner' = 0 PROVE GoingBack'
  BY <1>12
     DEF UpdateInv, UpdateTypes, Trees, Hands, Forward, Statuses, Alone, Unowned, Going, GoingBack,
         Between, Ended
<1>13. ASSUME ~gap', owner' = 0 PROVE Between'
  BY <1>13
     DEF UpdateInv, UpdateTypes, Trees, Hands, Forward, Statuses, Alone, Unowned, Going, GoingBack,
         Between, Ended
<1>14. ASSUME ~gap', owner' = 0 PROVE Ended'
  BY <1>14
     DEF UpdateInv, UpdateTypes, Trees, Hands, Forward, Statuses, Alone, Unowned, Going, GoingBack,
         Between, Ended, Kept
<1>15. UpdateTypes'
  BY <1>1, <1>2, <1>3, <1>4 DEF UpdateTypes, PlainTypes, TreeTypes, JournalTypes, HeldTypes
<1> QED
  BY <1>5, <1>6, <1>7, <1>8, <1>9, <1>10, <1>11, <1>12, <1>13, <1>14, <1>15 DEF UpdateInv, Alone

LEMMA RestartingKeeps ==
    ASSUME UpdateInv, Checkpoint("restarting", "restarting", "health")
    PROVE  UpdateInv'
<1>1. PlainTypes'
  BY DEF UpdateInv, UpdateTypes, PlainTypes
<1>2. TreeTypes'
  BY DEF UpdateInv, UpdateTypes, TreeTypes
<1>3. JournalTypes'
  BY DEF UpdateInv, UpdateTypes, JournalTypes
<1>4. HeldTypes'
  BY DEF UpdateInv, UpdateTypes, HeldTypes
<1>5. Seen'
  BY DEF UpdateInv, UpdateTypes, Seen
<1>6. ASSUME ~gap' PROVE Trees'
  BY <1>6 DEF UpdateInv, UpdateTypes, Trees, Hands, Forward, Statuses
<1>7. ASSUME ~gap' PROVE Hands'
  BY <1>7 DEF UpdateInv, UpdateTypes, Trees, Hands, Forward, Statuses
<1>8. ASSUME ~gap' PROVE Forward'
  BY <1>8 DEF UpdateInv, UpdateTypes, Trees, Hands, Forward, Statuses
<1>9. ASSUME ~gap' PROVE Statuses'
  BY <1>9 DEF UpdateInv, UpdateTypes, Trees, Hands, Forward, Statuses
<1>10. ASSUME ~gap', owner' = 0 PROVE Unowned'
  BY <1>10 DEF UpdateInv, UpdateTypes, Trees, Hands, Forward, Statuses, Alone, Unowned, Going, GoingBack
<1>11. ASSUME ~gap', owner' = 0 PROVE Going'
  BY <1>11 DEF UpdateInv, UpdateTypes, Trees, Hands, Forward, Statuses, Alone, Unowned, Going, Ended
<1>12. ASSUME ~gap', owner' = 0 PROVE GoingBack'
  BY <1>12
     DEF UpdateInv, UpdateTypes, Trees, Hands, Forward, Statuses, Alone, Unowned, Going, GoingBack,
         Between, Ended
<1>13. ASSUME ~gap', owner' = 0 PROVE Between'
  BY <1>13
     DEF UpdateInv, UpdateTypes, Trees, Hands, Forward, Statuses, Alone, Unowned, Going, GoingBack,
         Between, Ended
<1>14. ASSUME ~gap', owner' = 0 PROVE Ended'
  BY <1>14
     DEF UpdateInv, UpdateTypes, Trees, Hands, Forward, Statuses, Alone, Unowned, Going, GoingBack,
         Between, Ended, Kept
<1>15. UpdateTypes'
  BY <1>1, <1>2, <1>3, <1>4 DEF UpdateTypes, PlainTypes, TreeTypes, JournalTypes, HeldTypes
<1> QED
  BY <1>5, <1>6, <1>7, <1>8, <1>9, <1>10, <1>11, <1>12, <1>13, <1>14, <1>15 DEF UpdateInv, Alone

LEMMA VerifiedKeeps ==
    ASSUME UpdateInv, Checkpoint("verified", "health_verified", "deploy")
    PROVE  UpdateInv'
<1>1. PlainTypes'
  BY DEF UpdateInv, UpdateTypes, PlainTypes
<1>2. TreeTypes'
  BY DEF UpdateInv, UpdateTypes, TreeTypes
<1>3. JournalTypes'
  BY DEF UpdateInv, UpdateTypes, JournalTypes
<1>4. HeldTypes'
  BY DEF UpdateInv, UpdateTypes, HeldTypes
<1>5. Seen'
  BY DEF UpdateInv, UpdateTypes, Seen
<1>6. ASSUME ~gap' PROVE Trees'
  BY <1>6 DEF UpdateInv, UpdateTypes, Trees, Hands, Forward, Statuses
<1>7. ASSUME ~gap' PROVE Hands'
  BY <1>7 DEF UpdateInv, UpdateTypes, Trees, Hands, Forward, Statuses
<1>8. ASSUME ~gap' PROVE Forward'
  BY <1>8 DEF UpdateInv, UpdateTypes, Trees, Hands, Forward, Statuses
<1>9. ASSUME ~gap' PROVE Statuses'
  BY <1>9 DEF UpdateInv, UpdateTypes, Trees, Hands, Forward, Statuses
<1>10. ASSUME ~gap', owner' = 0 PROVE Unowned'
  BY <1>10 DEF UpdateInv, UpdateTypes, Trees, Hands, Forward, Statuses, Alone, Unowned, Going, GoingBack
<1>11. ASSUME ~gap', owner' = 0 PROVE Going'
  BY <1>11 DEF UpdateInv, UpdateTypes, Trees, Hands, Forward, Statuses, Alone, Unowned, Going, Ended
<1>12. ASSUME ~gap', owner' = 0 PROVE GoingBack'
  BY <1>12
     DEF UpdateInv, UpdateTypes, Trees, Hands, Forward, Statuses, Alone, Unowned, Going, GoingBack,
         Between, Ended
<1>13. ASSUME ~gap', owner' = 0 PROVE Between'
  BY <1>13
     DEF UpdateInv, UpdateTypes, Trees, Hands, Forward, Statuses, Alone, Unowned, Going, GoingBack,
         Between, Ended
<1>14. ASSUME ~gap', owner' = 0 PROVE Ended'
  BY <1>14
     DEF UpdateInv, UpdateTypes, Trees, Hands, Forward, Statuses, Alone, Unowned, Going, GoingBack,
         Between, Ended, Kept
<1>15. UpdateTypes'
  BY <1>1, <1>2, <1>3, <1>4 DEF UpdateTypes, PlainTypes, TreeTypes, JournalTypes, HeldTypes
<1> QED
  BY <1>5, <1>6, <1>7, <1>8, <1>9, <1>10, <1>11, <1>12, <1>13, <1>14, <1>15 DEF UpdateInv, Alone

LEMMA CommitStartedKeeps ==
    ASSUME UpdateInv, Checkpoint("commit", "dependency_commit_started", "unmark")
    PROVE  UpdateInv'
<1>1. PlainTypes'
  BY DEF UpdateInv, UpdateTypes, PlainTypes
<1>2. TreeTypes'
  BY DEF UpdateInv, UpdateTypes, TreeTypes
<1>3. JournalTypes'
  BY DEF UpdateInv, UpdateTypes, JournalTypes
<1>4. HeldTypes'
  BY DEF UpdateInv, UpdateTypes, HeldTypes
<1>5. Seen'
  BY DEF UpdateInv, UpdateTypes, Seen
<1>6. ASSUME ~gap' PROVE Trees'
  BY <1>6 DEF UpdateInv, UpdateTypes, Trees, Hands, Forward, Statuses
<1>7. ASSUME ~gap' PROVE Hands'
  BY <1>7 DEF UpdateInv, UpdateTypes, Trees, Hands, Forward, Statuses
<1>8. ASSUME ~gap' PROVE Forward'
  BY <1>8 DEF UpdateInv, UpdateTypes, Trees, Hands, Forward, Statuses
<1>9. ASSUME ~gap' PROVE Statuses'
  BY <1>9 DEF UpdateInv, UpdateTypes, Trees, Hands, Forward, Statuses
<1>10. ASSUME ~gap', owner' = 0 PROVE Unowned'
  BY <1>10 DEF UpdateInv, UpdateTypes, Trees, Hands, Forward, Statuses, Alone, Unowned, Going, GoingBack
<1>11. ASSUME ~gap', owner' = 0 PROVE Going'
  BY <1>11 DEF UpdateInv, UpdateTypes, Trees, Hands, Forward, Statuses, Alone, Unowned, Going, Ended
<1>12. ASSUME ~gap', owner' = 0 PROVE GoingBack'
  BY <1>12
     DEF UpdateInv, UpdateTypes, Trees, Hands, Forward, Statuses, Alone, Unowned, Going, GoingBack,
         Between, Ended
<1>13. ASSUME ~gap', owner' = 0 PROVE Between'
  BY <1>13
     DEF UpdateInv, UpdateTypes, Trees, Hands, Forward, Statuses, Alone, Unowned, Going, GoingBack,
         Between, Ended
<1>14. ASSUME ~gap', owner' = 0 PROVE Ended'
  BY <1>14
     DEF UpdateInv, UpdateTypes, Trees, Hands, Forward, Statuses, Alone, Unowned, Going, GoingBack,
         Between, Ended, Kept
<1>15. UpdateTypes'
  BY <1>1, <1>2, <1>3, <1>4 DEF UpdateTypes, PlainTypes, TreeTypes, JournalTypes, HeldTypes
<1> QED
  BY <1>5, <1>6, <1>7, <1>8, <1>9, <1>10, <1>11, <1>12, <1>13, <1>14, <1>15 DEF UpdateInv, Alone

LEMMA EnvCommittedKeeps ==
    ASSUME UpdateInv, Checkpoint("committed", "dependency_committed", "finish")
    PROVE  UpdateInv'
<1>1. PlainTypes'
  BY DEF UpdateInv, UpdateTypes, PlainTypes
<1>2. TreeTypes'
  BY DEF UpdateInv, UpdateTypes, TreeTypes
<1>3. JournalTypes'
  BY DEF UpdateInv, UpdateTypes, JournalTypes
<1>4. HeldTypes'
  BY DEF UpdateInv, UpdateTypes, HeldTypes
<1>5. Seen'
  BY DEF UpdateInv, UpdateTypes, Seen
<1>6. ASSUME ~gap' PROVE Trees'
  BY <1>6 DEF UpdateInv, UpdateTypes, Trees, Hands, Forward, Statuses
<1>7. ASSUME ~gap' PROVE Hands'
  BY <1>7 DEF UpdateInv, UpdateTypes, Trees, Hands, Forward, Statuses
<1>8. ASSUME ~gap' PROVE Forward'
  BY <1>8 DEF UpdateInv, UpdateTypes, Trees, Hands, Forward, Statuses
<1>9. ASSUME ~gap' PROVE Statuses'
  BY <1>9 DEF UpdateInv, UpdateTypes, Trees, Hands, Forward, Statuses
<1>10. ASSUME ~gap', owner' = 0 PROVE Unowned'
  BY <1>10 DEF UpdateInv, UpdateTypes, Trees, Hands, Forward, Statuses, Alone, Unowned, Going, GoingBack
<1>11. ASSUME ~gap', owner' = 0 PROVE Going'
  BY <1>11 DEF UpdateInv, UpdateTypes, Trees, Hands, Forward, Statuses, Alone, Unowned, Going, Ended
<1>12. ASSUME ~gap', owner' = 0 PROVE GoingBack'
  BY <1>12
     DEF UpdateInv, UpdateTypes, Trees, Hands, Forward, Statuses, Alone, Unowned, Going, GoingBack,
         Between, Ended
<1>13. ASSUME ~gap', owner' = 0 PROVE Between'
  BY <1>13
     DEF UpdateInv, UpdateTypes, Trees, Hands, Forward, Statuses, Alone, Unowned, Going, GoingBack,
         Between, Ended
<1>14. ASSUME ~gap', owner' = 0 PROVE Ended'
  BY <1>14
     DEF UpdateInv, UpdateTypes, Trees, Hands, Forward, Statuses, Alone, Unowned, Going, GoingBack,
         Between, Ended, Kept
<1>15. UpdateTypes'
  BY <1>1, <1>2, <1>3, <1>4 DEF UpdateTypes, PlainTypes, TreeTypes, JournalTypes, HeldTypes
<1> QED
  BY <1>5, <1>6, <1>7, <1>8, <1>9, <1>10, <1>11, <1>12, <1>13, <1>14, <1>15 DEF UpdateInv, Alone

LEMMA FinishedKeeps ==
    ASSUME UpdateInv, Checkpoint("finish", "completed", "idle")
    PROVE  UpdateInv'
<1>1. PlainTypes'
  BY DEF UpdateInv, UpdateTypes, PlainTypes
<1>2. TreeTypes'
  BY DEF UpdateInv, UpdateTypes, TreeTypes
<1>3. JournalTypes'
  BY DEF UpdateInv, UpdateTypes, JournalTypes
<1>4. HeldTypes'
  BY DEF UpdateInv, UpdateTypes, HeldTypes
<1>5. Seen'
  BY DEF UpdateInv, UpdateTypes, Seen
<1>6. ASSUME ~gap' PROVE Trees'
  BY <1>6 DEF UpdateInv, UpdateTypes, Trees, Hands, Forward, Statuses
<1>7. ASSUME ~gap' PROVE Hands'
  BY <1>7 DEF UpdateInv, UpdateTypes, Trees, Hands, Forward, Statuses
<1>8. ASSUME ~gap' PROVE Forward'
  BY <1>8 DEF UpdateInv, UpdateTypes, Trees, Hands, Forward, Statuses
<1>9. ASSUME ~gap' PROVE Statuses'
  BY <1>9 DEF UpdateInv, UpdateTypes, Trees, Hands, Forward, Statuses
<1>10. ASSUME ~gap', owner' = 0 PROVE Unowned'
  BY <1>10 DEF UpdateInv, UpdateTypes, Trees, Hands, Forward, Statuses, Alone, Unowned, Going, GoingBack
<1>11. ASSUME ~gap', owner' = 0 PROVE Going'
  BY <1>11 DEF UpdateInv, UpdateTypes, Trees, Hands, Forward, Statuses, Alone, Unowned, Going, Ended
<1>12. ASSUME ~gap', owner' = 0 PROVE GoingBack'
  BY <1>12
     DEF UpdateInv, UpdateTypes, Trees, Hands, Forward, Statuses, Alone, Unowned, Going, GoingBack,
         Between, Ended
<1>13. ASSUME ~gap', owner' = 0 PROVE Between'
  BY <1>13
     DEF UpdateInv, UpdateTypes, Trees, Hands, Forward, Statuses, Alone, Unowned, Going, GoingBack,
         Between, Ended
<1>14. ASSUME ~gap', owner' = 0 PROVE Ended'
  BY <1>14
     DEF UpdateInv, UpdateTypes, Trees, Hands, Forward, Statuses, Alone, Unowned, Going, GoingBack,
         Between, Ended, Kept
<1>15. UpdateTypes'
  BY <1>1, <1>2, <1>3, <1>4 DEF UpdateTypes, PlainTypes, TreeTypes, JournalTypes, HeldTypes
<1> QED
  BY <1>5, <1>6, <1>7, <1>8, <1>9, <1>10, <1>11, <1>12, <1>13, <1>14, <1>15 DEF UpdateInv, Alone

\* What the rollback notes, and what a recovery that gives up records.
LEMMA NotesAre ==
    ASSUME UpdateTypes, NEW parts \in SUBSET Part, Notes(parts)
    PROVE  /\ HeldTypes' /\ held'.undone = held.undone \cup parts
           /\ held'.moved = held.moved /\ held'.synced = held.synced /\ held'.env = held.env
           /\ held'.swapped = held.swapped /\ held'.carried = held.carried
BY DEF UpdateTypes, HeldTypes, Notes

LEMMA GivesUpIs ==
    ASSUME UpdateTypes, NEW parts \in SUBSET Part, GivesUp(parts)
    PROVE  /\ JournalTypes' /\ journal'.status = "recovery_failed" /\ journal'.undone = parts
           /\ journal'.synced = journal.synced /\ journal'.env = journal.env
           /\ journal'.before = journal.before /\ pc' = "idle"
BY DEF UpdateTypes, JournalTypes, GivesUp

LEMMA RollbackKeeps ==
    ASSUME UpdateInv, Rollback
    PROVE  UpdateInv'
<1>0. /\ UNCHANGED <<setup, head, dirty, files, deployed, env, mark, gap, hurt, risked, owner>>
      /\ JournalTypes' /\ journal'.status = "rolling_back" /\ journal'.synced = held.synced /\ journal'.env = held.env
      /\ journal'.undone = journal.undone /\ journal'.before = journal.before /\ pc = "rollback"
      /\ \/ pc' = "rb_out" /\ held' = held /\ held.swapped /\ EnvMatches
         \/ pc' = "rb_repo" /\ ~held.swapped /\ Notes({})
         \/ pc' = "rb_repo" /\ held.swapped /\ ~EnvMatches /\ Notes({"env"})
  BY DEF UpdateInv, UpdateTypes, JournalTypes, Rollback, RollbackEnv
<1>1. PlainTypes'
  BY <1>0, NotesAre, GivesUpIs DEF UpdateInv, UpdateTypes, PlainTypes
<1>2. TreeTypes'
  BY <1>0, NotesAre, GivesUpIs DEF UpdateInv, UpdateTypes, TreeTypes
<1>3. JournalTypes'
  BY <1>0, NotesAre, GivesUpIs DEF UpdateInv, UpdateTypes, JournalTypes
<1>4. HeldTypes'
  BY <1>0, NotesAre, GivesUpIs DEF UpdateInv, UpdateTypes, HeldTypes
<1>5. Seen'
  BY <1>0, NotesAre, GivesUpIs DEF UpdateInv, UpdateTypes, Seen
<1>6. ASSUME ~gap' PROVE Trees'
  BY <1>6, <1>0, NotesAre, GivesUpIs DEF UpdateInv, UpdateTypes, Trees, Hands, Forward, Statuses
<1>7. ASSUME ~gap' PROVE Hands'
  BY <1>7, <1>0, NotesAre, GivesUpIs DEF UpdateInv, UpdateTypes, Trees, Hands, Forward, Statuses
<1>8. ASSUME ~gap' PROVE Forward'
  BY <1>8, <1>0, NotesAre, GivesUpIs DEF UpdateInv, UpdateTypes, Trees, Hands, Forward, Statuses
<1>9. ASSUME ~gap' PROVE Statuses'
  BY <1>9, <1>0, NotesAre, GivesUpIs DEF UpdateInv, UpdateTypes, Trees, Hands, Forward, Statuses
<1>10. ASSUME ~gap', owner' = 0 PROVE Unowned'
  BY <1>10, <1>0, NotesAre, GivesUpIs
     DEF UpdateInv, UpdateTypes, Trees, Hands, Forward, Statuses, Alone, Unowned, Going, GoingBack
<1>11. ASSUME ~gap', owner' = 0 PROVE Going'
  BY <1>11, <1>0, NotesAre, GivesUpIs
     DEF UpdateInv, UpdateTypes, Trees, Hands, Forward, Statuses, Alone, Unowned, Going, Ended
<1>12. ASSUME ~gap', owner' = 0 PROVE GoingBack'
  BY <1>12, <1>0, NotesAre, GivesUpIs
     DEF UpdateInv, UpdateTypes, Trees, Hands, Forward, Statuses, Alone, Unowned, Going, GoingBack,
         Between, Ended
<1>13. ASSUME ~gap', owner' = 0 PROVE Between'
  BY <1>13, <1>0, NotesAre, GivesUpIs
     DEF UpdateInv, UpdateTypes, Trees, Hands, Forward, Statuses, Alone, Unowned, Going, GoingBack,
         Between, Ended
<1>14. ASSUME ~gap', owner' = 0 PROVE Ended'
  BY <1>14, <1>0, NotesAre, GivesUpIs
     DEF UpdateInv, UpdateTypes, Trees, Hands, Forward, Statuses, Alone, Unowned, Going, GoingBack,
         Between, Ended, Kept
<1>15. UpdateTypes'
  BY <1>1, <1>2, <1>3, <1>4 DEF UpdateTypes, PlainTypes, TreeTypes, JournalTypes, HeldTypes
<1> QED
  BY <1>5, <1>6, <1>7, <1>8, <1>9, <1>10, <1>11, <1>12, <1>13, <1>14, <1>15 DEF UpdateInv, Alone

LEMMA TreeOutKeeps ==
    ASSUME UpdateInv, TreeOut("rb_out", "rb_in") \/ TreeOut("rec_out", "rec_in")
    PROVE  UpdateInv'
<1>0. /\ env'.active = "none" /\ env'.previous = env.previous
      /\ UNCHANGED <<setup, head, dirty, files, deployed, mark, journal, held, gap, hurt, risked, owner>>
      /\ (pc = "rb_out" /\ pc' = "rb_in") \/ (pc = "rec_out" /\ pc' = "rec_in")
  BY DEF UpdateInv, UpdateTypes, TreeOut
<1>1. PlainTypes'
  BY DEF UpdateInv, UpdateTypes, PlainTypes, TreeOut
<1>2. TreeTypes'
  BY DEF UpdateInv, UpdateTypes, TreeTypes, TreeOut
<1>3. JournalTypes'
  BY DEF UpdateInv, UpdateTypes, JournalTypes, TreeOut
<1>4. HeldTypes'
  BY DEF UpdateInv, UpdateTypes, HeldTypes, TreeOut
<1>5. Seen'
  BY <1>0 DEF UpdateInv, UpdateTypes, Seen
<1>6. ASSUME ~gap' PROVE Trees'
  BY <1>6, <1>0 DEF UpdateInv, UpdateTypes, Trees, Hands, Forward, Statuses
<1>7. ASSUME ~gap' PROVE Hands'
  BY <1>7, <1>0 DEF UpdateInv, UpdateTypes, Trees, Hands, Forward, Statuses
<1>8. ASSUME ~gap' PROVE Forward'
  BY <1>8, <1>0 DEF UpdateInv, UpdateTypes, Trees, Hands, Forward, Statuses
<1>9. ASSUME ~gap' PROVE Statuses'
  BY <1>9, <1>0 DEF UpdateInv, UpdateTypes, Trees, Hands, Forward, Statuses
<1>10. ASSUME ~gap', owner' = 0 PROVE Unowned'
  BY <1>10, <1>0 DEF UpdateInv, UpdateTypes, Trees, Hands, Forward, Statuses, Alone, Unowned, Going, GoingBack
<1>11. ASSUME ~gap', owner' = 0 PROVE Going'
  BY <1>11, <1>0 DEF UpdateInv, UpdateTypes, Trees, Hands, Forward, Statuses, Alone, Unowned, Going, Ended
<1>12. ASSUME ~gap', owner' = 0 PROVE GoingBack'
  BY <1>12, <1>0
     DEF UpdateInv, UpdateTypes, Trees, Hands, Forward, Statuses, Alone, Unowned, Going, GoingBack,
         Between, Ended
<1>13. ASSUME ~gap', owner' = 0 PROVE Between'
  BY <1>13, <1>0
     DEF UpdateInv, UpdateTypes, Trees, Hands, Forward, Statuses, Alone, Unowned, Going, GoingBack,
         Between, Ended
<1>14. ASSUME ~gap', owner' = 0 PROVE Ended'
  BY <1>14, <1>0
     DEF UpdateInv, UpdateTypes, Trees, Hands, Forward, Statuses, Alone, Unowned, Going, GoingBack,
         Between, Ended, Kept
<1>15. UpdateTypes'
  BY <1>1, <1>2, <1>3, <1>4 DEF UpdateTypes, PlainTypes, TreeTypes, JournalTypes, HeldTypes
<1> QED
  BY <1>5, <1>6, <1>7, <1>8, <1>9, <1>10, <1>11, <1>12, <1>13, <1>14, <1>15 DEF UpdateInv, Alone

LEMMA TreeInKeeps ==
    ASSUME UpdateInv, TreeIn("rb_in", "rb_repo") \/ TreeIn("rec_in", "rec_repo")
    PROVE  UpdateInv'
<1>0. /\ UNCHANGED <<setup, head, dirty, files, deployed, gap, hurt, risked, owner>>
      /\ \/ /\ env.active = "none" /\ env'.active = env.previous /\ env'.previous = "none" /\ ~mark'
            /\ UNCHANGED <<journal, held>>
            /\ (pc = "rb_in" /\ pc' = "rb_repo") \/ (pc = "rec_in" /\ pc' = "rec_repo")
         \/ /\ env.active # "none" /\ pc = "rb_in" /\ pc' = "rb_repo" /\ Notes({"env"})
            /\ UNCHANGED <<env, mark, journal>>
         \/ env.active # "none" /\ pc = "rec_in" /\ GivesUp(Part) /\ UNCHANGED <<env, mark, held>>
      /\ mark' \in BOOLEAN
  BY DEF UpdateInv, UpdateTypes, TreeIn, EnvNotBack
<1>1. PlainTypes'
  BY <1>0, NotesAre, GivesUpIs DEF UpdateInv, UpdateTypes, PlainTypes
<1>2. TreeTypes'
  BY <1>0 DEF UpdateInv, UpdateTypes, TreeTypes, TreeIn, EnvNotBack, Notes, GivesUp
<1>3. JournalTypes'
  BY <1>0, NotesAre, GivesUpIs DEF UpdateInv, UpdateTypes, JournalTypes
<1>4. HeldTypes'
  BY <1>0, NotesAre, GivesUpIs DEF UpdateInv, UpdateTypes, HeldTypes
<1>5. Seen'
  BY <1>0, NotesAre, GivesUpIs DEF UpdateInv, UpdateTypes, Seen
<1>6. ASSUME ~gap' PROVE Trees'
  BY <1>6, <1>0, NotesAre, GivesUpIs DEF UpdateInv, UpdateTypes, Trees, Hands, Forward, Statuses
<1>7. ASSUME ~gap' PROVE Hands'
  BY <1>7, <1>0, NotesAre, GivesUpIs DEF UpdateInv, UpdateTypes, Trees, Hands, Forward, Statuses
<1>8. ASSUME ~gap' PROVE Forward'
  BY <1>8, <1>0, NotesAre, GivesUpIs DEF UpdateInv, UpdateTypes, Trees, Hands, Forward, Statuses
<1>9. ASSUME ~gap' PROVE Statuses'
  BY <1>9, <1>0, NotesAre, GivesUpIs DEF UpdateInv, UpdateTypes, Trees, Hands, Forward, Statuses
<1>10. ASSUME ~gap', owner' = 0 PROVE Unowned'
  BY <1>10, <1>0, NotesAre, GivesUpIs
     DEF UpdateInv, UpdateTypes, Trees, Hands, Forward, Statuses, Alone, Unowned, Going, GoingBack
<1>11. ASSUME ~gap', owner' = 0 PROVE Going'
  BY <1>11, <1>0, NotesAre, GivesUpIs
     DEF UpdateInv, UpdateTypes, Trees, Hands, Forward, Statuses, Alone, Unowned, Going, Ended
<1>12. ASSUME ~gap', owner' = 0 PROVE GoingBack'
  BY <1>12, <1>0, NotesAre, GivesUpIs
     DEF UpdateInv, UpdateTypes, Trees, Hands, Forward, Statuses, Alone, Unowned, Going, GoingBack,
         Between, Ended
<1>13. ASSUME ~gap', owner' = 0 PROVE Between'
  BY <1>13, <1>0, NotesAre, GivesUpIs
     DEF UpdateInv, UpdateTypes, Trees, Hands, Forward, Statuses, Alone, Unowned, Going, GoingBack,
         Between, Ended
<1>14. ASSUME ~gap', owner' = 0 PROVE Ended'
  BY <1>14, <1>0, NotesAre, GivesUpIs
     DEF UpdateInv, UpdateTypes, Trees, Hands, Forward, Statuses, Alone, Unowned, Going, GoingBack,
         Between, Ended, Kept
<1>15. UpdateTypes'
  BY <1>1, <1>2, <1>3, <1>4 DEF UpdateTypes, PlainTypes, TreeTypes, JournalTypes, HeldTypes
<1> QED
  BY <1>5, <1>6, <1>7, <1>8, <1>9, <1>10, <1>11, <1>12, <1>13, <1>14, <1>15 DEF UpdateInv, Alone

LEMMA RollbackRepoKeeps ==
    ASSUME UpdateInv, RollbackRepo
    PROVE  UpdateInv'
<1>1. PlainTypes'
  BY DEF UpdateInv, UpdateTypes, PlainTypes, RollbackRepo, Notes
<1>2. TreeTypes'
  BY DEF UpdateInv, UpdateTypes, TreeTypes, RollbackRepo, Notes
<1>3. JournalTypes'
  BY DEF UpdateInv, UpdateTypes, JournalTypes, RollbackRepo, Notes
<1>4. HeldTypes'
  BY DEF UpdateInv, UpdateTypes, HeldTypes, RollbackRepo, Notes
<1>5. Seen'
  BY DEF UpdateInv, UpdateTypes, Seen, RollbackRepo, Notes
<1>6. ASSUME ~gap' PROVE Trees'
  BY <1>6 DEF UpdateInv, UpdateTypes, Trees, Hands, Forward, Statuses, RollbackRepo, Notes
<1>7. ASSUME ~gap' PROVE Hands'
  BY <1>7 DEF UpdateInv, UpdateTypes, Trees, Hands, Forward, Statuses, RollbackRepo, Notes
<1>8. ASSUME ~gap' PROVE Forward'
  BY <1>8 DEF UpdateInv, UpdateTypes, Trees, Hands, Forward, Statuses, RollbackRepo, Notes
<1>9. ASSUME ~gap' PROVE Statuses'
  BY <1>9 DEF UpdateInv, UpdateTypes, Trees, Hands, Forward, Statuses, RollbackRepo, Notes
<1>10. ASSUME ~gap', owner' = 0 PROVE Unowned'
  BY <1>10
     DEF UpdateInv, UpdateTypes, Trees, Hands, Forward, Statuses, Alone, Unowned, Going, GoingBack,
         RollbackRepo, Notes
<1>11. ASSUME ~gap', owner' = 0 PROVE Going'
  BY <1>11
     DEF UpdateInv, UpdateTypes, Trees, Hands, Forward, Statuses, Alone, Unowned, Going, Ended,
         RollbackRepo, Notes
<1>12. ASSUME ~gap', owner' = 0 PROVE GoingBack'
  BY <1>12
     DEF UpdateInv, UpdateTypes, Trees, Hands, Forward, Statuses, Alone, Unowned, Going, GoingBack,
         Between, Ended, RollbackRepo, Notes
<1>13. ASSUME ~gap', owner' = 0 PROVE Between'
  BY <1>13
     DEF UpdateInv, UpdateTypes, Trees, Hands, Forward, Statuses, Alone, Unowned, Going, GoingBack,
         Between, Ended, RollbackRepo, Notes
<1>14. ASSUME ~gap', owner' = 0 PROVE Ended'
  BY <1>14
     DEF UpdateInv, UpdateTypes, Trees, Hands, Forward, Statuses, Alone, Unowned, Going, GoingBack,
         Between, Ended, Kept, RollbackRepo, Notes
<1>15. UpdateTypes'
  BY <1>1, <1>2, <1>3, <1>4 DEF UpdateTypes, PlainTypes, TreeTypes, JournalTypes, HeldTypes
<1> QED
  BY <1>5, <1>6, <1>7, <1>8, <1>9, <1>10, <1>11, <1>12, <1>13, <1>14, <1>15 DEF UpdateInv, Alone

LEMMA ResetKeeps ==
    ASSUME UpdateInv, Reset("rb_reset", "rb_files") \/ Reset("rec_reset", "rec_files")
    PROVE  UpdateInv'
<1>0. /\ UNCHANGED <<setup, dirty, deployed, env, mark, gap, hurt, risked, owner>>
      /\ head' \in {head, Was.head} /\ files' \in IF setup.same THEN {files, Was.files} ELSE {files}
      /\ ~dirty => head' = Was.head /\ files' = IF setup.same THEN Was.files ELSE files
      /\ \/ /\ ~dirty /\ UNCHANGED <<journal, held>>
            /\ (pc = "rb_reset" /\ pc' = "rb_files") \/ (pc = "rec_reset" /\ pc' = "rec_files")
         \/ dirty /\ pc = "rb_reset" /\ pc' = "rb_files" /\ Notes({"repo"}) /\ UNCHANGED journal
         \/ dirty /\ pc = "rec_reset" /\ GivesUp({"repo", "files"}) /\ UNCHANGED held
  BY DEF UpdateInv, UpdateTypes, Reset, RepoNotBack
<1>1. PlainTypes'
  BY <1>0, NotesAre, GivesUpIs DEF UpdateInv, UpdateTypes, PlainTypes
<1>2. TreeTypes'
  BY <1>0, NotesAre, GivesUpIs DEF UpdateInv, UpdateTypes, TreeTypes
<1>3. JournalTypes'
  BY <1>0, NotesAre, GivesUpIs DEF UpdateInv, UpdateTypes, JournalTypes
<1>4. HeldTypes'
  BY <1>0, NotesAre, GivesUpIs DEF UpdateInv, UpdateTypes, HeldTypes
<1>5. Seen'
  BY <1>0, NotesAre, GivesUpIs DEF UpdateInv, UpdateTypes, Seen
<1>6. ASSUME ~gap' PROVE Trees'
  BY <1>6, <1>0, NotesAre, GivesUpIs DEF UpdateInv, UpdateTypes, Trees, Hands, Forward, Statuses
<1>7. ASSUME ~gap' PROVE Hands'
  BY <1>7, <1>0, NotesAre, GivesUpIs DEF UpdateInv, UpdateTypes, Trees, Hands, Forward, Statuses
<1>8. ASSUME ~gap' PROVE Forward'
  BY <1>8, <1>0, NotesAre, GivesUpIs DEF UpdateInv, UpdateTypes, Trees, Hands, Forward, Statuses
<1>9. ASSUME ~gap' PROVE Statuses'
  BY <1>9, <1>0, NotesAre, GivesUpIs DEF UpdateInv, UpdateTypes, Trees, Hands, Forward, Statuses
<1>10. ASSUME ~gap', owner' = 0 PROVE Unowned'
  BY <1>10, <1>0, NotesAre, GivesUpIs
     DEF UpdateInv, UpdateTypes, Trees, Hands, Forward, Statuses, Alone, Unowned, Going, GoingBack
<1>11. ASSUME ~gap', owner' = 0 PROVE Going'
  BY <1>11, <1>0, NotesAre, GivesUpIs
     DEF UpdateInv, UpdateTypes, Trees, Hands, Forward, Statuses, Alone, Unowned, Going, Ended
<1>12. ASSUME ~gap', owner' = 0 PROVE GoingBack'
  BY <1>12, <1>0, NotesAre, GivesUpIs
     DEF UpdateInv, UpdateTypes, Trees, Hands, Forward, Statuses, Alone, Unowned, Going, GoingBack,
         Between, Ended
<1>13. ASSUME ~gap', owner' = 0 PROVE Between'
  BY <1>13, <1>0, NotesAre, GivesUpIs
     DEF UpdateInv, UpdateTypes, Trees, Hands, Forward, Statuses, Alone, Unowned, Going, GoingBack,
         Between, Ended
<1>14. ASSUME ~gap', owner' = 0 PROVE Ended'
  BY <1>14, <1>0, NotesAre, GivesUpIs
     DEF UpdateInv, UpdateTypes, Trees, Hands, Forward, Statuses, Alone, Unowned, Going, GoingBack,
         Between, Ended, Kept
<1>15. UpdateTypes'
  BY <1>1, <1>2, <1>3, <1>4 DEF UpdateTypes, PlainTypes, TreeTypes, JournalTypes, HeldTypes
<1> QED
  BY <1>5, <1>6, <1>7, <1>8, <1>9, <1>10, <1>11, <1>12, <1>13, <1>14, <1>15 DEF UpdateInv, Alone

LEMMA RollbackFilesKeeps ==
    ASSUME UpdateInv, RollbackFiles
    PROVE  UpdateInv'
<1>1. PlainTypes'
  BY DEF UpdateInv, UpdateTypes, PlainTypes, RollbackFiles, Notes
<1>2. TreeTypes'
  BY DEF UpdateInv, UpdateTypes, TreeTypes, RollbackFiles, Notes
<1>3. JournalTypes'
  BY DEF UpdateInv, UpdateTypes, JournalTypes, RollbackFiles, Notes
<1>4. HeldTypes'
  BY DEF UpdateInv, UpdateTypes, HeldTypes, RollbackFiles, Notes
<1>5. Seen'
  BY DEF UpdateInv, UpdateTypes, Seen, RollbackFiles, Notes
<1>6. ASSUME ~gap' PROVE Trees'
  BY <1>6 DEF UpdateInv, UpdateTypes, Trees, Hands, Forward, Statuses, RollbackFiles, Notes
<1>7. ASSUME ~gap' PROVE Hands'
  BY <1>7 DEF UpdateInv, UpdateTypes, Trees, Hands, Forward, Statuses, RollbackFiles, Notes
<1>8. ASSUME ~gap' PROVE Forward'
  BY <1>8 DEF UpdateInv, UpdateTypes, Trees, Hands, Forward, Statuses, RollbackFiles, Notes
<1>9. ASSUME ~gap' PROVE Statuses'
  BY <1>9 DEF UpdateInv, UpdateTypes, Trees, Hands, Forward, Statuses, RollbackFiles, Notes
<1>10. ASSUME ~gap', owner' = 0 PROVE Unowned'
  BY <1>10
     DEF UpdateInv, UpdateTypes, Trees, Hands, Forward, Statuses, Alone, Unowned, Going, GoingBack,
         RollbackFiles, Notes
<1>11. ASSUME ~gap', owner' = 0 PROVE Going'
  BY <1>11
     DEF UpdateInv, UpdateTypes, Trees, Hands, Forward, Statuses, Alone, Unowned, Going, Ended,
         RollbackFiles, Notes
<1>12. ASSUME ~gap', owner' = 0 PROVE GoingBack'
  BY <1>12
     DEF UpdateInv, UpdateTypes, Trees, Hands, Forward, Statuses, Alone, Unowned, Going, GoingBack,
         Between, Ended, RollbackFiles, Notes
<1>13. ASSUME ~gap', owner' = 0 PROVE Between'
  BY <1>13
     DEF UpdateInv, UpdateTypes, Trees, Hands, Forward, Statuses, Alone, Unowned, Going, GoingBack,
         Between, Ended, RollbackFiles, Notes
<1>14. ASSUME ~gap', owner' = 0 PROVE Ended'
  BY <1>14
     DEF UpdateInv, UpdateTypes, Trees, Hands, Forward, Statuses, Alone, Unowned, Going, GoingBack,
         Between, Ended, Kept, RollbackFiles, Notes
<1>15. UpdateTypes'
  BY <1>1, <1>2, <1>3, <1>4 DEF UpdateTypes, PlainTypes, TreeTypes, JournalTypes, HeldTypes
<1> QED
  BY <1>5, <1>6, <1>7, <1>8, <1>9, <1>10, <1>11, <1>12, <1>13, <1>14, <1>15 DEF UpdateInv, Alone

LEMMA RestoreOverIs ==
    ASSUME UpdateTypes, RestoreOver
    PROVE  dirty' \in BOOLEAN /\ (dirty' => dirty) /\ (dirty /\ ~setup.same => dirty')
BY DEF UpdateTypes, RestoreOver

LEMMA RestoreSomeKeeps ==
    ASSUME UpdateInv, RestoreSome("rb_some", "rb_rest") \/ RestoreSome("rec_some", "rec_rest")
    PROVE  UpdateInv'
<1>0. /\ UNCHANGED <<setup, head, env, mark, journal, held, gap, hurt, risked, owner>>
      /\ dirty' \in BOOLEAN /\ (dirty' => dirty) /\ (dirty /\ ~setup.same => dirty')
      /\ files' = "part"
      /\ (pc = "rb_some" /\ pc' = "rb_rest") \/ (pc = "rec_some" /\ pc' = "rec_rest")
      /\ UNCHANGED deployed
  BY RestoreOverIs DEF UpdateInv, UpdateTypes, RestoreSome
<1>1. PlainTypes'
  BY <1>0, NotesAre, GivesUpIs DEF UpdateInv, UpdateTypes, PlainTypes
<1>2. TreeTypes'
  BY <1>0, NotesAre, GivesUpIs DEF UpdateInv, UpdateTypes, TreeTypes
<1>3. JournalTypes'
  BY <1>0, NotesAre, GivesUpIs DEF UpdateInv, UpdateTypes, JournalTypes
<1>4. HeldTypes'
  BY <1>0, NotesAre, GivesUpIs DEF UpdateInv, UpdateTypes, HeldTypes
<1>5. Seen'
  BY <1>0, NotesAre, GivesUpIs DEF UpdateInv, UpdateTypes, Seen
<1>6. ASSUME ~gap' PROVE Trees'
  BY <1>6, <1>0, NotesAre, GivesUpIs DEF UpdateInv, UpdateTypes, Trees, Hands, Forward, Statuses
<1>7. ASSUME ~gap' PROVE Hands'
  BY <1>7, <1>0, NotesAre, GivesUpIs DEF UpdateInv, UpdateTypes, Trees, Hands, Forward, Statuses
<1>8. ASSUME ~gap' PROVE Forward'
  BY <1>8, <1>0, NotesAre, GivesUpIs DEF UpdateInv, UpdateTypes, Trees, Hands, Forward, Statuses
<1>9. ASSUME ~gap' PROVE Statuses'
  BY <1>9, <1>0, NotesAre, GivesUpIs DEF UpdateInv, UpdateTypes, Trees, Hands, Forward, Statuses
<1>10. ASSUME ~gap', owner' = 0 PROVE Unowned'
  BY <1>10, <1>0, NotesAre, GivesUpIs
     DEF UpdateInv, UpdateTypes, Trees, Hands, Forward, Statuses, Alone, Unowned, Going, GoingBack
<1>11. ASSUME ~gap', owner' = 0 PROVE Going'
  BY <1>11, <1>0, NotesAre, GivesUpIs
     DEF UpdateInv, UpdateTypes, Trees, Hands, Forward, Statuses, Alone, Unowned, Going, Ended
<1>12. ASSUME ~gap', owner' = 0 PROVE GoingBack'
  BY <1>12, <1>0, NotesAre, GivesUpIs
     DEF UpdateInv, UpdateTypes, Trees, Hands, Forward, Statuses, Alone, Unowned, Going, GoingBack,
         Between, Ended
<1>13. ASSUME ~gap', owner' = 0 PROVE Between'
  BY <1>13, <1>0, NotesAre, GivesUpIs
     DEF UpdateInv, UpdateTypes, Trees, Hands, Forward, Statuses, Alone, Unowned, Going, GoingBack,
         Between, Ended
<1>14. ASSUME ~gap', owner' = 0 PROVE Ended'
  BY <1>14, <1>0, NotesAre, GivesUpIs
     DEF UpdateInv, UpdateTypes, Trees, Hands, Forward, Statuses, Alone, Unowned, Going, GoingBack,
         Between, Ended, Kept
<1>15. UpdateTypes'
  BY <1>1, <1>2, <1>3, <1>4 DEF UpdateTypes, PlainTypes, TreeTypes, JournalTypes, HeldTypes
<1> QED
  BY <1>5, <1>6, <1>7, <1>8, <1>9, <1>10, <1>11, <1>12, <1>13, <1>14, <1>15 DEF UpdateInv, Alone

LEMMA RestoreRestKeeps ==
    ASSUME UpdateInv, RestoreRest("rb_rest", "rb_end") \/ RestoreRest("rec_rest", "rec_end")
    PROVE  UpdateInv'
<1>0. /\ UNCHANGED <<setup, head, env, mark, journal, held, gap, hurt, risked, owner>>
      /\ dirty' \in BOOLEAN /\ (dirty' => dirty) /\ (dirty /\ ~setup.same => dirty')
      /\ files' = Was.files /\ deployed' = Was.deployed
      /\ (pc = "rb_rest" /\ pc' = "rb_end") \/ (pc = "rec_rest" /\ pc' = "rec_end")
  BY RestoreOverIs DEF UpdateInv, UpdateTypes, RestoreRest
<1>1. PlainTypes'
  BY <1>0, NotesAre, GivesUpIs DEF UpdateInv, UpdateTypes, PlainTypes
<1>2. TreeTypes'
  BY <1>0, NotesAre, GivesUpIs DEF UpdateInv, UpdateTypes, TreeTypes
<1>3. JournalTypes'
  BY <1>0, NotesAre, GivesUpIs DEF UpdateInv, UpdateTypes, JournalTypes
<1>4. HeldTypes'
  BY <1>0, NotesAre, GivesUpIs DEF UpdateInv, UpdateTypes, HeldTypes
<1>5. Seen'
  BY <1>0, NotesAre, GivesUpIs DEF UpdateInv, UpdateTypes, Seen
<1>6. ASSUME ~gap' PROVE Trees'
  BY <1>6, <1>0, NotesAre, GivesUpIs DEF UpdateInv, UpdateTypes, Trees, Hands, Forward, Statuses
<1>7. ASSUME ~gap' PROVE Hands'
  BY <1>7, <1>0, NotesAre, GivesUpIs DEF UpdateInv, UpdateTypes, Trees, Hands, Forward, Statuses
<1>8. ASSUME ~gap' PROVE Forward'
  BY <1>8, <1>0, NotesAre, GivesUpIs DEF UpdateInv, UpdateTypes, Trees, Hands, Forward, Statuses
<1>9. ASSUME ~gap' PROVE Statuses'
  BY <1>9, <1>0, NotesAre, GivesUpIs DEF UpdateInv, UpdateTypes, Trees, Hands, Forward, Statuses
<1>10. ASSUME ~gap', owner' = 0 PROVE Unowned'
  BY <1>10, <1>0, NotesAre, GivesUpIs
     DEF UpdateInv, UpdateTypes, Trees, Hands, Forward, Statuses, Alone, Unowned, Going, GoingBack
<1>11. ASSUME ~gap', owner' = 0 PROVE Going'
  BY <1>11, <1>0, NotesAre, GivesUpIs
     DEF UpdateInv, UpdateTypes, Trees, Hands, Forward, Statuses, Alone, Unowned, Going, Ended
<1>12. ASSUME ~gap', owner' = 0 PROVE GoingBack'
  BY <1>12, <1>0, NotesAre, GivesUpIs
     DEF UpdateInv, UpdateTypes, Trees, Hands, Forward, Statuses, Alone, Unowned, Going, GoingBack,
         Between, Ended
<1>13. ASSUME ~gap', owner' = 0 PROVE Between'
  BY <1>13, <1>0, NotesAre, GivesUpIs
     DEF UpdateInv, UpdateTypes, Trees, Hands, Forward, Statuses, Alone, Unowned, Going, GoingBack,
         Between, Ended
<1>14. ASSUME ~gap', owner' = 0 PROVE Ended'
  BY <1>14, <1>0, NotesAre, GivesUpIs
     DEF UpdateInv, UpdateTypes, Trees, Hands, Forward, Statuses, Alone, Unowned, Going, GoingBack,
         Between, Ended, Kept
<1>15. UpdateTypes'
  BY <1>1, <1>2, <1>3, <1>4 DEF UpdateTypes, PlainTypes, TreeTypes, JournalTypes, HeldTypes
<1> QED
  BY <1>5, <1>6, <1>7, <1>8, <1>9, <1>10, <1>11, <1>12, <1>13, <1>14, <1>15 DEF UpdateInv, Alone

LEMMA RollbackEndKeeps ==
    ASSUME UpdateInv, RollbackEnd
    PROVE  UpdateInv'
<1>1. PlainTypes'
  BY DEF UpdateInv, UpdateTypes, PlainTypes, RollbackEnd
<1>2. TreeTypes'
  BY DEF UpdateInv, UpdateTypes, TreeTypes, RollbackEnd
<1>3. JournalTypes'
  BY DEF UpdateInv, UpdateTypes, JournalTypes, RollbackEnd
<1>4. HeldTypes'
  BY DEF UpdateInv, UpdateTypes, HeldTypes, RollbackEnd
<1>5. Seen'
  BY DEF UpdateInv, UpdateTypes, Seen, RollbackEnd
<1>6. ASSUME ~gap' PROVE Trees'
  BY <1>6 DEF UpdateInv, UpdateTypes, Trees, Hands, Forward, Statuses, RollbackEnd
<1>7. ASSUME ~gap' PROVE Hands'
  BY <1>7 DEF UpdateInv, UpdateTypes, Trees, Hands, Forward, Statuses, RollbackEnd
<1>8. ASSUME ~gap' PROVE Forward'
  BY <1>8 DEF UpdateInv, UpdateTypes, Trees, Hands, Forward, Statuses, RollbackEnd
<1>9. ASSUME ~gap' PROVE Statuses'
  BY <1>9 DEF UpdateInv, UpdateTypes, Trees, Hands, Forward, Statuses, RollbackEnd
<1>10. ASSUME ~gap', owner' = 0 PROVE Unowned'
  BY <1>10
     DEF UpdateInv, UpdateTypes, Trees, Hands, Forward, Statuses, Alone, Unowned, Going, GoingBack,
         RollbackEnd
<1>11. ASSUME ~gap', owner' = 0 PROVE Going'
  BY <1>11
     DEF UpdateInv, UpdateTypes, Trees, Hands, Forward, Statuses, Alone, Unowned, Going, Ended,
         RollbackEnd
<1>12. ASSUME ~gap', owner' = 0 PROVE GoingBack'
  BY <1>12
     DEF UpdateInv, UpdateTypes, Trees, Hands, Forward, Statuses, Alone, Unowned, Going, GoingBack,
         Between, Ended, RollbackEnd
<1>13. ASSUME ~gap', owner' = 0 PROVE Between'
  BY <1>13
     DEF UpdateInv, UpdateTypes, Trees, Hands, Forward, Statuses, Alone, Unowned, Going, GoingBack,
         Between, Ended, RollbackEnd
<1>14. ASSUME ~gap', owner' = 0 PROVE Ended'
  BY <1>14
     DEF UpdateInv, UpdateTypes, Trees, Hands, Forward, Statuses, Alone, Unowned, Going, GoingBack,
         Between, Ended, Kept, RollbackEnd
<1>15. UpdateTypes'
  BY <1>1, <1>2, <1>3, <1>4 DEF UpdateTypes, PlainTypes, TreeTypes, JournalTypes, HeldTypes
<1> QED
  BY <1>5, <1>6, <1>7, <1>8, <1>9, <1>10, <1>11, <1>12, <1>13, <1>14, <1>15 DEF UpdateInv, Alone

\* _recover_dependency_from_journal, case by case.
LEMMA RecoverEnvCases ==
    ASSUME UpdateTypes, RecoverEnv
    PROVE  /\ UNCHANGED <<setup, head, dirty, files, deployed, mark, held, gap, hurt, risked, owner>>
           /\ pc = "rec_env" /\ TreeTypes'
           /\ \/ /\ pc' = "rec_repo" /\ journal' = journal
                 /\ env'.active = env.active /\ env'.previous = env.previous
                 /\ ~journal.env \/ (env.active # "none" /\ env.previous = "none" /\ journal.status \notin Committing)
              \/ /\ pc' = "rec_out" /\ journal' = journal /\ env' = env
                 /\ journal.env /\ env.previous # "none"
                 /\ EnvMatches \/ (env.active # "none" /\ journal.status = "dependency_commit_started")
              \/ /\ pc' = "rec_in" /\ journal' = journal /\ env' = env
                 /\ journal.env /\ env.active = "none" /\ env.previous # "none"
              \/ /\ pc' = "rec_final" /\ journal' = journal /\ env' = env
                 /\ journal.env /\ env.active # "none" /\ env.previous = "none" /\ journal.status \in Committing
              \/ /\ GivesUp(Part) /\ env' = env /\ journal.env
                 /\ \/ /\ env.active # "none" /\ env.previous # "none" /\ ~EnvMatches
                       /\ journal.status # "dependency_commit_started"
                    \/ env.active = "none" /\ env.previous = "none"
<1> DEFINE Has == env.active # "none"
           Prev == env.previous # "none"
<1>1. CASE EnvRecovery = "fail"
  <2>1. GivesUp(Part) /\ env' = env
    BY <1>1 DEF RecoverEnv
  <2>2. journal.env /\ ((Has /\ Prev /\ ~EnvMatches /\ journal.status # "dependency_commit_started") \/ (~Has /\ ~Prev))
    <3>1. CASE ~journal.env
      BY <1>1, <3>1 DEF EnvRecovery
    <3>2. CASE journal.env /\ EnvMatches /\ Prev
      BY <1>1, <3>2 DEF EnvRecovery
    <3>3. CASE journal.env /\ ~Has /\ Prev
      BY <1>1, <3>3 DEF EnvRecovery
    <3>4. CASE journal.env /\ Has /\ Prev /\ ~EnvMatches
      BY <1>1, <3>4 DEF EnvRecovery
    <3>5. CASE journal.env /\ Has /\ ~Prev
      <4>1. EnvRecovery = IF journal.status \in Committing THEN "committed" ELSE "discard"
        BY <3>5 DEF EnvRecovery
      <4> QED
        BY <1>1, <4>1
    <3> QED
      BY <3>1, <3>2, <3>3, <3>4, <3>5 DEF UpdateTypes
  <2> QED
    BY <2>1, <2>2 DEF UpdateTypes, TreeTypes, RecoverEnv
<1>2. CASE EnvRecovery # "fail"
  <2>1. CASE ~journal.env
    <3>1. EnvRecovery = "leave"
      BY <2>1 DEF EnvRecovery
    <3> QED
      BY <3>1, <2>1 DEF RecoverEnv, UpdateTypes, TreeTypes
  <2>2. CASE journal.env /\ EnvMatches /\ Prev
    <3>1. EnvRecovery = "swap"
      BY <2>2 DEF EnvRecovery
    <3> QED
      BY <3>1, <2>2 DEF RecoverEnv, UpdateTypes, TreeTypes
  <2>3. CASE journal.env /\ ~Has /\ Prev
    <3>1. EnvRecovery = "put_back"
      BY <2>3 DEF EnvRecovery
    <3> QED
      BY <3>1, <2>3 DEF RecoverEnv, UpdateTypes, TreeTypes
  <2>4. CASE journal.env /\ Has /\ Prev /\ ~EnvMatches
    <3>1. EnvRecovery = IF journal.status = "dependency_commit_started" THEN "swap" ELSE "fail"
      BY <2>4 DEF EnvRecovery
    <3>2. EnvRecovery = "swap" /\ journal.status = "dependency_commit_started"
      BY <1>2, <3>1
    <3> QED
      BY <3>2, <2>4 DEF RecoverEnv, UpdateTypes, TreeTypes
  <2>5. CASE journal.env /\ Has /\ ~Prev
    <3>1. EnvRecovery = IF journal.status \in Committing THEN "committed" ELSE "discard"
      BY <2>5 DEF EnvRecovery
    <3>2. CASE journal.status \in Committing
      BY <3>1, <3>2, <2>5 DEF RecoverEnv, UpdateTypes, TreeTypes
    <3>3. CASE journal.status \notin Committing
      BY <3>1, <3>3, <2>5 DEF RecoverEnv, UpdateTypes, TreeTypes
    <3> QED
      BY <3>2, <3>3
  <2>6. CASE journal.env /\ ~Has /\ ~Prev
    <3>1. EnvRecovery = "fail"
      BY <2>6 DEF EnvRecovery
    <3> QED
      BY <3>1, <1>2
  <2> QED
    BY <2>1, <2>2, <2>3, <2>4, <2>5, <2>6 DEF UpdateTypes
<1> QED
  BY <1>1, <1>2

LEMMA RecoverEnvKeeps ==
    ASSUME UpdateInv, RecoverEnv
    PROVE  UpdateInv'
<1>0. /\ UNCHANGED <<setup, head, dirty, files, deployed, mark, held, gap, hurt, risked, owner>>
      /\ pc = "rec_env" /\ TreeTypes'
  BY RecoverEnvCases DEF UpdateInv
<1>1. PlainTypes'
  BY <1>0 DEF UpdateInv, UpdateTypes, PlainTypes
<1>2. TreeTypes'
  BY <1>0
<1>3. JournalTypes'
  BY RecoverEnvCases, GivesUpIs DEF UpdateInv, UpdateTypes, JournalTypes
<1>4. HeldTypes'
  BY RecoverEnvCases, GivesUpIs DEF UpdateInv, UpdateTypes, HeldTypes
<1>5. Seen'
  BY RecoverEnvCases, GivesUpIs DEF UpdateInv, UpdateTypes, Seen
<1>6. ASSUME ~gap' PROVE Trees'
  BY <1>6, RecoverEnvCases, GivesUpIs DEF UpdateInv, UpdateTypes, Trees, Hands, Forward, Statuses
<1>7. ASSUME ~gap' PROVE Hands'
  BY <1>7, RecoverEnvCases, GivesUpIs DEF UpdateInv, UpdateTypes, Trees, Hands, Forward, Statuses
<1>8. ASSUME ~gap' PROVE Forward'
  BY <1>8, RecoverEnvCases, GivesUpIs DEF UpdateInv, UpdateTypes, Trees, Hands, Forward, Statuses
<1>9. ASSUME ~gap' PROVE Statuses'
  BY <1>9, RecoverEnvCases, GivesUpIs DEF UpdateInv, UpdateTypes, Trees, Hands, Forward, Statuses
<1>10. ASSUME ~gap', owner' = 0 PROVE Unowned'
  BY <1>10, RecoverEnvCases, GivesUpIs
     DEF UpdateInv, UpdateTypes, Trees, Hands, Forward, Statuses, Alone, Unowned, Going, GoingBack
<1>11. ASSUME ~gap', owner' = 0 PROVE Going'
  BY <1>11, RecoverEnvCases, GivesUpIs
     DEF UpdateInv, UpdateTypes, Trees, Hands, Forward, Statuses, Alone, Unowned, Going, Ended
<1>12. ASSUME ~gap', owner' = 0 PROVE GoingBack'
  <2>0. UpdateTypes /\ owner = 0 /\ ~gap
    BY <1>12, RecoverEnvCases DEF UpdateInv
  <2>a. pc = "rec_env"
    BY RecoverEnvCases, <2>0
  <2>b. Statuses /\ Unowned /\ Between
    BY <2>0 DEF UpdateInv, Alone
  <2>1. Unowned
    BY <2>b
  <2>2. journal.status \in Incomplete /\ (journal.status \in Committing => journal.env)
    BY <2>a, <2>b DEF Statuses
  <2> DEFINE Rev == Revertible(journal.synced)
             Whole2 == Done /\ env.previous = "none"
  <2>c. \/ journal.status = "dependency_committed" /\ Done
        \/ journal.status = "dependency_commit_started" /\ Whole2
        \/ Rev /\ OldTree /\ journal.status # "dependency_commit_started"
        \/ Rev /\ journal.env /\ (NoTree \/ NewTree)
        \/ Rev /\ journal.env /\ journal.status = "dependency_commit_started" /\ Both
    <3> USE <2>a, <2>2
    <3>1. Between
      BY <2>b
    <3>2. journal.status = "dependency_committed" => Done
      BY <3>1, Zenon DEF Between
    <3> QED
      BY <3>1, <3>2 DEF Between
  <2>d. journal.status = "dependency_committed" => Done /\ ~mark /\ env.active # "none"
    BY <2>a, <2>b DEF Between, Statuses
  <2>3. journal.status = "dependency_commit_started" /\ Whole2 => env.previous = "none" /\ ~mark
    BY <2>a, <2>b DEF Statuses
  <2> USE <2>0, <2>1, <2>2, <2>c, <2>d, <2>3
  <2>4. CASE pc' = "rec_repo" /\ journal' = journal /\ env'.active = env.active /\ env'.previous = env.previous
            /\ (~journal.env \/ (env.active # "none" /\ env.previous = "none" /\ journal.status \notin Committing))
    <3>1. Rev /\ OldTree
      BY <2>4 DEF Unowned
    <3> QED
      BY <2>4, <3>1, RecoverEnvCases DEF GoingBack
  <2>5. CASE pc' = "rec_out" /\ journal' = journal /\ env' = env /\ journal.env /\ env.previous # "none"
            /\ (EnvMatches \/ (env.active # "none" /\ journal.status = "dependency_commit_started"))
    <3>1. Rev /\ (NewTree \/ (journal.status = "dependency_commit_started" /\ Both))
      BY <2>5 DEF Unowned
    <3> QED
      BY <2>5, <3>1, RecoverEnvCases DEF GoingBack
  <2>6. CASE pc' = "rec_in" /\ journal' = journal /\ env' = env /\ journal.env /\ env.active = "none"
            /\ env.previous # "none"
    <3>1. Rev /\ NoTree
      BY <2>6 DEF Unowned
    <3> QED
      BY <2>6, <3>1, RecoverEnvCases DEF GoingBack
  <2>7. CASE pc' \in {"rec_final", "idle"}
    BY <2>7 DEF GoingBack
  <2> QED
    BY <2>4, <2>5, <2>6, <2>7, RecoverEnvCases, GivesUpIs
<1>13. ASSUME ~gap', owner' = 0 PROVE Between'
  BY <1>13, RecoverEnvCases, GivesUpIs
     DEF UpdateInv, UpdateTypes, Trees, Hands, Forward, Statuses, Alone, Unowned, Going, GoingBack,
         Between, Ended
<1>14. ASSUME ~gap', owner' = 0 PROVE Ended'
  BY <1>14, RecoverEnvCases, GivesUpIs
     DEF UpdateInv, UpdateTypes, Trees, Hands, Forward, Statuses, Alone, Unowned, Going, GoingBack,
         Between, Ended, Kept
<1>15. UpdateTypes'
  BY <1>1, <1>2, <1>3, <1>4 DEF UpdateTypes, PlainTypes, TreeTypes, JournalTypes, HeldTypes
<1> QED
  BY <1>5, <1>6, <1>7, <1>8, <1>9, <1>10, <1>11, <1>12, <1>13, <1>14, <1>15 DEF UpdateInv, Alone

LEMMA RecoverFinalKeeps ==
    ASSUME UpdateInv, RecoverFinal
    PROVE  UpdateInv'
<1>0. /\ UNCHANGED <<setup, head, dirty, files, deployed, env, mark, held, gap, hurt, risked, owner>>
      /\ pc = "rec_final"
      /\ \/ /\ head = "new" /\ deployed = "new" /\ pc' = "check" /\ journal'.status = "completed"
            /\ journal'.synced = journal.synced /\ journal'.env = journal.env
            /\ journal'.undone = journal.undone /\ journal'.before = journal.before
         \/ pc' = "idle" /\ journal' = journal
  BY DEF UpdateInv, UpdateTypes, RecoverFinal
<1>1. PlainTypes'
  BY <1>0, NotesAre, GivesUpIs DEF UpdateInv, UpdateTypes, PlainTypes
<1>2. TreeTypes'
  BY <1>0, NotesAre, GivesUpIs DEF UpdateInv, UpdateTypes, TreeTypes
<1>3. JournalTypes'
  BY <1>0 DEF UpdateInv, UpdateTypes, JournalTypes, RecoverFinal
<1>4. HeldTypes'
  BY <1>0, NotesAre, GivesUpIs DEF UpdateInv, UpdateTypes, HeldTypes
<1>5. Seen'
  BY <1>0, NotesAre, GivesUpIs DEF UpdateInv, UpdateTypes, Seen
<1>6. ASSUME ~gap' PROVE Trees'
  BY <1>6, <1>0, NotesAre, GivesUpIs DEF UpdateInv, UpdateTypes, Trees, Hands, Forward, Statuses
<1>7. ASSUME ~gap' PROVE Hands'
  BY <1>7, <1>0, NotesAre, GivesUpIs DEF UpdateInv, UpdateTypes, Trees, Hands, Forward, Statuses
<1>8. ASSUME ~gap' PROVE Forward'
  BY <1>8, <1>0, NotesAre, GivesUpIs DEF UpdateInv, UpdateTypes, Trees, Hands, Forward, Statuses
<1>9. ASSUME ~gap' PROVE Statuses'
  BY <1>9, <1>0, NotesAre, GivesUpIs DEF UpdateInv, UpdateTypes, Trees, Hands, Forward, Statuses
<1>10. ASSUME ~gap', owner' = 0 PROVE Unowned'
  BY <1>10, <1>0, NotesAre, GivesUpIs
     DEF UpdateInv, UpdateTypes, Trees, Hands, Forward, Statuses, Alone, Unowned, Going, GoingBack
<1>11. ASSUME ~gap', owner' = 0 PROVE Going'
  BY <1>11, <1>0, NotesAre, GivesUpIs
     DEF UpdateInv, UpdateTypes, Trees, Hands, Forward, Statuses, Alone, Unowned, Going, Ended
<1>12. ASSUME ~gap', owner' = 0 PROVE GoingBack'
  BY <1>12, <1>0, NotesAre, GivesUpIs
     DEF UpdateInv, UpdateTypes, Trees, Hands, Forward, Statuses, Alone, Unowned, Going, GoingBack,
         Between, Ended
<1>13. ASSUME ~gap', owner' = 0 PROVE Between'
  BY <1>13, <1>0, NotesAre, GivesUpIs
     DEF UpdateInv, UpdateTypes, Trees, Hands, Forward, Statuses, Alone, Unowned, Going, GoingBack,
         Between, Ended
<1>14. ASSUME ~gap', owner' = 0 PROVE Ended'
  BY <1>14, <1>0, NotesAre, GivesUpIs
     DEF UpdateInv, UpdateTypes, Trees, Hands, Forward, Statuses, Alone, Unowned, Going, GoingBack,
         Between, Ended, Kept
<1>15. UpdateTypes'
  BY <1>1, <1>2, <1>3, <1>4 DEF UpdateTypes, PlainTypes, TreeTypes, JournalTypes, HeldTypes
<1> QED
  BY <1>5, <1>6, <1>7, <1>8, <1>9, <1>10, <1>11, <1>12, <1>13, <1>14, <1>15 DEF UpdateInv, Alone

LEMMA RecoverRepoKeeps ==
    ASSUME UpdateInv, RecoverRepo
    PROVE  UpdateInv'
<1>0. /\ UNCHANGED <<setup, head, dirty, files, deployed, env, mark, held, gap, hurt, risked, owner>>
      /\ pc = "rec_repo"
      /\ \/ head = Was.head /\ pc' = "rec_files" /\ journal' = journal
         \/ head # Was.head /\ MayReset /\ pc' = "rec_reset" /\ journal' = journal
         \/ head # Was.head /\ ~MayReset /\ GivesUp({"repo", "files"})
  BY DEF UpdateInv, UpdateTypes, RecoverRepo, GivesUp
<1>1. PlainTypes'
  BY <1>0, NotesAre, GivesUpIs DEF UpdateInv, UpdateTypes, PlainTypes
<1>2. TreeTypes'
  BY <1>0, NotesAre, GivesUpIs DEF UpdateInv, UpdateTypes, TreeTypes
<1>3. JournalTypes'
  BY <1>0, NotesAre, GivesUpIs DEF UpdateInv, UpdateTypes, JournalTypes
<1>4. HeldTypes'
  BY <1>0, NotesAre, GivesUpIs DEF UpdateInv, UpdateTypes, HeldTypes
<1>5. Seen'
  BY <1>0, NotesAre, GivesUpIs DEF UpdateInv, UpdateTypes, Seen
<1>6. ASSUME ~gap' PROVE Trees'
  BY <1>6, <1>0, NotesAre, GivesUpIs DEF UpdateInv, UpdateTypes, Trees, Hands, Forward, Statuses
<1>7. ASSUME ~gap' PROVE Hands'
  BY <1>7, <1>0, NotesAre, GivesUpIs DEF UpdateInv, UpdateTypes, Trees, Hands, Forward, Statuses
<1>8. ASSUME ~gap' PROVE Forward'
  BY <1>8, <1>0, NotesAre, GivesUpIs DEF UpdateInv, UpdateTypes, Trees, Hands, Forward, Statuses
<1>9. ASSUME ~gap' PROVE Statuses'
  BY <1>9, <1>0, NotesAre, GivesUpIs DEF UpdateInv, UpdateTypes, Trees, Hands, Forward, Statuses
<1>10. ASSUME ~gap', owner' = 0 PROVE Unowned'
  BY <1>10, <1>0, NotesAre, GivesUpIs
     DEF UpdateInv, UpdateTypes, Trees, Hands, Forward, Statuses, Alone, Unowned, Going, GoingBack
<1>11. ASSUME ~gap', owner' = 0 PROVE Going'
  BY <1>11, <1>0, NotesAre, GivesUpIs
     DEF UpdateInv, UpdateTypes, Trees, Hands, Forward, Statuses, Alone, Unowned, Going, Ended
<1>12. ASSUME ~gap', owner' = 0 PROVE GoingBack'
  BY <1>12, <1>0, NotesAre, GivesUpIs
     DEF UpdateInv, UpdateTypes, Trees, Hands, Forward, Statuses, Alone, Unowned, Going, GoingBack,
         Between, Ended
<1>13. ASSUME ~gap', owner' = 0 PROVE Between'
  BY <1>13, <1>0, NotesAre, GivesUpIs
     DEF UpdateInv, UpdateTypes, Trees, Hands, Forward, Statuses, Alone, Unowned, Going, GoingBack,
         Between, Ended
<1>14. ASSUME ~gap', owner' = 0 PROVE Ended'
  BY <1>14, <1>0, NotesAre, GivesUpIs
     DEF UpdateInv, UpdateTypes, Trees, Hands, Forward, Statuses, Alone, Unowned, Going, GoingBack,
         Between, Ended, Kept
<1>15. UpdateTypes'
  BY <1>1, <1>2, <1>3, <1>4 DEF UpdateTypes, PlainTypes, TreeTypes, JournalTypes, HeldTypes
<1> QED
  BY <1>5, <1>6, <1>7, <1>8, <1>9, <1>10, <1>11, <1>12, <1>13, <1>14, <1>15 DEF UpdateInv, Alone

LEMMA RecoverFilesKeeps ==
    ASSUME UpdateInv, RecoverFiles
    PROVE  UpdateInv'
<1>0. /\ UNCHANGED <<setup, head, dirty, files, deployed, env, mark, held, gap, hurt, risked, owner>>
      /\ pc = "rec_files"
      /\ \/ journal.synced /\ ~MayRestore /\ GivesUp({"files"})
         \/ ~journal.synced /\ pc' = "rec_end" /\ journal' = journal
         \/ journal.synced /\ MayRestore /\ pc' = "rec_some" /\ journal' = journal
  BY DEF UpdateInv, UpdateTypes, RecoverFiles
<1>1. PlainTypes'
  BY <1>0, NotesAre, GivesUpIs DEF UpdateInv, UpdateTypes, PlainTypes
<1>2. TreeTypes'
  BY <1>0, NotesAre, GivesUpIs DEF UpdateInv, UpdateTypes, TreeTypes
<1>3. JournalTypes'
  BY <1>0, NotesAre, GivesUpIs DEF UpdateInv, UpdateTypes, JournalTypes
<1>4. HeldTypes'
  BY <1>0, NotesAre, GivesUpIs DEF UpdateInv, UpdateTypes, HeldTypes
<1>5. Seen'
  BY <1>0, NotesAre, GivesUpIs DEF UpdateInv, UpdateTypes, Seen
<1>6. ASSUME ~gap' PROVE Trees'
  BY <1>6, <1>0, NotesAre, GivesUpIs DEF UpdateInv, UpdateTypes, Trees, Hands, Forward, Statuses
<1>7. ASSUME ~gap' PROVE Hands'
  BY <1>7, <1>0, NotesAre, GivesUpIs DEF UpdateInv, UpdateTypes, Trees, Hands, Forward, Statuses
<1>8. ASSUME ~gap' PROVE Forward'
  BY <1>8, <1>0, NotesAre, GivesUpIs DEF UpdateInv, UpdateTypes, Trees, Hands, Forward, Statuses
<1>9. ASSUME ~gap' PROVE Statuses'
  BY <1>9, <1>0, NotesAre, GivesUpIs DEF UpdateInv, UpdateTypes, Trees, Hands, Forward, Statuses
<1>10. ASSUME ~gap', owner' = 0 PROVE Unowned'
  BY <1>10, <1>0, NotesAre, GivesUpIs
     DEF UpdateInv, UpdateTypes, Trees, Hands, Forward, Statuses, Alone, Unowned, Going, GoingBack
<1>11. ASSUME ~gap', owner' = 0 PROVE Going'
  BY <1>11, <1>0, NotesAre, GivesUpIs
     DEF UpdateInv, UpdateTypes, Trees, Hands, Forward, Statuses, Alone, Unowned, Going, Ended
<1>12. ASSUME ~gap', owner' = 0 PROVE GoingBack'
  BY <1>12, <1>0, NotesAre, GivesUpIs
     DEF UpdateInv, UpdateTypes, Trees, Hands, Forward, Statuses, Alone, Unowned, Going, GoingBack,
         Between, Ended
<1>13. ASSUME ~gap', owner' = 0 PROVE Between'
  BY <1>13, <1>0, NotesAre, GivesUpIs
     DEF UpdateInv, UpdateTypes, Trees, Hands, Forward, Statuses, Alone, Unowned, Going, GoingBack,
         Between, Ended
<1>14. ASSUME ~gap', owner' = 0 PROVE Ended'
  BY <1>14, <1>0, NotesAre, GivesUpIs
     DEF UpdateInv, UpdateTypes, Trees, Hands, Forward, Statuses, Alone, Unowned, Going, GoingBack,
         Between, Ended, Kept
<1>15. UpdateTypes'
  BY <1>1, <1>2, <1>3, <1>4 DEF UpdateTypes, PlainTypes, TreeTypes, JournalTypes, HeldTypes
<1> QED
  BY <1>5, <1>6, <1>7, <1>8, <1>9, <1>10, <1>11, <1>12, <1>13, <1>14, <1>15 DEF UpdateInv, Alone

LEMMA RecoverEndKeeps ==
    ASSUME UpdateInv, RecoverEnd
    PROVE  UpdateInv'
<1>0. /\ UNCHANGED <<setup, head, dirty, files, deployed, env, mark, held, gap, hurt, risked, owner>>
      /\ pc = "rec_end"
      /\ \/ /\ pc' = "check" /\ journal'.status = "recovered"
            /\ journal'.synced = journal.synced /\ journal'.env = journal.env
            /\ journal'.undone = journal.undone /\ journal'.before = journal.before /\ JournalTypes'
         \/ GivesUp({})
  BY DEF UpdateInv, UpdateTypes, JournalTypes, RecoverEnd
<1>1. PlainTypes'
  BY <1>0, NotesAre, GivesUpIs DEF UpdateInv, UpdateTypes, PlainTypes
<1>2. TreeTypes'
  BY <1>0, NotesAre, GivesUpIs DEF UpdateInv, UpdateTypes, TreeTypes
<1>3. JournalTypes'
  BY <1>0, NotesAre, GivesUpIs DEF UpdateInv, UpdateTypes, JournalTypes
<1>4. HeldTypes'
  BY <1>0, NotesAre, GivesUpIs DEF UpdateInv, UpdateTypes, HeldTypes
<1>5. Seen'
  BY <1>0, NotesAre, GivesUpIs DEF UpdateInv, UpdateTypes, Seen
<1>6. ASSUME ~gap' PROVE Trees'
  BY <1>6, <1>0, NotesAre, GivesUpIs DEF UpdateInv, UpdateTypes, Trees, Hands, Forward, Statuses
<1>7. ASSUME ~gap' PROVE Hands'
  BY <1>7, <1>0, NotesAre, GivesUpIs DEF UpdateInv, UpdateTypes, Trees, Hands, Forward, Statuses
<1>8. ASSUME ~gap' PROVE Forward'
  BY <1>8, <1>0, NotesAre, GivesUpIs DEF UpdateInv, UpdateTypes, Trees, Hands, Forward, Statuses
<1>9. ASSUME ~gap' PROVE Statuses'
  BY <1>9, <1>0, NotesAre, GivesUpIs DEF UpdateInv, UpdateTypes, Trees, Hands, Forward, Statuses
<1>10. ASSUME ~gap', owner' = 0 PROVE Unowned'
  BY <1>10, <1>0, NotesAre, GivesUpIs
     DEF UpdateInv, UpdateTypes, Trees, Hands, Forward, Statuses, Alone, Unowned, Going, GoingBack
<1>11. ASSUME ~gap', owner' = 0 PROVE Going'
  BY <1>11, <1>0, NotesAre, GivesUpIs
     DEF UpdateInv, UpdateTypes, Trees, Hands, Forward, Statuses, Alone, Unowned, Going, Ended
<1>12. ASSUME ~gap', owner' = 0 PROVE GoingBack'
  BY <1>12, <1>0, NotesAre, GivesUpIs
     DEF UpdateInv, UpdateTypes, Trees, Hands, Forward, Statuses, Alone, Unowned, Going, GoingBack,
         Between, Ended
<1>13. ASSUME ~gap', owner' = 0 PROVE Between'
  BY <1>13, <1>0, NotesAre, GivesUpIs
     DEF UpdateInv, UpdateTypes, Trees, Hands, Forward, Statuses, Alone, Unowned, Going, GoingBack,
         Between, Ended
<1>14. ASSUME ~gap', owner' = 0 PROVE Ended'
  BY <1>14, <1>0, NotesAre, GivesUpIs
     DEF UpdateInv, UpdateTypes, Trees, Hands, Forward, Statuses, Alone, Unowned, Going, GoingBack,
         Between, Ended, Kept
<1>15. UpdateTypes'
  BY <1>1, <1>2, <1>3, <1>4 DEF UpdateTypes, PlainTypes, TreeTypes, JournalTypes, HeldTypes
<1> QED
  BY <1>5, <1>6, <1>7, <1>8, <1>9, <1>10, <1>11, <1>12, <1>13, <1>14, <1>15 DEF UpdateInv, Alone

LEMMA LaunchUpdateKeeps ==
    ASSUME UpdateInv, LaunchUpdate
    PROVE  UpdateInv'
<1>0. pc' \in {"check", "rec_env"}
  BY DEF LaunchUpdate
<1>1. PlainTypes'
  BY DEF UpdateInv, UpdateTypes, PlainTypes, LaunchUpdate
<1>2. TreeTypes'
  BY DEF UpdateInv, UpdateTypes, TreeTypes, LaunchUpdate
<1>3. JournalTypes'
  BY DEF UpdateInv, UpdateTypes, JournalTypes, LaunchUpdate
<1>4. HeldTypes'
  BY DEF UpdateInv, UpdateTypes, HeldTypes, LaunchUpdate
<1>5. Seen'
  BY DEF UpdateInv, UpdateTypes, Seen, LaunchUpdate
<1>6. ASSUME ~gap' PROVE Trees'
  BY <1>6 DEF UpdateInv, UpdateTypes, Trees, Hands, Forward, Statuses, LaunchUpdate
<1>7. ASSUME ~gap' PROVE Hands'
  BY <1>7 DEF UpdateInv, UpdateTypes, Trees, Hands, Forward, Statuses, LaunchUpdate
<1>8. ASSUME ~gap' PROVE Forward'
  BY <1>8 DEF UpdateInv, UpdateTypes, Trees, Hands, Forward, Statuses, LaunchUpdate
<1>9. ASSUME ~gap' PROVE Statuses'
  BY <1>9 DEF UpdateInv, UpdateTypes, Trees, Hands, Forward, Statuses, LaunchUpdate
<1>10. ASSUME ~gap', owner' = 0 PROVE Unowned'
  BY <1>10
     DEF UpdateInv, UpdateTypes, Trees, Hands, Forward, Statuses, Alone, Unowned, Going, GoingBack,
         LaunchUpdate
<1>11. ASSUME ~gap', owner' = 0 PROVE Going'
  BY <1>0 DEF Going
<1>12. ASSUME ~gap', owner' = 0 PROVE GoingBack'
  BY <1>0 DEF GoingBack
<1>13. ASSUME ~gap', owner' = 0 PROVE Between'
  BY <1>13
     DEF UpdateInv, UpdateTypes, Trees, Hands, Forward, Statuses, Alone, Unowned, Going, GoingBack,
         Between, Ended, LaunchUpdate
<1>14. ASSUME ~gap', owner' = 0 PROVE Ended'
  BY <1>14
     DEF UpdateInv, UpdateTypes, Trees, Hands, Forward, Statuses, Alone, Unowned, Going, GoingBack,
         Between, Ended, Kept, LaunchUpdate
<1>15. UpdateTypes'
  BY <1>1, <1>2, <1>3, <1>4 DEF UpdateTypes, PlainTypes, TreeTypes, JournalTypes, HeldTypes
<1> QED
  BY <1>5, <1>6, <1>7, <1>8, <1>9, <1>10, <1>11, <1>12, <1>13, <1>14, <1>15 DEF UpdateInv, Alone

LEMMA UpdaterDiesKeeps ==
    ASSUME UpdateInv, UpdaterDies
    PROVE  UpdateInv'
<1>0. /\ UNCHANGED <<setup, head, dirty, files, deployed, env, mark, journal, risked, owner>>
      /\ pc # "idle" /\ pc' = "idle" /\ held' = Nothing /\ gap' = (gap \/ Gap) /\ hurt' = (hurt \/ HalfCopied)
  BY DEF UpdaterDies
<1>1. PlainTypes'
  BY DEF UpdateInv, UpdateTypes, PlainTypes, UpdaterDies
<1>2. TreeTypes'
  BY DEF UpdateInv, UpdateTypes, TreeTypes, UpdaterDies
<1>3. JournalTypes'
  BY DEF UpdateInv, UpdateTypes, JournalTypes, UpdaterDies
<1>4. HeldTypes'
  BY DEF UpdateInv, UpdateTypes, HeldTypes, UpdaterDies
<1>5. Seen'
  BY <1>0 DEF UpdateInv, UpdateTypes, Seen
<1>6. ASSUME ~gap' PROVE Trees'
  BY <1>6, <1>0 DEF UpdateInv, UpdateTypes, Trees, Hands, Forward, Statuses
<1>7. ASSUME ~gap' PROVE Hands'
  BY <1>7, <1>0 DEF UpdateInv, UpdateTypes, Trees, Hands, Forward, Statuses
<1>8. ASSUME ~gap' PROVE Forward'
  BY <1>8, <1>0 DEF UpdateInv, UpdateTypes, Trees, Hands, Forward, Statuses
<1>9. ASSUME ~gap' PROVE Statuses'
  <2>0. UpdateTypes /\ ~gap /\ ~Gap /\ Trees /\ Hands /\ Forward /\ Statuses
    BY <1>9, <1>0 DEF UpdateInv, UpdateTypes
  <2>1. ASSUME journal.status = "dependency_commit_started", env.previous = "none"
        PROVE  Committed
    <3>1. pc \in {"idle", "unmark", "rollback"} \cup Dropping \cup Recovering
      BY <2>0, <2>1 DEF Statuses
    <3>2. CASE pc \in {"idle", "rec_env", "rollback", "rec_final"}
      BY <2>0, <2>1, <3>2 DEF Statuses
    <3>3. CASE pc \in {"unmark", "drop", "drop_rest"}
      BY <2>0, <2>1, <3>3 DEF Trees, Hands
    <3>4. CASE pc = "committed"
      BY <2>0, <3>4 DEF Trees, Forward
    <3>5. CASE pc \in {"rec_out", "rec_in"}
      BY <2>0, <2>1, <3>5 DEF Trees
    <3>6. CASE pc \in PutBack
      BY <2>0, <2>1, <3>6
    <3> QED
      BY <3>1, <3>2, <3>3, <3>4, <3>5, <3>6
  <2>2. journal.status \in {"dependency_commit_started", "dependency_committed"} => journal.env
    BY <2>0 DEF Statuses
  <2>3. journal.status = "dependency_committed" => Committed
    BY <2>0 DEF Statuses
  <2>4. journal.before.deployed = "old"
    BY <2>0 DEF Statuses
  <2> QED
    BY <1>0, <2>1, <2>2, <2>3, <2>4 DEF Statuses
<1>10. ASSUME ~gap', owner' = 0 PROVE Unowned'
  BY <1>10, <1>0 DEF UpdateInv, UpdateTypes, Trees, Hands, Forward, Statuses, Alone, Unowned, Going, GoingBack
<1>11. ASSUME ~gap', owner' = 0 PROVE Going'
  BY <1>11, <1>0 DEF UpdateInv, UpdateTypes, Trees, Hands, Forward, Statuses, Alone, Unowned, Going, Ended
<1>12. ASSUME ~gap', owner' = 0 PROVE GoingBack'
  BY <1>12, <1>0
     DEF UpdateInv, UpdateTypes, Trees, Hands, Forward, Statuses, Alone, Unowned, Going, GoingBack,
         Between, Ended
<1>13. ASSUME ~gap', owner' = 0 PROVE Between'
  <2>0. UpdateTypes /\ ~gap /\ ~Gap /\ Trees /\ Hands /\ Forward /\ Statuses
    BY <1>13, <1>0 DEF UpdateInv, UpdateTypes
  <2>1. Alone
    BY <2>0, <1>13, <1>0 DEF UpdateInv
  <2>2. journal.status = "dependency_committed" => Done
    BY <2>1 DEF Alone, Between
  <2>3. ASSUME journal.status \in Incomplete
        PROVE  \/ journal.status = "dependency_committed"
               \/ journal.status = "dependency_commit_started" /\ Done /\ env.previous = "none"
               \/ /\ Revertible(journal.synced)
                  /\ \/ OldTree /\ journal.status # "dependency_commit_started"
                     \/ journal.env /\ (NoTree \/ NewTree)
                     \/ journal.env /\ journal.status = "dependency_commit_started" /\ Both
    <3>0. pc \in Place
      BY <2>0 DEF Statuses
    <3>1. CASE pc \in Starting
      BY <2>0, <2>3, <3>1, <1>0 DEF Statuses
    <3>2. CASE pc \in Copying
      BY <2>0, <2>1, <3>2 DEF Statuses, Alone, Unowned, Going
    <3>3. CASE pc \in Synchronised \ ({"unmark", "finish"} \cup Dropping)
      BY <2>0, <2>1, <3>3 DEF Statuses, Alone, Unowned, Going, Hands, Forward
    <3>4. CASE pc \in {"unmark", "finish"} \cup Dropping
      BY <2>0, <2>1, <3>4 DEF Statuses, Alone, Unowned, Going, Hands, Forward, Trees
    <3>b. GoingBack
      BY <2>1 DEF Alone
    <3>5. CASE pc = "rollback"
      <4>1. Revertible(journal.synced)
        BY <3>b, <3>5 DEF GoingBack
      <4>2. IF held.swapped THEN NewTree \/ CommitLost ELSE OldTree
        BY <3>b, <3>5 DEF GoingBack
      <4>3. /\ journal.status = "dependency_commit_started" => held.swapped /\ env.previous # "cut"
            /\ held.swapped => journal.env
        BY <2>0, <3>5 DEF Hands
      <4> QED
        BY <4>1, <4>2, <4>3
    <3>9. CASE pc \in RollingBack \ {"rollback"}
      <4>1. Revertible(journal.synced)
        BY <3>b, <3>9 DEF GoingBack
      <4>2. journal.status # "dependency_commit_started"
        BY <2>0, <3>9 DEF Statuses
      <4>3. CASE pc \in {"rb_out", "rb_in"}
        BY <3>b, <4>1, <4>2, <4>3 DEF GoingBack
      <4>4. CASE pc \notin {"rb_out", "rb_in"}
        <5>1. OldTree \/ EnvLeft
          BY <3>b, <4>4, <3>9 DEF GoingBack
        <5> QED
          BY <2>0, <4>1, <4>2, <5>1
      <4> QED
        BY <4>3, <4>4
    <3>6. CASE pc = "rec_env"
      BY <2>1, <2>3, <3>6 DEF Alone, Between
    <3>7. CASE pc \in {"rec_out", "rec_in"}
      BY <3>b, <3>7 DEF GoingBack
    <3>10. CASE pc = "rec_final"
      BY <2>0, <2>1, <3>10 DEF Statuses, Alone, Between
    <3>8. CASE pc \in PutBack
      BY <2>0, <2>1, <3>8 DEF Statuses, Alone, Unowned, GoingBack
    <3> QED
      BY <3>0, <3>1, <3>2, <3>3, <3>4, <3>5, <3>6, <3>7, <3>8, <3>9, <3>10
  <2> QED
    BY <1>0, <2>2, <2>3 DEF Between
<1>14. ASSUME ~gap', owner' = 0 PROVE Ended'
  BY <1>14, <1>0
     DEF UpdateInv, UpdateTypes, Trees, Hands, Forward, Statuses, Alone, Unowned, Going, GoingBack,
         Between, Ended, Kept
<1>15. UpdateTypes'
  BY <1>1, <1>2, <1>3, <1>4 DEF UpdateTypes, PlainTypes, TreeTypes, JournalTypes, HeldTypes
<1> QED
  BY <1>5, <1>6, <1>7, <1>8, <1>9, <1>10, <1>11, <1>12, <1>13, <1>14, <1>15 DEF UpdateInv, Alone

LEMMA StepFailsKeeps ==
    ASSUME UpdateInv, StepFails
    PROVE  UpdateInv'
<1>0. /\ UNCHANGED <<setup, head, dirty, files, deployed, journal, gap, risked, owner>>
      /\ pc \in {"prepare", "updating", "merge", "merged", "syncing", "sync", "sync_rest", "synced", "stage", "activating",
                 "swap_out", "swap_in", "activated", "restarting", "verified", "deploy", "deployed", "commit", "committed"}
      /\ pc' = "rollback" /\ hurt' = (hurt \/ HalfCopied \/ pc = "committed")
      /\ held'.moved = held.moved /\ held'.swapped = held.swapped /\ held'.undone = held.undone
      /\ held'.carried = held.carried /\ (held'.synced <=> held.synced \/ pc = "syncing")
      /\ (held'.env <=> held.env \/ pc = "activating") /\ HeldTypes'
      /\ mark' \in BOOLEAN /\ (mark' <=> mark /\ pc # "swap_in")
      /\ env'.active = (IF pc = "swap_in" THEN env.previous ELSE env.active)
      /\ env'.previous = (IF pc \in {"swap_out", "swap_in"} THEN "none" ELSE env.previous)
      /\ pc \notin {"swap_out", "swap_in"} => env' = env
      /\ TreeTypes'
  <2> DEFINE s == (held.synced \/ pc = "syncing")
             e == (held.env \/ pc = "activating")
  <2>1. s \in BOOLEAN /\ e \in BOOLEAN
    OBVIOUS
  <2>2. held' = [held EXCEPT !.synced = s, !.env = e]
    BY DEF StepFails
  <2>3. UpdateTypes
    BY DEF UpdateInv
  <2>4. held'.moved = held.moved /\ held'.swapped = held.swapped /\ held'.undone = held.undone
        /\ held'.carried = held.carried /\ held'.synced = s /\ held'.env = e /\ HeldTypes'
    <3> HIDE DEF s, e
    <3> QED
      BY <2>1, <2>2, <2>3 DEF UpdateTypes, HeldTypes
  <2>5. CASE pc = "swap_in"
    <3>1. env' = StagingGone([env EXCEPT !.active = env.previous]) /\ ~mark'
      BY <2>5 DEF StepFails
    <3> QED
      BY <2>3, <2>4, <2>5, <3>1 DEF StepFails, UpdateTypes, TreeTypes
  <2>6. CASE pc = "swap_out"
    <3>1. env' = StagingGone(env)
      BY <2>6 DEF StepFails
    <3> QED
      BY <2>3, <2>4, <2>6, <3>1 DEF StepFails, UpdateTypes, TreeTypes
  <2>7. CASE pc \notin {"swap_in", "swap_out"}
    <3>1. env' = env
      BY <2>7 DEF StepFails
    <3> QED
      BY <2>3, <2>4, <2>7, <3>1 DEF StepFails, UpdateTypes, TreeTypes
  <2> QED
    BY <2>5, <2>6, <2>7
<1>1. PlainTypes'
  BY <1>0, NotesAre, GivesUpIs DEF UpdateInv, UpdateTypes, PlainTypes
<1>2. TreeTypes'
  BY <1>0, NotesAre, GivesUpIs DEF UpdateInv, UpdateTypes, TreeTypes
<1>3. JournalTypes'
  BY <1>0, NotesAre, GivesUpIs DEF UpdateInv, UpdateTypes, JournalTypes
<1>4. HeldTypes'
  BY <1>0, NotesAre, GivesUpIs DEF UpdateInv, UpdateTypes, HeldTypes
<1>5. Seen'
  BY <1>0, NotesAre, GivesUpIs DEF UpdateInv, UpdateTypes, Seen
<1>6. ASSUME ~gap' PROVE Trees'
  BY <1>6, <1>0, NotesAre, GivesUpIs DEF UpdateInv, UpdateTypes, Trees, Hands, Forward, Statuses
<1>7. ASSUME ~gap' PROVE Hands'
  BY <1>7, <1>0, NotesAre, GivesUpIs DEF UpdateInv, UpdateTypes, Trees, Hands, Forward, Statuses
<1>8. ASSUME ~gap' PROVE Forward'
  BY <1>8, <1>0, NotesAre, GivesUpIs DEF UpdateInv, UpdateTypes, Trees, Hands, Forward, Statuses
<1>9. ASSUME ~gap' PROVE Statuses'
  BY <1>9, <1>0, NotesAre, GivesUpIs DEF UpdateInv, UpdateTypes, Trees, Hands, Forward, Statuses
<1>10. ASSUME ~gap', owner' = 0 PROVE Unowned'
  BY <1>10, <1>0, NotesAre, GivesUpIs
     DEF UpdateInv, UpdateTypes, Trees, Hands, Forward, Statuses, Alone, Unowned, Going, GoingBack
<1>11. ASSUME ~gap', owner' = 0 PROVE Going'
  BY <1>11, <1>0, NotesAre, GivesUpIs
     DEF UpdateInv, UpdateTypes, Trees, Hands, Forward, Statuses, Alone, Unowned, Going, Ended
<1>12. ASSUME ~gap', owner' = 0 PROVE GoingBack'
  BY <1>12, <1>0, NotesAre, GivesUpIs
     DEF UpdateInv, UpdateTypes, Trees, Hands, Forward, Statuses, Alone, Unowned, Going, GoingBack,
         Between, Ended
<1>13. ASSUME ~gap', owner' = 0 PROVE Between'
  BY <1>13, <1>0, NotesAre, GivesUpIs
     DEF UpdateInv, UpdateTypes, Trees, Hands, Forward, Statuses, Alone, Unowned, Going, GoingBack,
         Between, Ended
<1>14. ASSUME ~gap', owner' = 0 PROVE Ended'
  <2>0. UpdateTypes /\ Hands /\ Statuses /\ Alone
    BY <1>14, <1>0 DEF UpdateInv
  <2>1. ASSUME journal.status \notin Incomplete
        PROVE  held' = Nothing /\ ~journal.synced /\ Undone /\ OldTree /\ pc = "prepare"
    <3>1. pc = "prepare"
      BY <2>0, <2>1, <1>0 DEF Statuses
    <3>2. held = Nothing
      BY <2>0, <3>1 DEF Hands
    <3>3. held'.synced = FALSE /\ held'.env = FALSE
      BY <1>0, <3>1, <3>2 DEF HeldTypes
    <3>4. held' = Nothing
      BY <1>0, <3>2, <3>3 DEF HeldTypes
    <3> QED
      BY <2>0, <3>1, <3>4 DEF Alone, Going
  <2> QED
    BY <1>0, <2>1 DEF Ended
<1>15. UpdateTypes'
  BY <1>1, <1>2, <1>3, <1>4 DEF UpdateTypes, PlainTypes, TreeTypes, JournalTypes, HeldTypes
<1> QED
  BY <1>5, <1>6, <1>7, <1>8, <1>9, <1>10, <1>11, <1>12, <1>13, <1>14, <1>15 DEF UpdateInv, Alone

LEMMA TreeFailsKeeps ==
    ASSUME UpdateInv, BackFails /\ TreeFails
    PROVE  UpdateInv'
<1>0. /\ UNCHANGED <<setup, head, dirty, files, deployed, risked, owner>> /\ hurt' /\ (gap' <=> gap) /\ hurt' \in BOOLEAN /\ gap' \in BOOLEAN
      /\ \/ pc \in {"rb_out", "rb_in"} /\ pc' = "rb_repo" /\ Notes({"env"}) /\ UNCHANGED journal
         \/ pc \in {"rec_out", "rec_in"} /\ GivesUp(Part) /\ UNCHANGED held
      /\ \/ UNCHANGED <<env, mark>>
         \/ /\ pc \in {"rb_in", "rec_in"} /\ env.active = "none" /\ ~mark'
            /\ env'.active = env.previous /\ env'.previous = "none"
      /\ mark' \in BOOLEAN /\ TreeTypes'
  <2>1. UpdateTypes /\ BackFails /\ TreeFails
    BY DEF UpdateInv
  <2>2. \/ pc \in {"rb_out", "rb_in"} /\ pc' = "rb_repo" /\ Notes({"env"}) /\ UNCHANGED journal
        \/ pc \in {"rec_out", "rec_in"} /\ GivesUp(Part) /\ UNCHANGED held
    BY <2>1 DEF TreeFails, EnvNotBack
  <2>3. \/ UNCHANGED <<env, mark>>
        \/ /\ pc \in {"rb_in", "rec_in"} /\ env.active = "none" /\ ~mark' /\ mark' \in BOOLEAN
           /\ env' = [env EXCEPT !.active = env.previous, !.previous = "none"]
    BY <2>1 DEF TreeFails
  <2>4. UNCHANGED <<setup, head, dirty, files, deployed, risked, owner>> /\ hurt' = TRUE /\ gap' = gap
    BY <2>1 DEF TreeFails, BackFails, UpdateTypes
  <2>5. TreeTypes' /\ mark' \in BOOLEAN
    <3>1. TreeTypes /\ mark \in BOOLEAN
      BY <2>1 DEF UpdateTypes, TreeTypes
    <3>2. CASE UNCHANGED <<env, mark>>
      BY <3>1, <3>2 DEF TreeTypes
    <3>3. CASE env' = [env EXCEPT !.active = env.previous, !.previous = "none"] /\ mark' \in BOOLEAN
      BY <3>1, <3>3 DEF TreeTypes
    <3> QED
      BY <2>3, <3>2, <3>3
  <2>6. \/ UNCHANGED <<env, mark>>
        \/ /\ pc \in {"rb_in", "rec_in"} /\ env.active = "none" /\ ~mark'
           /\ env'.active = env.previous /\ env'.previous = "none"
    BY <2>1, <2>3 DEF UpdateTypes
  <2> QED
    BY <2>1, <2>2, <2>4, <2>5, <2>6 DEF UpdateTypes
<1>1. PlainTypes'
  BY <1>0, NotesAre, GivesUpIs DEF UpdateInv, UpdateTypes, PlainTypes
<1>2. TreeTypes'
  BY <1>0, NotesAre, GivesUpIs DEF UpdateInv, UpdateTypes, TreeTypes
<1>3. JournalTypes'
  BY <1>0, NotesAre, GivesUpIs DEF UpdateInv, UpdateTypes, JournalTypes
<1>4. HeldTypes'
  BY <1>0, NotesAre, GivesUpIs DEF UpdateInv, UpdateTypes, HeldTypes
<1>5. Seen'
  BY <1>0, NotesAre, GivesUpIs DEF UpdateInv, UpdateTypes, Seen
<1>6. ASSUME ~gap' PROVE Trees'
  BY <1>6, <1>0, NotesAre, GivesUpIs DEF UpdateInv, UpdateTypes, Trees, Hands, Forward, Statuses
<1>7. ASSUME ~gap' PROVE Hands'
  BY <1>7, <1>0, NotesAre, GivesUpIs DEF UpdateInv, UpdateTypes, Trees, Hands, Forward, Statuses
<1>8. ASSUME ~gap' PROVE Forward'
  BY <1>8, <1>0, NotesAre, GivesUpIs DEF UpdateInv, UpdateTypes, Trees, Hands, Forward, Statuses
<1>9. ASSUME ~gap' PROVE Statuses'
  BY <1>9, <1>0, NotesAre, GivesUpIs DEF UpdateInv, UpdateTypes, Trees, Hands, Forward, Statuses
<1>10. ASSUME ~gap', owner' = 0 PROVE Unowned'
  BY <1>10, <1>0, NotesAre, GivesUpIs
     DEF UpdateInv, UpdateTypes, Trees, Hands, Forward, Statuses, Alone, Unowned, Going, GoingBack
<1>11. ASSUME ~gap', owner' = 0 PROVE Going'
  BY <1>11, <1>0, NotesAre, GivesUpIs
     DEF UpdateInv, UpdateTypes, Trees, Hands, Forward, Statuses, Alone, Unowned, Going, Ended
<1>12. ASSUME ~gap', owner' = 0 PROVE GoingBack'
  BY <1>12, <1>0, NotesAre, GivesUpIs
     DEF UpdateInv, UpdateTypes, Trees, Hands, Forward, Statuses, Alone, Unowned, Going, GoingBack,
         Between, Ended
<1>13. ASSUME ~gap', owner' = 0 PROVE Between'
  BY <1>13, <1>0, NotesAre, GivesUpIs
     DEF UpdateInv, UpdateTypes, Trees, Hands, Forward, Statuses, Alone, Unowned, Going, GoingBack,
         Between, Ended
<1>14. ASSUME ~gap', owner' = 0 PROVE Ended'
  BY <1>14, <1>0, NotesAre, GivesUpIs
     DEF UpdateInv, UpdateTypes, Trees, Hands, Forward, Statuses, Alone, Unowned, Going, GoingBack,
         Between, Ended, Kept
<1>15. UpdateTypes'
  BY <1>1, <1>2, <1>3, <1>4 DEF UpdateTypes, PlainTypes, TreeTypes, JournalTypes, HeldTypes
<1> QED
  BY <1>5, <1>6, <1>7, <1>8, <1>9, <1>10, <1>11, <1>12, <1>13, <1>14, <1>15 DEF UpdateInv, Alone

LEMMA ResetFailsKeeps ==
    ASSUME UpdateInv, BackFails /\ ResetFails
    PROVE  UpdateInv'
<1>0. /\ UNCHANGED <<setup, dirty, deployed, env, mark, risked, owner>> /\ hurt' /\ (gap' <=> gap) /\ hurt' \in BOOLEAN /\ gap' \in BOOLEAN
      /\ \/ head' = head /\ files' = files
         \/ head' = Was.head /\ files' = IF setup.same THEN Was.files ELSE files
      /\ \/ pc = "rb_reset" /\ pc' = "rb_files" /\ Notes({"repo"}) /\ UNCHANGED journal
         \/ pc = "rec_reset" /\ GivesUp({"repo", "files"}) /\ UNCHANGED held
  <2>1. UpdateTypes /\ BackFails /\ ResetFails
    BY DEF UpdateInv
  <2> QED
    BY <2>1 DEF UpdateTypes, BackFails, ResetFails, RepoNotBack
<1>1. PlainTypes'
  BY <1>0, NotesAre, GivesUpIs DEF UpdateInv, UpdateTypes, PlainTypes
<1>2. TreeTypes'
  BY <1>0, NotesAre, GivesUpIs DEF UpdateInv, UpdateTypes, TreeTypes
<1>3. JournalTypes'
  BY <1>0, NotesAre, GivesUpIs DEF UpdateInv, UpdateTypes, JournalTypes
<1>4. HeldTypes'
  BY <1>0, NotesAre, GivesUpIs DEF UpdateInv, UpdateTypes, HeldTypes
<1>5. Seen'
  BY <1>0, NotesAre, GivesUpIs DEF UpdateInv, UpdateTypes, Seen
<1>6. ASSUME ~gap' PROVE Trees'
  BY <1>6, <1>0, NotesAre, GivesUpIs DEF UpdateInv, UpdateTypes, Trees, Hands, Forward, Statuses
<1>7. ASSUME ~gap' PROVE Hands'
  BY <1>7, <1>0, NotesAre, GivesUpIs DEF UpdateInv, UpdateTypes, Trees, Hands, Forward, Statuses
<1>8. ASSUME ~gap' PROVE Forward'
  BY <1>8, <1>0, NotesAre, GivesUpIs DEF UpdateInv, UpdateTypes, Trees, Hands, Forward, Statuses
<1>9. ASSUME ~gap' PROVE Statuses'
  BY <1>9, <1>0, NotesAre, GivesUpIs DEF UpdateInv, UpdateTypes, Trees, Hands, Forward, Statuses
<1>10. ASSUME ~gap', owner' = 0 PROVE Unowned'
  BY <1>10, <1>0, NotesAre, GivesUpIs
     DEF UpdateInv, UpdateTypes, Trees, Hands, Forward, Statuses, Alone, Unowned, Going, GoingBack
<1>11. ASSUME ~gap', owner' = 0 PROVE Going'
  BY <1>11, <1>0, NotesAre, GivesUpIs
     DEF UpdateInv, UpdateTypes, Trees, Hands, Forward, Statuses, Alone, Unowned, Going, Ended
<1>12. ASSUME ~gap', owner' = 0 PROVE GoingBack'
  BY <1>12, <1>0, NotesAre, GivesUpIs
     DEF UpdateInv, UpdateTypes, Trees, Hands, Forward, Statuses, Alone, Unowned, Going, GoingBack,
         Between, Ended
<1>13. ASSUME ~gap', owner' = 0 PROVE Between'
  BY <1>13, <1>0, NotesAre, GivesUpIs
     DEF UpdateInv, UpdateTypes, Trees, Hands, Forward, Statuses, Alone, Unowned, Going, GoingBack,
         Between, Ended
<1>14. ASSUME ~gap', owner' = 0 PROVE Ended'
  BY <1>14, <1>0, NotesAre, GivesUpIs
     DEF UpdateInv, UpdateTypes, Trees, Hands, Forward, Statuses, Alone, Unowned, Going, GoingBack,
         Between, Ended, Kept
<1>15. UpdateTypes'
  BY <1>1, <1>2, <1>3, <1>4 DEF UpdateTypes, PlainTypes, TreeTypes, JournalTypes, HeldTypes
<1> QED
  BY <1>5, <1>6, <1>7, <1>8, <1>9, <1>10, <1>11, <1>12, <1>13, <1>14, <1>15 DEF UpdateInv, Alone

LEMMA RestoreFailsKeeps ==
    ASSUME UpdateInv, BackFails /\ RestoreFails
    PROVE  UpdateInv'
<1>0. /\ UNCHANGED <<setup, head, deployed, env, mark, journal, risked, owner>>
      /\ dirty' \in BOOLEAN /\ (dirty' => dirty) /\ (dirty /\ ~setup.same => dirty')
      /\ hurt' /\ hurt' \in BOOLEAN /\ gap' \in BOOLEAN /\ (gap' <=> gap \/ (pc \in {"rec_some", "rec_rest"} /\ Gap))
      /\ \/ files' = files
         \/ files' = Was.files /\ pc \in {"rb_rest", "rec_rest"}
      /\ \/ pc \in {"rb_some", "rb_rest"} /\ pc' = "rb_end" /\ Notes({"files"})
         \/ pc \in {"rec_some", "rec_rest"} /\ pc' = "idle" /\ UNCHANGED held
  <2>1. UpdateTypes /\ BackFails /\ RestoreFails
    BY DEF UpdateInv
  <2>2. RestoreOver
    BY <2>1 DEF RestoreFails
  <2>3. dirty' \in BOOLEAN /\ (dirty' => dirty) /\ (dirty /\ ~setup.same => dirty')
    BY <2>1, <2>2, RestoreOverIs
  <2> QED
    BY <2>1, <2>3 DEF UpdateTypes, BackFails, RestoreFails
<1>1. PlainTypes'
  BY <1>0, NotesAre, GivesUpIs DEF UpdateInv, UpdateTypes, PlainTypes
<1>2. TreeTypes'
  BY <1>0, NotesAre, GivesUpIs DEF UpdateInv, UpdateTypes, TreeTypes
<1>3. JournalTypes'
  BY <1>0, NotesAre, GivesUpIs DEF UpdateInv, UpdateTypes, JournalTypes
<1>4. HeldTypes'
  BY <1>0, NotesAre, GivesUpIs DEF UpdateInv, UpdateTypes, HeldTypes
<1>5. Seen'
  BY <1>0, NotesAre, GivesUpIs DEF UpdateInv, UpdateTypes, Seen
<1>6. ASSUME ~gap' PROVE Trees'
  BY <1>6, <1>0, NotesAre, GivesUpIs DEF UpdateInv, UpdateTypes, Trees, Hands, Forward, Statuses
<1>7. ASSUME ~gap' PROVE Hands'
  BY <1>7, <1>0, NotesAre, GivesUpIs DEF UpdateInv, UpdateTypes, Trees, Hands, Forward, Statuses
<1>8. ASSUME ~gap' PROVE Forward'
  BY <1>8, <1>0, NotesAre, GivesUpIs DEF UpdateInv, UpdateTypes, Trees, Hands, Forward, Statuses
<1>9. ASSUME ~gap' PROVE Statuses'
  BY <1>9, <1>0, NotesAre, GivesUpIs DEF UpdateInv, UpdateTypes, Trees, Hands, Forward, Statuses
<1>10. ASSUME ~gap', owner' = 0 PROVE Unowned'
  BY <1>10, <1>0, NotesAre, GivesUpIs
     DEF UpdateInv, UpdateTypes, Trees, Hands, Forward, Statuses, Alone, Unowned, Going, GoingBack
<1>11. ASSUME ~gap', owner' = 0 PROVE Going'
  BY <1>11, <1>0, NotesAre, GivesUpIs
     DEF UpdateInv, UpdateTypes, Trees, Hands, Forward, Statuses, Alone, Unowned, Going, Ended
<1>12. ASSUME ~gap', owner' = 0 PROVE GoingBack'
  BY <1>12, <1>0, NotesAre, GivesUpIs
     DEF UpdateInv, UpdateTypes, Trees, Hands, Forward, Statuses, Alone, Unowned, Going, GoingBack,
         Between, Ended
<1>13. ASSUME ~gap', owner' = 0 PROVE Between'
  BY <1>13, <1>0, NotesAre, GivesUpIs
     DEF UpdateInv, UpdateTypes, Trees, Hands, Forward, Statuses, Alone, Unowned, Going, GoingBack,
         Between, Ended
<1>14. ASSUME ~gap', owner' = 0 PROVE Ended'
  BY <1>14, <1>0, NotesAre, GivesUpIs
     DEF UpdateInv, UpdateTypes, Trees, Hands, Forward, Statuses, Alone, Unowned, Going, GoingBack,
         Between, Ended, Kept
<1>15. UpdateTypes'
  BY <1>1, <1>2, <1>3, <1>4 DEF UpdateTypes, PlainTypes, TreeTypes, JournalTypes, HeldTypes
<1> QED
  BY <1>5, <1>6, <1>7, <1>8, <1>9, <1>10, <1>11, <1>12, <1>13, <1>14, <1>15 DEF UpdateInv, Alone

LEMMA CleanupFailsKeeps ==
    ASSUME UpdateInv, CleanupFails
    PROVE  UpdateInv'
<1>1. PlainTypes'
  BY DEF UpdateInv, UpdateTypes, PlainTypes, CleanupFails
<1>2. TreeTypes'
  BY DEF UpdateInv, UpdateTypes, TreeTypes, CleanupFails
<1>3. JournalTypes'
  BY DEF UpdateInv, UpdateTypes, JournalTypes, CleanupFails
<1>4. HeldTypes'
  BY DEF UpdateInv, UpdateTypes, HeldTypes, CleanupFails
<1>5. Seen'
  BY DEF UpdateInv, UpdateTypes, Seen, CleanupFails
<1>6. ASSUME ~gap' PROVE Trees'
  BY <1>6 DEF UpdateInv, UpdateTypes, Trees, Hands, Forward, Statuses, CleanupFails
<1>7. ASSUME ~gap' PROVE Hands'
  BY <1>7 DEF UpdateInv, UpdateTypes, Trees, Hands, Forward, Statuses, CleanupFails
<1>8. ASSUME ~gap' PROVE Forward'
  BY <1>8 DEF UpdateInv, UpdateTypes, Trees, Hands, Forward, Statuses, CleanupFails
<1>9. ASSUME ~gap' PROVE Statuses'
  BY <1>9 DEF UpdateInv, UpdateTypes, Trees, Hands, Forward, Statuses, CleanupFails
<1>10. ASSUME ~gap', owner' = 0 PROVE Unowned'
  BY <1>10
     DEF UpdateInv, UpdateTypes, Trees, Hands, Forward, Statuses, Alone, Unowned, Going, GoingBack,
         CleanupFails
<1>11. ASSUME ~gap', owner' = 0 PROVE Going'
  BY <1>11
     DEF UpdateInv, UpdateTypes, Trees, Hands, Forward, Statuses, Alone, Unowned, Going, Ended,
         CleanupFails
<1>12. ASSUME ~gap', owner' = 0 PROVE GoingBack'
  BY <1>12
     DEF UpdateInv, UpdateTypes, Trees, Hands, Forward, Statuses, Alone, Unowned, Going, GoingBack,
         Between, Ended, CleanupFails
<1>13. ASSUME ~gap', owner' = 0 PROVE Between'
  BY <1>13
     DEF UpdateInv, UpdateTypes, Trees, Hands, Forward, Statuses, Alone, Unowned, Going, GoingBack,
         Between, Ended, CleanupFails
<1>14. ASSUME ~gap', owner' = 0 PROVE Ended'
  BY <1>14
     DEF UpdateInv, UpdateTypes, Trees, Hands, Forward, Statuses, Alone, Unowned, Going, GoingBack,
         Between, Ended, Kept, CleanupFails
<1>15. UpdateTypes'
  BY <1>1, <1>2, <1>3, <1>4 DEF UpdateTypes, PlainTypes, TreeTypes, JournalTypes, HeldTypes
<1> QED
  BY <1>5, <1>6, <1>7, <1>8, <1>9, <1>10, <1>11, <1>12, <1>13, <1>14, <1>15 DEF UpdateInv, Alone

LEMMA RecordLostKeeps ==
    ASSUME UpdateInv, RecordLost
    PROVE  UpdateInv'
<1>0. /\ UNCHANGED <<setup, head, dirty, files, deployed, env, mark, journal, risked, owner>>
      /\ hurt' \in BOOLEAN /\ gap' \in BOOLEAN /\ (gap' <=> gap \/ GapLost)
      /\ (hurt' <=> hurt \/ (pc = "rb_end" /\ HalfCopied))
      /\ \/ pc \in {"finish", "rb_end"} /\ pc' = "idle" /\ UNCHANGED held
         \/ pc = "rollback" /\ pc' = "rb_out" /\ held' = held /\ held.swapped /\ EnvMatches
         \/ pc = "rollback" /\ pc' = "rb_repo" /\ ~held.swapped /\ Notes({})
         \/ pc = "rollback" /\ pc' = "rb_repo" /\ held.swapped /\ ~EnvMatches /\ Notes({"env"})
  <2>1. UpdateTypes
    BY DEF UpdateInv
  <2> DEFINE g == GapLost
             h == (pc = "rb_end" /\ HalfCopied)
  <2>2. gap' = (gap \/ g) /\ hurt' = (hurt \/ h)
    BY DEF RecordLost
  <2>3. gap' \in BOOLEAN /\ hurt' \in BOOLEAN /\ (gap' <=> gap \/ g) /\ (hurt' <=> hurt \/ h)
    <3> HIDE DEF g, h
    <3> QED
      BY <2>1, <2>2 DEF UpdateTypes
  <2> QED
    BY <2>1, <2>3 DEF UpdateTypes, RecordLost, RollbackEnv
<1>1. PlainTypes'
  BY <1>0, NotesAre, GivesUpIs DEF UpdateInv, UpdateTypes, PlainTypes, GapLost
<1>2. TreeTypes'
  BY <1>0, NotesAre, GivesUpIs DEF UpdateInv, UpdateTypes, TreeTypes, GapLost
<1>3. JournalTypes'
  BY <1>0, NotesAre, GivesUpIs DEF UpdateInv, UpdateTypes, JournalTypes, GapLost
<1>4. HeldTypes'
  BY <1>0, NotesAre, GivesUpIs DEF UpdateInv, UpdateTypes, HeldTypes, GapLost
<1>5. Seen'
  BY <1>0, NotesAre, GivesUpIs DEF UpdateInv, UpdateTypes, Seen, GapLost
<1>6. ASSUME ~gap' PROVE Trees'
  BY <1>6, <1>0, NotesAre, GivesUpIs DEF UpdateInv, UpdateTypes, Trees, Hands, Forward, Statuses, GapLost
<1>7. ASSUME ~gap' PROVE Hands'
  BY <1>7, <1>0, NotesAre, GivesUpIs DEF UpdateInv, UpdateTypes, Trees, Hands, Forward, Statuses, GapLost
<1>8. ASSUME ~gap' PROVE Forward'
  BY <1>8, <1>0, NotesAre, GivesUpIs DEF UpdateInv, UpdateTypes, Trees, Hands, Forward, Statuses, GapLost
<1>9. ASSUME ~gap' PROVE Statuses'
  BY <1>9, <1>0, NotesAre, GivesUpIs DEF UpdateInv, UpdateTypes, Trees, Hands, Forward, Statuses, GapLost
<1>10. ASSUME ~gap', owner' = 0 PROVE Unowned'
  BY <1>10, <1>0, NotesAre, GivesUpIs
     DEF UpdateInv, UpdateTypes, Trees, Hands, Forward, Statuses, Alone, Unowned, Going, GoingBack,
         GapLost
<1>11. ASSUME ~gap', owner' = 0 PROVE Going'
  BY <1>11, <1>0, NotesAre, GivesUpIs
     DEF UpdateInv, UpdateTypes, Trees, Hands, Forward, Statuses, Alone, Unowned, Going, Ended, GapLost
<1>12. ASSUME ~gap', owner' = 0 PROVE GoingBack'
  BY <1>12, <1>0, NotesAre, GivesUpIs
     DEF UpdateInv, UpdateTypes, Trees, Hands, Forward, Statuses, Alone, Unowned, Going, GoingBack,
         Between, Ended, GapLost
<1>13. ASSUME ~gap', owner' = 0 PROVE Between'
  BY <1>13, <1>0, NotesAre, GivesUpIs
     DEF UpdateInv, UpdateTypes, Trees, Hands, Forward, Statuses, Alone, Unowned, Going, GoingBack,
         Between, Ended, GapLost
<1>14. ASSUME ~gap', owner' = 0 PROVE Ended'
  <2>0. UpdateTypes /\ Hands /\ Statuses /\ Alone /\ Ended
    BY <1>14, <1>0 DEF UpdateInv, Alone
  <2> SUFFICES ASSUME journal.status \notin Incomplete
               PROVE  Ended'
    BY <1>0 DEF Ended
  <2>1. pc # "finish"
    BY <2>0 DEF Statuses
  <2>2. pc \notin Starting /\ held = Nothing /\ ~journal.synced /\ Undone /\ OldTree
    BY <2>0, <2>1, <1>0 DEF Ended
  <2>3. CASE pc = "rb_end"
    <3>1. Was.deployed = "old"
      BY <2>0 DEF Statuses
    <3> QED
      BY <1>0, <2>2, <2>3, <3>1 DEF Ended, Kept
  <2>4. CASE pc = "rollback"
    <3>1. pc' = "rb_repo" /\ Notes({})
      BY <1>0, <2>2, <2>4
    <3>2. held' = Nothing
      BY <3>1, <2>2 DEF Notes
    <3> QED
      BY <1>0, <2>2, <3>1, <3>2 DEF Ended, Kept
  <2> QED
    BY <1>0, <2>1, <2>3, <2>4
<1>15. UpdateTypes'
  BY <1>1, <1>2, <1>3, <1>4 DEF UpdateTypes, PlainTypes, TreeTypes, JournalTypes, HeldTypes
<1> QED
  BY <1>5, <1>6, <1>7, <1>8, <1>9, <1>10, <1>11, <1>12, <1>13, <1>14, <1>15 DEF UpdateInv, Alone

LEMMA OwnerKeeps ==
    ASSUME UpdateInv, Owner
    PROVE  UpdateInv'
<1>0. /\ UNCHANGED <<setup, deployed, journal, pc, held, gap, hurt>>
      /\ owner' # 0 /\ owner' \in Nat /\ risked \subseteq risked' /\ risked' \subseteq {"commit", "edit", "env"}
      /\ \/ /\ head' = "own" /\ dirty' \in BOOLEAN /\ (dirty' => dirty) /\ files' = files /\ UNCHANGED <<env, mark>>
            /\ pc \in {"rb_reset", "rec_reset"} => "commit" \in risked'
         \/ /\ dirty' = TRUE /\ UNCHANGED <<head, files, env, mark>>
            /\ setup.same /\ pc \in Copying \cup Restoring => "edit" \in risked'
         \/ /\ dirty' = FALSE /\ UNCHANGED <<head, env, mark>> /\ files' \in {"old", "part", "new"}
            /\ ~HalfCopied => files' = files
         \/ /\ UNCHANGED <<head, dirty, files>> /\ env'.active = "own" /\ ~mark' /\ mark' \in BOOLEAN
            /\ env'.previous = env.previous /\ env'.candidate = env.candidate
            /\ pc \in {"swap_in", "rb_out", "rec_out"} => "env" \in risked'
      /\ TreeTypes'
  <2>1. UpdateTypes /\ Owner
    BY DEF UpdateInv
  <2>2. UNCHANGED <<setup, deployed, journal, pc, held, gap, hurt>> /\ owner' # 0 /\ owner' \in Nat
    BY <2>1 DEF UpdateTypes, Owner
  <2>3. Window \subseteq {"commit", "edit", "env"} /\ risked \subseteq {"commit", "edit", "env"}
    BY <2>1 DEF UpdateTypes, Window
  <2>4. CASE Commits
    <3>1. head' = "own" /\ files' = files /\ UNCHANGED <<env, mark>>
      BY <2>4 DEF Commits, trees
    <3>4. dirty' = dirty \/ dirty' = FALSE
      BY <2>4, Zenon DEF Commits
    <3>5. dirty' \in BOOLEAN /\ (dirty' => dirty)
      <4>1. dirty \in BOOLEAN
        BY <2>1 DEF UpdateTypes
      <4>2. CASE dirty' = dirty
        BY <4>1, <4>2, Zenon
      <4>3. CASE dirty' = FALSE
        BY <4>3, Zenon
      <4> QED
        BY <3>4, <4>2, <4>3, Zenon
    <3>2. risked' = risked \cup (Window \cap {"commit"}) /\ (pc \in {"rb_reset", "rec_reset"} => "commit" \in Window)
      BY <2>4 DEF Commits, Act, Window
    <3>3. TreeTypes'
      BY <2>1, <3>1 DEF UpdateTypes, TreeTypes
    <3> QED
      BY <2>2, <2>3, <3>1, <3>2, <3>3, <3>5
  <2>5. CASE Edits
    <3>1. dirty' = TRUE /\ UNCHANGED <<head, files, env, mark>>
      BY <2>5 DEF Edits, trees
    <3>2. risked' = risked \cup (Window \cap {"edit"}) /\ (setup.same /\ pc \in Copying \cup Restoring => "edit" \in Window)
      BY <2>5 DEF Edits, Act, Window
    <3>3. TreeTypes'
      BY <2>1, <3>1 DEF UpdateTypes, TreeTypes
    <3> QED
      BY <2>2, <2>3, <3>1, <3>2, <3>3
  <2>6. CASE CleansUp
    BY <2>1, <2>2, <2>3, <2>6 DEF UpdateTypes, TreeTypes, CleansUp
  <2>7. CASE Rebuilds
    <3>1. env' = [env EXCEPT !.active = "own"] /\ ~mark' /\ mark' \in BOOLEAN
      BY <2>7 DEF Rebuilds
    <3>2. env'.active = "own" /\ env'.previous = env.previous /\ env'.candidate = env.candidate /\ TreeTypes'
      BY <2>1, <3>1 DEF UpdateTypes, TreeTypes
    <3>3. risked' = risked \cup (Window \cap {"env"}) /\ (pc \in {"swap_in", "rb_out", "rec_out"} => "env" \in Window)
      BY <2>7 DEF Rebuilds, Act, Window
    <3>4. UNCHANGED <<head, dirty, files>>
      BY <2>7 DEF Rebuilds
    <3> QED
      BY <2>2, <2>3, <3>1, <3>2, <3>3, <3>4
  <2> QED
    BY <2>1, <2>4, <2>5, <2>6, <2>7 DEF Owner
<1>1. PlainTypes'
  <2>1. UpdateTypes
    BY DEF UpdateInv
  <2>2. setup' = setup /\ deployed' = deployed /\ gap' = gap /\ hurt' = hurt
    BY <1>0
  <2>3. head' \in {"old", "new", "own"} /\ files' \in {"old", "part", "new"}
    BY <1>0, <2>1 DEF UpdateTypes
  <2>4. dirty' \in BOOLEAN
    BY <1>0, <2>1, Zenon DEF UpdateTypes
  <2>5. mark' \in BOOLEAN
    BY <1>0, <2>1, Zenon DEF UpdateTypes
  <2> QED
    BY <1>0, <2>1, <2>2, <2>3, <2>4, <2>5 DEF UpdateTypes, PlainTypes
<1>2. TreeTypes'
  BY <1>0, NotesAre, GivesUpIs DEF UpdateInv, UpdateTypes, TreeTypes
<1>3. JournalTypes'
  BY <1>0, NotesAre, GivesUpIs DEF UpdateInv, UpdateTypes, JournalTypes
<1>4. HeldTypes'
  BY <1>0, NotesAre, GivesUpIs DEF UpdateInv, UpdateTypes, HeldTypes
<1>5. Seen'
  BY <1>0, NotesAre, GivesUpIs DEF UpdateInv, UpdateTypes, Seen
<1>6. ASSUME ~gap' PROVE Trees'
  BY <1>6, <1>0, NotesAre, GivesUpIs DEF UpdateInv, UpdateTypes, Trees, Hands, Forward, Statuses
<1>7. ASSUME ~gap' PROVE Hands'
  BY <1>7, <1>0, NotesAre, GivesUpIs DEF UpdateInv, UpdateTypes, Trees, Hands, Forward, Statuses
<1>8. ASSUME ~gap' PROVE Forward'
  BY <1>8, <1>0, NotesAre, GivesUpIs DEF UpdateInv, UpdateTypes, Trees, Hands, Forward, Statuses
<1>9. ASSUME ~gap' PROVE Statuses'
  BY <1>9, <1>0, NotesAre, GivesUpIs DEF UpdateInv, UpdateTypes, Trees, Hands, Forward, Statuses
<1>10. ASSUME ~gap', owner' = 0 PROVE Unowned'
  BY <1>10, <1>0, NotesAre, GivesUpIs
     DEF UpdateInv, UpdateTypes, Trees, Hands, Forward, Statuses, Alone, Unowned, Going, GoingBack
<1>11. ASSUME ~gap', owner' = 0 PROVE Going'
  BY <1>11, <1>0, NotesAre, GivesUpIs
     DEF UpdateInv, UpdateTypes, Trees, Hands, Forward, Statuses, Alone, Unowned, Going, Ended
<1>12. ASSUME ~gap', owner' = 0 PROVE GoingBack'
  BY <1>12, <1>0, NotesAre, GivesUpIs
     DEF UpdateInv, UpdateTypes, Trees, Hands, Forward, Statuses, Alone, Unowned, Going, GoingBack,
         Between, Ended
<1>13. ASSUME ~gap', owner' = 0 PROVE Between'
  BY <1>13, <1>0, NotesAre, GivesUpIs
     DEF UpdateInv, UpdateTypes, Trees, Hands, Forward, Statuses, Alone, Unowned, Going, GoingBack,
         Between, Ended
<1>14. ASSUME ~gap', owner' = 0 PROVE Ended'
  BY <1>14, <1>0, NotesAre, GivesUpIs
     DEF UpdateInv, UpdateTypes, Trees, Hands, Forward, Statuses, Alone, Unowned, Going, GoingBack,
         Between, Ended, Kept
<1>15. UpdateTypes'
  BY <1>1, <1>2, <1>3, <1>4 DEF UpdateTypes, PlainTypes, TreeTypes, JournalTypes, HeldTypes
<1> QED
  BY <1>5, <1>6, <1>7, <1>8, <1>9, <1>10, <1>11, <1>12, <1>13, <1>14, <1>15 DEF UpdateInv, Alone
-----------------------------------------------------------------------------
LEMMA UpdateInitHolds == UpdateInit => UpdateInv
<1> SUFFICES ASSUME UpdateInit PROVE UpdateInv
  OBVIOUS
<1>1. UpdateTypes
  BY SetupsAssumption DEF UpdateInit, UpdateTypes
<1>2. Seen
  BY DEF UpdateInit, Seen
<1>3. Trees /\ Hands /\ Forward
  BY SetupsAssumption DEF UpdateInit, Trees, Hands, Forward
<1>4. Statuses
  BY SetupsAssumption DEF UpdateInit, Statuses
<1>5. Unowned /\ Going
  BY SetupsAssumption DEF UpdateInit, Unowned, Going
<1>6. GoingBack /\ Between /\ Ended
  BY SetupsAssumption DEF UpdateInit, GoingBack, Between, Ended
<1> QED
  BY <1>1, <1>2, <1>3, <1>4, <1>5, <1>6 DEF UpdateInv, Alone

LEMMA UpdateStepKeeps == UpdateInv /\ [UpdateNext]_updateVars => UpdateInv'
<1> SUFFICES ASSUME UpdateInv, [UpdateNext]_updateVars PROVE UpdateInv'
  OBVIOUS
<1>1. CASE Update
  BY <1>1, UpToDateKeeps, CheckKeeps, PrepareKeeps, MergeKeeps, BeginSyncKeeps, SyncSomeKeeps, SyncRestKeeps,
     SyncedKeeps,
     StageKeeps, ActivatingKeeps, SwapOutKeeps, SwapInKeeps, SwapInFailsKeeps, HealthKeeps, WriteDeployedKeeps,
     DeployedKeeps, UnmarkKeeps, DropSomeKeeps, DropRestKeeps, UpdatingKeeps, MergedKeeps, ActivatedKeeps,
     RestartingKeeps, VerifiedKeeps, CommitStartedKeeps, EnvCommittedKeeps, FinishedKeeps, Zenon DEF Update, Steps
<1>2. CASE GoBack
  BY <1>2, RollbackKeeps, TreeOutKeeps, TreeInKeeps, RollbackRepoKeeps, ResetKeeps, RollbackFilesKeeps,
     RestoreSomeKeeps, RestoreRestKeeps, RollbackEndKeeps, Zenon DEF GoBack
<1>3. CASE Recover
  BY <1>3, RecoverEnvKeeps, RecoverFinalKeeps, TreeOutKeeps, TreeInKeeps, RecoverRepoKeeps, ResetKeeps,
     RecoverFilesKeeps, RestoreSomeKeeps, RestoreRestKeeps, RecoverEndKeeps, Zenon DEF Recover
<1>4. CASE BackFails
  BY <1>4, TreeFailsKeeps, ResetFailsKeeps, RestoreFailsKeeps, Zenon DEF BackFails
<1>5. CASE UNCHANGED updateVars
  BY <1>5
     DEF updateVars, UpdateInv, UpdateTypes, Seen, Trees, Hands, Forward, Statuses, Alone, Unowned, Going, GoingBack,
         Between, Ended, Kept
<1> QED
  BY <1>1, <1>2, <1>3, <1>4, <1>5, LaunchUpdateKeeps, UpdaterDiesKeeps, StepFailsKeeps, CleanupFailsKeeps,
     RecordLostKeeps, OwnerKeeps, Zenon DEF UpdateNext

LEMMA UpdateInvHolds == UpdateSpec => []UpdateInv
BY UpdateInitHolds, UpdateStepKeeps, PTL DEF UpdateSpec
-----------------------------------------------------------------------------
\* Every variable of the update helper keeps its type (update_helper.py:1821-2453).
THEOREM UpdateTypeCorrect == UpdateSpec => []UpdateTypes
<1>1. UpdateInv => UpdateTypes
  BY DEF UpdateInv
<1> QED
  BY <1>1, UpdateInvHolds, PTL

\* An update ends whole or its record says what is not, however often updaters die, steps of the
\* update, the rollback and the recovery fail, and records are lost, but for the crashes and lost
\* records that Gap and GapLost name (update_helper.py:1493-1585, :1617-1705, :1722-1967, :2106-2453).
THEOREM EndsWholeHolds == UpdateSpec => []EndsWhole
<1>1. ASSUME UpdateInv PROVE EndsWhole
  <2> SUFFICES ASSUME pc \in {"idle", "check"}, ~gap
               PROVE  /\ journal.status = "completed" => Released
                      /\ owner = 0 /\ journal.status = "recovered" => AsBefore
                      /\ owner = 0 /\ journal.status \in {"failed", "recovery_failed"} => Kept
                      /\ owner = 0 /\ ~hurt /\ journal.status = "failed" => AsBefore
                      /\ owner = 0 /\ ~hurt /\ journal.status = "recovery_failed" => AsBefore \/ Released
    BY DEF EndsWhole
  <2>1. journal.status = "completed" => Released
    BY <1>1 DEF UpdateInv, Forward
  <2>2. Undone => AsBefore
    BY <1>1 DEF UpdateInv, UpdateTypes, Statuses, AsBefore
  <2>3. Done => Released
    OBVIOUS
  <2>4. owner = 0 => Ended
    BY <1>1 DEF UpdateInv, Alone
  <2>5. owner = 0 /\ journal.status = "recovered" => Undone
    BY <2>4 DEF Ended
  <2>6. owner = 0 /\ journal.status \in {"failed", "recovery_failed"} => Kept
    BY <2>4 DEF Ended
  <2>7. owner = 0 /\ ~hurt /\ journal.status = "failed" => Undone
    BY <2>4 DEF Ended
  <2>8. owner = 0 /\ ~hurt /\ journal.status = "recovery_failed" => Undone \/ Done
    BY <2>4 DEF Ended
  <2> HIDE DEF Undone, Done, Released
  <2> QED
    BY <2>1, <2>2, <2>3, <2>5, <2>6, <2>7, <2>8
<1> QED
  BY <1>1, UpdateInvHolds, PTL

\* What the owner commits, edits or rebuilds, at any time, outlives every step of an update, a
\* rollback and a recovery, unless it was done in one of the windows that Window names
\* (update_helper.py:1508-1529, :1540-1585, :1617-1705, :1761-1818).
THEOREM OwnersWorkStaysHolds == UpdateSpec => OwnersWorkStays
<1> DEFINE CommitStays == head = "own" /\ "commit" \notin risked => head' = "own"
           EditStays   == dirty /\ "edit" \notin risked => dirty'
           EnvStays    == env.active = "own" /\ "env" \notin risked /\ journal.status # "dependency_commit_started" =>
                            "own" \in {env'.active, env'.previous}
<1>1. ASSUME UpdateInv, UpdateNext, pc' # pc
      PROVE  CommitStays /\ EditStays /\ EnvStays
  <2>1. UpdateTypes /\ Seen
    BY <1>1 DEF UpdateInv
  <2>2. ~Owner
    BY <1>1 DEF Owner
  <2>3. CASE UpToDate \/ Check \/ Stage
    <3>1. UNCHANGED <<head, dirty>>
      BY <2>3 DEF UpToDate, Check, Stage
    <3>2. env' \in {env, StagingGone(env), [env EXCEPT !.candidate = "new"]}
      BY <2>3 DEF UpToDate, Check, Stage
    <3>3. env'.active = env.active
      BY <2>1, <3>2 DEF UpdateTypes
    <3> QED
      BY <2>1, <3>1, <3>3 DEF UpdateTypes
  <2>23. CASE Prepare \/ BeginSync \/ Synced \/ Activating
    BY <2>1, <2>23 DEF UpdateTypes, Prepare, BeginSync, Synced, Activating
  <2>24. CASE SwapOut \/ SwapIn
    BY <2>1, <2>24 DEF UpdateTypes, SwapOut, SwapIn
  <2>4. CASE SwapInFails
    BY <2>1, <2>4 DEF UpdateTypes, Seen, SwapInFails
  <2>5. CASE Merge \/ Health \/ WriteDeployed \/ Deployed \/ Unmark \/ DropSome \/ DropRest \/ Steps
    BY <2>1, <2>5 DEF UpdateTypes, Merge, Health, WriteDeployed, Deployed, Unmark, DropSome, DropRest, Steps
  <2>6. CASE SyncSome \/ SyncRest
    <3>1. pc \in Copying /\ UNCHANGED <<head, env>> /\ SyncOver
      BY <2>6 DEF SyncSome, SyncRest
    <3> QED
      BY <2>1, <3>1 DEF UpdateTypes, Seen, SyncOver
  <2>7. CASE Rollback \/ RollbackRepo \/ RollbackFiles \/ RollbackEnd
    BY <2>1, <2>7 DEF UpdateTypes, Rollback, RollbackRepo, RollbackFiles, RollbackEnd
  <2>8. ASSUME NEW p \in {"rb_out", "rec_out"}, NEW q \in {"rb_in", "rec_in"}, TreeOut(p, q)
        PROVE  CommitStays /\ EditStays /\ EnvStays
    BY <2>1, <2>8 DEF UpdateTypes, Seen, TreeOut
  <2>9. ASSUME NEW p \in {"rb_in", "rec_in"}, NEW q \in {"rb_repo", "rec_repo"}, TreeIn(p, q)
        PROVE  CommitStays /\ EditStays /\ EnvStays
    BY <2>1, <2>9 DEF UpdateTypes, TreeIn
  <2>10. ASSUME NEW p \in {"rb_reset", "rec_reset"}, NEW q \in {"rb_files", "rec_files"}, Reset(p, q)
         PROVE  CommitStays /\ EditStays /\ EnvStays
    BY <2>1, <2>10 DEF UpdateTypes, Seen, Reset
  <2>11. ASSUME NEW p \in Restoring, NEW q \in Restoring \cup {"rb_end", "rec_end"},
                RestoreSome(p, q) \/ RestoreRest(p, q)
         PROVE  CommitStays /\ EditStays /\ EnvStays
    <3>1. pc = p /\ UNCHANGED <<head, env>> /\ RestoreOver
      BY <2>11 DEF RestoreSome, RestoreRest
    <3> QED
      BY <2>1, <3>1, RestoreOverIs DEF UpdateTypes, Seen
  <2>12. CASE RecoverEnv
    BY <2>1, <2>12, RecoverEnvCases
  <2>13. CASE RecoverFinal \/ RecoverRepo \/ RecoverFiles \/ RecoverEnd
    BY <2>1, <2>13 DEF UpdateTypes, RecoverFinal, RecoverRepo, RecoverFiles, RecoverEnd
  <2>14. CASE LaunchUpdate \/ UpdaterDies \/ CleanupFails \/ RecordLost
    BY <2>1, <2>14 DEF UpdateTypes, LaunchUpdate, UpdaterDies, CleanupFails, RecordLost
  <2>15. CASE StepFails
    BY <2>1, <2>15 DEF UpdateTypes, Seen, StepFails
  <2>16. CASE TreeFails
    BY <2>1, <2>16 DEF UpdateTypes, TreeFails
  <2>17. CASE ResetFails
    BY <2>1, <2>17 DEF UpdateTypes, Seen, ResetFails
  <2>18. CASE RestoreFails
    <3>1. pc \in Restoring /\ UNCHANGED <<head, env>> /\ RestoreOver
      BY <2>18 DEF RestoreFails
    <3> QED
      BY <2>1, <3>1, RestoreOverIs DEF UpdateTypes, Seen
  <2>19. CASE Update
    BY <2>3, <2>4, <2>5, <2>6, <2>19, <2>23, <2>24, Zenon DEF Update
  <2>20. CASE GoBack
    BY <2>7, <2>8, <2>9, <2>10, <2>11, <2>20 DEF GoBack
  <2>21. CASE Recover
    BY <2>8, <2>9, <2>10, <2>11, <2>12, <2>13, <2>21 DEF Recover
  <2>22. CASE BackFails
    BY <2>16, <2>17, <2>18, <2>22, Zenon DEF BackFails
  <2> QED
    BY <1>1, <2>2, <2>14, <2>15, <2>19, <2>20, <2>21, <2>22, Zenon DEF UpdateNext
<1>2. ASSUME UpdateInv, [UpdateNext]_updateVars
      PROVE  [pc' # pc => CommitStays /\ EditStays /\ EnvStays]_updateVars
  <2> HIDE DEF CommitStays, EditStays, EnvStays
  <2> QED
    BY <1>1, <1>2
<1> QED
  BY <1>2, UpdateInvHolds, PTL DEF UpdateSpec, OwnersWorkStays
=============================================================================
