------------------------ MODULE ScheduledTasksProofs -------------------------
(***************************************************************************)
(* Proofs about ScheduledTasks, for every schedule, every choice of the    *)
(* owner and every number of deaths of the server.                         *)
(***************************************************************************)
EXTENDS ScheduledTasks, FiniteSetTheorems, SequenceTheorems, NaturalsInduction,
        WellFoundedInduction, TLAPS

\* Every set of natural numbers has a least one, and a bounded one a greatest.
LEMMA MinIs ==
  ASSUME NEW S \in SUBSET Nat, S # {}
  PROVE  Min(S) \in S /\ \A y \in S : Min(S) <= y
<1> DEFINE R == OpToRel(<, Nat)
<1>1. IsWellFoundedOn(R, Nat)
  BY NatLessThanWellFounded
<1>2. \A x, y \in Nat : <<y, x>> \in R <=> y < x
  BY DEF OpToRel
<1> HIDE DEF R
<1>3. PICK x \in S : \A y \in S : <<y, x>> \notin R
  BY <1>1, WFMin
<1>4. \A y \in S : x <= y
  <2> TAKE y \in S
  <2>1. x \in Nat /\ y \in Nat /\ ~(y < x)
    BY <1>2, <1>3
  <2> QED
    BY <2>1
<1> QED
  BY <1>4 DEF Min

LEMMA MaxIs ==
  ASSUME NEW S \in SUBSET Times, S # {}
  PROVE  Max(S) \in S /\ \A y \in S : Max(S) >= y
<1> DEFINE T == {n \in Nat : \E x \in S : n = MaxTime - x}
<1>1. \A y \in S : y \in 1..MaxTime /\ MaxTime - y \in Nat /\ MaxTime - y \in T
  BY BoundsAssumption DEF Times
<1>2. T \in SUBSET Nat /\ T # {}
  BY <1>1
<1>3. \A n \in T : \E x \in S : n = MaxTime - x
  OBVIOUS
<1> HIDE DEF T
<1>4. Min(T) \in T /\ \A n \in T : Min(T) <= n
  BY <1>2, MinIs
<1>5. PICK x \in S : Min(T) = MaxTime - x
  BY <1>3, <1>4
<1>6. ASSUME NEW y \in S PROVE x >= y
  <2>1. MaxTime - x <= MaxTime - y
    BY <1>1, <1>4, <1>5
  <2> QED
    BY <1>1, <2>1, BoundsAssumption
<1> QED
  BY <1>6 DEF Max

\* The next run is the first time of the schedule after a moment.
LEMMA NextRunIs ==
  ASSUME NEW d, d.slots \in SUBSET Times, NEW paused \in BOOLEAN, NEW after \in 0..MaxTime
  PROVE  /\ NextRun(d, paused, after) \in d.slots \cup {Never}
         /\ NextRun(d, paused, after) \in Times \cup {Never}
         /\ NextRun(d, paused, after) > after
         /\ ~paused => \A s \in d.slots : after < s => NextRun(d, paused, after) <= s
<1> DEFINE later == {s \in d.slots : s > after}
<1>1. MaxTime \in Nat /\ Never = MaxTime + 1 /\ Times = 1..MaxTime
  BY BoundsAssumption DEF Never, Times
<1>2. later \in SUBSET Nat
  BY <1>1
<1>3. CASE paused \/ later = {}
  <2>1. NextRun(d, paused, after) = Never
    BY <1>3 DEF NextRun
  <2>2. ~paused => \A s \in d.slots : ~(after < s)
    BY <1>1, <1>3
  <2> QED
    BY <1>1, <2>1, <2>2
<1>4. CASE ~paused /\ later # {}
  <2>1. NextRun(d, paused, after) = Min(later)
    BY <1>4 DEF NextRun
  <2>2. Min(later) \in later /\ \A y \in later : Min(later) <= y
    BY <1>2, <1>4, MinIs
  <2> QED
    BY <1>1, <2>1, <2>2
<1> QED
  BY <1>3, <1>4
-----------------------------------------------------------------------------
(* Types *)

Definition == [slots : SUBSET Times, busy : {"skip", "run_after"},
               missed : {"skip", "run_once"}, agent : BOOLEAN]
Row  == [status : Statuses \cup {"gone"}, slots : SUBSET Times,
         trigger : {"schedule", "catch_up", "manual"}, at : 0..MaxTime]
Item == [thread : {"none", "begin", "note", "wait"}, agent : BOOLEAN,
         child : {"none", "working", "told", "ended"}, noted : BOOLEAN]
LoopRecord ==
    [at : {"asleep", "recover", "tick", "look", "record", "start", "busy", "advance",
           "rest", "down"},
     now : Nat, definition : Definition, missed : SUBSET Times, slot : Times \cup {NoSlot},
     trigger : {"schedule", "catch_up"}, waited : BOOLEAN, left : SUBSET Nat]

\* Where the loop goes by the clock it read at the beginning of its tick.
InTick == loop.at \in {"look", "record", "start", "busy", "advance"}

TaskOK == /\ task \in [definition : Definitions \cup {NoTask}, paused : BOOLEAN,
                       next : Times \cup {Never}, queued : Times \cup {NoSlot},
                       updated : 0..MaxTime]
          /\ Active => task.next \in task.definition.slots \cup {Never}
RowsOK == runs \in Seq(Row) /\ work \in Seq(Item) /\ Len(work) = Len(runs)
LoopOK == /\ loop \in LoopRecord
          /\ InTick => loop.now <= now
          /\ loop.at \in {"start", "busy"} => loop.slot # NoSlot
          /\ loop.left \subseteq DOMAIN runs
TInv   == TaskOK /\ RowsOK /\ LoopOK /\ poked \in BOOLEAN /\ now \in 0..MaxTime

LEMMA Typed == TInv => TypeOK
BY DEF TInv, TaskOK, RowsOK, LoopOK, TypeOK, Row, Item

LEMMA DefinitionType == Definitions \cup {NoTask} \subseteq Definition
<1>1. NoTask \in Definition
  BY DEF Definition, NoTask
<1> QED
  BY <1>1, DefinitionsAssumption DEF Definition

LEMMA Numbers == /\ MaxTime \in Nat /\ Never = MaxTime + 1 /\ Never \in Nat
                 /\ Times = 1..MaxTime /\ NoSlot = 0 /\ NoSlot \notin Times
BY BoundsAssumption DEF Never, Times, NoSlot

\* The sequences of the rows and of what belongs to them, element by element.
LEMMA RowsAre ==
  ASSUME RowsOK
  PROVE  /\ Len(runs) \in Nat /\ DOMAIN runs = 1..Len(runs) /\ DOMAIN work = 1..Len(runs)
         /\ \A r \in DOMAIN runs : runs[r] \in Row /\ work[r] \in Item
BY LenProperties, ElementOfSeq DEF RowsOK

\* A row is added: a run started or a time recorded as skipped.
LEMMA RowAdded ==
  ASSUME RowsOK, NEW row \in Row, NEW item \in Item,
         runs' = Append(runs, row), work' = Append(work, item)
  PROVE  /\ RowsOK'
         /\ DOMAIN runs' = DOMAIN runs \cup {Len(runs) + 1}
         /\ Len(runs) + 1 \notin DOMAIN runs
         /\ \A r \in DOMAIN runs : runs'[r] = runs[r] /\ work'[r] = work[r]
         /\ runs'[Len(runs) + 1] = row /\ work'[Len(runs) + 1] = item
<1>1. /\ runs' \in Seq(Row) /\ Len(runs') = Len(runs) + 1
      /\ \A i \in 1..Len(runs) : runs'[i] = runs[i]
      /\ runs'[Len(runs) + 1] = row
  BY AppendProperties DEF RowsOK
<1>2. /\ work' \in Seq(Item) /\ Len(work') = Len(runs) + 1
      /\ \A i \in 1..Len(runs) : work'[i] = work[i]
      /\ work'[Len(runs) + 1] = item
  BY AppendProperties DEF RowsOK
<1>3. /\ Len(runs) \in Nat /\ DOMAIN runs = 1..Len(runs)
      /\ DOMAIN runs' = 1..(Len(runs) + 1)
  BY <1>1, LenProperties DEF RowsOK
<1> QED
  BY <1>1, <1>2, <1>3 DEF RowsOK

\* What belongs to one row changes, and perhaps its status.
LEMMA RowChanged ==
  ASSUME RowsOK, NEW r \in DOMAIN runs, NEW row \in Row, NEW item \in Item,
         runs' = [runs EXCEPT ![r] = row], work' = [work EXCEPT ![r] = item]
  PROVE  /\ RowsOK' /\ DOMAIN runs' = DOMAIN runs
         /\ runs'[r] = row /\ work'[r] = item
         /\ \A q \in DOMAIN runs : q # r => runs'[q] = runs[q] /\ work'[q] = work[q]
<1>1. r \in 1..Len(runs) /\ r \in 1..Len(work) /\ DOMAIN runs = 1..Len(runs)
  BY LenProperties DEF RowsOK
<1>2. /\ runs' \in Seq(Row) /\ Len(runs') = Len(runs)
      /\ \A j \in 1..Len(runs) : runs'[j] = IF j = r THEN row ELSE runs[j]
  BY <1>1, ExceptSeq DEF RowsOK
<1>3. /\ work' \in Seq(Item) /\ Len(work') = Len(runs)
      /\ \A j \in 1..Len(runs) : work'[j] = IF j = r THEN item ELSE work[j]
  BY <1>1, ExceptSeq DEF RowsOK
<1>4. DOMAIN runs' = 1..Len(runs)
  BY <1>2, LenProperties
<1> QED
  BY <1>1, <1>2, <1>3, <1>4 DEF RowsOK

\* The status a run's row has after FinishRun, with what is left of its thread and process.
Finished(r, status) == IF runs[r].status = "gone" THEN runs[r]
                       ELSE [runs[r] EXCEPT !.status = status]

LEMMA RunFinished ==
  ASSUME RowsOK, NEW r \in DOMAIN runs, NEW status \in Statuses, NEW item \in Item,
         FinishRun(r, status), work' = [work EXCEPT ![r] = item]
  PROVE  /\ RowsOK' /\ DOMAIN runs' = DOMAIN runs
         /\ runs'[r] = Finished(r, status) /\ work'[r] = item
         /\ \A q \in DOMAIN runs : q # r => runs'[q] = runs[q] /\ work'[q] = work[q]
         /\ poked \in BOOLEAN => poked' \in BOOLEAN
<1>1. runs[r] \in Row /\ DOMAIN runs = 1..Len(runs) /\ runs \in [1..Len(runs) -> Row]
  BY RowsAre, LenProperties DEF RowsOK
<1>2. Finished(r, status) \in Row
  BY <1>1 DEF Finished, Row
<1>3. runs' = [runs EXCEPT ![r] = Finished(r, status)]
  BY <1>1 DEF FinishRun, Finished
<1>4. poked \in BOOLEAN => poked' \in BOOLEAN
  BY DEF FinishRun
<1> QED
  BY <1>2, <1>3, <1>4, RowChanged

\* Only the thread or process of one row changes.
LEMMA ItemChanged ==
  ASSUME RowsOK, NEW r \in DOMAIN runs, NEW item \in Item,
         runs' = runs, work' = [work EXCEPT ![r] = item]
  PROVE  /\ RowsOK' /\ DOMAIN runs' = DOMAIN runs
         /\ work'[r] = item
         /\ \A q \in DOMAIN runs : q # r => work'[q] = work[q]
<1>1. r \in 1..Len(work) /\ DOMAIN runs = 1..Len(runs) /\ Len(work) = Len(runs)
  BY LenProperties DEF RowsOK
<1>2. /\ work' \in Seq(Item) /\ Len(work') = Len(runs)
      /\ \A j \in 1..Len(runs) : work'[j] = IF j = r THEN item ELSE work[j]
  BY <1>1, ExceptSeq DEF RowsOK
<1> QED
  BY <1>1, <1>2 DEF RowsOK

LEMMA TaskKept == ASSUME TaskOK, task' = task PROVE TaskOK'
BY DEF TaskOK, Active

LEMMA LoopKept ==
  ASSUME LoopOK, loop' = loop, now \in Nat, now' \in Nat, now <= now',
         DOMAIN runs \subseteq DOMAIN runs'
  PROVE  LoopOK'
BY DEF LoopOK, LoopRecord, InTick

\* What the loop holds when it forgets what it read.
Places == {"asleep", "recover", "tick", "look", "record", "start", "busy", "advance", "rest", "down"}
AsleepAt(l, at, n, left) == /\ l \in LoopRecord
                            /\ l.at = at /\ l.now = n /\ l.left = left
                            /\ l.missed = {} /\ l.slot = NoSlot /\ ~l.waited

LEMMA AsleepIs ==
  /\ \A l : \A at \in Places : l = [Asleep EXCEPT !.at = at] => AsleepAt(l, at, 0, {})
  /\ \A l : \A n \in Nat : l = [Asleep EXCEPT !.now = n] => AsleepAt(l, "asleep", n, {})
  /\ \A l : \A at \in Places, n \in Nat :
        l = [Asleep EXCEPT !.at = at, !.now = n] => AsleepAt(l, at, n, {})
  /\ \A l : \A at \in Places, left \in SUBSET Nat :
        l = [Asleep EXCEPT !.at = at, !.left = left] => AsleepAt(l, at, 0, left)
<1>1. /\ Asleep \in LoopRecord /\ Asleep.at = "asleep" /\ Asleep.now = 0 /\ Asleep.left = {}
      /\ Asleep.missed = {} /\ Asleep.slot = NoSlot /\ ~Asleep.waited
  BY DefinitionType DEF Asleep, LoopRecord
<1>2. ASSUME NEW at \in Places, NEW n \in Nat, NEW left \in SUBSET Nat
      PROVE  /\ AsleepAt([Asleep EXCEPT !.at = at], at, 0, {})
             /\ AsleepAt([Asleep EXCEPT !.now = n], "asleep", n, {})
             /\ AsleepAt([Asleep EXCEPT !.at = at, !.now = n], at, n, {})
             /\ AsleepAt([Asleep EXCEPT !.at = at, !.left = left], at, 0, left)
  BY <1>1 DEF AsleepAt, LoopRecord, Places
<1>3. "asleep" \in Places /\ {} \in SUBSET Nat /\ 0 \in Nat
  BY DEF Places
<1> HIDE DEF Places
<1>4. \A at \in Places : AsleepAt([Asleep EXCEPT !.at = at], at, 0, {})
  BY <1>2, <1>3
<1>5. \A n \in Nat : AsleepAt([Asleep EXCEPT !.now = n], "asleep", n, {})
  BY <1>2, <1>3
<1>6. \A at \in Places, n \in Nat : AsleepAt([Asleep EXCEPT !.at = at, !.now = n], at, n, {})
  BY <1>2, <1>3
<1>7. \A at \in Places, left \in SUBSET Nat :
         AsleepAt([Asleep EXCEPT !.at = at, !.left = left], at, 0, left)
  BY <1>2, <1>3
<1> QED
  BY <1>4, <1>5, <1>6, <1>7

\* The loop goes to a place outside its tick, or on within it, and forgets what it read.
LEMMA LoopGone ==
  ASSUME LoopOK, NEW at \in {"asleep", "recover", "tick", "look", "advance", "rest", "down"},
         NEW n \in Nat, at \in {"look", "advance"} => n <= now', NEW left \in SUBSET Nat,
         left \subseteq DOMAIN runs',
         AsleepAt(loop', at, n, left)
  PROVE  LoopOK'
<1>1. NoTask \in Definition
  BY DefinitionType
<1> QED
  BY <1>1 DEF LoopOK, LoopRecord, InTick, AsleepAt

\* The next run is set anew, for whatever definition and pause, at a time of the clock.
LEMMA TaskAdvanced ==
  ASSUME TaskOK, NEW d \in Definitions \cup {NoTask}, NEW p \in BOOLEAN, NEW after \in 0..MaxTime,
         task' \in [definition : Definitions \cup {NoTask}, paused : BOOLEAN,
                    next : {NextRun(d, p, after)}, queued : Times \cup {NoSlot},
                    updated : 0..MaxTime],
         task'.definition = d, task'.paused = p
  PROVE  TaskOK'
<1>1. d.slots \in SUBSET Times
  BY DefinitionType DEF Definition
<1>2. NextRun(d, p, after) \in d.slots \cup {Never} /\ NextRun(d, p, after) \in Times \cup {Never}
  BY <1>1, NextRunIs
<1> QED
  BY <1>2 DEF TaskOK, Active

LEMMA ItemTypes ==
  ASSUME RowsOK, NEW r \in DOMAIN runs
  PROVE  /\ Idle \in Item
         /\ \A b \in BOOLEAN : [Idle EXCEPT !.thread = "begin", !.agent = b] \in Item
         /\ \A t \in {"none", "begin", "note", "wait"} : [work[r] EXCEPT !.thread = t] \in Item
         /\ \A c \in {"none", "working", "told", "ended"} : [work[r] EXCEPT !.child = c] \in Item
<1>1. work[r] \in Item
  BY RowsAre
<1> QED
  BY <1>1 DEF Item, Idle

\* The steps of the runs, their threads and their processes, of the loop and the owner.
Started1(trigger, slots, at) == [status |-> "running", trigger |-> trigger, slots |-> slots, at |-> at]
Skipped1(slots, at) == [status |-> "skipped", trigger |-> "schedule", slots |-> slots, at |-> at]

LEMMA StartTypes ==
  ASSUME TInv, NEW d \in Definition, NEW trigger \in {"schedule", "catch_up", "manual"},
         NEW slots \in SUBSET Times, NEW at \in 0..MaxTime,
         StartRun(d, trigger, slots, at)
  PROVE  /\ RowsOK' /\ poked' \in BOOLEAN
         /\ DOMAIN runs' = DOMAIN runs \cup {Len(runs) + 1} /\ Len(runs) + 1 \notin DOMAIN runs
         /\ \A r \in DOMAIN runs : runs'[r] = runs[r] /\ work'[r] = work[r]
         /\ runs'[Len(runs) + 1] = Started1(trigger, slots, at)
         /\ work'[Len(runs) + 1] = [Idle EXCEPT !.thread = "begin", !.agent = d.agent]
<1>1. Started1(trigger, slots, at) \in Row
  BY DEF Started1, Row, Statuses
<1>2. [Idle EXCEPT !.thread = "begin", !.agent = d.agent] \in Item
  BY DEF Idle, Item, Definition
<1>3. /\ runs' = Append(runs, Started1(trigger, slots, at))
      /\ work' = Append(work, [Idle EXCEPT !.thread = "begin", !.agent = d.agent])
      /\ poked' = TRUE /\ RowsOK
  BY DEF StartRun, Started1, TInv
<1> QED
  BY <1>1, <1>2, <1>3, RowAdded

LEMMA SkipTypes ==
  ASSUME TInv, NEW slots \in SUBSET Times, NEW at \in 0..MaxTime, RecordSkip(slots, at)
  PROVE  /\ RowsOK' /\ poked' \in BOOLEAN
         /\ DOMAIN runs' = DOMAIN runs \cup {Len(runs) + 1} /\ Len(runs) + 1 \notin DOMAIN runs
         /\ \A r \in DOMAIN runs : runs'[r] = runs[r] /\ work'[r] = work[r]
         /\ runs'[Len(runs) + 1] = Skipped1(slots, at) /\ work'[Len(runs) + 1] = Idle
<1>1. Skipped1(slots, at) \in Row
  BY DEF Skipped1, Row, Statuses
<1>2. Idle \in Item
  BY DEF Idle, Item
<1>3. /\ runs' = Append(runs, Skipped1(slots, at)) /\ work' = Append(work, Idle)
      /\ poked' = TRUE /\ RowsOK
  BY DEF RecordSkip, Skipped1, TInv
<1> QED
  BY <1>1, <1>2, <1>3, RowAdded

\* What LookDue finds: the time due is looked at, and every time looked at is either to
\* be recorded as missed or within reach of the one to be started.
LEMMA DueTimes ==
  ASSUME TInv, InTick, Active, task.next <= loop.now
  PROVE  /\ DueSlots \in SUBSET Times
         /\ \A s \in DueSlots : s <= loop.now /\ task.next <= s /\ s \in task.definition.slots
         /\ task.next \in DueSlots
<1>1. /\ task.definition.slots \in SUBSET Times
      /\ task.next \in task.definition.slots \cup {Never}
  BY DefinitionType DEF TInv, TaskOK, Definition
<1>2. loop.now \in Nat /\ loop.now <= now /\ now \in 0..MaxTime
  BY DEF TInv, LoopOK, LoopRecord
<1>3. task.next \in task.definition.slots
  BY <1>1, <1>2, Numbers
<1> DEFINE due == {s \in task.definition.slots : task.next <= s /\ s <= loop.now}
<1>4. task.next \in due /\ {t \in due : t < task.next} = {}
  BY <1>1, <1>3, Numbers
<1>5. Cardinality({t \in due : t < task.next}) <= MaxCounted
  BY <1>4, FS_EmptySet, BoundsAssumption
<1> QED
  BY <1>1, <1>4, <1>5 DEF DueSlots

LEMMA Found ==
  ASSUME TInv, LookDue
  PROVE  /\ loop' \in LoopRecord /\ loop'.at = "record"
         /\ loop'.now = loop.now /\ loop'.left = loop.left /\ loop'.waited = loop.waited
         /\ task.next \in task.definition.slots /\ task.next <= loop.now
         /\ loop'.slot # NoSlot => task.next <= loop'.slot /\ loop'.slot <= loop.now
         /\ \/ task.next \in loop'.missed
            \/ loop'.slot # NoSlot /\ loop'.slot <= task.next + Overdue
         /\ \A s \in loop'.missed : s <= loop.now
         /\ loop'.slot # NoSlot => /\ loop'.slot \in DueSlots
                                   /\ \A q \in DueSlots : q <= loop'.slot
<1> DEFINE missed  == {s \in DueSlots : loop.now - s > Overdue}
           fresh   == DueSlots \ missed
           catchUp == CatchesUp(missed, fresh)
           left    == IF catchUp THEN missed \ {CaughtUp(missed)} ELSE missed
           slot    == IF fresh # {} THEN Max(fresh)
                      ELSE IF catchUp THEN CaughtUp(missed) ELSE NoSlot
<1>1. /\ InTick /\ Active /\ task.next <= loop.now
      /\ loop' = [loop EXCEPT !.at = "record", !.definition = task.definition,
                              !.missed = left, !.slot = slot,
                              !.trigger = IF catchUp THEN "catch_up" ELSE "schedule"]
  BY DEF LookDue, InTick
<1>2. /\ DueSlots \in SUBSET Times /\ task.next \in DueSlots
      /\ \A s \in DueSlots : s <= loop.now /\ task.next <= s /\ s \in task.definition.slots
  BY <1>1, DueTimes
<1>3. missed \in SUBSET Times /\ fresh \in SUBSET Times /\ missed \subseteq DueSlots /\ fresh \subseteq DueSlots
  BY <1>2
<1>4. /\ fresh # {} => Max(fresh) \in fresh /\ \A y \in fresh : Max(fresh) >= y
      /\ missed # {} => Max(missed) \in missed /\ \A y \in missed : Max(missed) >= y
  <2> HIDE DEF missed, fresh
  <2> QED
    BY <1>3, MaxIs
<1>5. catchUp => missed # {} /\ fresh = {} /\ CaughtUp(missed) \in missed
  BY <1>4 DEF CatchesUp, CaughtUp
<1>6. slot # NoSlot => slot \in DueSlots
  BY <1>3, <1>4, <1>5
<1>7. slot \in Times \cup {NoSlot} /\ left \in SUBSET Times /\ left \subseteq DueSlots
  BY <1>2, <1>3, <1>6
<1>8. loop.now \in Nat /\ loop \in LoopRecord /\ task.definition \in Definition
  BY DefinitionType DEF TInv, LoopOK, LoopRecord, TaskOK
<1>9. \/ task.next \in left
      \/ slot # NoSlot /\ slot <= task.next + Overdue
  <2>1. CASE task.next \in fresh
    <3>1. slot = Max(fresh) /\ slot \in DueSlots /\ slot \in Times
      BY <2>1, <1>3, <1>4
    <3>2. ~(loop.now - task.next > Overdue)
      BY <2>1
    <3>4. task.next \in Nat
      BY <1>2, Numbers
    <3>3. slot <= loop.now /\ slot \in Nat /\ slot # NoSlot
      BY <3>1, <1>2, Numbers
    <3> HIDE DEF slot, left, fresh, missed, catchUp
    <3> QED
      BY <3>2, <3>3, <3>4, <1>8, BoundsAssumption
  <2>2. CASE task.next \in missed /\ ~(catchUp /\ task.next = CaughtUp(missed))
    BY <2>2
  <2>3. CASE task.next \in missed /\ catchUp /\ task.next = CaughtUp(missed)
    <3>1. slot = task.next
      BY <2>3, <1>5
    <3> HIDE DEF slot, left, fresh, missed, catchUp
    <3>2. slot # NoSlot /\ slot \in Nat
      <4>1. \A t \in Times : t # NoSlot /\ t \in Nat
        BY Numbers
      <4> QED
        BY <3>1, <1>2, <4>1
    <3> QED
      BY <3>1, <3>2, BoundsAssumption
  <2> QED
    BY <1>2, <2>1, <2>2, <2>3
<1>l. ASSUME slot # NoSlot, NEW q \in DueSlots PROVE q <= slot
  <2>1. q \in Nat /\ q <= loop.now /\ (q \in missed => loop.now - q > Overdue)
    BY <1>2, Numbers
  <2>2. CASE fresh = {}
    <3>1. slot = Max(missed) /\ q \in missed
      BY <1>l, <2>2 DEF CaughtUp
    <3> QED
      BY <3>1, <2>1, <1>3, <1>4, Numbers
  <2>3. CASE fresh # {}
    <3>1. slot = Max(fresh) /\ slot \in fresh
      BY <1>4, <2>3
    <3>2. slot \in Nat /\ ~(loop.now - slot > Overdue) /\ slot <= loop.now
      <4>1. PICK m \in fresh : m = slot
        BY <3>1
      <4>2. m \in DueSlots /\ ~(loop.now - m > Overdue)
        BY <4>1
      <4>3. m \in Nat /\ m <= loop.now
        BY <4>2, <1>2, Numbers
      <4> QED
        BY <4>1, <4>2, <4>3
    <3>3. q \in missed \/ q \in fresh
      OBVIOUS
    <3>4. CASE q \in fresh
      <4>1. slot >= q
        BY <3>1, <3>4, <1>4
      <4> QED
        BY <4>1, <3>2, <2>1
    <3> HIDE DEF slot, left, fresh, missed, catchUp
    <3>5. CASE q \in missed
      BY <3>2, <3>5, <2>1, <1>8, BoundsAssumption
    <3> QED
      BY <3>3, <3>4, <3>5
  <2> QED
    BY <2>2, <2>3
<1> HIDE DEF slot, left, fresh, missed, catchUp
<1>10. /\ loop' \in LoopRecord /\ loop'.at = "record" /\ loop'.missed = left /\ loop'.slot = slot
       /\ loop'.now = loop.now /\ loop'.left = loop.left /\ loop'.waited = loop.waited
  BY <1>1, <1>7, <1>8 DEF LoopRecord
<1> QED
  BY <1>1, <1>2, <1>6, <1>7, <1>9, <1>10, <1>l

\* Every action keeps the types.
LEMMA TypeStep == TInv /\ [Next]_vars => TInv'
<1> SUFFICES ASSUME TInv, [Next]_vars PROVE TInv'
  OBVIOUS
<1>t. /\ TaskOK /\ RowsOK /\ LoopOK /\ poked \in BOOLEAN /\ now \in 0..MaxTime /\ now \in Nat
      /\ loop.now \in Nat /\ loop.left \in SUBSET Nat /\ loop.left \subseteq DOMAIN runs
      /\ loop.slot \in Times \cup {NoSlot} /\ loop.missed \in SUBSET Times
      /\ loop.definition \in Definition /\ loop \in LoopRecord
      /\ task.definition \in Definitions \cup {NoTask} /\ task.paused \in BOOLEAN
      /\ task.queued \in Times \cup {NoSlot} /\ task.updated \in 0..MaxTime
  BY BoundsAssumption DEF TInv, LoopOK, LoopRecord, TaskOK
<1>n. InTick => loop.now \in 0..MaxTime
  BY <1>t, BoundsAssumption DEF LoopOK
\* The steps that change no row: the loop goes somewhere, and the task is as it was.
<1>l. ASSUME NEW at \in {"asleep", "recover", "tick", "look", "advance", "rest", "down"},
             NEW n \in Nat, at \in {"look", "advance"} => n <= now,
             NEW left \in SUBSET Nat, left \subseteq DOMAIN runs,
             AsleepAt(loop', at, n, left),
             TaskOK', RowsOK', DOMAIN runs \subseteq DOMAIN runs',
             poked' \in BOOLEAN, now' = now
      PROVE  TInv'
  <2>1. LoopOK'
    BY <1>l, <1>t, LoopGone
  <2> QED
    BY <1>l, <1>t, <2>1 DEF TInv
\* The steps that leave loop and clock alone.
<1>k. ASSUME loop' = loop, now' = now, TaskOK', RowsOK', DOMAIN runs \subseteq DOMAIN runs',
             poked' \in BOOLEAN
      PROVE  TInv'
  BY <1>k, <1>t, LoopKept DEF TInv
<1>a. ASSUME NEW at, AfterStart, loop.at \in {"start", "busy"}, TaskOK', RowsOK',
             DOMAIN runs \subseteq DOMAIN runs', poked' \in BOOLEAN, now' = now
      PROVE  TInv'
  <2>1. loop.now <= now
    BY <1>a, <1>t DEF LoopOK, InTick
  <2>2. PICK p \in {"look", "advance"} : AsleepAt(loop', p, loop.now, {})
    <3>1. PICK p \in {"look", "advance"} : loop' = [Asleep EXCEPT !.at = p, !.now = loop.now]
      BY <1>a DEF AfterStart, LoopGoes
    <3> QED
      BY <3>1, <1>t, AsleepIs DEF Places
  <2> QED
    BY <1>a, <1>l, <1>t, <2>1, <2>2
<1>1. ASSUME NEW r \in DOMAIN runs, RecoverRun(r) PROVE TInv'
  <2>1. TaskOK' /\ now' = now
    BY <1>1, <1>t, TaskKept DEF RecoverRun
  <2>2. RowsOK' /\ DOMAIN runs' = DOMAIN runs /\ poked' \in BOOLEAN
    <3>1. CASE work' = [work EXCEPT ![r].thread = "wait"] /\ UNCHANGED <<runs, poked>>
      BY <3>1, <1>t, ItemTypes, ItemChanged
    <3>2. ASSUME FinishRun(r, "failed"), NEW left \in StopLeftScripts(r), work' = [work EXCEPT ![r] = left]
          PROVE  RowsOK' /\ DOMAIN runs' = DOMAIN runs /\ poked' \in BOOLEAN
      <4>1. left \in Item
        BY <3>2, <1>t, ItemTypes, RowsAre DEF StopLeftScripts
      <4>2. "failed" \in Statuses
        BY DEF Statuses
      <4> QED
        BY <3>2, <4>1, <4>2, <1>t, RunFinished
    <3> QED
      BY <1>1, <3>1, <3>2 DEF RecoverRun
  <2>3. LoopOK'
    <3>1. loop' = [loop EXCEPT !.left = @ \ {r}] /\ loop.at = "recover"
      BY <1>1 DEF RecoverRun
    <3> QED
      BY <3>1, <2>1, <2>2, <1>t DEF LoopOK, LoopRecord, InTick
  <2> QED
    BY <2>1, <2>2, <2>3, <1>t DEF TInv
<1>2. CASE RecoverDone
  <2>1. AsleepAt(loop', "tick", 0, {})
    BY <1>2, AsleepIs DEF RecoverDone, Places
  <2> QED
    BY <1>2, <2>1, <1>l, <1>t, TaskKept DEF RecoverDone, RowsOK
<1>3. CASE Tick
  <2>1. TaskOK' /\ RowsOK' /\ poked' = poked /\ now' = now /\ runs' = runs
    BY <1>3, <1>t, TaskKept DEF Tick, RowsOK
  <2>2. CASE Active /\ task.queued # NoSlot /\ ~IsRunning
    <3>1. loop' = [Asleep EXCEPT !.at = "start", !.now = now, !.waited = TRUE,
                                 !.definition = task.definition, !.slot = task.queued]
      BY <1>3, <2>2 DEF Tick
    <3>2. /\ loop' \in LoopRecord /\ loop'.at = "start" /\ loop'.now = now /\ loop'.slot = task.queued
          /\ loop'.left = {}
      <4>1. loop' = [at |-> "start", now |-> now, definition |-> task.definition, missed |-> {},
                     slot |-> task.queued, trigger |-> "schedule", waited |-> TRUE, left |-> {}]
        BY <3>1 DEF Asleep
      <4> QED
        BY <4>1, <1>t, DefinitionType DEF LoopRecord
    <3>3. LoopOK'
      BY <2>1, <2>2, <3>2, <1>t DEF LoopOK, InTick
    <3> QED
      BY <2>1, <3>3, <1>t DEF TInv
  <2>3. CASE ~(Active /\ task.queued # NoSlot /\ ~IsRunning)
    <3>1. AsleepAt(loop', "look", now, {})
      <4>1. loop' = [Asleep EXCEPT !.at = "look", !.now = now]
        BY <1>3, <2>3 DEF Tick
      <4> QED
        BY <4>1, <1>t, AsleepIs DEF Places
    <3> QED
      BY <3>1, <2>1, <1>l, <1>t
  <2> QED
    BY <2>2, <2>3
<1>4. CASE LookIdle
  <2>1. AsleepAt(loop', "rest", 0, {})
    BY <1>4, AsleepIs DEF LookIdle, Places
  <2> QED
    BY <1>4, <2>1, <1>l, <1>t, TaskKept DEF LookIdle, RowsOK
<1>5. CASE LookDue
  <2>1. TaskOK' /\ RowsOK' /\ poked' = poked /\ now' = now /\ runs' = runs
    BY <1>5, <1>t, TaskKept DEF LookDue, RowsOK
  <2>2. loop' \in LoopRecord /\ loop'.at = "record" /\ loop'.now = loop.now /\ loop'.left = loop.left
    BY <1>5, Found
  <2>3. loop.now <= now
    BY <1>5, <1>t DEF LoopOK, InTick, LookDue
  <2>4. LoopOK'
    BY <2>1, <2>2, <2>3, <1>t DEF LoopOK, InTick
  <2> QED
    BY <2>1, <2>4, <1>t DEF TInv
<1>6. CASE RecordMissed
  <2>1. TaskOK' /\ now' = now /\ loop.now \in 0..MaxTime /\ loop.now <= now
    BY <1>6, <1>t, <1>n, TaskKept DEF RecordMissed, InTick, LoopOK
  <2>2. RowsOK' /\ poked' \in BOOLEAN /\ DOMAIN runs \subseteq DOMAIN runs'
    <3>1. CASE UNCHANGED <<runs, work, poked>>
      BY <3>1, <1>t DEF RowsOK
    <3>2. CASE RecordSkip(loop.missed, loop.now)
      BY <3>2, <2>1, <1>t, SkipTypes
    <3> QED
      BY <1>6, <3>1, <3>2 DEF RecordMissed
  <2>3. loop' = [loop EXCEPT !.missed = {}, !.at = IF loop.slot = NoSlot THEN "advance" ELSE "start"]
    BY <1>6 DEF RecordMissed
  <2>4. LoopOK'
    BY <2>1, <2>2, <2>3, <1>t DEF LoopOK, LoopRecord, InTick
  <2> QED
    BY <2>1, <2>2, <2>4, <1>t DEF TInv
<1>7. CASE LoopStarts
  <2>1. /\ StartRun(loop.definition, loop.trigger, {loop.slot}, loop.now)
        /\ loop.at = "start" /\ AfterStart /\ now' = now
        /\ loop.trigger \in {"schedule", "catch_up", "manual"}
        /\ {loop.slot} \in SUBSET Times /\ loop.now \in 0..MaxTime
    BY <1>7, <1>t, <1>n DEF LoopStarts, LoopOK, LoopRecord, InTick
  <2>2. RowsOK' /\ poked' \in BOOLEAN /\ DOMAIN runs \subseteq DOMAIN runs'
    BY <2>1, <1>t, StartTypes
  <2>3. TaskOK'
    BY <1>7, <1>t DEF LoopStarts, TaskOK, Active
  <2> QED
    BY <2>1, <2>2, <2>3, <1>a
<1>8. CASE LoopFindsBusy
  <2>1. loop' = [loop EXCEPT !.at = "busy"] /\ loop.at = "start" /\ now' = now /\ runs' = runs /\ work' = work
        /\ task' = task /\ poked' = poked
    BY <1>8 DEF LoopFindsBusy
  <2>2. LoopOK'
    BY <2>1, <1>t DEF LoopOK, LoopRecord, InTick
  <2> QED
    BY <2>1, <2>2, <1>t, TaskKept DEF TInv, RowsOK
<1>9. CASE QueueAfterBusy
  <2>1. /\ loop.at = "busy" /\ AfterStart /\ now' = now /\ runs' = runs /\ work' = work /\ poked' = TRUE
        /\ loop.slot \in Times
    BY <1>9, <1>t DEF QueueAfterBusy, LoopOK
  <2>2. TaskOK'
    BY <1>9, <2>1, <1>t DEF QueueAfterBusy, TaskOK, Active
  <2> QED
    BY <2>1, <2>2, <1>a, <1>t DEF RowsOK
<1>10. CASE SkipBusy
  <2>1. /\ RecordSkip({loop.slot}, loop.now) /\ loop.at = "busy" /\ AfterStart /\ now' = now
        /\ {loop.slot} \in SUBSET Times /\ loop.now \in 0..MaxTime /\ task' = task
    BY <1>10, <1>t, <1>n DEF SkipBusy, LoopOK, InTick
  <2>2. RowsOK' /\ poked' \in BOOLEAN /\ DOMAIN runs \subseteq DOMAIN runs'
    BY <2>1, <1>t, SkipTypes
  <2> QED
    BY <2>1, <2>2, <1>a, <1>t, TaskKept
<1>11. CASE Advance
  <2>1. /\ AsleepAt(loop', "rest", 0, {})
        /\ task' = [task EXCEPT !.next = NextRun(task.definition, task.paused, loop.now)]
        /\ loop.now \in 0..MaxTime /\ UNCHANGED <<runs, work, poked, now>>
    BY <1>11, <1>n, AsleepIs DEF Advance, InTick, Places
  <2>2. TaskOK'
    <3>1. /\ task' \in [definition : Definitions \cup {NoTask}, paused : BOOLEAN,
                    next : {NextRun(task.definition, task.paused, loop.now)}, queued : Times \cup {NoSlot},
                    updated : 0..MaxTime]
          /\ task'.definition = task.definition /\ task'.paused = task.paused
      BY <2>1, <1>t DEF TaskOK
    <3> QED
      BY <3>1, <2>1, <1>t, TaskAdvanced
  <2>3. RowsOK'
    BY <2>1, <1>t DEF RowsOK
  <2> QED
    BY <2>1, <2>2, <2>3, <1>l, <1>t
<1>12. CASE Rest
  <2>1. PICK n \in Nat : AsleepAt(loop', "asleep", n, {})
    <3>1. PICK n \in Nat : loop' = [Asleep EXCEPT !.now = n]
      BY <1>12, <1>t, Numbers DEF Rest
    <3> QED
      BY <3>1, AsleepIs DEF Places
  <2>2. UNCHANGED <<task, runs, work, poked, now>>
    BY <1>12 DEF Rest
  <2>3. TaskOK' /\ RowsOK'
    BY <2>2, <1>t, TaskKept DEF RowsOK
  <2> QED
    BY <2>1, <2>2, <2>3, <1>l, <1>t
<1>13. CASE Wake
  <2>1. AsleepAt(loop', "tick", 0, {})
    BY <1>13, AsleepIs DEF Wake, Places
  <2>2. UNCHANGED <<task, runs, work, now>> /\ poked' \in BOOLEAN
    BY <1>13 DEF Wake
  <2>3. TaskOK' /\ RowsOK'
    BY <2>2, <1>t, TaskKept DEF RowsOK
  <2> QED
    BY <2>1, <2>2, <2>3, <1>l
<1>14. ASSUME NEW r \in DOMAIN runs, NEW item \in Item, UNCHANGED <<task, loop, now>>,
              work' = [work EXCEPT ![r] = item],
              FinishRun(r, "ended") \/ UNCHANGED <<runs, poked>>
       PROVE  TInv'
  <2>1. CASE FinishRun(r, "ended")
    <3>1. "ended" \in Statuses
      BY DEF Statuses
    <3> QED
      BY <1>14, <2>1, <3>1, <1>k, <1>t, RunFinished, TaskKept
  <2>2. CASE UNCHANGED <<runs, poked>>
    BY <1>14, <2>2, <1>k, <1>t, ItemChanged, TaskKept
  <2> QED
    BY <1>14, <2>1, <2>2
<1>15. ASSUME NEW r \in DOMAIN runs,
              ThreadStep(r) \/ ChildEnds(r) \/ StopChild(r)
       PROVE  TInv'
  <2>1. work[r] \in Item /\ Idle \in Item
    BY <1>t, RowsAre, ItemTypes
  <2>2. /\ [work[r] EXCEPT !.thread = "note", !.child = "working"] \in Item
        /\ \A n \in BOOLEAN : [work[r] EXCEPT !.thread = "wait", !.noted = n] \in Item
        /\ work[r].agent \in BOOLEAN
        /\ \A c \in {"told", "ended"} : [work[r] EXCEPT !.child = c] \in Item
        /\ [work[r] EXCEPT !.thread = "none"] \in Item
    BY <2>1 DEF Item
  <2>3. CASE EndWithoutChild(r)
    BY <2>3, <2>1, <1>14 DEF EndWithoutChild
  <2>4. CASE StartChild(r)
    <3>1. work' = [work EXCEPT ![r] = [work[r] EXCEPT !.thread = "note", !.child = "working"]]
      BY <2>4, <1>t, RowsAre DEF StartChild, RowsOK
    <3> QED
      BY <2>4, <3>1, <2>2, <1>14 DEF StartChild
  <2>5. CASE NoteChild(r)
    <3>1. PICK n \in BOOLEAN : work' = [work EXCEPT ![r] = [work[r] EXCEPT !.thread = "wait", !.noted = n]]
      BY <2>5, <2>2 DEF NoteChild
    <3> QED
      BY <2>5, <3>1, <2>2, <1>14 DEF NoteChild
  <2>6. CASE EndRun(r)
    <3>1. PICK item \in Item : work' = [work EXCEPT ![r] = item]
      BY <2>6, <2>1, <2>2 DEF EndRun
    <3> QED
      BY <2>6, <3>1, <1>14 DEF EndRun
  <2>7. CASE ChildEnds(r)
    <3>1. PICK item \in Item : work' = [work EXCEPT ![r] = item]
      BY <2>7, <2>1, <2>2 DEF ChildEnds
    <3> QED
      BY <2>7, <3>1, <1>14 DEF ChildEnds
  <2>8. CASE StopChild(r)
    <3>1. PICK item \in Item : work' = [work EXCEPT ![r] = item]
      BY <2>8, <2>1, <2>2 DEF StopChild
    <3> QED
      BY <2>8, <3>1, <1>14 DEF StopChild
  <2> QED
    BY <1>15, <2>3, <2>4, <2>5, <2>6, <2>7, <2>8 DEF ThreadStep
<1>16. CASE RunNow
  <2>1. /\ StartRun(task.definition, "manual", {}, now) /\ UNCHANGED <<task, loop, now>>
        /\ task.definition \in Definition /\ {} \in SUBSET Times
    BY <1>16, <1>t, DefinitionType DEF RunNow
  <2> QED
    BY <2>1, <1>k, <1>t, StartTypes, TaskKept
<1>17. CASE SetPaused
  <2> DEFINE p == ~task.paused
  <2>1. /\ task' = [task EXCEPT !.paused = p, !.next = NextRun(task.definition, p, now),
                                !.queued = IF task.paused THEN @ ELSE NoSlot, !.updated = now]
        /\ poked' = TRUE /\ UNCHANGED <<runs, work, loop, now>> /\ p \in BOOLEAN
    BY <1>17, <1>t DEF SetPaused, TaskOK
  <2>2. /\ task' \in [definition : Definitions \cup {NoTask}, paused : BOOLEAN,
                    next : {NextRun(task.definition, p, now)}, queued : Times \cup {NoSlot},
                    updated : 0..MaxTime]
        /\ task'.definition = task.definition /\ task'.paused = p
    BY <2>1, <1>t DEF TaskOK
  <2>3. TaskOK'
    BY <2>1, <2>2, <1>t, TaskAdvanced
  <2> QED
    BY <2>1, <2>3, <1>k, <1>t DEF RowsOK
<1>18. CASE DeleteTask
  <2>1. TaskOK'
    BY <1>18, <1>t, Numbers DEF DeleteTask, TaskOK, Active
  <2>2. RowsOK' /\ DOMAIN runs' = DOMAIN runs
    <3>1. DOMAIN runs = 1..Len(runs) /\ \A r \in DOMAIN runs : runs[r] \in Row
      BY <1>t, RowsAre
    <3>2. \A r \in DOMAIN runs : [runs[r] EXCEPT !.status = "gone"] \in Row
      BY <3>1 DEF Row
    <3>3. runs' \in [1..Len(runs) -> Row] /\ Len(runs) \in Nat
      BY <1>18, <1>t, <3>1, <3>2, RowsAre DEF DeleteTask
    <3>4. runs' \in Seq(Row) /\ Len(runs') = Len(runs)
      BY <3>3
    <3> QED
      BY <1>18, <3>1, <3>3, <3>4, <1>t DEF DeleteTask, RowsOK
  <2> QED
    BY <1>18, <2>1, <2>2, <1>k, <1>t DEF DeleteTask
<1>19. ASSUME NEW d \in Definitions, UpdateTask(d) PROVE TInv'
  <2>1. /\ task' = [task EXCEPT !.definition = d, !.next = NextRun(d, task.paused, now), !.updated = now]
        /\ poked' = TRUE /\ UNCHANGED <<runs, work, loop, now>>
    BY <1>19 DEF UpdateTask
  <2>2. /\ task' \in [definition : Definitions \cup {NoTask}, paused : BOOLEAN,
                    next : {NextRun(d, task.paused, now)}, queued : Times \cup {NoSlot},
                    updated : 0..MaxTime]
        /\ task'.definition = d /\ task'.paused = task.paused
    BY <2>1, <1>t DEF TaskOK
  <2>3. TaskOK'
    BY <2>1, <2>2, <1>t, TaskAdvanced
  <2> QED
    BY <2>1, <2>3, <1>k, <1>t DEF RowsOK
<1>20. CASE TimePasses
  <2>1. /\ now' \in 0..MaxTime /\ now' \in Nat /\ now <= now'
        /\ UNCHANGED <<task, runs, work, loop, poked>>
    BY <1>20, <1>t, BoundsAssumption DEF TimePasses
  <2> QED
    BY <2>1, <1>t, LoopKept, TaskKept DEF TInv, RowsOK
<1>21. CASE ServerDies
  <2>1. /\ AsleepAt(loop', "down", 0, {})
        /\ UNCHANGED <<task, runs, now>> /\ poked' \in BOOLEAN
    BY <1>21, AsleepIs DEF ServerDies, Places
  <2>2. RowsOK'
    <3>1. DOMAIN work = 1..Len(runs) /\ \A r \in DOMAIN work : work[r] \in Item
      BY <1>t, RowsAre
    <3>2. \A r \in DOMAIN work : [work[r] EXCEPT !.thread = "none"] \in Item
      BY <3>1 DEF Item
    <3>3. work' \in [1..Len(runs) -> Item] /\ Len(runs) \in Nat
      BY <1>21, <1>t, <3>1, <3>2, RowsAre DEF ServerDies
    <3>4. work' \in Seq(Item) /\ Len(work') = Len(runs)
      BY <3>3
    <3> QED
      BY <2>1, <3>4, <1>t DEF RowsOK
  <2> QED
    BY <2>1, <2>2, <1>l, <1>t, TaskKept
<1>22. CASE ServerStarts
  <2> DEFINE left == {r \in DOMAIN runs : Running(r)}
  <2>1. /\ loop' = [Asleep EXCEPT !.at = "recover", !.left = left]
        /\ UNCHANGED <<task, runs, work, poked, now>>
    BY <1>22 DEF ServerStarts
  <2>2. left \in SUBSET Nat /\ left \subseteq DOMAIN runs
    BY <1>t, RowsAre
  <2> HIDE DEF left
  <2> QED
    <3>1. AsleepAt(loop', "recover", 0, left)
      BY <2>1, <2>2, AsleepIs DEF Places
    <3>2. TaskOK' /\ RowsOK'
      BY <2>1, <1>t, TaskKept DEF RowsOK
    <3> QED
      BY <2>1, <2>2, <3>1, <3>2, <1>l, <1>t
<1>23. CASE UNCHANGED vars
  BY <1>23, <1>k, <1>t, TaskKept DEF vars, RowsOK
<1> QED
  BY <1>1, <1>2, <1>3, <1>4, <1>5, <1>6, <1>7, <1>8, <1>9, <1>10, <1>11, <1>12, <1>13, <1>15,
     <1>16, <1>17, <1>18, <1>19, <1>20, <1>21, <1>22, <1>23 DEF Next, LoopStep

LEMMA InitTInv == Init => TInv
<1> SUFFICES ASSUME Init PROVE TInv
  OBVIOUS
<1>1. PICK d \in Definitions : task = [definition |-> d, paused |-> FALSE, next |-> NextRun(d, FALSE, 0),
                                       queued |-> NoSlot, updated |-> 0]
  BY DEF Init
<1>2. d.slots \in SUBSET Times /\ 0 \in 0..MaxTime /\ FALSE \in BOOLEAN
  BY DefinitionType, BoundsAssumption DEF Definition
<1>3. NextRun(d, FALSE, 0) \in d.slots \cup {Never} /\ NextRun(d, FALSE, 0) \in Times \cup {Never}
  BY <1>2, NextRunIs
<1>4. TaskOK
  BY <1>1, <1>2, <1>3 DEF TaskOK, Active
<1>5. RowsOK
  <2>1. <<>> \in Seq(Row) /\ <<>> \in Seq(Item) /\ Len(<<>>) = 0
    BY EmptySeq
  <2> QED
    BY <2>1 DEF Init, RowsOK
<1>6. AsleepAt(loop, "recover", 0, {})
  BY AsleepIs DEF Init, Places
<1>7. LoopOK
  BY <1>6 DEF AsleepAt, LoopOK, InTick
<1> QED
  BY <1>2, <1>4, <1>5, <1>7 DEF Init, TInv

LEMMA AlwaysTyped == Spec => []TInv
BY InitTInv, TypeStep, PTL DEF Spec

\* Every variable always holds a value of its type, and the next run of an active task
\* is one of its schedule's times: the store never notes a run that is not due.
THEOREM TypeCorrect == Spec => []TypeOK
BY AlwaysTyped, Typed, PTL

-----------------------------------------------------------------------------
(* One run at a time *)

Open(r) == runs[r].status \in {"running", "gone"}

\* A thread belongs to an open run; a dead server has none; and the runs a new server is
\* still to recover have none yet, and are open.
OneInv == /\ OneRunAtATime
          /\ \A r \in DOMAIN runs : work[r].thread # "none" => Open(r)
          /\ loop.at = "down" => \A r \in DOMAIN runs : work[r].thread = "none"
          /\ loop.at = "recover" => \A r \in loop.left : work[r].thread = "none" /\ Open(r)

\* Steps that change no row.
LEMMA OneKept ==
  ASSUME OneInv, UNCHANGED <<runs, work>>, \/ loop'.at \notin {"down", "recover"}
         \/ /\ loop'.at = loop.at
            /\ loop'.left = loop.left
  PROVE  OneInv'
BY DEF OneInv, OneRunAtATime, Open, Running

\* A row is added that starts a run while none is open, or records a skip.
LEMMA OneAdded ==
  ASSUME TInv, OneInv,
         DOMAIN runs' = DOMAIN runs \cup {Len(runs) + 1}, Len(runs) + 1 \notin DOMAIN runs,
         \A r \in DOMAIN runs : runs'[r] = runs[r] /\ work'[r] = work[r],
         work'[Len(runs) + 1].child = "none",
         \/ runs'[Len(runs) + 1].status = "running" /\ ~IsRunning
         \/ runs'[Len(runs) + 1].status = "skipped" /\ work'[Len(runs) + 1].thread = "none",
         \/ loop'.at \notin {"down", "recover"}
         \/ /\ loop'.at = loop.at /\ loop'.left = loop.left
            /\ loop.at # "down"
  PROVE  OneInv'
<1>1. ~IsRunning => \A r \in DOMAIN runs : runs[r].status # "running"
  BY DEF IsRunning, Running
<1>2. loop.left \subseteq DOMAIN runs
  BY DEF TInv, LoopOK
<1>3. OneRunAtATime'
  BY <1>1 DEF OneInv, OneRunAtATime, Running
<1>4. \A r \in DOMAIN runs' : work'[r].thread # "none" => Open(r)'
  BY DEF OneInv, Open
<1>5. loop'.at = "recover" => \A r \in loop'.left : work'[r].thread = "none" /\ Open(r)'
  BY <1>2 DEF OneInv, Open
<1> QED
  BY <1>3, <1>4, <1>5 DEF OneInv

\* What belongs to one row changes, which is closed or stays as it was.
LEMMA OneChanged ==
  ASSUME TInv, OneInv, NEW r \in DOMAIN runs, NEW item \in Item, DOMAIN runs' = DOMAIN runs,
         work'[r] = item, \A q \in DOMAIN runs : q # r => runs'[q] = runs[q] /\ work'[q] = work[q],
         \/ runs'[r].status = runs[r].status
         \/ runs'[r].status \notin {"running", "gone"} /\ item.thread = "none",
         item.thread # "none" => Open(r)',
         item.child = "working" /\ item.noted => Open(r)',
         loop'.at = loop.at, loop'.left \subseteq loop.left,
         loop.at = "down" => item.thread = "none",
         loop.at = "recover" /\ r \in loop'.left => item.thread = "none" /\ Open(r)'
  PROVE  OneInv'
<1>1. loop.left \subseteq DOMAIN runs
  BY DEF TInv, LoopOK
<1>2. OneRunAtATime'
  BY DEF OneInv, OneRunAtATime, Running, Open
<1>3. \A q \in DOMAIN runs' : work'[q].thread # "none" => Open(q)'
  BY DEF OneInv, Open
<1>4. loop'.at = "down" => \A q \in DOMAIN runs' : work'[q].thread = "none"
  BY DEF OneInv
<1>5. loop'.at = "recover" => \A q \in loop'.left : work'[q].thread = "none" /\ Open(q)'
  BY <1>1 DEF OneInv, Open
<1> QED
  BY <1>2, <1>3, <1>4, <1>5 DEF OneInv

\* Closing a row: what FinishRun leaves of it.
LEMMA FinishedIs ==
  ASSUME RowsOK, NEW r \in DOMAIN runs, NEW status \in {"ended", "failed"}
  PROVE  /\ Finished(r, status).status \notin {"running"}
         /\ Finished(r, status).status # "gone" => Finished(r, status).status = status
         /\ Finished(r, status).status = "gone" => runs[r].status = "gone"
         /\ Finished(r, status).slots = runs[r].slots
         /\ Finished(r, status).trigger = runs[r].trigger
         /\ Finished(r, status).at = runs[r].at
<1>1. runs[r] \in Row
  BY RowsAre
<1> QED
  BY <1>1 DEF Finished, Row

LEMMA OneFinished ==
  ASSUME TInv, OneInv, NEW r \in DOMAIN runs, NEW status \in {"ended", "failed"},
         NEW item \in Item, FinishRun(r, status), work' = [work EXCEPT ![r] = item],
         item.thread = "none", ~(item.child = "working" /\ item.noted),
         loop'.at = loop.at, loop'.left \subseteq loop.left,
         loop.at = "recover" => r \notin loop'.left
  PROVE  OneInv'
<1>1. RowsOK /\ status \in Statuses
  BY DEF TInv, Statuses
<1>2. /\ DOMAIN runs' = DOMAIN runs /\ runs'[r] = Finished(r, status) /\ work'[r] = item
      /\ \A q \in DOMAIN runs : q # r => runs'[q] = runs[q] /\ work'[q] = work[q]
  BY <1>1, RunFinished
<1>3. /\ Finished(r, status).status # "gone" => Finished(r, status).status = status
      /\ Finished(r, status).status = "gone" => runs[r].status = "gone"
  BY <1>1, FinishedIs
<1>4. \/ runs'[r].status = runs[r].status
      \/ runs'[r].status \notin {"running", "gone"} /\ item.thread = "none"
  BY <1>2, <1>3
<1> QED
  BY <1>2, <1>4, OneChanged

LEMMA OneItem ==
  ASSUME TInv, OneInv, NEW r \in DOMAIN runs, NEW item \in Item, runs' = runs,
         work' = [work EXCEPT ![r] = item],
         item.thread # "none" => Open(r),
         item.child = "working" /\ item.noted => Open(r),
         loop'.at = loop.at, loop'.left \subseteq loop.left,
         loop.at = "down" => item.thread = "none",
         loop.at = "recover" /\ r \in loop'.left => item.thread = "none" /\ Open(r)
  PROVE  OneInv'
<1>1. RowsOK
  BY DEF TInv
<1>2. DOMAIN runs' = DOMAIN runs /\ work'[r] = item /\ \A q \in DOMAIN runs : q # r => work'[q] = work[q]
  BY <1>1, ItemChanged
<1>3. Open(r)' <=> Open(r)
  BY DEF Open
<1> QED
  BY <1>2, <1>3, OneChanged

\* Every action keeps one run at a time.
LEMMA OneStep == TInv /\ OneInv /\ [Next]_vars => OneInv'
<1> SUFFICES ASSUME TInv, OneInv, [Next]_vars PROVE OneInv'
  OBVIOUS
<1>t. /\ RowsOK /\ LoopOK /\ now \in 0..MaxTime /\ now \in Nat
      /\ loop.slot \in Times \cup {NoSlot} /\ loop.missed \in SUBSET Times
      /\ loop.definition \in Definition /\ loop \in LoopRecord
      /\ task.definition \in Definition
      /\ InTick => loop.now \in 0..MaxTime
  BY BoundsAssumption, DefinitionType DEF TInv, LoopOK, LoopRecord, TaskOK
<1>i. Idle \in Item /\ Idle.thread = "none" /\ Idle.child = "none"
  BY DEF Idle, Item
<1>s. ASSUME NEW d \in Definition, NEW trigger \in {"schedule", "catch_up", "manual"},
             NEW slots \in SUBSET Times, NEW at \in 0..MaxTime, StartRun(d, trigger, slots, at),
             \/ loop'.at \notin {"down", "recover"}
             \/ /\ loop'.at = loop.at /\ loop'.left = loop.left
                /\ loop.at # "down"
      PROVE  OneInv'
  <2>1. /\ DOMAIN runs' = DOMAIN runs \cup {Len(runs) + 1} /\ Len(runs) + 1 \notin DOMAIN runs
        /\ \A r \in DOMAIN runs : runs'[r] = runs[r] /\ work'[r] = work[r]
        /\ runs'[Len(runs) + 1] = Started1(trigger, slots, at)
        /\ work'[Len(runs) + 1] = [Idle EXCEPT !.thread = "begin", !.agent = d.agent]
    <3>1. Started1(trigger, slots, at) \in Row
      BY DEF Started1, Row, Statuses
    <3>2. [Idle EXCEPT !.thread = "begin", !.agent = d.agent] \in Item
      BY DEF Idle, Item, Definition
    <3>3. /\ runs' = Append(runs, Started1(trigger, slots, at)) /\ RowsOK
          /\ work' = Append(work, [Idle EXCEPT !.thread = "begin", !.agent = d.agent])
      BY <1>s, <1>t DEF StartRun, Started1
    <3> QED
      BY <3>1, <3>2, <3>3, RowAdded
  <2>2. /\ runs'[Len(runs) + 1].status = "running" /\ ~IsRunning
        /\ work'[Len(runs) + 1].child = "none"
    <3>1. [Idle EXCEPT !.thread = "begin", !.agent = d.agent].child = "none"
      BY DEF Idle
    <3>2. ~IsRunning
      BY <1>s DEF StartRun
    <3>3. Started1(trigger, slots, at).status = "running"
      BY DEF Started1
    <3> QED
      BY <2>1, <3>1, <3>2, <3>3
  <2> QED
    BY <1>s, <2>1, <2>2, OneAdded
<1>d. ASSUME NEW slots \in SUBSET Times, NEW at \in 0..MaxTime, RecordSkip(slots, at),
             loop'.at \notin {"down", "recover"}
      PROVE  OneInv'
  <2>1. /\ DOMAIN runs' = DOMAIN runs \cup {Len(runs) + 1} /\ Len(runs) + 1 \notin DOMAIN runs
        /\ \A r \in DOMAIN runs : runs'[r] = runs[r] /\ work'[r] = work[r]
        /\ runs'[Len(runs) + 1] = Skipped1(slots, at) /\ work'[Len(runs) + 1] = Idle
    BY <1>d, SkipTypes
  <2>2. /\ runs'[Len(runs) + 1].status = "skipped" /\ work'[Len(runs) + 1].child = "none"
        /\ work'[Len(runs) + 1].thread = "none"
    BY <2>1, <1>i DEF Skipped1
  <2> QED
    BY <1>d, <2>1, <2>2, OneAdded
<1>a. AfterStart => loop'.at \notin {"down", "recover"}
  BY DEF AfterStart, LoopGoes, Asleep
<1>1. ASSUME NEW r \in DOMAIN runs, RecoverRun(r) PROVE OneInv'
  <2>1. /\ loop.at = "recover" /\ r \in loop.left /\ loop'.at = loop.at /\ loop'.left = loop.left \ {r}
        /\ work[r].thread = "none" /\ Open(r) /\ work[r] \in Item
    BY <1>1, <1>t, RowsAre DEF RecoverRun, LoopRecord, OneInv
  <2>2. CASE work' = [work EXCEPT ![r].thread = "wait"] /\ UNCHANGED <<runs, poked>>
    <3> DEFINE item == [work[r] EXCEPT !.thread = "wait"]
    <3>1. item \in Item /\ work' = [work EXCEPT ![r] = item] /\ runs' = runs
      BY <2>1, <2>2 DEF Item
    <3> HIDE DEF item
    <3> QED
      BY <2>1, <3>1, OneItem
  <2>3. ASSUME FinishRun(r, "failed"), NEW left \in StopLeftScripts(r), work' = [work EXCEPT ![r] = left]
        PROVE  OneInv'
    <3>1. left \in Item /\ left.thread = "none" /\ ~(left.child = "working" /\ left.noted)
      BY <2>1, <2>3, <1>i DEF StopLeftScripts, Item
    <3> QED
      BY <2>1, <2>3, <3>1, OneFinished
  <2> QED
    BY <1>1, <2>2, <2>3 DEF RecoverRun
<1>2. ASSUME UNCHANGED <<runs, work>>,
             \/ loop'.at \notin {"down", "recover"}
             \/ loop' = loop
      PROVE  OneInv'
  BY <1>2, OneKept
<1>3. CASE RecoverDone \/ Tick \/ LookIdle \/ LookDue \/ LoopFindsBusy \/ Advance \/ Rest \/ Wake
  <2>1. UNCHANGED <<runs, work>>
    BY <1>3 DEF RecoverDone, Tick, LookIdle, LookDue, LoopFindsBusy, Advance, Rest, Wake
  <2>2. loop'.at \notin {"down", "recover"}
    <3>1. LookDue \/ LoopFindsBusy => loop'.at \in {"record", "busy"}
      BY <1>t DEF LookDue, LoopFindsBusy, LoopRecord
    <3>2. RecoverDone \/ Tick \/ LookIdle \/ Advance \/ Rest \/ Wake
            => loop'.at \in {"tick", "start", "look", "rest", "asleep"}
      BY DEF RecoverDone, Tick, LookIdle, Advance, Rest, Wake, Asleep
    <3> QED
      BY <1>3, <3>1, <3>2
  <2> QED
    BY <1>2, <2>1, <2>2
<1>4. CASE RecordMissed
  <2>1. loop'.at \in {"advance", "start"}
    BY <1>4, <1>t DEF RecordMissed, LoopRecord
  <2>2. InTick
    BY <1>4 DEF RecordMissed, InTick
  <2>3. loop.now \in 0..MaxTime
    BY <1>t, <2>2
  <2>4. CASE loop.missed = {}
    BY <1>4, <1>2, <2>1, <2>4 DEF RecordMissed
  <2>5. CASE RecordSkip(loop.missed, loop.now)
    BY <1>d, <1>t, <2>1, <2>3, <2>5
  <2> QED
    BY <1>4, <2>4, <2>5 DEF RecordMissed
<1>5. CASE LoopStarts
  <2>1. /\ StartRun(loop.definition, loop.trigger, {loop.slot}, loop.now) /\ AfterStart
        /\ loop.trigger \in {"schedule", "catch_up", "manual"} /\ {loop.slot} \in SUBSET Times
        /\ loop.now \in 0..MaxTime /\ loop'.at \notin {"down", "recover"}
    BY <1>5, <1>a, <1>t DEF LoopStarts, LoopOK, LoopRecord, InTick
  <2> QED
    BY <1>a, <1>s, <1>t, <2>1
<1>6. CASE QueueAfterBusy
  BY <1>6, <1>a, <1>2 DEF QueueAfterBusy
<1>7. CASE SkipBusy
  <2>1. RecordSkip({loop.slot}, loop.now) /\ AfterStart /\ {loop.slot} \in SUBSET Times
        /\ loop.now \in 0..MaxTime
    BY <1>7, <1>t DEF SkipBusy, LoopOK, InTick
  <2> QED
    BY <1>a, <1>d, <2>1
<1>8. ASSUME NEW r \in DOMAIN runs, EndWithoutChild(r) \/ EndRun(r) PROVE OneInv'
  <2>1. work[r] \in Item /\ work[r].thread # "none" /\ loop' = loop /\ FinishRun(r, "ended")
    BY <1>8, <1>t, RowsAre DEF EndWithoutChild, EndRun
  <2>2. PICK item \in Item : /\ work' = [work EXCEPT ![r] = item]
                             /\ item.thread = "none" /\ ~(item.child = "working" /\ item.noted)
    <3>1. CASE EndWithoutChild(r)
      BY <3>1, <1>i DEF EndWithoutChild
    <3>2. CASE EndRun(r)
      <4>1. /\ [work[r] EXCEPT !.thread = "none"] \in Item
            /\ [work[r] EXCEPT !.thread = "none"].thread = "none"
            /\ [work[r] EXCEPT !.thread = "none"].child = work[r].child
        BY <2>1 DEF Item
      <4> QED
        BY <3>2, <4>1, <1>i DEF EndRun
    <3> QED
      BY <1>8, <3>1, <3>2
  <2>3. loop.at = "recover" => r \notin loop.left
    BY <2>1 DEF OneInv
  <2> QED
    BY <2>1, <2>2, <2>3, OneFinished
<1>9. ASSUME NEW r \in DOMAIN runs, StartChild(r) \/ NoteChild(r) \/ StopChild(r) PROVE OneInv'
  <2>1. work[r] \in Item /\ work[r].thread # "none" /\ loop' = loop /\ runs' = runs
    BY <1>9, <1>t, RowsAre DEF StartChild, NoteChild, StopChild
  <2>2. Open(r) /\ loop.at # "down" /\ (loop.at = "recover" => r \notin loop.left)
    BY <2>1 DEF OneInv
  <2>3. PICK item \in Item : work' = [work EXCEPT ![r] = item]
    <3>1. CASE StartChild(r)
      <4>1. /\ [work[r] EXCEPT !.thread = "note", !.child = "working"] \in Item
            /\ work' = [work EXCEPT ![r] = [work[r] EXCEPT !.thread = "note", !.child = "working"]]
        BY <3>1, <2>1, <1>t, RowsAre DEF StartChild, Item
      <4> QED
        BY <4>1
    <3>2. CASE NoteChild(r)
      <4>0. work[r].agent \in BOOLEAN
        BY <2>1 DEF Item
      <4>1. PICK n \in BOOLEAN :
                work' = [work EXCEPT ![r] = [work[r] EXCEPT !.thread = "wait", !.noted = n]]
        BY <3>2, <4>0 DEF NoteChild
      <4>2. [work[r] EXCEPT !.thread = "wait", !.noted = n] \in Item
        BY <2>1 DEF Item
      <4> QED
        BY <4>1, <4>2
    <3>3. CASE StopChild(r)
      BY <3>3, <2>1 DEF StopChild, Item
    <3> QED
      BY <1>9, <3>1, <3>2, <3>3
  <2> QED
    BY <2>1, <2>2, <2>3, OneItem
<1>10. ASSUME NEW r \in DOMAIN runs, ChildEnds(r) PROVE OneInv'
  <2>1. work[r] \in Item /\ loop' = loop /\ runs' = runs
    BY <1>10, <1>t, RowsAre DEF ChildEnds
  <2>2. PICK item \in Item : /\ work' = [work EXCEPT ![r] = item] /\ item.child # "working"
                             /\ item.thread \in {work[r].thread, "none"}
    <3>1. /\ [work[r] EXCEPT !.child = "ended"] \in Item
          /\ [work[r] EXCEPT !.child = "ended"].child = "ended"
          /\ [work[r] EXCEPT !.child = "ended"].thread = work[r].thread
      BY <2>1 DEF Item
    <3> QED
      BY <1>10, <3>1, <1>i DEF ChildEnds
  <2>3. item.thread # "none" => work[r].thread # "none"
    BY <2>2
  <2>4. /\ item.thread # "none" => Open(r)
        /\ loop.at = "down" => item.thread = "none"
        /\ loop.at = "recover" /\ r \in loop.left => item.thread = "none" /\ Open(r)
    BY <2>3 DEF OneInv
  <2> QED
    BY <2>1, <2>2, <2>4, OneItem
<1>11. CASE RunNow
  <2>1. /\ StartRun(task.definition, "manual", {}, now) /\ loop' = loop /\ loop.at # "down"
        /\ {} \in SUBSET Times
    BY <1>11 DEF RunNow, OwnerActs
  <2> QED
    BY <1>s, <1>t, <2>1
<1>12. CASE SetPaused \/ (\E d \in Definitions : UpdateTask(d)) \/ TimePasses
  BY <1>2, <1>12 DEF SetPaused, UpdateTask, TimePasses
<1>13. CASE DeleteTask
  <2>1. /\ DOMAIN runs' = DOMAIN runs /\ work' = work /\ loop' = loop
        /\ \A r \in DOMAIN runs : runs'[r].status = "gone"
    <3>1. \A r \in DOMAIN runs : runs[r] \in Row
      BY <1>t, RowsAre
    <3> QED
      BY <1>13, <3>1 DEF DeleteTask, Row
  <2>2. loop.left \subseteq DOMAIN runs
    BY <1>t DEF LoopOK
  <2> QED
    BY <2>1, <2>2 DEF OneInv, OneRunAtATime, Running, Open
<1>14. CASE ServerDies
  <2>1. /\ DOMAIN work = DOMAIN runs /\ \A r \in DOMAIN runs : work[r] \in Item
    BY <1>t, RowsAre
  <2>2. /\ runs' = runs /\ loop'.at = "down"
        /\ \A r \in DOMAIN runs : /\ work'[r].thread = "none" /\ work'[r].child = work[r].child
                                  /\ work'[r].noted = work[r].noted
    BY <1>14, <2>1 DEF ServerDies, Asleep, Item
  <2> QED
    BY <2>2 DEF OneInv, OneRunAtATime, Running, Open
<1>15. CASE ServerStarts
  <2>1. /\ UNCHANGED <<runs, work>> /\ loop'.at = "recover"
        /\ loop'.left = {r \in DOMAIN runs : Running(r)} /\ loop.at = "down"
    BY <1>15 DEF ServerStarts, Asleep
  <2> QED
    BY <2>1 DEF OneInv, OneRunAtATime, Running, Open
<1>16. CASE UNCHANGED vars
  BY <1>2, <1>16 DEF vars
<1> QED
  BY <1>1, <1>3, <1>4, <1>5, <1>6, <1>7, <1>8, <1>9, <1>10, <1>11, <1>12, <1>13, <1>14,
     <1>15, <1>16 DEF Next, LoopStep, ThreadStep

LEMMA AlwaysOne == Spec => []OneInv
<1>1. Init => OneInv
  BY DEF Init, OneInv, OneRunAtATime, Asleep
<1> QED
  BY <1>1, OneStep, AlwaysTyped, PTL DEF Spec

\* A task never has two open runs, and a run that is over has left no script or agent at
\* work that the store knows of and nobody asked to stop, whoever died in between.
THEOREM OneRunAtATimeHolds == Spec => []OneRunAtATime
<1>1. OneInv => OneRunAtATime
  BY DEF OneInv
<1> QED
  BY <1>1, AlwaysOne, PTL

-----------------------------------------------------------------------------
(* No time of the schedule is lost *)

\* A time comes before the next run or the last change, or is among the first
\* times that a look at the schedule from the next run on takes in.
Near(q) == \/ q < task.next
           \/ q <= task.updated
           \/ /\ q \in task.definition.slots
              /\ Cardinality({t \in task.definition.slots : task.next <= t /\ t < q}) <= MaxCounted

\* A time that has come by the clock the loop read, since the last change.
Due(s) == /\ Active /\ s \in task.definition.slots
          /\ task.updated < s /\ s <= loop.now

Chosen == loop.at \in {"record", "start", "busy"}
First  == Chosen /\ ~loop.waited

PassedCame  == Active => \A s \in task.definition.slots :
                  task.updated < s /\ s < task.next => s <= now /\ (InTick => s <= loop.now)
CameBefore  == /\ task.queued <= now /\ (InTick => task.queued <= loop.now)
               /\ Chosen => loop.slot <= loop.now
NearOnes    == Active => \A q \in Times :
                  (q = task.queued \/ (Chosen /\ q = loop.slot)) => Near(q)
WaitsEarlier == Active /\ First => \A q \in Times : q = task.queued /\ loop.slot # NoSlot =>
                   q < task.next \/ q <= task.updated \/ q <= loop.slot
RecordOwes  == loop.at = "record" => \A s \in Times : Due(s) =>
                  \/ Accounted(s)
                  \/ \E t \in loop.missed : t <= s
                  \/ loop.slot # NoSlot /\ loop.slot <= s + Overdue
StartOwes   == loop.at \in {"start", "busy"} /\ ~loop.waited =>
                  \A s \in Times : Due(s) => Accounted(s) \/ loop.slot <= s + Overdue
AdvanceOwes == loop.at = "advance" => \A s \in Times : Due(s) => Accounted(s)
WaitedIs    == loop.waited => /\ loop.at \in {"start", "busy"}
                              /\ task.queued \in {loop.slot, NoSlot}

KeptInv == /\ NoSlotLost /\ PassedCame /\ CameBefore /\ NearOnes /\ WaitsEarlier
           /\ RecordOwes /\ StartOwes /\ AdvanceOwes /\ WaitedIs

LEMMA Counted ==
  ASSUME TInv
  PROVE  /\ task.definition \in Definition /\ task.definition.slots \in SUBSET Times
         /\ task.next \in Nat /\ task.updated \in Nat /\ task.queued \in Nat
         /\ task.queued \in Times \cup {NoSlot} /\ now \in Nat /\ now \in 0..MaxTime
         /\ loop.now \in Nat /\ loop.slot \in Nat /\ loop.slot \in Times \cup {NoSlot}
         /\ loop.missed \in SUBSET Times /\ loop \in LoopRecord
         /\ InTick => loop.now <= now
<1>1. \A t \in Times : t \in Nat
  BY Numbers
<1>2. /\ task.definition \in Definition /\ task.next \in Times \cup {Never}
      /\ task.queued \in Times \cup {NoSlot} /\ task.updated \in 0..MaxTime
  BY DefinitionType DEF TInv, TaskOK
<1>3. /\ loop \in LoopRecord /\ now \in 0..MaxTime
      /\ InTick => loop.now <= now
  BY DEF TInv, LoopOK
<1> QED
  BY <1>1, <1>2, <1>3, Numbers DEF Definition, LoopRecord

\* Rows are added and closed, but what they say of times stays.
RowsKeep == /\ DOMAIN runs \subseteq DOMAIN runs'
            /\ \A r \in DOMAIN runs : /\ runs'[r].slots = runs[r].slots
                                      /\ runs'[r].trigger = runs[r].trigger
                                      /\ runs'[r].at = runs[r].at

LEMMA StaysAccounted ==
  ASSUME RowsKeep, task'.queued = task.queued \/ task.queued = NoSlot, NEW s \in Times, Accounted(s)
  PROVE  Accounted(s)'
<1>1. s \in Nat /\ s # 0
  BY Numbers
<1>2. NoSlot \notin s..(s + Overdue) \cup (1..s)
  BY <1>1, BoundsAssumption DEF NoSlot
<1> QED
  BY <1>2 DEF Accounted, RowsKeep

LEMMA StaysNear ==
  ASSUME task'.next = task.next, task'.updated = task.updated, task'.definition = task.definition,
         NEW q, Near(q)
  PROVE  Near(q)'
<1>1. {t \in task'.definition.slots : task'.next <= t /\ t < q}
        = {t \in task.definition.slots : task.next <= t /\ t < q}
  OBVIOUS
<1> QED
  BY <1>1 DEF Near

LEMMA ChangedKeepsRows ==
  ASSUME RowsOK, NEW r \in DOMAIN runs, NEW status, FinishRun(r, status)
  PROVE  RowsKeep
<1>1. \A q \in DOMAIN runs : runs[q] \in Row
  BY RowsAre
<1>2. CASE runs' = runs
  BY <1>2 DEF RowsKeep
<1>3. CASE runs' = [runs EXCEPT ![r].status = status]
  <2>1. DOMAIN runs' = DOMAIN runs
    BY <1>3
  <2>2. ASSUME NEW q \in DOMAIN runs
        PROVE  runs'[q].slots = runs[q].slots /\ runs'[q].trigger = runs[q].trigger /\ runs'[q].at = runs[q].at
    BY <1>1, <1>3 DEF Row
  <2> QED
    BY <2>1, <2>2 DEF RowsKeep
<1> QED
  BY <1>2, <1>3 DEF FinishRun

LEMMA AddedKeepsRows ==
  ASSUME RowsOK, NEW row \in Row, runs' = Append(runs, row)
  PROVE  RowsKeep
<1>1. /\ runs' \in Seq(Row) /\ Len(runs') = Len(runs) + 1
      /\ \A i \in 1..Len(runs) : runs'[i] = runs[i]
  BY AppendProperties DEF RowsOK
<1>2. Len(runs) \in Nat /\ DOMAIN runs = 1..Len(runs) /\ DOMAIN runs' = 1..(Len(runs) + 1)
  BY <1>1, LenProperties DEF RowsOK
<1> QED
  BY <1>1, <1>2 DEF RowsKeep

LEMMA StartKeepsRows ==
  ASSUME TInv, NEW d, NEW trigger \in {"schedule", "catch_up", "manual"},
         NEW slots \in SUBSET Times, NEW at \in 0..MaxTime, StartRun(d, trigger, slots, at)
  PROVE  RowsKeep
<1>1. Started1(trigger, slots, at) \in Row
  BY DEF Started1, Row, Statuses
<1>2. runs' = Append(runs, Started1(trigger, slots, at)) /\ RowsOK
  BY DEF StartRun, Started1, TInv
<1> QED
  BY <1>1, <1>2, AddedKeepsRows

LEMMA SkipKeepsRows ==
  ASSUME TInv, NEW slots \in SUBSET Times, NEW at \in 0..MaxTime, RecordSkip(slots, at)
  PROVE  RowsKeep
<1>1. Skipped1(slots, at) \in Row
  BY DEF Skipped1, Row, Statuses
<1>2. runs' = Append(runs, Skipped1(slots, at)) /\ RowsOK
  BY DEF RecordSkip, Skipped1, TInv
<1> QED
  BY <1>1, <1>2, AddedKeepsRows

\* No step takes back what a row says of times.
LEMMA KeepsRows == TInv /\ [Next]_vars => RowsKeep
<1> SUFFICES ASSUME TInv, [Next]_vars PROVE RowsKeep
  OBVIOUS
<1>t. /\ RowsOK /\ now \in 0..MaxTime /\ loop.slot \in Times \cup {NoSlot}
      /\ loop.missed \in SUBSET Times /\ loop.trigger \in {"schedule", "catch_up"}
      /\ loop.now \in Nat
      /\ InTick => loop.now \in 0..MaxTime
      /\ loop.at \in {"start", "busy"} => loop.slot # NoSlot
  BY BoundsAssumption DEF TInv, LoopOK, LoopRecord
<1>k. runs' = runs => RowsKeep
  BY DEF RowsKeep
<1>1. CASE RecoverDone \/ Tick \/ LookIdle \/ LookDue \/ LoopFindsBusy \/ QueueAfterBusy \/ Advance
           \/ Rest \/ Wake
  <2>1. runs' = runs
    BY <1>1 DEF RecoverDone, Tick, LookIdle, LookDue, LoopFindsBusy, QueueAfterBusy, Advance, Rest, Wake
  <2> QED
    BY <1>k, <2>1
<1>2. CASE SetPaused \/ (\E d \in Definitions : UpdateTask(d)) \/ TimePasses \/ ServerDies
           \/ ServerStarts \/ UNCHANGED vars
  <2>1. runs' = runs
    BY <1>2 DEF SetPaused, UpdateTask, TimePasses, ServerDies, ServerStarts, vars
  <2> QED
    BY <1>k, <2>1
<1>3. ASSUME NEW r \in DOMAIN runs, RecoverRun(r) \/ ThreadStep(r) \/ ChildEnds(r) \/ StopChild(r)
      PROVE  RowsKeep
  <2>1. \/ runs' = runs
        \/ FinishRun(r, "failed")
        \/ FinishRun(r, "ended")
    <3>1. RecoverRun(r) => runs' = runs \/ FinishRun(r, "failed")
      BY DEF RecoverRun
    <3>2. ThreadStep(r) => runs' = runs \/ FinishRun(r, "ended")
      BY DEF ThreadStep, EndWithoutChild, StartChild, NoteChild, EndRun
    <3>3. ChildEnds(r) \/ StopChild(r) => runs' = runs
      BY DEF ChildEnds, StopChild
    <3> QED
      BY <1>3, <3>1, <3>2, <3>3
  <2>2. FinishRun(r, "failed") => RowsKeep
    BY <1>t, ChangedKeepsRows
  <2>3. FinishRun(r, "ended") => RowsKeep
    BY <1>t, ChangedKeepsRows
  <2> QED
    BY <1>k, <2>1, <2>2, <2>3
<1>4. CASE RecordMissed
  <2>1. loop.now \in 0..MaxTime
    BY <1>4, <1>t DEF RecordMissed, InTick
  <2>2. runs' = runs \/ RecordSkip(loop.missed, loop.now)
    BY <1>4 DEF RecordMissed
  <2> QED
    BY <1>k, <1>t, <2>1, <2>2, SkipKeepsRows
<1>5. CASE LoopStarts
  <2>1. /\ loop.now \in 0..MaxTime /\ {loop.slot} \in SUBSET Times
        /\ StartRun(loop.definition, loop.trigger, {loop.slot}, loop.now)
        /\ loop.trigger \in {"schedule", "catch_up", "manual"}
    BY <1>5, <1>t DEF LoopStarts, InTick
  <2> QED
    BY <2>1, StartKeepsRows
<1>6. CASE SkipBusy
  <2>1. /\ loop.now \in 0..MaxTime /\ {loop.slot} \in SUBSET Times
        /\ RecordSkip({loop.slot}, loop.now)
    BY <1>6, <1>t DEF SkipBusy, InTick
  <2> QED
    BY <2>1, SkipKeepsRows
<1>7. CASE RunNow
  <2>1. StartRun(task.definition, "manual", {}, now) /\ {} \in SUBSET Times
    BY <1>7 DEF RunNow
  <2> QED
    BY <1>t, <2>1, StartKeepsRows
<1>8. CASE DeleteTask
  <2>1. \A r \in DOMAIN runs : runs[r] \in Row
    BY <1>t, RowsAre
  <2> QED
    BY <1>8, <2>1 DEF DeleteTask, RowsKeep, Row
<1> QED
  BY <1>1, <1>2, <1>3, <1>4, <1>5, <1>6, <1>7, <1>8 DEF Next, LoopStep

\* Steps of threads and of the clock: neither the task nor the loop changes.
LEMMA KeptAside ==
  ASSUME TInv, KeptInv, RowsKeep, task' = task, loop' = loop, now' \in Nat, now <= now'
  PROVE  KeptInv'
<1>t. /\ task.definition.slots \in SUBSET Times /\ task.queued \in Nat /\ now \in Nat
      /\ \A s \in Times : s \in Nat
  BY Counted, Numbers
<1>a. \A s \in Times : Accounted(s) => Accounted(s)'
  BY StaysAccounted
<1>n. \A q \in Times : Near(q) => Near(q)'
  BY StaysNear
<1>d. /\ \A s : Due(s)' <=> Due(s)
      /\ Active' <=> Active
      /\ InTick' <=> InTick
      /\ Chosen' <=> Chosen
      /\ First' <=> First
  BY DEF Due, Active, InTick, Chosen, First
<1>1. NoSlotLost'
  BY <1>a, <1>d, <1>t DEF KeptInv, NoSlotLost
<1>2. PassedCame'
  <2> SUFFICES ASSUME Active, NEW s \in task.definition.slots, task.updated < s, s < task.next
               PROVE  s <= now' /\ (InTick => s <= loop.now)
    BY <1>d DEF PassedCame
  <2>1. s <= now /\ (InTick => s <= loop.now) /\ s \in Nat
    BY <1>t DEF KeptInv, PassedCame
  <2> QED
    BY <1>t, <2>1
<1>3. CameBefore'
  BY <1>d, <1>t DEF KeptInv, CameBefore
<1>4. NearOnes'
  BY <1>d, <1>n DEF KeptInv, NearOnes
<1>5. WaitsEarlier'
  BY <1>d DEF KeptInv, WaitsEarlier
<1>6. RecordOwes'
  BY <1>a, <1>d DEF KeptInv, RecordOwes
<1>7. StartOwes'
  BY <1>a, <1>d DEF KeptInv, StartOwes
<1>8. AdvanceOwes'
  BY <1>a, <1>d DEF KeptInv, AdvanceOwes
<1>9. WaitedIs'
  BY DEF KeptInv, WaitedIs
<1> QED
  BY <1>1, <1>2, <1>3, <1>4, <1>5, <1>6, <1>7, <1>8, <1>9 DEF KeptInv

\* Steps of the loop outside its tick: it holds nothing of the schedule.
LEMMA KeptOutside ==
  ASSUME TInv, KeptInv, RowsKeep, task' = task, now' = now,
         loop'.at \in {"asleep", "recover", "tick", "rest", "down"}, ~loop'.waited
  PROVE  KeptInv'
<1>t. task.definition.slots \in SUBSET Times
  BY Counted
<1>a. \A s \in Times : Accounted(s) => Accounted(s)'
  BY StaysAccounted
<1>n. \A q \in Times : Near(q) => Near(q)'
  BY StaysNear
<1>d. /\ Active' <=> Active
      /\ ~InTick' /\ ~Chosen' /\ ~First'
  BY DEF Active, InTick, Chosen, First
<1>1. NoSlotLost'
  BY <1>a, <1>d, <1>t DEF KeptInv, NoSlotLost
<1>2. PassedCame' /\ CameBefore'
  BY <1>d DEF KeptInv, PassedCame, CameBefore
<1>4. NearOnes'
  BY <1>d, <1>n DEF KeptInv, NearOnes
<1>5. WaitsEarlier' /\ WaitedIs'
  BY <1>d DEF WaitsEarlier, WaitedIs
<1>6. RecordOwes' /\ StartOwes' /\ AdvanceOwes'
  BY DEF RecordOwes, StartOwes, AdvanceOwes
<1> QED
  BY <1>1, <1>2, <1>4, <1>5, <1>6 DEF KeptInv

\* The owner's changes: from now on only later times count.
LEMMA KeptChanged ==
  ASSUME TInv, KeptInv, loop' = loop, now' = now, task'.updated = now, task'.next \in Nat,
         task'.queued \in {task.queued, NoSlot},
         Active' => /\ task'.definition.slots \in SUBSET Times
                    /\ \A s \in task'.definition.slots : now < s => task'.next <= s
  PROVE  KeptInv'
<1>t. /\ task.queued \in Nat /\ now \in Nat /\ loop.now \in Nat /\ loop.slot \in Nat
      /\ \A s \in Times : s \in Nat
      /\ InTick => loop.now <= now
  BY Counted, Numbers
<1>d. /\ InTick' <=> InTick
      /\ Chosen' <=> Chosen
      /\ First' <=> First
      /\ Chosen => InTick
      /\ loop.at \in {"record", "start", "busy", "advance"} => InTick
  BY DEF InTick, Chosen, First
<1>q. task'.queued \in Nat /\ task'.queued <= now /\ (InTick => task'.queued <= loop.now)
  <2>1. task.queued <= now /\ (InTick => task.queued <= loop.now)
    BY DEF KeptInv, CameBefore
  <2> QED
    BY <1>t, <2>1 DEF NoSlot
<1>p. Active' => \A s \in task'.definition.slots : ~(task'.updated < s /\ s < task'.next)
  <2> SUFFICES ASSUME Active', NEW s \in task'.definition.slots, now < s, s < task'.next PROVE FALSE
    OBVIOUS
  <2>1. s \in Nat /\ task'.next <= s
    BY <1>t
  <2> QED
    BY <2>1
<1>e. InTick => \A s \in Times : ~Due(s)'
  BY <1>t DEF Due
<1>1. NoSlotLost' /\ PassedCame'
  BY <1>p DEF NoSlotLost, PassedCame
<1>2. CameBefore'
  BY <1>d, <1>q DEF KeptInv, CameBefore
<1>3. NearOnes' /\ WaitsEarlier'
  <2>1. \A q \in Times : q = task'.queued \/ (Chosen /\ q = loop.slot) => q <= now
    BY <1>d, <1>q, <1>t DEF KeptInv, CameBefore
  <2> QED
    BY <1>d, <2>1 DEF NearOnes, Near, WaitsEarlier
<1>4. RecordOwes' /\ StartOwes' /\ AdvanceOwes'
  BY <1>d, <1>e DEF RecordOwes, StartOwes, AdvanceOwes
<1>5. WaitedIs'
  BY DEF KeptInv, WaitedIs
<1> QED
  BY <1>1, <1>2, <1>3, <1>4, <1>5 DEF KeptInv

\* What the loop looks at are the times that are near and have come.
LEMMA DueIsNear ==
  ASSUME TInv, InTick, Active, task.next <= loop.now, NEW q \in Times
  PROVE  /\ q \in DueSlots => Near(q)
         /\ Near(q) /\ q <= loop.now /\ ~(q < task.next) /\ ~(q <= task.updated) => q \in DueSlots
<1> DEFINE due == {s \in task.definition.slots : task.next <= s /\ s <= loop.now}
<1>1. /\ task.definition.slots \in SUBSET Times /\ task.next \in Nat /\ loop.now \in Nat /\ q \in Nat
      /\ \A t \in Times : t \in Nat
  BY Counted, Numbers
<1>2. q <= loop.now => {t \in due : t < q} = {t \in task.definition.slots : task.next <= t /\ t < q}
  <2> SUFFICES ASSUME q <= loop.now, NEW t \in task.definition.slots, t < q PROVE t <= loop.now
    OBVIOUS
  <2>1. t \in Nat
    BY <1>1
  <2> QED
    BY <1>1, <2>1
<1>3. ASSUME q \in DueSlots PROVE Near(q)
  <2>1. q \in due /\ Cardinality({t \in due : t < q}) <= MaxCounted
    BY <1>3 DEF DueSlots
  <2>2. q \in task.definition.slots /\ q <= loop.now
    BY <2>1
  <2> QED
    BY <1>2, <2>1, <2>2 DEF Near
<1>4. ASSUME Near(q), q <= loop.now, ~(q < task.next), ~(q <= task.updated) PROVE q \in DueSlots
  <2>1. /\ q \in task.definition.slots /\ task.next <= q
        /\ Cardinality({t \in task.definition.slots : task.next <= t /\ t < q}) <= MaxCounted
    BY <1>1, <1>4 DEF Near
  <2>2. q \in due /\ Cardinality({t \in due : t < q}) <= MaxCounted
    BY <1>2, <1>4, <2>1
  <2> QED
    BY <2>2 DEF DueSlots
<1> QED
  BY <1>3, <1>4

\* The loop begins a tick: with the run that waits, or to look at the schedule.
LEMMA KeptTick == ASSUME TInv, KeptInv, Tick PROVE KeptInv'
<1>1. /\ task' = task /\ runs' = runs /\ now' = now
  BY DEF Tick
<1>t. /\ task.definition.slots \in SUBSET Times /\ task.queued \in Nat /\ now \in Nat
      /\ \A s \in Times : s \in Nat
  BY Counted, Numbers
<1>l. /\ loop'.at \in {"start", "look"} /\ loop'.now = now
      /\ loop'.at = "start" => loop'.waited /\ loop'.slot = task.queued
      /\ loop'.at = "look" => ~loop'.waited
  BY DEF Tick, Asleep
<1>a. \A s \in Times : Accounted(s) => Accounted(s)'
  <2>1. RowsKeep
    BY <1>1 DEF RowsKeep
  <2> QED
    BY <1>1, <2>1, StaysAccounted
<1>n. \A q \in Times : Near(q) => Near(q)'
  BY <1>1, StaysNear
<1>d. /\ Active' <=> Active
      /\ Chosen' => loop'.slot = task.queued
      /\ ~First'
  BY <1>1, <1>l DEF Active, Chosen, First
<1>2. NoSlotLost'
  BY <1>1, <1>a, <1>d, <1>t DEF KeptInv, NoSlotLost
<1>3. PassedCame'
  BY <1>1, <1>d, <1>l DEF KeptInv, PassedCame
<1>4. CameBefore'
  BY <1>1, <1>d, <1>l DEF KeptInv, CameBefore
<1>5. NearOnes'
  BY <1>1, <1>d, <1>n DEF KeptInv, NearOnes
<1>6. WaitsEarlier' /\ RecordOwes' /\ AdvanceOwes'
  BY <1>d, <1>l DEF WaitsEarlier, RecordOwes, AdvanceOwes
<1>7. StartOwes' /\ WaitedIs'
  BY <1>1, <1>l DEF StartOwes, WaitedIs
<1> QED
  BY <1>2, <1>3, <1>4, <1>5, <1>6, <1>7 DEF KeptInv

\* The loop looks: every time that came is accounted for, or about to be.
LEMMA KeptLook == ASSUME TInv, KeptInv, LookDue PROVE KeptInv'
<1>1. task' = task /\ runs' = runs /\ now' = now /\ loop.at = "look" /\ InTick /\ Active
  BY DEF LookDue, InTick
<1>t. /\ task.definition.slots \in SUBSET Times /\ task.queued \in Nat /\ now \in Nat
      /\ task.next \in Nat /\ task.updated \in Nat /\ loop.now \in Nat
      /\ \A s \in Times : s \in Nat
      /\ task.queued \in Times \cup {NoSlot}
  BY Counted, Numbers
<1>l. /\ loop' \in LoopRecord /\ loop'.at = "record"
      /\ loop'.now = loop.now /\ loop'.waited = loop.waited
      /\ task.next \in task.definition.slots /\ task.next <= loop.now
      /\ loop'.slot # NoSlot => /\ loop'.slot <= loop.now /\ loop'.slot \in DueSlots
                                /\ \A q \in DueSlots : q <= loop'.slot
      /\ \/ task.next \in loop'.missed
         \/ loop'.slot # NoSlot /\ loop'.slot <= task.next + Overdue
  BY Found
<1>s. loop'.slot \in Nat /\ loop'.slot \in Times \cup {NoSlot} /\ NoSlot = 0
  BY <1>l, <1>t DEF LoopRecord, NoSlot
<1>a. \A s \in Times : Accounted(s) => Accounted(s)'
  <2>1. RowsKeep
    BY <1>1 DEF RowsKeep
  <2> QED
    BY <1>1, <2>1, StaysAccounted
<1>n. \A q \in Times : Near(q) => Near(q)'
  BY <1>1, StaysNear
<1>d. /\ Active' /\ InTick' /\ Chosen'
      /\ \A s : Due(s)' <=> Due(s)
  BY <1>1, <1>l DEF Active, Chosen, InTick, Due
<1>w. ~loop.waited
  BY <1>1 DEF KeptInv, WaitedIs
<1>2. NoSlotLost'
  BY <1>1, <1>a, <1>t DEF KeptInv, NoSlotLost
<1>3. PassedCame'
  BY <1>1, <1>d, <1>l DEF KeptInv, PassedCame
<1>4. CameBefore'
  <2>1. loop'.slot <= loop'.now
    BY <1>l, <1>s, <1>t
  <2> QED
    BY <1>1, <1>d, <1>l, <2>1 DEF KeptInv, CameBefore
<1>5. NearOnes'
  <2>1. \A q \in Times : q = task.queued => Near(q)
    BY <1>1 DEF KeptInv, NearOnes
  <2>2. \A q \in Times : q = loop'.slot => Near(q)
    <3> SUFFICES ASSUME NEW q \in Times, q = loop'.slot PROVE Near(q)
      OBVIOUS
    <3>1. q # NoSlot
      BY Numbers
    <3>2. q \in DueSlots
      BY <1>l, <3>1
    <3> QED
      BY <1>1, <1>l, <3>2, DueIsNear
  <2> QED
    BY <1>1, <1>n, <2>1, <2>2 DEF NearOnes
<1>6. WaitsEarlier'
  <2> SUFFICES ASSUME NEW q \in Times, q = task.queued, loop'.slot # NoSlot,
                      ~(q < task.next), ~(q <= task.updated)
               PROVE  q <= loop'.slot
    BY <1>1 DEF WaitsEarlier
  <2>1. Near(q) /\ q <= loop.now
    BY <1>1 DEF KeptInv, NearOnes, CameBefore
  <2>2. q \in DueSlots
    BY <1>1, <1>l, <2>1, DueIsNear
  <2> QED
    BY <1>l, <2>2
<1>7. RecordOwes'
  <2> SUFFICES ASSUME NEW s \in Times, Due(s)
               PROVE  \/ Accounted(s)'
                      \/ \E t \in loop'.missed : t <= s
                      \/ loop'.slot # NoSlot /\ loop'.slot <= s + Overdue
    BY <1>d DEF RecordOwes
  <2>1. s \in task.definition.slots /\ task.updated < s /\ s <= loop.now /\ s \in Nat
    BY <1>t DEF Due
  <2>2. CASE s < task.next
    BY <1>1, <1>a, <2>1, <2>2 DEF KeptInv, NoSlotLost
  <2>3. CASE ~(s < task.next)
    <3>1. task.next <= s
      BY <1>t, <2>1, <2>3
    <3>2. CASE task.next \in loop'.missed
      BY <3>1, <3>2
    <3>3. CASE loop'.slot # NoSlot /\ loop'.slot <= task.next + Overdue
      BY <1>s, <1>t, <2>1, <3>1, <3>3, BoundsAssumption
    <3> QED
      BY <1>l, <3>2, <3>3
  <2> QED
    BY <2>2, <2>3
<1>8. StartOwes' /\ AdvanceOwes' /\ WaitedIs'
  BY <1>l, <1>w DEF StartOwes, AdvanceOwes, WaitedIs
<1> QED
  BY <1>2, <1>3, <1>4, <1>5, <1>6, <1>7, <1>8 DEF KeptInv

\* A time is accounted for by a row written at it or later, of a time not long after it.
LEMMA Covered ==
  ASSUME NEW s \in Times, NEW t \in Times, NEW r \in DOMAIN runs', t \in runs'[r].slots,
         runs'[r].trigger # "manual", s <= runs'[r].at, t <= s + Overdue
  PROVE  Accounted(s)'
<1>1. s \in Nat /\ t \in Nat
  BY Numbers
<1>2. t \in s..(s + Overdue) \/ t <= s
  BY <1>1, BoundsAssumption
<1> QED
  BY <1>2 DEF Accounted

\* The loop goes on after a choice, to look again or to move past the times it looked at.
LEMMA KeptOn ==
  ASSUME TInv, KeptInv, Chosen, now' = now,
         task'.definition = task.definition, task'.paused = task.paused,
         task'.next = task.next, task'.updated = task.updated,
         task'.queued \in {task.queued, loop.slot, NoSlot},
         loop'.at \in {"look", "advance"}, loop'.now = loop.now, ~loop'.waited,
         \A s \in Times : s <= loop.now /\ Accounted(s) => Accounted(s)',
         loop'.at = "advance" => \A s \in Times : Due(s) => Accounted(s)'
  PROVE  KeptInv'
<1>t. /\ task.definition.slots \in SUBSET Times /\ now \in Nat /\ loop.now \in Nat
      /\ \A s \in Times : s \in Nat /\ s # NoSlot
      /\ InTick /\ loop.now <= now
  BY Counted, Numbers DEF Chosen, InTick
<1>n. \A q \in Times : Near(q) => Near(q)'
  BY StaysNear
<1>d. /\ Active' <=> Active
      /\ ~Chosen' /\ ~First'
      /\ \A s : Due(s)' <=> Due(s)
  BY DEF Active, Chosen, First, Due
<1>1. NoSlotLost' /\ PassedCame'
  <2> SUFFICES ASSUME Active, NEW s \in task.definition.slots, task.updated < s, s < task.next
               PROVE  Accounted(s)' /\ s <= now /\ s <= loop.now
    BY <1>d DEF NoSlotLost, PassedCame
  <2>1. Accounted(s) /\ s <= now /\ s <= loop.now
    BY <1>t DEF KeptInv, NoSlotLost, PassedCame
  <2> QED
    BY <1>t, <2>1
<1>2. CameBefore'
  <2>1. task.queued <= loop.now /\ loop.slot <= loop.now /\ NoSlot <= loop.now
    BY <1>t DEF KeptInv, CameBefore, NoSlot
  <2>2. task'.queued <= loop.now /\ task'.queued <= now
    BY <1>t, <2>1, Counted DEF NoSlot
  <2> QED
    BY <1>d, <2>2 DEF CameBefore
<1>3. NearOnes'
  BY <1>d, <1>n, <1>t DEF KeptInv, NearOnes
<1>4. WaitsEarlier' /\ RecordOwes' /\ StartOwes' /\ WaitedIs'
  BY <1>d DEF WaitsEarlier, RecordOwes, StartOwes, WaitedIs
<1>5. AdvanceOwes'
  BY <1>d DEF AdvanceOwes
<1> QED
  BY <1>1, <1>2, <1>3, <1>4, <1>5 DEF KeptInv

\* The loop holds its choice a step further: to be started, or found busy.
LEMMA KeptChoice ==
  ASSUME TInv, KeptInv, Chosen, RowsKeep, task' = task, now' = now,
         loop'.at \in {"start", "busy"}, loop'.now = loop.now, loop'.waited = loop.waited,
         loop'.slot = loop.slot,
         ~loop.waited => \A s \in Times : Due(s) => Accounted(s)' \/ loop.slot <= s + Overdue
  PROVE  KeptInv'
<1>t. task.definition.slots \in SUBSET Times
  BY Counted
<1>a. \A s \in Times : Accounted(s) => Accounted(s)'
  BY StaysAccounted
<1>n. \A q \in Times : Near(q) => Near(q)'
  BY StaysNear
<1>d. /\ Active' <=> Active
      /\ Chosen' /\ InTick' /\ InTick
      /\ First' <=> First
      /\ \A s : Due(s)' <=> Due(s)
  BY DEF Active, Chosen, InTick, First, Due
<1>1. NoSlotLost'
  BY <1>a, <1>d, <1>t DEF KeptInv, NoSlotLost
<1>2. PassedCame'
  BY <1>d DEF KeptInv, PassedCame
<1>3. CameBefore'
  BY <1>d DEF KeptInv, CameBefore
<1>4. NearOnes'
  BY <1>d, <1>n DEF KeptInv, NearOnes
<1>5. WaitsEarlier'
  BY <1>d DEF KeptInv, WaitsEarlier
<1>6. StartOwes'
  BY <1>d DEF StartOwes
<1>7. RecordOwes' /\ AdvanceOwes' /\ WaitedIs'
  BY DEF KeptInv, RecordOwes, AdvanceOwes, WaitedIs
<1> QED
  BY <1>1, <1>2, <1>3, <1>4, <1>5, <1>6, <1>7 DEF KeptInv

\* What was missed is recorded.
LEMMA KeptRecord == ASSUME TInv, KeptInv, RowsKeep, RecordMissed PROVE KeptInv'
<1>1. /\ task' = task /\ now' = now /\ loop.at = "record" /\ InTick /\ Chosen
      /\ loop' = [loop EXCEPT !.missed = {}, !.at = IF loop.slot = NoSlot THEN "advance" ELSE "start"]
  BY DEF RecordMissed, InTick, Chosen
<1>2. loop \in LoopRecord /\ loop.missed \in SUBSET Times /\ loop.now \in 0..MaxTime
  BY <1>1, Counted, BoundsAssumption
<1>l. /\ loop'.now = loop.now /\ loop'.waited = loop.waited /\ loop'.slot = loop.slot
      /\ loop'.at = IF loop.slot = NoSlot THEN "advance" ELSE "start"
  BY <1>1, <1>2 DEF LoopRecord
<1>w. ~loop.waited
  BY <1>1 DEF KeptInv, WaitedIs
<1>a. \A s \in Times : Accounted(s) => Accounted(s)'
  BY <1>1, StaysAccounted
<1>o. ASSUME NEW s \in Times, Due(s)
      PROVE  \/ Accounted(s)'
             \/ loop.slot # NoSlot /\ loop.slot <= s + Overdue
  <2>1. s <= loop.now
    BY <1>o DEF Due
  <2>2. ASSUME NEW t \in loop.missed, t <= s PROVE Accounted(s)'
    <3>1. RecordSkip(loop.missed, loop.now)
      BY <2>2 DEF RecordMissed
    <3>2. /\ DOMAIN runs' = DOMAIN runs \cup {Len(runs) + 1}
          /\ runs'[Len(runs) + 1] = Skipped1(loop.missed, loop.now)
      BY <1>2, <3>1, SkipTypes
    <3>3. /\ Len(runs) + 1 \in DOMAIN runs' /\ t \in runs'[Len(runs) + 1].slots
          /\ runs'[Len(runs) + 1].trigger # "manual" /\ s <= runs'[Len(runs) + 1].at
      BY <2>1, <3>2 DEF Skipped1
    <3>4. t \in Times /\ t <= s + Overdue
      BY <1>2, <2>2, Numbers, BoundsAssumption
    <3> QED
      BY <3>3, <3>4, Covered
  <2> QED
    BY <1>1, <1>a, <1>o, <2>2 DEF KeptInv, RecordOwes
<1>3. CASE loop.slot = NoSlot
  BY <1>1, <1>3, <1>a, <1>l, <1>o, <1>w, KeptOn
<1>4. CASE loop.slot # NoSlot
  BY <1>1, <1>4, <1>l, <1>o, KeptChoice
<1> QED
  BY <1>3, <1>4

\* Where the loop goes after a start, a wait or a skip.
LEMMA AfterStartIs ==
  ASSUME AfterStart
  PROVE  /\ loop'.at = (IF loop.waited THEN "look" ELSE "advance")
         /\ loop'.now = loop.now /\ ~loop'.waited
BY DEF AfterStart, LoopGoes, Asleep

\* The loop starts the run it chose; one that waited waits no longer.
LEMMA KeptStart == ASSUME TInv, KeptInv, RowsKeep, LoopStarts PROVE KeptInv'
<1>1. /\ now' = now /\ loop.at = "start" /\ InTick /\ Chosen /\ AfterStart
      /\ StartRun(loop.definition, loop.trigger, {loop.slot}, loop.now)
      /\ task' = IF loop.waited THEN [task EXCEPT !.queued = NoSlot] ELSE task
  BY DEF LoopStarts, InTick, Chosen
<1>2. /\ loop.slot \in Times /\ loop.now \in 0..MaxTime /\ loop.trigger \in {"schedule", "catch_up"}
      /\ loop.slot \in Nat /\ loop.definition \in Definition /\ task.queued \in Times \cup {NoSlot}
  BY <1>1, Counted, BoundsAssumption DEF TInv, LoopOK, LoopRecord
<1>3. /\ DOMAIN runs' = DOMAIN runs \cup {Len(runs) + 1}
      /\ runs'[Len(runs) + 1] = Started1(loop.trigger, {loop.slot}, loop.now)
  <2>1. {loop.slot} \in SUBSET Times /\ loop.trigger \in {"schedule", "catch_up", "manual"}
    BY <1>2
  <2>2. Started1(loop.trigger, {loop.slot}, loop.now) \in Row
    BY <1>2, <2>1 DEF Started1, Row, Statuses
  <2>3. /\ runs' = Append(runs, Started1(loop.trigger, {loop.slot}, loop.now)) /\ RowsOK
        /\ [Idle EXCEPT !.thread = "begin", !.agent = loop.definition.agent] \in Item
        /\ work' = Append(work, [Idle EXCEPT !.thread = "begin", !.agent = loop.definition.agent])
    BY <1>1, <1>2 DEF StartRun, Started1, TInv, Idle, Item, Definition
  <2> QED
    BY <2>2, <2>3, RowAdded
<1>4. /\ Len(runs) + 1 \in DOMAIN runs' /\ loop.slot \in runs'[Len(runs) + 1].slots
      /\ runs'[Len(runs) + 1].trigger # "manual" /\ runs'[Len(runs) + 1].at = loop.now
  BY <1>2, <1>3 DEF Started1
<1>c. \A s \in Times : s <= loop.now /\ loop.slot <= s + Overdue => Accounted(s)'
  BY <1>2, <1>4, Covered
<1>l. /\ loop'.at = (IF loop.waited THEN "look" ELSE "advance")
      /\ loop'.now = loop.now /\ ~loop'.waited
  BY <1>1, AfterStartIs
<1>k. task \in [definition : Definitions \cup {NoTask}, paused : BOOLEAN,
                next : Times \cup {Never}, queued : Times \cup {NoSlot}, updated : 0..MaxTime]
  BY DEF TInv, TaskOK
<1>5. CASE ~loop.waited
  <2>1. task' = task
    BY <1>1, <1>5
  <2>2. \A s \in Times : Accounted(s) => Accounted(s)'
    BY <2>1, StaysAccounted
  <2>3. \A s \in Times : Due(s) => Accounted(s)'
    BY <1>1, <1>5, <1>c, <2>2 DEF KeptInv, StartOwes, Due
  <2> QED
    BY <1>1, <1>5, <1>l, <2>1, <2>2, <2>3, KeptOn
<1>6. CASE loop.waited
  <2>1. /\ task'.definition = task.definition /\ task'.paused = task.paused
        /\ task'.next = task.next /\ task'.updated = task.updated /\ task'.queued = NoSlot
    BY <1>1, <1>6, <1>k
  <2>2. task.queued \in {loop.slot, NoSlot}
    BY <1>6 DEF KeptInv, WaitedIs
  <2>3. ASSUME NEW s \in Times, s <= loop.now, Accounted(s) PROVE Accounted(s)'
    <3>1. s \in Nat /\ s # 0
      BY Numbers
    <3>2. CASE task.queued \in s..(s + Overdue) \cup (1..s)
      <4>1. task.queued = loop.slot /\ task.queued <= s + Overdue
        BY <1>2, <2>2, <3>1, <3>2, BoundsAssumption DEF NoSlot
      <4> QED
        BY <1>c, <2>3, <4>1
    <3>3. CASE \E r \in DOMAIN runs :
                 \/ runs[r].slots \cap (s..(s + Overdue)) # {}
                 \/ /\ runs[r].trigger # "manual"
                    /\ s <= runs[r].at /\ \E t \in runs[r].slots : t <= s
      BY <3>3 DEF Accounted, RowsKeep
    <3> QED
      BY <2>3, <3>2, <3>3 DEF Accounted
  <2> QED
    BY <1>1, <1>6, <1>l, <2>1, <2>3, KeptOn
<1> QED
  BY <1>5, <1>6

\* The task is busy: the run waits, unless one waits already.
LEMMA KeptQueue == ASSUME TInv, KeptInv, RowsKeep, QueueAfterBusy PROVE KeptInv'
<1>1. /\ now' = now /\ loop.at = "busy" /\ InTick /\ Chosen /\ AfterStart
      /\ task' = IF task.definition # NoTask /\ task.queued = NoSlot
                 THEN [task EXCEPT !.queued = loop.slot] ELSE task
  BY DEF QueueAfterBusy, InTick, Chosen
<1>2. /\ loop.slot \in Times /\ loop.slot \in Nat /\ task.queued \in Times \cup {NoSlot}
      /\ task.next \in Nat /\ task.updated \in Nat
      /\ \A s \in Times : s \in Nat /\ s # 0
  BY <1>1, Counted, Numbers DEF TInv, LoopOK
<1>k. task \in [definition : Definitions \cup {NoTask}, paused : BOOLEAN,
                next : Times \cup {Never}, queued : Times \cup {NoSlot}, updated : 0..MaxTime]
  BY DEF TInv, TaskOK
<1>l. /\ loop'.at = (IF loop.waited THEN "look" ELSE "advance")
      /\ loop'.now = loop.now /\ ~loop'.waited
  BY <1>1, AfterStartIs
<1>3. /\ task'.definition = task.definition /\ task'.paused = task.paused
      /\ task'.next = task.next /\ task'.updated = task.updated
      /\ task'.queued = IF task.definition # NoTask /\ task.queued = NoSlot
                        THEN loop.slot ELSE task.queued
  BY <1>1, <1>k
<1>a. \A s \in Times : Accounted(s) => Accounted(s)'
  BY <1>3, StaysAccounted
<1>o. ASSUME NEW s \in Times, Due(s), ~loop.waited PROVE Accounted(s)'
  <2>1. s \in task.definition.slots /\ task.updated < s /\ Active /\ s \in Nat
    BY <1>2, <1>o DEF Due
  <2>2. CASE Accounted(s)
    BY <1>a, <2>2
  <2>3. CASE ~Accounted(s)
    <3>1. loop.slot <= s + Overdue
      BY <1>1, <1>o, <2>3 DEF KeptInv, StartOwes
    <3>2. task.next <= s
      BY <1>2, <2>1, <2>3 DEF KeptInv, NoSlotLost
    <3>3. task'.queued \in Nat /\ 1 <= task'.queued /\ task'.queued <= s + Overdue
      <4>1. CASE task.queued = NoSlot
        BY <1>2, <1>3, <2>1, <3>1, <4>1 DEF Active
      <4>2. CASE task.queued # NoSlot
        <5>1. task'.queued = task.queued /\ task.queued \in Times
          BY <1>2, <1>3, <4>2
        <5>2. First /\ loop.slot # NoSlot
          BY <1>1, <1>2, <1>o, Numbers DEF First, Chosen
        <5>3. \/ task.queued < task.next
              \/ task.queued <= task.updated
              \/ task.queued <= loop.slot
          BY <2>1, <5>1, <5>2 DEF KeptInv, WaitsEarlier
        <5>4. task.queued \in Nat /\ 1 <= task.queued
          BY <1>2, <5>1
        <5> QED
          BY <1>2, <2>1, <3>1, <3>2, <5>1, <5>3, <5>4, BoundsAssumption
      <4> QED
        BY <4>1, <4>2
    <3>4. task'.queued \in s..(s + Overdue) \cup (1..s)
      BY <2>1, <3>3, BoundsAssumption
    <3> QED
      BY <3>4 DEF Accounted
  <2> QED
    BY <2>2, <2>3
<1>4. task'.queued \in {task.queued, loop.slot, NoSlot}
  BY <1>3
<1> QED
  BY <1>1, <1>3, <1>4, <1>a, <1>l, <1>o, KeptOn

\* The task is busy: the time is recorded as skipped.
LEMMA KeptSkip == ASSUME TInv, KeptInv, RowsKeep, SkipBusy PROVE KeptInv'
<1>1. /\ now' = now /\ task' = task /\ loop.at = "busy" /\ InTick /\ Chosen /\ AfterStart
      /\ RecordSkip({loop.slot}, loop.now)
  BY DEF SkipBusy, InTick, Chosen
<1>2. loop.slot \in Times /\ loop.now \in 0..MaxTime /\ {loop.slot} \in SUBSET Times
  BY <1>1, Counted, BoundsAssumption DEF TInv, LoopOK
<1>3. /\ DOMAIN runs' = DOMAIN runs \cup {Len(runs) + 1}
      /\ runs'[Len(runs) + 1] = Skipped1({loop.slot}, loop.now)
  BY <1>1, <1>2, SkipTypes
<1>4. /\ Len(runs) + 1 \in DOMAIN runs' /\ loop.slot \in runs'[Len(runs) + 1].slots
      /\ runs'[Len(runs) + 1].trigger # "manual" /\ runs'[Len(runs) + 1].at = loop.now
  BY <1>3 DEF Skipped1
<1>c. \A s \in Times : s <= loop.now /\ loop.slot <= s + Overdue => Accounted(s)'
  BY <1>2, <1>4, Covered
<1>a. \A s \in Times : Accounted(s) => Accounted(s)'
  BY <1>1, StaysAccounted
<1>l. /\ loop'.at = (IF loop.waited THEN "look" ELSE "advance")
      /\ loop'.now = loop.now /\ ~loop'.waited
  BY <1>1, AfterStartIs
<1>o. ~loop.waited => \A s \in Times : Due(s) => Accounted(s)'
  BY <1>1, <1>a, <1>c DEF KeptInv, StartOwes, Due
<1> QED
  BY <1>1, <1>a, <1>l, <1>o, KeptOn

\* The next run is the first after the clock of the tick: what lies before has been seen to.
LEMMA KeptAdvance == ASSUME TInv, KeptInv, Advance PROVE KeptInv'
<1>1. /\ now' = now /\ runs' = runs /\ loop.at = "advance" /\ InTick
      /\ task' = [task EXCEPT !.next = NextRun(task.definition, task.paused, loop.now)]
      /\ loop'.at = "rest" /\ ~loop'.waited
  BY DEF Advance, InTick, Asleep
<1>t. /\ task.definition.slots \in SUBSET Times /\ task.queued \in Nat /\ now \in Nat
      /\ loop.now \in Nat /\ loop.now <= now /\ loop.now \in 0..MaxTime
      /\ \A s \in Times : s \in Nat
  BY <1>1, Counted, Numbers, BoundsAssumption
<1>k. task \in [definition : Definitions \cup {NoTask}, paused : BOOLEAN,
                next : Times \cup {Never}, queued : Times \cup {NoSlot}, updated : 0..MaxTime]
  BY DEF TInv, TaskOK
<1>2. /\ task'.definition = task.definition /\ task'.paused = task.paused
      /\ task'.queued = task.queued /\ task'.updated = task.updated
      /\ task'.next = NextRun(task.definition, task.paused, loop.now)
  BY <1>1, <1>k
<1>3. /\ task'.next \in Nat /\ loop.now < task'.next
      /\ ~task.paused => \A s \in task.definition.slots : loop.now < s => task'.next <= s
  <2>1. task.paused \in BOOLEAN
    BY <1>k
  <2>2. /\ NextRun(task.definition, task.paused, loop.now) \in Times \cup {Never}
        /\ NextRun(task.definition, task.paused, loop.now) > loop.now
        /\ ~task.paused => \A s \in task.definition.slots :
              loop.now < s => NextRun(task.definition, task.paused, loop.now) <= s
    BY <1>t, <2>1, NextRunIs
  <2> QED
    BY <1>2, <1>t, <2>2, Numbers
<1>a. \A s \in Times : Accounted(s) => Accounted(s)'
  <2>1. RowsKeep
    BY <1>1 DEF RowsKeep
  <2> QED
    BY <1>2, <2>1, StaysAccounted
<1>d. (Active' <=> Active) /\ ~InTick' /\ ~Chosen' /\ ~First'
  BY <1>1, <1>2 DEF Active, InTick, Chosen, First
<1>4. NoSlotLost' /\ PassedCame'
  <2> SUFFICES ASSUME Active, NEW s \in task.definition.slots, task.updated < s, s < task'.next
               PROVE  Accounted(s)' /\ s <= now
    BY <1>1, <1>2, <1>d DEF NoSlotLost, PassedCame
  <2>1. s <= loop.now
    BY <1>3, <1>t DEF Active
  <2>2. Accounted(s)
    BY <1>1, <1>t, <2>1 DEF KeptInv, AdvanceOwes, Due
  <2>3. s <= now
    BY <1>t, <2>1
  <2> QED
    BY <1>a, <1>t, <2>2, <2>3
<1>5. CameBefore' /\ NearOnes'
  <2>1. task.queued <= loop.now /\ task.queued <= now
    BY <1>1 DEF KeptInv, CameBefore
  <2>2. task.queued < task'.next
    BY <1>3, <1>t, <2>1
  <2> QED
    BY <1>1, <1>2, <1>d, <2>1, <2>2 DEF CameBefore, NearOnes, Near
<1>6. WaitsEarlier' /\ RecordOwes' /\ StartOwes' /\ AdvanceOwes' /\ WaitedIs'
  BY <1>1, <1>d DEF WaitsEarlier, RecordOwes, StartOwes, AdvanceOwes, WaitedIs
<1> QED
  BY <1>4, <1>5, <1>6 DEF KeptInv

\* Every action keeps account of the times that came.
LEMMA KeptStep == TInv /\ KeptInv /\ [Next]_vars => KeptInv'
<1> SUFFICES ASSUME TInv, KeptInv, [Next]_vars PROVE KeptInv'
  OBVIOUS
<1>r. RowsKeep
  BY KeepsRows
<1>t. /\ now \in Nat /\ now \in 0..MaxTime /\ MaxTime \in Nat
      /\ task.definition \in Definition /\ loop \in LoopRecord
      /\ task \in [definition : Definitions \cup {NoTask}, paused : BOOLEAN,
                   next : Times \cup {Never}, queued : Times \cup {NoSlot}, updated : 0..MaxTime]
  BY Counted, BoundsAssumption DEF TInv, TaskOK
<1>1. ASSUME NEW r \in DOMAIN runs, RecoverRun(r) PROVE KeptInv'
  <2>1. /\ task' = task /\ now' = now /\ loop'.at = "recover" /\ loop'.waited = loop.waited
        /\ loop.at = "recover"
    BY <1>1, <1>t DEF RecoverRun, LoopRecord
  <2>2. ~loop.waited
    BY <2>1 DEF KeptInv, WaitedIs
  <2> QED
    BY <1>r, <2>1, <2>2, KeptOutside
<1>2. CASE RecoverDone \/ LookIdle \/ Rest \/ Wake \/ ServerDies \/ ServerStarts
  <2>1. task' = task /\ now' = now
    BY <1>2 DEF RecoverDone, LookIdle, Rest, Wake, ServerDies, ServerStarts
  <2>2. loop'.at \in {"asleep", "recover", "tick", "rest", "down"} /\ ~loop'.waited
    BY <1>2 DEF RecoverDone, LookIdle, Rest, Wake, ServerDies, ServerStarts, Asleep
  <2> QED
    BY <1>r, <2>1, <2>2, KeptOutside
<1>3. CASE Tick \/ LookDue \/ RecordMissed \/ LoopStarts \/ QueueAfterBusy \/ SkipBusy \/ Advance
  BY <1>3, <1>r, KeptTick, KeptLook, KeptRecord, KeptStart, KeptQueue, KeptSkip, KeptAdvance
<1>4. CASE LoopFindsBusy
  <2>1. /\ task' = task /\ now' = now /\ Chosen /\ loop'.at = "busy" /\ loop'.now = loop.now
        /\ loop'.waited = loop.waited /\ loop'.slot = loop.slot /\ loop.at = "start"
    BY <1>4, <1>t DEF LoopFindsBusy, LoopRecord, Chosen
  <2>2. \A s \in Times : Accounted(s) => Accounted(s)'
    BY <1>r, <2>1, StaysAccounted
  <2>3. ~loop.waited => \A s \in Times : Due(s) => Accounted(s)' \/ loop.slot <= s + Overdue
    BY <2>1, <2>2 DEF KeptInv, StartOwes
  <2> QED
    BY <1>r, <2>1, <2>3, KeptChoice
<1>5. ASSUME NEW r \in DOMAIN runs, ThreadStep(r) \/ ChildEnds(r) \/ StopChild(r) PROVE KeptInv'
  <2>1. task' = task /\ loop' = loop /\ now' = now
    BY <1>5 DEF ThreadStep, EndWithoutChild, StartChild, NoteChild, EndRun, ChildEnds, StopChild
  <2> QED
    BY <1>r, <1>t, <2>1, KeptAside
<1>6. CASE RunNow \/ UNCHANGED vars
  <2>1. task' = task /\ loop' = loop /\ now' = now
    BY <1>6 DEF RunNow, vars
  <2> QED
    BY <1>r, <1>t, <2>1, KeptAside
<1>7. CASE TimePasses
  <2>1. task' = task /\ loop' = loop /\ now' \in Nat /\ now <= now'
    BY <1>7, <1>t DEF TimePasses
  <2> QED
    BY <1>r, <2>1, KeptAside
<1>8. CASE SetPaused
  <2> DEFINE p == ~task.paused
  <2>1. /\ task' = [task EXCEPT !.paused = p, !.next = NextRun(task.definition, p, now),
                                !.queued = IF task.paused THEN @ ELSE NoSlot, !.updated = now]
        /\ loop' = loop /\ now' = now /\ p \in BOOLEAN
    BY <1>8, <1>t DEF SetPaused
  <2>2. /\ task'.definition = task.definition /\ task'.paused = p /\ task'.updated = now
        /\ task'.next = NextRun(task.definition, p, now)
        /\ task'.queued \in {task.queued, NoSlot}
    BY <2>1, <1>t
  <2> HIDE DEF p
  <2>3. /\ task.definition.slots \in SUBSET Times
        /\ task'.next \in Times \cup {Never}
        /\ ~p => \A s \in task.definition.slots : now < s => task'.next <= s
    BY <1>t, <2>1, <2>2, NextRunIs DEF Definition
  <2>4. task'.next \in Nat
    BY <2>3, Numbers
  <2> QED
    BY <2>1, <2>2, <2>3, <2>4, KeptChanged DEF Active
<1>9. ASSUME NEW d \in Definitions, UpdateTask(d) PROVE KeptInv'
  <2>1. /\ task' = [task EXCEPT !.definition = d, !.next = NextRun(d, task.paused, now), !.updated = now]
        /\ loop' = loop /\ now' = now
    BY <1>9 DEF UpdateTask
  <2>2. /\ task'.definition = d /\ task'.paused = task.paused /\ task'.updated = now
        /\ task'.next = NextRun(d, task.paused, now) /\ task'.queued = task.queued
        /\ task.paused \in BOOLEAN /\ d.slots \in SUBSET Times
    BY <2>1, <1>t, DefinitionType DEF Definition
  <2>3. /\ task'.next \in Times \cup {Never}
        /\ ~task.paused => \A s \in d.slots : now < s => task'.next <= s
    BY <1>t, <2>2, NextRunIs
  <2>4. task'.next \in Nat
    BY <2>3, Numbers
  <2> QED
    BY <2>1, <2>2, <2>3, <2>4, KeptChanged DEF Active
<1>10. CASE DeleteTask
  <2>1. /\ task'.definition = NoTask /\ task'.next = Never /\ task'.queued = NoSlot
        /\ task'.updated = now /\ loop' = loop /\ now' = now
    BY <1>10 DEF DeleteTask
  <2>2. ~Active' /\ task'.next \in Nat
    BY <2>1, Numbers DEF Active
  <2> QED
    BY <2>1, <2>2, KeptChanged
<1> QED
  BY <1>1, <1>2, <1>3, <1>4, <1>5, <1>6, <1>7, <1>8, <1>9, <1>10 DEF Next, LoopStep

LEMMA InitKept == Init => KeptInv
<1> SUFFICES ASSUME Init PROVE KeptInv
  OBVIOUS
<1>1. PICK d \in Definitions : task = [definition |-> d, paused |-> FALSE, next |-> NextRun(d, FALSE, 0),
                                       queued |-> NoSlot, updated |-> 0]
  BY DEF Init
<1>2. /\ task.definition = d /\ task.next = NextRun(d, task.paused, 0) /\ task.queued = NoSlot
      /\ task.paused \in BOOLEAN /\ ~task.paused
      /\ task.updated = 0 /\ now = 0 /\ loop.at = "recover" /\ ~loop.waited
  BY <1>1 DEF Init, Asleep
<1>3. d.slots \in SUBSET Times /\ 0 \in 0..MaxTime
  BY DefinitionType, BoundsAssumption DEF Definition
<1>4. /\ \A s \in d.slots : 0 < s => task.next <= s
      /\ task.next \in Times \cup {Never}
  BY <1>2, <1>3, NextRunIs
<1>5. ASSUME NEW s \in d.slots PROVE ~(0 < s /\ s < task.next)
  <2>1. s \in Nat
    BY <1>3, Numbers
  <2>2. task.next \in Nat
    BY <1>4, Numbers
  <2>3. 0 < s => task.next <= s
    BY <1>4
  <2> QED
    BY <2>1, <2>2, <2>3
<1>6. NoSlotLost /\ PassedCame
  BY <1>2, <1>5 DEF NoSlotLost, PassedCame
<1>7. CameBefore /\ NearOnes
  BY <1>2, Numbers DEF CameBefore, NearOnes, Chosen, InTick
<1>8. WaitsEarlier /\ RecordOwes /\ StartOwes /\ AdvanceOwes /\ WaitedIs
  BY <1>2 DEF WaitsEarlier, RecordOwes, StartOwes, AdvanceOwes, WaitedIs, First, Chosen
<1> QED
  BY <1>6, <1>7, <1>8 DEF KeptInv

LEMMA AlwaysKept == Spec => []KeptInv
BY InitKept, KeptStep, AlwaysTyped, PTL DEF Spec

\* No time of the schedule is lost: whatever the owner changes, the loop read before, and
\* wherever the server dies, a time that was passed ran, waits, is recorded or is covered.
THEOREM NoSlotLostHolds == Spec => []NoSlotLost
<1>1. KeptInv => NoSlotLost
  BY DEF KeptInv
<1> QED
  BY <1>1, AlwaysKept, PTL

-----------------------------------------------------------------------------
(* A time starts one run *)

Holders(s) == {r \in DOMAIN runs : Started(r) /\ s \in runs[r].slots}

\* The time is to be started again: from the wait, or by the loop, now or when it looks.
Queues(s) == \/ task.queued = s
             \/ loop.waited /\ loop.at \in {"start", "busy"} /\ loop.slot = s
Comes(s)  == \/ First /\ (s = loop.slot \/ s > loop.now)
             \/ loop.at = "advance" /\ s > loop.now
             \/ ~First /\ loop.at # "advance" /\ s >= task.next

One(p)  == IF p THEN 1 ELSE 0
Load(s) == Cardinality(Holders(s)) + One(Queues(s)) + One(Comes(s))

Untouched(s) == Holders(s) = {} /\ task.queued # s /\ loop.slot # s

OnceInv == /\ crashes \in Nat
           /\ \A s \in Times : Load(s) <= 1 + crashes
           /\ \A s \in Times : s > now => Untouched(s)

LEMMA HoldersFinite ==
  ASSUME RowsOK, NEW s
  PROVE  IsFiniteSet(Holders(s)) /\ Cardinality(Holders(s)) \in Nat
<1>1. DOMAIN runs = 1..Len(runs) /\ Len(runs) \in Nat
  BY RowsAre
<1>2. IsFiniteSet(DOMAIN runs)
  BY <1>1, FS_Interval
<1>3. Holders(s) \subseteq DOMAIN runs
  BY DEF Holders
<1> QED
  BY <1>2, <1>3, FS_Subset, FS_CardinalityType

\* The load of a time after a step, by what changed.
LEMMA LoadKept ==
  ASSUME RowsOK, RowsOK', NEW s, crashes \in Nat, crashes' \in Nat, crashes <= crashes',
         Load(s) <= 1 + crashes, Holders(s)' \subseteq Holders(s),
         Queues(s)' => Queues(s), Comes(s)' => Comes(s)
  PROVE  Load(s)' <= 1 + crashes'
<1>1. IsFiniteSet(Holders(s)) /\ Cardinality(Holders(s)) \in Nat
  BY HoldersFinite
<1>2. Cardinality(Holders(s)') \in Nat /\ Cardinality(Holders(s)') <= Cardinality(Holders(s))
  BY <1>1, FS_Subset, FS_CardinalityType
<1>3. /\ One(Queues(s)) \in {0, 1} /\ One(Comes(s)) \in {0, 1}
      /\ One(Queues(s)') \in {0, 1} /\ One(Comes(s)') \in {0, 1}
      /\ One(Queues(s)') <= One(Queues(s)) /\ One(Comes(s)') <= One(Comes(s))
  BY DEF One
<1> QED
  BY <1>1, <1>2, <1>3 DEF Load

LEMMA LoadMoves ==
  ASSUME RowsOK, RowsOK', NEW s, crashes \in Nat, crashes' = crashes,
         Load(s) <= 1 + crashes, Holders(s)' \subseteq Holders(s), Comes(s), ~Comes(s)'
  PROVE  Load(s)' <= 1 + crashes'
<1>1. IsFiniteSet(Holders(s)) /\ Cardinality(Holders(s)) \in Nat
  BY HoldersFinite
<1>2. Cardinality(Holders(s)') \in Nat /\ Cardinality(Holders(s)') <= Cardinality(Holders(s))
  BY <1>1, FS_Subset, FS_CardinalityType
<1>3. /\ One(Queues(s)) \in {0, 1} /\ One(Comes(s)) = 1
      /\ One(Queues(s)') \in {0, 1} /\ One(Comes(s)') = 0
      /\ One(Queues(s)') + One(Comes(s)') <= One(Queues(s)) + One(Comes(s))
  BY DEF One
<1>4. /\ Load(s)  = Cardinality(Holders(s)) + One(Queues(s)) + One(Comes(s))
      /\ Load(s)' = Cardinality(Holders(s)') + One(Queues(s)') + One(Comes(s)')
  BY DEF Load
<1> HIDE DEF Holders, Queues, Comes, Load, One
<1> QED
  BY <1>1, <1>2, <1>3, <1>4

LEMMA LoadStarts ==
  ASSUME RowsOK, RowsOK', NEW s, NEW n, crashes \in Nat, crashes' = crashes,
         Load(s) <= 1 + crashes, Holders(s)' \subseteq Holders(s) \cup {n},
         Queues(s)' => Queues(s), Comes(s)' => Comes(s),
         (Queues(s) /\ ~Queues(s)') \/ (Comes(s) /\ ~Comes(s)')
  PROVE  Load(s)' <= 1 + crashes'
<1>1. IsFiniteSet(Holders(s)) /\ Cardinality(Holders(s)) \in Nat
  BY HoldersFinite
<1>2. Cardinality(Holders(s)') \in Nat /\ Cardinality(Holders(s)') <= Cardinality(Holders(s)) + 1
  <2>1. /\ IsFiniteSet(Holders(s) \cup {n})
        /\ Cardinality(Holders(s) \cup {n}) <= Cardinality(Holders(s)) + 1
    BY <1>1, FS_AddElement
  <2>2. /\ IsFiniteSet(Holders(s)')
        /\ Cardinality(Holders(s)') <= Cardinality(Holders(s) \cup {n})
    BY <2>1, FS_Subset
  <2>3. Cardinality(Holders(s)') \in Nat /\ Cardinality(Holders(s) \cup {n}) \in Nat
    BY <2>1, <2>2, FS_CardinalityType
  <2> QED
    BY <1>1, <2>1, <2>2, <2>3
<1>3. /\ One(Queues(s)) \in {0, 1} /\ One(Comes(s)) \in {0, 1}
      /\ One(Queues(s)') \in {0, 1} /\ One(Comes(s)') \in {0, 1}
      /\ One(Queues(s)') + One(Comes(s)') + 1 <= One(Queues(s)) + One(Comes(s))
  <2>1. CASE Queues(s) /\ ~Queues(s)'
    BY <2>1 DEF One
  <2>2. CASE Comes(s) /\ ~Comes(s)'
    BY <2>2 DEF One
  <2> QED
    BY <2>1, <2>2
<1> QED
  BY <1>1, <1>2, <1>3 DEF Load

LEMMA LoadDies ==
  ASSUME RowsOK, RowsOK', NEW s, crashes \in Nat, crashes' = crashes + 1,
         Load(s) <= 1 + crashes, Holders(s)' \subseteq Holders(s), Queues(s)' => Queues(s)
  PROVE  Load(s)' <= 1 + crashes'
<1>1. IsFiniteSet(Holders(s)) /\ Cardinality(Holders(s)) \in Nat
  BY HoldersFinite
<1>2. Cardinality(Holders(s)') \in Nat /\ Cardinality(Holders(s)') <= Cardinality(Holders(s))
  BY <1>1, FS_Subset, FS_CardinalityType
<1>3. /\ One(Queues(s)) \in {0, 1} /\ One(Comes(s)) \in {0, 1}
      /\ One(Queues(s)') \in {0, 1} /\ One(Comes(s)') \in {0, 1}
      /\ One(Queues(s)') <= One(Queues(s))
  BY DEF One
<1> QED
  BY <1>1, <1>2, <1>3 DEF Load

\* A time that nobody has touched can be started once.
LEMMA LoadUntouched ==
  ASSUME NEW s, Untouched(s)', crashes' \in Nat
  PROVE  Load(s)' <= 1 + crashes'
<1>1. Holders(s)' = {} /\ ~Queues(s)'
  BY DEF Untouched, Queues
<1>2. Cardinality(Holders(s)') = 0
  BY <1>1, FS_EmptySet
<1>3. One(Queues(s)') = 0 /\ One(Comes(s)') \in {0, 1}
  BY <1>1 DEF One
<1> QED
  BY <1>2, <1>3 DEF Load

\* A step after which no run that started, and was not asked for by hand, is new.
NoneStarts == \A s \in Times : Holders(s)' \subseteq Holders(s)

LEMMA SameRows == ASSUME runs' = runs PROVE NoneStarts
BY DEF NoneStarts, Holders, Started

LEMMA FinishStartsNone ==
  ASSUME RowsOK, NEW r \in DOMAIN runs, NEW status, Open(r), FinishRun(r, status)
  PROVE  NoneStarts
<1>1. \A q \in DOMAIN runs : runs[q] \in Row
  BY RowsAre
<1>2. CASE runs[r].status = "gone"
  <2>1. runs' = runs
    BY <1>2 DEF FinishRun
  <2> QED
    BY <2>1, SameRows
<1>3. CASE runs[r].status = "running"
  <2>1. runs' = [runs EXCEPT ![r].status = status]
    BY <1>3 DEF FinishRun
  <2>2. DOMAIN runs' = DOMAIN runs
    BY <2>1
  <2>3. ASSUME NEW q \in DOMAIN runs, Started(q)'
        PROVE  Started(q) /\ runs'[q].slots = runs[q].slots
    <3>1. runs'[q].slots = runs[q].slots /\ runs'[q].trigger = runs[q].trigger
      BY <1>1, <2>1 DEF Row
    <3>2. q # r => runs'[q] = runs[q]
      BY <2>1
    <3>3. Started(q)
      BY <1>3, <2>3, <3>1, <3>2 DEF Started, Statuses
    <3> QED
      BY <3>1, <3>3
  <2> QED
    BY <2>2, <2>3 DEF NoneStarts, Holders
<1> QED
  BY <1>2, <1>3 DEF Open

LEMMA AddedRow ==
  ASSUME RowsOK, NEW row \in Row, runs' = Append(runs, row), NEW s \in Times
  PROVE  /\ Holders(s)' \subseteq Holders(s) \cup {Len(runs) + 1}
         /\ \/ row.status = "skipped"
            \/ row.trigger = "manual"
            \/ s \notin row.slots
            => Holders(s)' \subseteq Holders(s)
<1>1. /\ runs' \in Seq(Row) /\ Len(runs') = Len(runs) + 1
      /\ \A i \in 1..Len(runs) : runs'[i] = runs[i]
      /\ runs'[Len(runs) + 1] = row
  BY AppendProperties DEF RowsOK
<1>2. Len(runs) \in Nat /\ DOMAIN runs = 1..Len(runs) /\ DOMAIN runs' = 1..(Len(runs) + 1)
  BY <1>1, LenProperties DEF RowsOK
<1>3. ASSUME NEW r \in Holders(s)', r # Len(runs) + 1 PROVE r \in Holders(s)
  <2>1. r \in DOMAIN runs /\ runs'[r] = runs[r]
    BY <1>1, <1>2, <1>3 DEF Holders
  <2> QED
    BY <1>3, <2>1 DEF Holders, Started
<1>4. /\ Len(runs) + 1 \in Holders(s)' => row.status # "skipped" /\ row.trigger # "manual"
      /\ Len(runs) + 1 \in Holders(s)' => s \in row.slots
  BY <1>1 DEF Holders, Started
<1> QED
  BY <1>3, <1>4

LEMMA SkipStartsNone ==
  ASSUME TInv, NEW slots \in SUBSET Times, NEW at \in 0..MaxTime, RecordSkip(slots, at)
  PROVE  NoneStarts
<1>1. Skipped1(slots, at) \in Row /\ Skipped1(slots, at).status = "skipped"
  BY DEF Skipped1, Row, Statuses
<1>2. runs' = Append(runs, Skipped1(slots, at)) /\ RowsOK
  BY DEF RecordSkip, Skipped1, TInv
<1> QED
  BY <1>1, <1>2, AddedRow DEF NoneStarts

\* Only the loop's start is a start of the schedule's.
LEMMA OthersStartNone ==
  ASSUME TInv, OneInv, [Next]_vars, ~LoopStarts
  PROVE  NoneStarts
<1>t. /\ RowsOK /\ now \in 0..MaxTime /\ loop.slot \in Times \cup {NoSlot}
      /\ loop.missed \in SUBSET Times /\ loop.now \in Nat
      /\ InTick => loop.now \in 0..MaxTime
      /\ loop.at \in {"start", "busy"} => loop.slot # NoSlot
  BY BoundsAssumption DEF TInv, LoopOK, LoopRecord
<1>1. CASE RecoverDone \/ Tick \/ LookIdle \/ LookDue \/ LoopFindsBusy \/ QueueAfterBusy \/ Advance
           \/ Rest \/ Wake
  <2>1. runs' = runs
    BY <1>1 DEF RecoverDone, Tick, LookIdle, LookDue, LoopFindsBusy, QueueAfterBusy, Advance, Rest, Wake
  <2> QED
    BY <2>1, SameRows
<1>2. CASE SetPaused \/ (\E d \in Definitions : UpdateTask(d)) \/ TimePasses \/ ServerDies
           \/ ServerStarts \/ UNCHANGED vars
  <2>1. runs' = runs
    BY <1>2 DEF SetPaused, UpdateTask, TimePasses, ServerDies, ServerStarts, vars
  <2> QED
    BY <2>1, SameRows
<1>3. ASSUME NEW r \in DOMAIN runs, RecoverRun(r) PROVE NoneStarts
  <2>1. Open(r)
    BY <1>3 DEF RecoverRun, OneInv
  <2>2. runs' = runs \/ FinishRun(r, "failed")
    BY <1>3 DEF RecoverRun
  <2> QED
    BY <1>t, <2>1, <2>2, SameRows, FinishStartsNone
<1>4. ASSUME NEW r \in DOMAIN runs, ThreadStep(r) \/ ChildEnds(r) \/ StopChild(r) PROVE NoneStarts
  <2>1. CASE runs' = runs
    BY <2>1, SameRows
  <2>2. CASE EndWithoutChild(r) \/ EndRun(r)
    <3>1. FinishRun(r, "ended") /\ Open(r)
      BY <2>2 DEF EndWithoutChild, EndRun, OneInv
    <3> QED
      BY <1>t, <3>1, FinishStartsNone
  <2> QED
    BY <1>4, <2>1, <2>2 DEF ThreadStep, StartChild, NoteChild, ChildEnds, StopChild
<1>5. CASE RecordMissed
  <2>1. loop.now \in 0..MaxTime
    BY <1>5, <1>t DEF RecordMissed, InTick
  <2>2. runs' = runs \/ RecordSkip(loop.missed, loop.now)
    BY <1>5 DEF RecordMissed
  <2> QED
    BY <1>t, <2>1, <2>2, SameRows, SkipStartsNone
<1>6. CASE SkipBusy
  <2>1. /\ loop.now \in 0..MaxTime /\ {loop.slot} \in SUBSET Times
        /\ RecordSkip({loop.slot}, loop.now)
    BY <1>6, <1>t DEF SkipBusy, InTick
  <2> QED
    BY <2>1, SkipStartsNone
<1>7. CASE RunNow
  <2>1. runs' = Append(runs, Started1("manual", {}, now))
    BY <1>7 DEF RunNow, StartRun, Started1
  <2>2. Started1("manual", {}, now) \in Row /\ Started1("manual", {}, now).trigger = "manual"
    BY <1>t DEF Started1, Row, Statuses
  <2> QED
    BY <1>t, <2>1, <2>2, AddedRow DEF NoneStarts
<1>8. CASE DeleteTask
  <2>1. \A r \in DOMAIN runs : runs[r] \in Row
    BY <1>t, RowsAre
  <2>2. DOMAIN runs' = DOMAIN runs /\ \A r \in DOMAIN runs : runs'[r].status = "gone"
    BY <1>8, <2>1 DEF DeleteTask, Row
  <2> QED
    BY <2>2 DEF NoneStarts, Holders, Started, Statuses
<1> QED
  BY <1>1, <1>2, <1>3, <1>4, <1>5, <1>6, <1>7, <1>8 DEF Next, LoopStep

\* What can be asked of the parts of a step that starts nothing, death of the server aside.
LEMMA StaysUntouched ==
  ASSUME OnceInv, now \in Nat, now' \in Nat, now <= now', NEW s \in Times, s > now',
         Holders(s)' \subseteq Holders(s),
         task'.queued \in {task.queued, NoSlot, loop.slot},
         loop'.slot \in {loop.slot, NoSlot, task.queued} \/ loop'.slot <= now
  PROVE  Untouched(s)'
<1>1. s \in Nat /\ s # NoSlot /\ s > now
  BY Numbers
<1>2. Untouched(s)
  BY <1>1 DEF OnceInv
<1>3. task'.queued # s
  BY <1>1, <1>2 DEF Untouched
<1>4. loop'.slot # s
  BY <1>1, <1>2 DEF Untouched
<1> QED
  BY <1>2, <1>3, <1>4 DEF Untouched

LEMMA OnceCalm ==
  ASSUME TInv, TInv', OnceInv, NoneStarts, crashes' = crashes, now <= now',
         task'.queued \in {task.queued, NoSlot, loop.slot},
         loop'.slot \in {loop.slot, NoSlot, task.queued} \/ loop'.slot <= now,
         \A s \in Times : s <= now' => (Queues(s)' => Queues(s)) /\ (Comes(s)' => Comes(s))
  PROVE  OnceInv'
<1>1. RowsOK /\ RowsOK' /\ now \in Nat /\ now' \in Nat /\ crashes \in Nat /\ crashes' \in Nat
  BY BoundsAssumption DEF TInv, OnceInv
<1>2. ASSUME NEW s \in Times, s > now' PROVE Untouched(s)'
  BY <1>1, <1>2, StaysUntouched DEF NoneStarts
<1>3. ASSUME NEW s \in Times PROVE Load(s)' <= 1 + crashes'
  <2>1. CASE s > now'
    BY <1>1, <1>2, <2>1, LoadUntouched
  <2>2. CASE s <= now'
    <3>1. /\ Load(s) <= 1 + crashes /\ Holders(s)' \subseteq Holders(s)
          /\ (Queues(s)' => Queues(s)) /\ (Comes(s)' => Comes(s)) /\ crashes <= crashes'
      BY <1>1, <2>2 DEF OnceInv, NoneStarts
    <3> QED
      BY <1>1, <3>1, LoadKept
  <2> QED
    BY <1>1, <2>1, <2>2, Numbers
<1> QED
  BY <1>1, <1>2, <1>3 DEF OnceInv

\* Steps of threads, of the owner and of the clock.
LEMMA OnceAside ==
  ASSUME TInv, TInv', OnceInv, NoneStarts, crashes' = crashes, now <= now', loop' = loop,
         \/ task' = task
         \/ /\ now' = now /\ task'.queued \in {task.queued, NoSlot}
            /\ task'.next \in Nat /\ now < task'.next
  PROVE  OnceInv'
<1>1. \A s \in Times : s \in Nat /\ s # NoSlot
  BY Numbers
<1>2. ASSUME NEW s \in Times, s <= now' PROVE (Queues(s)' => Queues(s)) /\ (Comes(s)' => Comes(s))
  <2>1. Queues(s)' => Queues(s)
    BY <1>1 DEF Queues
  <2>2. CASE task' = task
    BY <2>1, <2>2 DEF Comes, First, Chosen
  <2>3. CASE now' = now /\ task'.next \in Nat /\ now < task'.next
    <3>1. ~(s >= task'.next) /\ (First' <=> First)
      BY <1>1, <1>2, <2>3 DEF TInv, First, Chosen
    <3> QED
      BY <2>1, <3>1 DEF Comes
  <2> QED
    BY <2>2, <2>3
<1>3. task'.queued \in {task.queued, NoSlot, loop.slot} /\ loop'.slot \in {loop.slot, NoSlot, task.queued}
  OBVIOUS
<1> QED
  BY <1>2, <1>3, OnceCalm

\* Steps of the loop outside of its tick, to which it goes from anywhere but its choice.
LEMMA OnceOutside ==
  ASSUME TInv, TInv', OnceInv, NoneStarts, crashes' = crashes, now' = now, task' = task,
         loop.at \notin {"record", "start", "busy", "advance"},
         loop'.at \notin {"record", "start", "busy", "advance"},
         loop'.slot \in {loop.slot, NoSlot}
  PROVE  OnceInv'
<1>1. \A s \in Times : (Queues(s)' => Queues(s)) /\ (Comes(s)' => Comes(s))
  BY DEF Queues, Comes, First, Chosen
<1>2. now <= now'
  BY BoundsAssumption DEF TInv
<1> QED
  BY <1>1, <1>2, OnceCalm

LEMMA OnceTick == ASSUME TInv, TInv', OnceInv, NoneStarts, Tick PROVE OnceInv'
<1>1. /\ task' = task /\ now' = now /\ crashes' = crashes /\ loop.at = "tick"
      /\ \/ loop'.at = "start" /\ loop'.waited /\ loop'.slot = task.queued
         \/ loop'.at = "look" /\ loop'.slot = NoSlot
  BY DEF Tick, Asleep
<1>2. \A s \in Times : (Queues(s)' => Queues(s)) /\ (Comes(s)' => Comes(s))
  BY <1>1 DEF Queues, Comes, First, Chosen
<1>3. now <= now'
  BY <1>1, BoundsAssumption DEF TInv
<1> QED
  BY <1>1, <1>2, <1>3, OnceCalm

LEMMA OnceLook == ASSUME TInv, TInv', OnceInv, NoneStarts, LookDue PROVE OnceInv'
<1>1. /\ task' = task /\ now' = now /\ crashes' = crashes /\ loop.at = "look" /\ InTick
  BY DEF LookDue, InTick
<1>2. /\ loop'.at = "record" /\ loop'.now = loop.now
      /\ task.next <= loop.now
      /\ loop'.slot # NoSlot => task.next <= loop'.slot /\ loop'.slot <= loop.now
  BY Found
<1>3. /\ loop.now \in Nat /\ loop.now <= now /\ now \in Nat /\ task.next \in Nat
      /\ \A s \in Times : s \in Nat /\ s # NoSlot
  BY <1>1, Counted, Numbers
<1>4. ASSUME NEW s \in Times PROVE (Queues(s)' => Queues(s)) /\ (Comes(s)' => Comes(s))
  <2>1. Queues(s)' => Queues(s)
    BY <1>1, <1>2 DEF Queues
  <2>2. Comes(s) <=> s >= task.next
    BY <1>1 DEF Comes, First, Chosen
  <2>3. Comes(s)' => s = loop'.slot \/ s > loop.now \/ s >= task.next
    BY <1>1, <1>2 DEF Comes
  <2>4. Comes(s)' => s >= task.next
    BY <1>2, <1>3, <2>3
  <2> QED
    BY <2>1, <2>2, <2>4
<1>5. loop'.slot <= now
  <2>1. loop'.slot \in Nat
    BY Numbers DEF TInv, LoopOK, LoopRecord
  <2> QED
    BY <1>2, <1>3, <2>1, Numbers
<1> QED
  BY <1>1, <1>3, <1>4, <1>5, OnceCalm

LEMMA OnceRecord == ASSUME TInv, TInv', OnceInv, KeptInv, NoneStarts, RecordMissed PROVE OnceInv'
<1>1. /\ task' = task /\ now' = now /\ crashes' = crashes /\ loop.at = "record" /\ loop \in LoopRecord
      /\ loop' = [loop EXCEPT !.missed = {},
                              !.at = IF loop.slot = NoSlot THEN "advance" ELSE "start"]
  BY DEF RecordMissed, TInv, LoopOK
<1>2. /\ loop'.at = (IF loop.slot = NoSlot THEN "advance" ELSE "start")
      /\ loop'.now = loop.now /\ loop'.slot = loop.slot /\ loop'.waited = loop.waited
  BY <1>1 DEF LoopRecord
<1>3. ~loop.waited /\ now <= now'
  BY <1>1, BoundsAssumption DEF KeptInv, WaitedIs, TInv
<1>4. \A s \in Times : (Queues(s)' => Queues(s)) /\ (Comes(s)' => Comes(s))
  BY <1>1, <1>2, <1>3 DEF Queues, Comes, First, Chosen
<1> QED
  BY <1>1, <1>2, <1>3, <1>4, OnceCalm

LEMMA OnceBusy == ASSUME TInv, TInv', OnceInv, NoneStarts, LoopFindsBusy PROVE OnceInv'
<1>1. /\ task' = task /\ now' = now /\ crashes' = crashes /\ loop.at = "start" /\ loop \in LoopRecord
      /\ loop' = [loop EXCEPT !.at = "busy"]
  BY DEF LoopFindsBusy, TInv, LoopOK
<1>2. /\ loop'.at = "busy" /\ loop'.now = loop.now /\ loop'.slot = loop.slot
      /\ loop'.waited = loop.waited
  BY <1>1 DEF LoopRecord
<1>3. \A s \in Times : (Queues(s)' => Queues(s)) /\ (Comes(s)' => Comes(s))
  BY <1>1, <1>2 DEF Queues, Comes, First, Chosen
<1>4. now <= now'
  BY <1>1, BoundsAssumption DEF TInv
<1> QED
  BY <1>1, <1>2, <1>3, <1>4, OnceCalm

\* Where the loop is after a start, a wait or a skip.
LEMMA AfterStartSlot == ASSUME AfterStart PROVE loop'.slot = NoSlot
BY DEF AfterStart, LoopGoes, Asleep

\* The time that is started is still to come no more, or waits no more.
LEMMA OnceStart == ASSUME TInv, TInv', OnceInv, KeptInv, LoopStarts PROVE OnceInv'
<1>1. /\ now' = now /\ crashes' = crashes /\ loop.at = "start" /\ InTick /\ Chosen /\ AfterStart
      /\ StartRun(loop.definition, loop.trigger, {loop.slot}, loop.now)
      /\ task' = IF loop.waited THEN [task EXCEPT !.queued = NoSlot] ELSE task
  BY DEF LoopStarts, InTick, Chosen
<1>2. /\ loop.slot \in Times /\ loop.now \in 0..MaxTime /\ loop.trigger \in {"schedule", "catch_up"}
      /\ loop.slot \in Nat /\ loop.slot <= loop.now /\ loop.now <= now
      /\ loop.now \in Nat /\ now \in Nat
      /\ \A s \in Times : s \in Nat /\ s # NoSlot
  BY <1>1, Counted, Numbers, BoundsAssumption DEF TInv, LoopOK, LoopRecord, KeptInv, CameBefore
<1>t. /\ RowsOK /\ RowsOK' /\ crashes \in Nat /\ crashes' \in Nat
      /\ task \in [definition : Definitions \cup {NoTask}, paused : BOOLEAN,
                   next : Times \cup {Never}, queued : Times \cup {NoSlot}, updated : 0..MaxTime]
  BY <1>1 DEF TInv, OnceInv, TaskOK
<1>l. /\ loop'.at = (IF loop.waited THEN "look" ELSE "advance")
      /\ loop'.now = loop.now /\ ~loop'.waited /\ loop'.slot = NoSlot
  BY <1>1, AfterStartIs, AfterStartSlot
<1>3. ASSUME NEW s \in Times
      PROVE  /\ Holders(s)' \subseteq Holders(s) \cup {Len(runs) + 1}
             /\ s # loop.slot => Holders(s)' \subseteq Holders(s)
  <2> DEFINE row == Started1(loop.trigger, {loop.slot}, loop.now)
  <2>1. row \in Row /\ row.slots = {loop.slot}
    BY <1>2 DEF Started1, Row, Statuses
  <2>2. runs' = Append(runs, row)
    BY <1>1 DEF StartRun, Started1
  <2> HIDE DEF row
  <2>3. /\ Holders(s)' \subseteq Holders(s) \cup {Len(runs) + 1}
        /\ s \notin row.slots => Holders(s)' \subseteq Holders(s)
    BY <1>t, <2>1, <2>2, AddedRow
  <2> QED
    BY <2>1, <2>3
<1>4. /\ task'.next = task.next
      /\ task'.queued = IF loop.waited THEN NoSlot ELSE task.queued
  BY <1>1, <1>t
<1>5. ASSUME NEW s \in Times
      PROVE  /\ Queues(s)' => Queues(s)
             /\ Comes(s)' => Comes(s)
             /\ s = loop.slot => \/ Queues(s) /\ ~Queues(s)'
                                 \/ Comes(s) /\ ~Comes(s)'
  <2>1. CASE loop.waited
    <3>1. /\ ~Queues(s)'
          /\ s = loop.slot => Queues(s)
          /\ Comes(s)' => Comes(s)
      BY <1>1, <1>2, <1>4, <1>l, <2>1 DEF Queues, Comes, First, Chosen
    <3> QED
      BY <3>1
  <2>2. CASE ~loop.waited
    <3>1. /\ Queues(s)' => Queues(s)
          /\ Comes(s) <=> s = loop.slot \/ s > loop.now
          /\ Comes(s)' <=> s > loop.now
      BY <1>1, <1>2, <1>4, <1>l, <2>2 DEF Queues, Comes, First, Chosen
    <3>2. s = loop.slot => ~(s > loop.now)
      BY <1>2
    <3> QED
      BY <3>1, <3>2
  <2> QED
    BY <2>1, <2>2
<1>6. ASSUME NEW s \in Times PROVE Load(s)' <= 1 + crashes'
  <2>1. Load(s) <= 1 + crashes /\ crashes <= crashes'
    BY <1>1, <1>t DEF OnceInv
  <2>2. CASE s # loop.slot
    BY <1>t, <1>3, <1>5, <2>1, <2>2, LoadKept
  <2>3. CASE s = loop.slot
    <3>1. /\ Holders(s)' \subseteq Holders(s) \cup {Len(runs) + 1}
          /\ Queues(s)' => Queues(s)
          /\ Comes(s)' => Comes(s)
          /\ \/ Queues(s) /\ ~Queues(s)'
             \/ Comes(s) /\ ~Comes(s)'
      BY <1>3, <1>5, <2>3
    <3> QED
      BY <1>1, <1>t, <2>1, <3>1, LoadStarts
  <2> QED
    BY <2>2, <2>3
<1>7. ASSUME NEW s \in Times, s > now' PROVE Untouched(s)'
  <2>1. s # loop.slot
    BY <1>1, <1>2, <1>7
  <2>2. Holders(s)' \subseteq Holders(s)
    BY <1>3, <2>1
  <2>3. /\ task'.queued \in {task.queued, NoSlot, loop.slot}
        /\ loop'.slot \in {loop.slot, NoSlot, task.queued}
        /\ now' \in Nat /\ now <= now'
    BY <1>1, <1>2, <1>4, <1>l
  <2> QED
    BY <1>2, <1>7, <2>2, <2>3, StaysUntouched
<1> QED
  BY <1>t, <1>6, <1>7 DEF OnceInv

\* A time that waits is still to come no more.
LEMMA OnceQueue == ASSUME TInv, TInv', OnceInv, KeptInv, NoneStarts, QueueAfterBusy PROVE OnceInv'
<1>1. /\ now' = now /\ crashes' = crashes /\ loop.at = "busy" /\ InTick /\ Chosen /\ AfterStart
      /\ task' = IF task.definition # NoTask /\ task.queued = NoSlot
                 THEN [task EXCEPT !.queued = loop.slot] ELSE task
  BY DEF QueueAfterBusy, InTick, Chosen
<1>2. /\ loop.slot \in Nat /\ loop.slot <= loop.now /\ loop.now <= now
      /\ loop.now \in Nat /\ now \in Nat
      /\ \A s \in Times : s \in Nat /\ s # NoSlot
  BY <1>1, Counted, Numbers DEF KeptInv, CameBefore
<1>t. /\ RowsOK /\ RowsOK' /\ crashes \in Nat /\ crashes' \in Nat
      /\ task \in [definition : Definitions \cup {NoTask}, paused : BOOLEAN,
                   next : Times \cup {Never}, queued : Times \cup {NoSlot}, updated : 0..MaxTime]
  BY <1>1 DEF TInv, OnceInv, TaskOK
<1>l. /\ loop'.at = (IF loop.waited THEN "look" ELSE "advance")
      /\ loop'.now = loop.now /\ ~loop'.waited /\ loop'.slot = NoSlot
  BY <1>1, AfterStartIs, AfterStartSlot
<1>4. task'.next = task.next /\ task'.queued \in {task.queued, loop.slot}
  BY <1>1, <1>t
<1>5. ASSUME NEW s \in Times
      PROVE  \/ (Queues(s)' => Queues(s)) /\ (Comes(s)' => Comes(s))
             \/ Comes(s) /\ ~Comes(s)'
  <2>1. CASE loop.waited
    <3>1. /\ Queues(s)' => Queues(s)
          /\ Comes(s)' => Comes(s)
      BY <1>1, <1>2, <1>4, <1>l, <2>1 DEF Queues, Comes, First, Chosen
    <3> QED
      BY <3>1
  <2>2. CASE ~loop.waited
    <3>1. /\ s # loop.slot => (Queues(s)' => Queues(s))
          /\ Comes(s) <=> s = loop.slot \/ s > loop.now
          /\ Comes(s)' <=> s > loop.now
      BY <1>1, <1>2, <1>4, <1>l, <2>2 DEF Queues, Comes, First, Chosen
    <3>2. s = loop.slot => ~(s > loop.now)
      BY <1>2
    <3> QED
      BY <3>1, <3>2
  <2> QED
    BY <2>1, <2>2
<1>6. ASSUME NEW s \in Times PROVE Load(s)' <= 1 + crashes'
  <2>1. Load(s) <= 1 + crashes /\ crashes <= crashes' /\ Holders(s)' \subseteq Holders(s)
    BY <1>1, <1>t DEF OnceInv, NoneStarts
  <2>2. CASE (Queues(s)' => Queues(s)) /\ (Comes(s)' => Comes(s))
    BY <1>t, <2>1, <2>2, LoadKept
  <2>3. CASE Comes(s) /\ ~Comes(s)'
    BY <1>1, <1>t, <2>1, <2>3, LoadMoves
  <2> QED
    BY <1>5, <2>2, <2>3
<1>7. ASSUME NEW s \in Times, s > now' PROVE Untouched(s)'
  <2>1. /\ task'.queued \in {task.queued, NoSlot, loop.slot}
        /\ loop'.slot \in {loop.slot, NoSlot, task.queued}
        /\ now' \in Nat /\ now <= now' /\ Holders(s)' \subseteq Holders(s)
    BY <1>1, <1>2, <1>4, <1>l DEF NoneStarts
  <2> QED
    BY <1>2, <1>7, <2>1, StaysUntouched
<1> QED
  BY <1>t, <1>6, <1>7 DEF OnceInv

LEMMA OnceSkip == ASSUME TInv, TInv', OnceInv, NoneStarts, SkipBusy PROVE OnceInv'
<1>1. /\ task' = task /\ now' = now /\ crashes' = crashes /\ loop.at = "busy" /\ AfterStart
  BY DEF SkipBusy
<1>2. /\ loop'.at = (IF loop.waited THEN "look" ELSE "advance")
      /\ loop'.now = loop.now /\ ~loop'.waited /\ loop'.slot = NoSlot
  BY <1>1, AfterStartIs, AfterStartSlot
<1>3. \A s \in Times : (Queues(s)' => Queues(s)) /\ (Comes(s)' => Comes(s))
  BY <1>1, <1>2 DEF Queues, Comes, First, Chosen
<1>4. now <= now'
  BY <1>1, BoundsAssumption DEF TInv
<1> QED
  BY <1>1, <1>2, <1>3, <1>4, OnceCalm

LEMMA OnceAdvance == ASSUME TInv, TInv', OnceInv, NoneStarts, Advance PROVE OnceInv'
<1>1. /\ now' = now /\ crashes' = crashes /\ loop.at = "advance" /\ InTick
      /\ task' = [task EXCEPT !.next = NextRun(task.definition, task.paused, loop.now)]
      /\ loop'.at = "rest" /\ loop'.slot = NoSlot
  BY DEF Advance, InTick, Asleep
<1>2. /\ task.definition.slots \in SUBSET Times /\ loop.now \in 0..MaxTime /\ loop.now \in Nat
      /\ now \in Nat
      /\ \A s \in Times : s \in Nat
  BY <1>1, Counted, Numbers, BoundsAssumption
<1>3. task \in [definition : Definitions \cup {NoTask}, paused : BOOLEAN,
                next : Times \cup {Never}, queued : Times \cup {NoSlot}, updated : 0..MaxTime]
  BY DEF TInv, TaskOK
<1>4. task'.queued = task.queued /\ task'.next = NextRun(task.definition, task.paused, loop.now)
  BY <1>1, <1>3
<1>5. task'.next \in Nat /\ loop.now < task'.next
  <2>1. task.paused \in BOOLEAN
    BY <1>3
  <2>2. /\ NextRun(task.definition, task.paused, loop.now) \in Times \cup {Never}
        /\ NextRun(task.definition, task.paused, loop.now) > loop.now
    BY <1>2, <2>1, NextRunIs
  <2> QED
    BY <1>2, <1>4, <2>2, Numbers
<1>6. ASSUME NEW s \in Times PROVE (Queues(s)' => Queues(s)) /\ (Comes(s)' => Comes(s))
  <2>1. Queues(s)' => Queues(s)
    BY <1>1, <1>4 DEF Queues
  <2>2. Comes(s)' => s >= task'.next
    BY <1>1 DEF Comes, First, Chosen
  <2>3. s > loop.now => Comes(s)
    BY <1>1 DEF Comes
  <2> QED
    BY <1>2, <1>5, <2>1, <2>2, <2>3
<1>7. now <= now'
  BY <1>1, <1>2
<1> QED
  BY <1>1, <1>4, <1>6, <1>7, OnceCalm

\* A death may leave the next run at a time that was started.
LEMMA OnceDies == ASSUME TInv, TInv', OnceInv, NoneStarts, ServerDies PROVE OnceInv'
<1>1. /\ task' = task /\ now' = now /\ crashes' = crashes + 1
      /\ loop'.at = "down" /\ loop'.slot = NoSlot
  BY DEF ServerDies, Asleep
<1>t. RowsOK /\ RowsOK' /\ crashes \in Nat /\ crashes' \in Nat /\ now \in Nat
  BY <1>1, BoundsAssumption DEF TInv, OnceInv
<1>2. ASSUME NEW s \in Times PROVE Load(s)' <= 1 + crashes'
  <2>1. /\ Load(s) <= 1 + crashes /\ Holders(s)' \subseteq Holders(s)
        /\ Queues(s)' => Queues(s)
    BY <1>1 DEF OnceInv, NoneStarts, Queues
  <2> QED
    BY <1>1, <1>t, <2>1, LoadDies
<1>3. ASSUME NEW s \in Times, s > now' PROVE Untouched(s)'
  <2>1. /\ task'.queued \in {task.queued, NoSlot, loop.slot}
        /\ loop'.slot \in {loop.slot, NoSlot, task.queued}
        /\ now' \in Nat /\ now <= now' /\ Holders(s)' \subseteq Holders(s)
    BY <1>1, <1>t DEF NoneStarts
  <2> QED
    BY <1>3, <1>t, <2>1, StaysUntouched
<1> QED
  BY <1>t, <1>2, <1>3 DEF OnceInv

\* Every action keeps the load of each time within one, and one more for every death.
LEMMA OnceStep == TInv /\ TInv' /\ OneInv /\ KeptInv /\ OnceInv /\ [Next]_vars => OnceInv'
<1> SUFFICES ASSUME TInv, TInv', OneInv, KeptInv, OnceInv, [Next]_vars PROVE OnceInv'
  OBVIOUS
<1>t. /\ now \in Nat /\ now \in 0..MaxTime /\ now <= now /\ loop \in LoopRecord
      /\ task.definition \in Definition
      /\ task \in [definition : Definitions \cup {NoTask}, paused : BOOLEAN,
                   next : Times \cup {Never}, queued : Times \cup {NoSlot}, updated : 0..MaxTime]
  BY Counted DEF TInv, TaskOK
<1>n. ~LoopStarts => NoneStarts
  BY OthersStartNone
<1>0. CASE LoopStarts
  BY <1>0, OnceStart
<1>1. CASE ~LoopStarts
  <2>n. NoneStarts
    BY <1>n, <1>1
  <2>1. CASE Tick \/ LookDue \/ RecordMissed \/ LoopFindsBusy \/ QueueAfterBusy \/ SkipBusy
             \/ Advance \/ ServerDies
    BY <2>1, <2>n, OnceTick, OnceLook, OnceRecord, OnceBusy, OnceQueue, OnceSkip, OnceAdvance, OnceDies
  <2>2. CASE RecoverDone \/ LookIdle \/ Rest \/ Wake \/ ServerStarts
    <3>1. /\ task' = task /\ now' = now /\ crashes' = crashes
          /\ loop.at \in {"recover", "look", "rest", "asleep", "down"}
      BY <2>2 DEF RecoverDone, LookIdle, Rest, Wake, ServerStarts
    <3>2. loop'.at \in {"asleep", "recover", "tick", "rest"} /\ loop'.slot = NoSlot
      BY <2>2 DEF RecoverDone, LookIdle, Rest, Wake, ServerStarts, Asleep
    <3> QED
      BY <2>n, <3>1, <3>2, OnceOutside
  <2>3. ASSUME NEW r \in DOMAIN runs, RecoverRun(r) PROVE OnceInv'
    <3>1. /\ task' = task /\ now' = now /\ crashes' = crashes /\ loop.at = "recover"
          /\ loop'.at = "recover" /\ loop'.slot = loop.slot
      BY <2>3, <1>t DEF RecoverRun, LoopRecord
    <3> QED
      BY <2>n, <3>1, OnceOutside
  <2>4. ASSUME NEW r \in DOMAIN runs, ThreadStep(r) \/ ChildEnds(r) \/ StopChild(r) PROVE OnceInv'
    <3>1. task' = task /\ loop' = loop /\ now' = now /\ crashes' = crashes
      BY <2>4 DEF ThreadStep, EndWithoutChild, StartChild, NoteChild, EndRun, ChildEnds, StopChild
    <3> QED
      BY <1>t, <2>n, <3>1, OnceAside
  <2>5. CASE RunNow \/ UNCHANGED vars
    <3>1. task' = task /\ loop' = loop /\ now' = now /\ crashes' = crashes
      BY <2>5 DEF RunNow, vars
    <3> QED
      BY <1>t, <2>n, <3>1, OnceAside
  <2>6. CASE TimePasses
    <3>1. task' = task /\ loop' = loop /\ now <= now' /\ crashes' = crashes
      BY <2>6, <1>t, BoundsAssumption DEF TimePasses
    <3> QED
      BY <2>n, <3>1, OnceAside
  <2>7. CASE SetPaused
    <3> DEFINE p == ~task.paused
    <3>1. /\ task' = [task EXCEPT !.paused = p, !.next = NextRun(task.definition, p, now),
                                  !.queued = IF task.paused THEN @ ELSE NoSlot, !.updated = now]
          /\ loop' = loop /\ now' = now /\ crashes' = crashes /\ p \in BOOLEAN
      BY <2>7, <1>t DEF SetPaused, OwnerActs
    <3>2. task'.next = NextRun(task.definition, p, now) /\ task'.queued \in {task.queued, NoSlot}
      BY <1>t, <3>1
    <3> HIDE DEF p
    <3>3. task'.next \in Times \cup {Never} /\ task'.next > now
      <4>1. task.definition.slots \in SUBSET Times
        BY <1>t DEF Definition
      <4> QED
        BY <1>t, <3>1, <3>2, <4>1, NextRunIs
    <3>4. task'.next \in Nat /\ now < task'.next
      BY <1>t, <3>3, Numbers
    <3> QED
      BY <1>t, <2>n, <3>1, <3>2, <3>4, OnceAside
  <2>8. ASSUME NEW d \in Definitions, UpdateTask(d) PROVE OnceInv'
    <3>1. /\ task' = [task EXCEPT !.definition = d, !.next = NextRun(d, task.paused, now),
                                  !.updated = now]
          /\ loop' = loop /\ now' = now /\ crashes' = crashes
      BY <2>8 DEF UpdateTask, OwnerActs
    <3>2. task'.next = NextRun(d, task.paused, now) /\ task'.queued = task.queued
      BY <1>t, <3>1
    <3>3. task'.next \in Times \cup {Never} /\ task'.next > now
      <4>1. d.slots \in SUBSET Times /\ task.paused \in BOOLEAN
        BY <1>t, DefinitionType DEF Definition
      <4> QED
        BY <1>t, <3>2, <4>1, NextRunIs
    <3>4. task'.next \in Nat /\ now < task'.next
      BY <1>t, <3>3, Numbers
    <3> QED
      BY <1>t, <2>n, <3>1, <3>2, <3>4, OnceAside
  <2>9. CASE DeleteTask
    <3>1. /\ task'.next = Never /\ task'.queued = NoSlot
          /\ loop' = loop /\ now' = now /\ crashes' = crashes
      BY <2>9 DEF DeleteTask, OwnerActs
    <3>2. task'.next \in Nat /\ now < task'.next
      BY <1>t, <3>1, Numbers
    <3> QED
      BY <1>t, <2>n, <3>1, <3>2, OnceAside
  <2> QED
    BY <1>1, <2>1, <2>2, <2>3, <2>4, <2>5, <2>6, <2>7, <2>8, <2>9 DEF Next, LoopStep
<1> QED
  BY <1>0, <1>1

LEMMA InitOnce == Init => OnceInv
<1> SUFFICES ASSUME Init PROVE OnceInv
  OBVIOUS
<1>1. /\ runs = <<>> /\ task.queued = NoSlot /\ loop.slot = NoSlot /\ loop.at = "recover"
      /\ ~loop.waited /\ crashes = 0
  BY DEF Init, Asleep
<1>2. ASSUME NEW s \in Times PROVE Untouched(s) /\ Load(s) <= 1 + crashes
  <2>1. s # NoSlot
    BY Numbers
  <2>2. Holders(s) = {} /\ ~Queues(s)
    BY <1>1, <2>1 DEF Holders, Queues
  <2>3. Cardinality(Holders(s)) = 0
    BY <2>2, FS_EmptySet
  <2>4. One(Queues(s)) = 0 /\ One(Comes(s)) \in {0, 1}
    BY <2>2 DEF One
  <2>5. Load(s) <= 1
    BY <2>3, <2>4 DEF Load
  <2> QED
    BY <1>1, <2>1, <2>2, <2>5 DEF Untouched
<1> QED
  BY <1>1, <1>2 DEF OnceInv

\* A time of the schedule starts one run, and one more for every death of the server,
\* whatever waits, is edited, paused or asked for by hand meanwhile.
THEOREM SlotRunsOnceHolds == Spec => []SlotRunsOnce
<1>1. TInv /\ OnceInv => SlotRunsOnce
  <2> SUFFICES ASSUME TInv, OnceInv, NEW s \in Times
               PROVE  Cardinality(Holders(s)) <= 1 + crashes
    BY DEF SlotRunsOnce, Holders
  <2>1. RowsOK /\ crashes \in Nat /\ Load(s) <= 1 + crashes
    BY DEF TInv, OnceInv
  <2>2. Cardinality(Holders(s)) \in Nat
    BY <2>1, HoldersFinite
  <2>3. One(Queues(s)) \in {0, 1} /\ One(Comes(s)) \in {0, 1}
    BY DEF One
  <2> QED
    BY <2>1, <2>2, <2>3 DEF Load
<1> QED
  BY <1>1, InitOnce, OnceStep, AlwaysTyped, AlwaysOne, AlwaysKept, PTL DEF Spec
=============================================================================
