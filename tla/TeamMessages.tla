---------------------------- MODULE TeamMessages ----------------------------
(***************************************************************************)
(* The messages of one team's room (team_messages.py, tools_team_messages  *)
(* .py, agent_message_bridge.py): members that join and finish, the        *)
(* channels that show messages to them, and what becomes of a message      *)
(* whose recipient has finished.                                           *)
(*                                                                         *)
(*   messages  the table; a message's seq is its place                     *)
(*   pruned    the messages up to this one are deleted                     *)
(*   member    the members: whether they are in the room, and their marks  *)
(*   rows      deliveries: what each member was shown, on any channel      *)
(*   opened    deliveries with read_at                                     *)
(*   batch     what a push of each process has claimed and not yet written *)
(*   spilt     what a push left in its list and did not get into its file  *)
(*   due       the copies a call still owes to dependent tasks             *)
(*   work      where each agent stands; its worker starts and ends attempts*)
(*   seen      what a channel has really shown to a member, once and again *)
(*   late      what was given back for an agent after it had left          *)
(*                                                                         *)
(* Each call of the store is one transaction.  Bodies, kinds, labels, rate *)
(* limits per minute and other rooms are left out.                         *)
(***************************************************************************)
EXTENDS Naturals, Sequences, FiniteSets, FiniteSetsExt

CONSTANTS
    Agent, Lead,       \* the agents of the team, the session that started it
    Task,              \* its tasks
    TaskOf,            \* the task of each agent
    Targets, Readers,  \* bounds: whom messages are sent to, who reads them
    Dependents,        \* the tasks that use a task's result
    Pushed,            \* agents whose messages are written to a file (Goose)
    Pusher,            \* the processes that write it: the server and the agent's worker
    Everyone, Nobody,  \* no recipient; no task
    ClaimLimit,        \* claim: limit; also the page of an inbox
    History,           \* ROOM_HISTORY
    Budget,            \* AGENT_MESSAGE_BUDGET
    MaxPosts,           \* bound: messages sent, copies not counted
    MaxAttempts,       \* bound: attempts of all agents
    MaxUpsets          \* bound: kills, lost calls, failed pushes, leaves

\* Names of agents, of the lead and of tasks are told apart; the limits are positive.
ASSUME RoomAssumption ==
    /\ Lead \notin Agent /\ (Agent \cup {Lead}) \cap (Task \cup {Everyone, Nobody}) = {}
    /\ Task \cap {Everyone, Nobody} = {} /\ Everyone # Nobody
    /\ TaskOf \in [Agent -> Task] /\ Dependents \in [Task -> SUBSET Task]
    /\ Pushed \subseteq Agent /\ Readers \subseteq Agent \cup {Lead}
    /\ Targets \subseteq {Everyone, Lead} \cup Agent \cup Task
    /\ ClaimLimit \in Nat \ {0} /\ History \in Nat /\ MaxAttempts \in Nat /\ MaxUpsets \in Nat

Member    == Agent \cup {Lead}
Recipient == {Everyone} \cup Member \cup Task

VARIABLES messages, pruned, member, rows, opened, batch, spilt, due, work, attempts, seen, late, upsets
roomVars == <<messages, pruned, member, rows, opened, batch, spilt, due, work, attempts, seen, late, upsets>>

\* What goes wrong, or is rare, is counted.
Upset == upsets < MaxUpsets /\ upsets' = upsets + 1
-----------------------------------------------------------------------------
Seqs    == {s \in DOMAIN messages : s > pruned}
In(m)   == member[m].state = "in"
HasLeft(m) == member[m].state \in {"left", "quit"}

\* Who may call: an agent only while its provider runs.
Calls(m) == In(m) /\ (m \in Agent => work[m] = "runs")

TaskOfMember(m) == IF m \in Agent THEN TaskOf[m] ELSE Nobody

\* Sent by a member itself, not as a copy.
Original(s) == messages[s].copyOf = 0
Sent(m)     == {s \in Seqs : Original(s) /\ messages[s].from = m}

\* _for_member, without marks and limits.  Lead and agents see what was sent before they joined.
For(m, s) ==
    /\ messages[s].from # m
    /\ messages[s].to \in {Everyone, m, TaskOfMember(m)}

\* Mutant: a claim goes by the mark alone.
UnshownByMark(m) == {s \in Seqs : For(m, s) /\ s > member[m].delivered}
Unshown(m)       == {s \in Seqs : For(m, s) /\ s > member[m].delivered /\ s \notin rows[m]}
Unread(m)        == {s \in Seqs : For(m, s) /\ s > member[m].read /\ s \notin opened[m]}

Earliest(S, n) == {s \in S : Cardinality({t \in S : t < s}) < n}
Latest(S, n)   == {s \in S : Cardinality({t \in S : t > s}) < n}
Later(a, b)    == IF a < b THEN b ELSE a

\* Mutant: a task that has finished is not noticed.
FinishedMember(to) == to \in Member /\ HasLeft(to)
\* _finished: the recipient left, or no agent of the task is in the room any more.
Finished(to) ==
    IF to \in Task
    THEN /\ ~\E a \in Agent : TaskOf[a] = to /\ In(a)
         /\ \E a \in Agent : TaskOf[a] = to /\ HasLeft(a)
    ELSE to \in Member /\ HasLeft(to)

Post(from, to, note) == [from |-> from, to |-> to, note |-> note, copyOf |-> 0]
Copy(s, to) == [from |-> messages[s].from, to |-> to, note |-> FALSE, copyOf |-> s]

\* unfinished_dependents: what a call owes for a message of a finished task.
Unfinished(d) == \/ ~\E a \in Agent : TaskOf[a] = d
                 \/ \E a \in Agent : TaskOf[a] = d /\ work[a] # "ended"
Owed(s, task) == {[seq |-> s, to |-> d] : d \in {t \in Dependents[task] : Unfinished(t)}}
-----------------------------------------------------------------------------
(* Members *)

\* An attempt of an agent starts: prepare joins the room, with everything sent so far.  A task
\* gets another agent once the last one has ended.
Join(a) ==
    /\ work[a] \in {"new", "idle"} /\ attempts < MaxAttempts
    /\ \A b \in Agent \ {a} : TaskOf[b] = TaskOf[a] => work[b] \in {"new", "ended"}
    /\ work' = [work EXCEPT ![a] = "runs"] /\ attempts' = attempts + 1
    /\ member' = [member EXCEPT ![a].state = "in"]
    /\ UNCHANGED <<messages, pruned, rows, opened, batch, spilt, due, seen, late, upsets>>

\* The tool's leave: nobody passes on what was not shown.
Leave(m) ==
    /\ Upset
    /\ Calls(m)
    /\ member' = [member EXCEPT ![m].state = "quit"]
    /\ UNCHANGED <<messages, pruned, rows, opened, batch, spilt, due, work, attempts, seen, late>>

Others(a) == \E b \in Agent \ {a} : TaskOf[b] = TaskOf[a] /\ In(b)

\* What finish_member passes on: what the agent was not shown of what was sent to it, or to its
\* task if no other agent of the task is there.
Missed(a) ==
    {s \in Seqs : /\ messages[s].to \in {a} \cup (IF Others(a) THEN {} ELSE {TaskOf[a]})
                  /\ Original(s) /\ ~messages[s].note
                  /\ messages[s].from # a /\ s \notin rows[a]}

\* The messages noted, and copies of them for the lead, in order.
Noted(s, S) == [messages[s] EXCEPT !.note = @ \/ s \in S]
Place(s, S) == Cardinality({t \in S : t <= s})
PassedOn(S, toLead) ==
    LET top == Len(messages)
    IN  [c \in 1..(top + Cardinality(toLead)) |->
            IF c <= top THEN Noted(c, S)
            ELSE Copy(CHOOSE s \in toLead : Place(s, toLead) = c - top, Lead)]

\* An attempt ends: the push list and file go, then finish_member.  Dependents' copies follow in
\* transactions of their own.
FinishMember(a) ==
    /\ work[a] = "runs"
    /\ \E next \in {"idle", "ended"} : work' = [work EXCEPT ![a] = next]
    /\ IF In(a)
       THEN /\ messages' = PassedOn(Missed(a), {s \in Missed(a) : messages[s].from # Lead})
            /\ member' = [member EXCEPT ![a].state = "left"]
            /\ due' = due \cup UNION {Owed(s, TaskOf[a]) : s \in Missed(a)}
       ELSE UNCHANGED <<messages, member, due>>
    /\ spilt' = [spilt EXCEPT ![a].now = {}]
    /\ UNCHANGED <<pruned, rows, opened, batch, attempts, seen, late, upsets>>

\* The worker of an agent is killed (a cancel, a crash): nobody takes the agent out of the room.
WorkerKilled(a) ==
    /\ Upset
    /\ work[a] = "runs"
    /\ work' = [work EXCEPT ![a] = "ended"]
    /\ UNCHANGED <<messages, pruned, member, rows, opened, batch, spilt, due, attempts, seen, late>>
-----------------------------------------------------------------------------
(* Sending *)

CanSend(m) == /\ Calls(m)
              /\ Cardinality({s \in DOMAIN messages : Original(s)}) < MaxPosts
              /\ (m \in Agent => Cardinality(Sent(m)) < Budget)

\* _resolve_recipient: members that have been in the room, the lead, and the tasks.
CanBeNamed(to) == to \in Agent => In(to) \/ HasLeft(to)

\* _prune: only the last of the room's messages stay.
PruneRoom == LET top == Len(messages')
         IN  pruned' = IF top > History THEN Later(pruned, top - History) ELSE pruned

\* send: a message to a finished recipient is kept, noted, and a copy goes to the lead.
Send(m, to) ==
    /\ CanSend(m) /\ CanBeNamed(to)
    /\ LET s     == Len(messages) + 1
           sent  == Append(messages, Post(m, to, Finished(to)))
           task  == IF to \in Task THEN to ELSE TaskOfMember(to)
       IN  /\ messages' = IF Finished(to) /\ m # Lead
                          THEN Append(sent, [from |-> m, to |-> Lead, note |-> FALSE, copyOf |-> s])
                          ELSE sent
           /\ due' = IF Finished(to) /\ task \in Task THEN due \cup Owed(s, task) ELSE due
    /\ PruneRoom
    /\ UNCHANGED <<member, rows, opened, batch, spilt, work, attempts, seen, late, upsets>>

\* forward, one dependent at a time.
Forward(d) ==
    /\ d \in due /\ due' = due \ {d}
    /\ messages' = IF d.seq \in Seqs /\ d.to # messages[d.seq].to
                   THEN Append(messages, Copy(d.seq, d.to)) ELSE messages
    /\ UNCHANGED <<pruned, member, rows, opened, batch, spilt, work, attempts, seen, late, upsets>>

\* The call, or the worker that owes copies, dies.
ForwardLost == /\ Upset /\ due # {} /\ due' = {}
               /\ UNCHANGED <<messages, pruned, member, rows, opened, batch, spilt, work, attempts, seen, late>>
-----------------------------------------------------------------------------
(* Showing *)

\* claim: the mark and the rows move in one transaction.
Claimed(m) == Earliest(Unshown(m), ClaimLimit)
MarkShown(m, S) ==
    /\ S # {}
    /\ rows' = [rows EXCEPT ![m] = @ \cup S]
    /\ member' = [member EXCEPT ![m].delivered = Later(@, Max(S))]
Saw(m, S) == seen' = [seen EXCEPT ![m] = [once |-> @.once \cup S, again |-> @.again \cup (S \cap @.once)]]

\* With the result of a tool call, or the answer to a hook; an answer that gets lost counts as shown.
Show(m) ==
    /\ Calls(m) /\ MarkShown(m, Claimed(m))
    /\ Saw(m, Claimed(m))
    /\ UNCHANGED <<messages, pruned, opened, batch, spilt, due, work, attempts, late, upsets>>

\* No push is under way.
NoPush == [to |-> Lead, seqs |-> {}]
\* push_pending: the claim, then a list of the recent messages and the agent's file made of it.  Its
\* lock is one process's.
Push(p, a) ==
    /\ a \in Pushed /\ batch[p] = NoPush /\ In(a)
    /\ MarkShown(a, Claimed(a)) /\ batch' = [batch EXCEPT ![p] = [to |-> a, seqs |-> Claimed(a)]]
    /\ UNCHANGED <<messages, pruned, opened, spilt, due, work, attempts, seen, late, upsets>>

\* The push of p is over.
Over(p) == batch[p] # NoPush /\ batch' = [batch EXCEPT ![p] = NoPush]

\* Both files are written, with what the list still held, unless another process wrote the list or
\* writes it meanwhile; a file that another process replaces counts as shown.
PushWritten(p) ==
    LET a == batch[p].to
        S == batch[p].seqs
    IN  /\ Over(p)
        /\ \E L \in {{}, spilt[a].now}, left \in {{}, spilt[a].now} :
             /\ L \cap left = {}
             /\ seen' = [seen EXCEPT ![a] = [once |-> @.once \cup S \cup L,
                                          again |-> @.again \cup ((S \cup L) \cap @.once) \cup (S \cap L)]]
             /\ spilt' = [spilt EXCEPT ![a].now = left]
        /\ UNCHANGED <<messages, pruned, member, rows, opened, due, work, attempts, late, upsets>>

\* Mutant: the mark stays where the claim moved it.
UnclaimRowsOnly(a, S) ==
    /\ rows' = [rows EXCEPT ![a] = @ \ (S \ opened[a])]
    /\ UNCHANGED member
\* unclaim: what was opened meanwhile keeps its row.
Unclaim(a, S) ==
    /\ rows' = [rows EXCEPT ![a] = @ \ (S \ opened[a])]
    /\ member' = [member EXCEPT ![a].delivered = IF Min(S) <= @ THEN Min(S) - 1 ELSE @]

\* The first of the two files cannot be written, or the second, when the list has the messages.
PushFails(p) ==
    LET a == batch[p].to
        S == batch[p].seqs
    IN  /\ Upset /\ Over(p)
        /\ Unclaim(a, S)
        /\ \E listed \in {{}, S} :
             spilt' = [spilt EXCEPT ![a] = [now |-> @.now \cup listed, ever |-> @.ever \cup listed]]
        /\ late' = IF HasLeft(a) THEN [late EXCEPT ![a] = @ \cup S] ELSE late
        /\ UNCHANGED <<messages, pruned, opened, due, work, attempts, seen>>

\* The process dies before the first file, or between the two.
PushLost(p) ==
    LET a == batch[p].to
    IN  /\ Upset /\ Over(p)
        /\ \E listed \in {{}, batch[p].seqs} : spilt' = [spilt EXCEPT ![a].now = @ \cup listed]
        /\ UNCHANGED <<messages, pruned, member, rows, opened, due, work, attempts, seen, late>>

\* Read up to the first unread message that is not on the page, never past it.
ReadUpTo(m, page) ==
    Max({member[m].read} \cup {s \in Unread(m) : \A t \in Unread(m) : t <= s => t \in page})

\* inbox: the oldest unread messages, or the latest of all.
Inbox(m) ==
    /\ Calls(m)
    /\ \E page \in {Earliest(Unread(m), ClaimLimit),
                    Latest({s \in Seqs : For(m, s) \/ messages[s].from = m}, ClaimLimit)} :
         LET theirs == {s \in page : messages[s].from # m}
             top    == ReadUpTo(m, page)
         IN  /\ page # {}
             /\ member' = [member EXCEPT ![m].read = Later(@, top), ![m].delivered = Later(@, top)]
             /\ rows' = [rows EXCEPT ![m] = @ \cup theirs]
             /\ opened' = [opened EXCEPT ![m] = @ \cup theirs]
    /\ UNCHANGED <<messages, pruned, batch, spilt, due, work, attempts, seen, late, upsets>>
-----------------------------------------------------------------------------
RoomInit ==
    /\ messages = <<>> /\ pruned = 0 /\ due = {} /\ upsets = 0
    \* _open_team_room has let the lead in.
    /\ member = [m \in Member |-> [state |-> IF m = Lead THEN "in" ELSE "none",
                                  delivered |-> 0, read |-> 0]]
    /\ rows = [m \in Member |-> {}] /\ opened = [m \in Member |-> {}]
    /\ batch = [p \in Pusher |-> NoPush]
    /\ spilt = [a \in Agent |-> [now |-> {}, ever |-> {}]]
    /\ late = [a \in Agent |-> {}]
    /\ work = [a \in Agent |-> "new"] /\ attempts = 0
    /\ seen = [m \in Member |-> [once |-> {}, again |-> {}]]

RoomNext ==
    \/ \E a \in Agent : Join(a) \/ FinishMember(a) \/ WorkerKilled(a)
    \/ \E m \in Member : Leave(m)
    \/ \E m \in Readers : Show(m) \/ Inbox(m)
    \/ \E m \in Member, to \in Targets : Send(m, to)
    \/ \E d \in due : Forward(d)
    \/ ForwardLost
    \/ \E p \in Pusher : \/ \E a \in Agent : Push(p, a)
                         \/ PushWritten(p) \/ PushFails(p) \/ PushLost(p)

RoomSpec == RoomInit /\ [][RoomNext]_roomVars
-----------------------------------------------------------------------------
(* Properties *)

\* Marks and rows speak of messages that exist, and only what was shown was opened.
RoomTypeOK ==
    /\ \A s \in DOMAIN messages : /\ messages[s].from \in Member /\ messages[s].to \in Recipient
                                  /\ messages[s].copyOf \in 0..(s - 1)
    /\ pruned \in 0..Len(messages)
    /\ \A m \in Member : /\ member[m].state \in {"none", "in", "left", "quit"}
                         /\ {member[m].delivered, member[m].read} \subseteq 0..Len(messages)
                         /\ opened[m] \subseteq rows[m] /\ rows[m] \subseteq DOMAIN messages
    /\ \A d \in due : d.seq \in DOMAIN messages /\ d.to \in Task

\* A message is shown to a member once and is never passed over: whichever channel claims it, the
\* others do not show it, although a push that failed gives its claim back; and what lies below a
\* member's mark is recorded as shown to it, in whatever order claims, failed pushes and inboxes of
\* two processes moved the mark (team_messages.py:524-624).  Excepted is what a push put in the
\* list of recent messages and, when the second file failed, gave back all the same: the next
\* push writes it beside the copy the list has (agent_message_bridge.py:272-278).
ShownOnceInOrder ==
    /\ seen[Lead].again = {}
    /\ \A a \in Agent : seen[a].again \subseteq spilt[a].ever
    /\ \A m \in Member : In(m) =>
         \A s \in Seqs : For(m, s) /\ s <= member[m].delivered => s \in rows[m]

\* What was sent to an agent that has finished, or to its task, is recorded as shown to it or to
\* another agent of the task, or is noted as not seen; whether it was sent before or after.  This
\* is said once every agent it was meant for has finished or never came: an agent that quit the
\* room or was killed is not passed on for.  And it is not said of what a push gave back after the
\* agent had left (`late`): that is neither shown nor noted (team_messages.py:550-564).
\* What is noted reaches the lead as exactly one copy and a dependent task as one at most,
\* although agents finish once per attempt and several of a task may have missed the message
\* (team_messages.py:294-303, :377-412).
UnseenReachesLead ==
    /\ \A a \in Agent : member[a].state = "left" =>
         \A s \in Seqs :
            LET mine == {b \in Agent : messages[s].to \in {b, TaskOf[b]}}
            IN  /\ a \in mine /\ Original(s) /\ messages[s].from \notin mine
                /\ \A b \in mine : member[b].state \in {"none", "left"}
                => \/ messages[s].note
                   \/ \E b \in mine : s \in rows[b]
                   \/ \E b \in mine : s \in late[b]
    /\ \A s \in DOMAIN messages :
         LET copies(to) == {c \in DOMAIN messages : messages[c].copyOf = s /\ messages[c].to = to}
         IN  /\ messages[s].note /\ messages[s].from # Lead => Cardinality(copies(Lead)) = 1
             /\ \A d \in Task : Cardinality(copies(d)) <= 1
=============================================================================
