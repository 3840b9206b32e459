-------------------------------- MODULE Chat --------------------------------
(***************************************************************************)
(* One conversation of Mac MCP Chat (chat_sessions.py): the owner's        *)
(* messages, the turns that answer them, and the agent processes.          *)
(*                                                                         *)
(*   chat     the Chat object: queue, transcript, turn, agent, timers      *)
(*   disk     transcript.json and chat.json                                *)
(*   half     a save has written the first of the two, not yet the second  *)
(*   task     the turn of each message, and the warm-up of the agent       *)
(*   lock     the task that holds start_lock                               *)
(*   handler  the owner's calls that wait, and a fired idle timer          *)
(*   alive    agent processes that run, of `made` so far                   *)
(*   told     those that were sent session/cancel during a prompt          *)
(*   asked    how often each message was given to an agent                 *)
(*   written  messages the app has sent, numbered in that order            *)
(*   dropped  messages the owner took out of the queue                     *)
(*   lost     messages a call took out of the queue and died with          *)
(*   stray    processes the code has let go of, or that outlived the server*)
(*   removed  the chat was deleted or has expired                          *)
(*                                                                         *)
(* The server is one event loop: what it does between two awaits is one    *)
(* step.  What answers say, permissions, settings, credentials, private    *)
(* chats and errors of the disk are left out.                              *)
(***************************************************************************)
EXTENDS Naturals, Sequences

CONSTANTS
    Caller,          \* the owner's calls and idle timers at work at once
    MaxQueue,        \* MAX_QUEUE
    MaxChatMessages, \* bound: messages
    MaxAgents,       \* bound: agent processes
    MaxCalls,        \* bound: calls other than messages
    MaxChatUpsets    \* bound: agents that die, starts that fail, updates, timeouts, restarts

ASSUME ChatAssumption == MaxQueue \in Nat /\ MaxChatMessages \in Nat

VARIABLES chat, disk, half, task, lock, handler, alive, told, made, asked, written, dropped, lost,
          stray, removed, calls, chatUpsets
agents == <<alive, told, made, stray>>
fates  == <<asked, written, dropped, lost, removed>>
chatVars == <<chat, disk, half, task, lock, handler, agents, fates, calls, chatUpsets>>
-----------------------------------------------------------------------------
ChatMessage == 1..MaxChatMessages
None    == 0                  \* no turn, no process, no message
Warm    == 0                  \* chat.warming
Turn    == {Warm} \cup ChatMessage
Free    == MaxChatMessages + 1  \* nobody holds the lock
NoTask  == [pc |-> "none", proc |-> None, hit |-> FALSE]
NoHandler == [pc |-> "none", op |-> "none", msg |-> None, on |-> None, proc |-> None]
NoRecord == [there |-> FALSE, queue |-> <<>>]
Elements(q) == {q[i] : i \in DOMAIN q}

Active(t) == task[t].pc \notin {"none", "done", "dead", "raised"}
Working   == chat.turn # None /\ Active(chat.turn)
Connected == chat.conn \in alive /\ chat.session

ChatUpset == chatUpsets < MaxChatUpsets /\ chatUpsets' = chatUpsets + 1
\* No other step of the loop comes between the two files of a save, or the two parts of a call.
Runs == ~half /\ \A c \in Caller : handler[c].pc \notin {"begin", "after"}

\* Chat.save of what the chat has become: the transcript, then the record.
Saved == /\ disk' = [disk EXCEPT !.said = chat'.said]
         /\ half' = (disk.record # [there |-> TRUE, queue |-> chat'.queue])
SaveRecord ==
    /\ half /\ half' = FALSE
    /\ disk' = [disk EXCEPT !.record = [there |-> TRUE, queue |-> chat.queue]]
    /\ UNCHANGED <<chat, task, lock, handler, agents, fates, calls, chatUpsets>>
-----------------------------------------------------------------------------
(* Pieces of the handlers *)

\* _start_turn
Started(c, m) == [c EXCEPT !.stopped = FALSE, !.idle = FALSE, !.said = @ \cup {m}, !.turn = m]
New == [NoTask EXCEPT !.pc = "new"]
\* _arm_idle
Armed(c) == [c EXCEPT !.idle = c.conn \in alive]
\* _stop_agent, up to its await: the chat has no agent any more.
Unhooked(c) == [c EXCEPT !.conn = None, !.session = FALSE, !.idle = FALSE]
Unlocked(t) == IF lock = t THEN Free ELSE lock

\* _send_next: after a full answer only.
SendsNext(c, stop) == stop = "end" /\ c.queue # <<>>
\* Turn t ends as `pc`, and the chat becomes c: _end_turn with _send_next, or the end of _warm.
Ends(t, c, stop, pc) ==
    LET next == t # Warm /\ SendsNext(c, stop)
    IN  /\ chat' = IF next THEN Started([c EXCEPT !.queue = Tail(@)], Head(c.queue))
                   ELSE IF t = Warm THEN c ELSE Armed(c)
        /\ task' = [s \in Turn |-> IF s = t THEN [NoTask EXCEPT !.pc = pc]
                                   ELSE IF next /\ s = Head(c.queue) THEN New ELSE task[s]]
        /\ Saved
\* Turn t fails in a way that stops the agent: it waits for the process first.
TurnFails(t) ==
    IF chat.conn = None THEN Ends(t, Unhooked(chat), "error", "done")
    ELSE /\ chat' = Unhooked(chat)
         /\ task' = [task EXCEPT ![t].pc = "failing", ![t].proc = chat.conn]
         /\ UNCHANGED <<disk, half>>
-----------------------------------------------------------------------------
(* The agent is started: _ensure_session, under start_lock *)

\* A turn goes on to its prompt, a warm-up is over.
Ready(t) ==
    IF t = Warm
    THEN Ends(t, IF Working THEN chat ELSE Armed(chat), "end", "done") /\ UNCHANGED asked
    ELSE IF chat.conn \in alive
    THEN /\ asked' = [asked EXCEPT ![t] = @ + 1]
         /\ task' = [task EXCEPT ![t].pc = "asked", ![t].proc = chat.conn]
         /\ chat' = chat /\ Saved
    \* An agent that somebody has stopped meanwhile: an error nobody handles, or AcpClosed.
    ELSE /\ IF chat.conn = None THEN Ends(t, chat, "error", "raised") ELSE TurnFails(t)
         /\ UNCHANGED asked

WaitsForLock(t) ==
    /\ Runs /\ ~task[t].hit /\ task[t].pc = "new" /\ lock # Free
    /\ task' = [task EXCEPT ![t].pc = "waiting"]
    /\ UNCHANGED <<chat, disk, half, lock, handler, agents, fates, calls, chatUpsets>>
\* Mutant: an agent without a session is not stopped before the next one is started.
ReplacesNothing(t) ==
    /\ chat' = Unhooked(chat) /\ lock' = t
    /\ task' = [task EXCEPT ![t].pc = "starting"]
    /\ UNCHANGED <<disk, half, asked>>
\* An agent that does not run, or has no session, is stopped first.
Replaces(t) ==
    /\ chat' = Unhooked(chat) /\ lock' = t
    /\ task' = [task EXCEPT ![t].pc = IF chat.conn = None THEN "starting" ELSE "replacing",
                            ![t].proc = chat.conn]
    /\ UNCHANGED <<disk, half, asked>>
Enters(t) ==
    /\ Runs /\ ~task[t].hit /\ task[t].pc \in {"new", "waiting"} /\ lock = Free
    /\ IF Connected THEN Ready(t) /\ UNCHANGED lock ELSE Replaces(t)
    /\ UNCHANGED <<handler, agents, written, dropped, lost, removed, calls, chatUpsets>>
Replaced(t) ==
    /\ Runs /\ ~task[t].hit /\ task[t].pc = "replacing" /\ task[t].proc \notin alive
    /\ task' = [task EXCEPT ![t].pc = "starting", ![t].proc = None]
    /\ UNCHANGED <<chat, disk, half, lock, handler, agents, fates, calls, chatUpsets>>
\* No command, no folder, no process.
StartFails(t) ==
    /\ Runs /\ ~task[t].hit /\ task[t].pc = "starting" /\ ChatUpset
    /\ Ends(t, Unhooked(chat), "error", "done") /\ lock' = Unlocked(t)
    /\ UNCHANGED <<handler, agents, fates, calls>>
AgentStarts(t) ==
    /\ Runs /\ ~task[t].hit /\ task[t].pc = "starting" /\ made < MaxAgents
    /\ made' = made + 1 /\ alive' = alive \cup {made'}
    /\ chat' = [chat EXCEPT !.conn = made']
    /\ task' = [task EXCEPT ![t].pc = "opening", ![t].proc = made']
    /\ UNCHANGED <<disk, half, lock, handler, told, stray, fates, calls, chatUpsets>>
\* The session is there; the owner's choices are set next.
Opened(t) ==
    /\ Runs /\ ~task[t].hit /\ task[t].pc = "opening" /\ task[t].proc \in alive
    /\ chat' = [chat EXCEPT !.session = TRUE]
    /\ task' = [task EXCEPT ![t].pc = "choosing"]
    /\ UNCHANGED <<disk, half, lock, handler, agents, fates, calls, chatUpsets>>
\* Not signed in: the agent stays, after a warm-up without a timer that would end it.
NotSignedIn(t) ==
    /\ Runs /\ ~task[t].hit /\ task[t].pc = "opening" /\ task[t].proc \in alive /\ ChatUpset
    /\ Ends(t, chat, "error", "done") /\ lock' = Unlocked(t)
    /\ stray' = IF t = Warm THEN stray \cup {task[t].proc} ELSE stray
    /\ UNCHANGED <<handler, alive, told, made, fates, calls>>
OpenFails(t) ==
    /\ Runs /\ ~task[t].hit /\ task[t].pc = "opening"
    /\ IF task[t].proc \in alive THEN ChatUpset ELSE UNCHANGED chatUpsets
    /\ TurnFails(t) /\ lock' = Unlocked(t)
    /\ UNCHANGED <<handler, agents, fates, calls>>
Chosen(t) ==
    /\ Runs /\ ~task[t].hit /\ task[t].pc = "choosing"
    /\ Ready(t) /\ lock' = Unlocked(t)
    /\ UNCHANGED <<handler, agents, written, dropped, lost, removed, calls, chatUpsets>>
-----------------------------------------------------------------------------
(* A turn: _run_turn *)

\* A cancel may come too late: then the answer is a full one.
Answers(m) ==
    /\ Runs /\ ~task[m].hit /\ task[m].pc = "asked" /\ task[m].proc \in alive
    /\ \E stop \in {"end"} \cup (IF task[m].proc \in told THEN {"cancelled"} ELSE {}) :
         Ends(m, chat, stop, "done")
    /\ told' = told \ {task[m].proc}
    /\ UNCHANGED <<lock, handler, alive, made, stray, fates, calls, chatUpsets>>
AnswerFails(m) ==
    /\ Runs /\ ~task[m].hit /\ task[m].pc = "asked"
    /\ IF task[m].proc \in alive THEN ChatUpset ELSE UNCHANGED chatUpsets
    /\ TurnFails(m)
    /\ UNCHANGED <<lock, handler, agents, fates, calls>>
Failed(t) ==
    /\ Runs /\ ~task[t].hit /\ task[t].pc = "failing" /\ task[t].proc \notin alive
    /\ Ends(t, chat, "error", "done")
    /\ UNCHANGED <<lock, handler, agents, fates, calls, chatUpsets>>

\* CancelledError: before the first line of the turn nothing of it runs; while it waits for a
\* process to end the process is let go.
Cancelled(m) ==
    /\ Runs /\ Active(m) /\ task[m].hit
    /\ IF task[m].pc = "new"
       THEN task' = [task EXCEPT ![m] = [NoTask EXCEPT !.pc = "dead"]]
            /\ UNCHANGED <<chat, disk, half>>
       ELSE IF task[m].pc # "failing" /\ chat.stopped
       THEN Ends(m, chat, "cancelled", "done")
       ELSE Ends(m, chat, "error", "dead")
    /\ lock' = Unlocked(m)
    /\ stray' = IF task[m].pc \in {"replacing", "failing"} THEN stray \cup {task[m].proc} ELSE stray
    /\ UNCHANGED <<handler, alive, told, made, fates, calls, chatUpsets>>
-----------------------------------------------------------------------------
(* The owner *)

Prompt ==
    /\ Runs /\ chat.known /\ written < MaxChatMessages /\ written' = written + 1
    /\ IF Working
       THEN /\ Len(chat.queue) < MaxQueue
            /\ chat' = [chat EXCEPT !.queue = Append(@, written')] /\ UNCHANGED task
       ELSE chat' = Started(chat, written') /\ task' = [task EXCEPT ![written'] = New]
    /\ Saved
    /\ UNCHANGED <<lock, handler, agents, asked, dropped, lost, removed, calls, chatUpsets>>
OwnerCalls == Runs /\ chat.known /\ calls < MaxCalls /\ calls' = calls + 1
Connect ==
    /\ OwnerCalls /\ ~Connected /\ ~Active(Warm) /\ ~Working
    /\ task' = [task EXCEPT ![Warm] = New]
    /\ UNCHANGED <<chat, disk, half, lock, handler, agents, fates, chatUpsets>>

Queued(m) == m \in Elements(chat.queue)
Unqueued(m) ==
    LET i == CHOOSE i \in DOMAIN chat.queue : chat.queue[i] = m
    IN  [chat EXCEPT !.queue = SubSeq(@, 1, i - 1) \o SubSeq(@, i + 1, Len(@))]
TakeBack(m) ==
    /\ OwnerCalls /\ Queued(m)
    /\ chat' = Unqueued(m) /\ Saved
    /\ dropped' = dropped \cup {m}
    /\ UNCHANGED <<task, lock, handler, agents, asked, written, lost, removed, chatUpsets>>
Begun(op, m) == [NoHandler EXCEPT !.pc = "begin", !.op = op, !.msg = m]
\* Mutant: the message leaves the queue only when it is given to the agent.
SendNowKeepsQueued(c, m) ==
    /\ OwnerCalls /\ Queued(m) /\ handler[c] = NoHandler
    /\ handler' = [handler EXCEPT ![c] = Begun("send_now", m)]
    /\ UNCHANGED <<chat, disk, half, task, lock, agents, fates, chatUpsets>>
\* queued(send_now): out of the queue, then cancel, then _start_turn.
SendNow(c, m) ==
    /\ OwnerCalls /\ Queued(m) /\ handler[c] = NoHandler
    /\ chat' = Unqueued(m) /\ Saved
    /\ handler' = [handler EXCEPT ![c] = Begun("send_now", m)]
    /\ UNCHANGED <<task, lock, agents, fates, chatUpsets>>
\* cancel; delete, which cancels first; configure with a choice that takes a new agent.
Asks(c, op) ==
    /\ OwnerCalls /\ handler[c] = NoHandler
    /\ op = "restart" => ~Working
    /\ handler' = [handler EXCEPT ![c] = Begun(op, None)]
    /\ UNCHANGED <<chat, disk, half, task, lock, agents, fates, chatUpsets>>

\* rmtree, and the chat is no longer listed.
Gone(c) ==
    /\ chat' = [c EXCEPT !.known = FALSE]
    /\ disk' = [said |-> {}, record |-> NoRecord] /\ half' = FALSE
    /\ removed' = TRUE
\* What a call does once no agent is left to be waited for.
Stopped(c) ==
    /\ IF handler[c].op = "delete" THEN Gone(Unhooked(chat))
       ELSE chat' = Unhooked(chat) /\ UNCHANGED <<disk, half, removed>>
    /\ handler' = [handler EXCEPT ![c] = NoHandler]
\* _stop_agent within a call.
Stops(c) ==
    IF chat.conn = None THEN Stopped(c)
    ELSE /\ chat' = Unhooked(chat)
         /\ handler' = [handler EXCEPT ![c].pc = "closing", ![c].proc = chat.conn]
         /\ UNCHANGED <<disk, half, removed>>

\* The first part of cancel: the agent is told, or a turn that has not asked is cancelled.
Begins(c) ==
    /\ ~half /\ handler[c].pc = "begin"
    /\ IF handler[c].op = "restart" THEN Stops(c) /\ UNCHANGED <<task, told>>
       ELSE IF ~Working
       THEN /\ handler' = [handler EXCEPT ![c].pc = "after"]
            /\ UNCHANGED <<chat, disk, half, task, told, removed>>
       ELSE /\ handler' = [handler EXCEPT ![c].pc = "cancelling", ![c].on = chat.turn]
            /\ IF chat.conn # None /\ chat.session
               THEN /\ told' = told \cup {p \in {chat.conn} \cap alive : \E m \in ChatMessage :
                                             task[m].pc = "asked" /\ task[m].proc = p}
                    /\ UNCHANGED <<chat, task>>
               ELSE /\ chat' = [chat EXCEPT !.stopped = TRUE]
                    /\ task' = [task EXCEPT ![chat.turn].hit = TRUE]
                    /\ UNCHANGED told
            /\ UNCHANGED <<disk, half, removed>>
    /\ UNCHANGED <<lock, alive, made, stray, asked, written, dropped, lost, calls, chatUpsets>>
\* The turn it waited for is over.  One that never ran is closed here, if it is still the chat's;
\* otherwise its error is the call's, as with a turn that ended in one.
TurnOver(c) ==
    LET on == handler[c].on
    IN  /\ Runs /\ handler[c].pc = "cancelling" /\ ~Active(on)
        /\ IF task[on].pc = "done" \/ (task[on].pc = "dead" /\ task[chat.turn].pc = "dead")
           THEN handler' = [handler EXCEPT ![c].pc = "after"] /\ UNCHANGED lost
           ELSE /\ handler' = [handler EXCEPT ![c] = NoHandler]
                /\ lost' = lost \cup ({handler[c].msg} \ {None})
        /\ IF task[on].pc = "dead" /\ task[chat.turn].pc = "dead"
           THEN chat' = Armed(chat) /\ Saved ELSE UNCHANGED <<chat, disk, half>>
        /\ UNCHANGED <<task, lock, agents, asked, written, dropped, removed, calls, chatUpsets>>
\* Ten seconds pass, and the agent is stopped.
TimesOut(c) ==
    /\ Runs /\ handler[c].pc = "cancelling" /\ ChatUpset
    /\ Active(handler[c].on) /\ ~task[handler[c].on].hit
    /\ chat' = Unhooked(chat)
    /\ handler' = [handler EXCEPT ![c].pc = IF chat.conn = None THEN "after" ELSE "ending",
                                  ![c].proc = chat.conn]
    /\ UNCHANGED <<disk, half, task, lock, agents, fates, calls>>
AgentEnded(c) ==
    /\ Runs /\ handler[c].pc = "ending" /\ handler[c].proc \notin alive
    /\ handler' = [handler EXCEPT ![c].pc = "after", ![c].proc = None]
    /\ UNCHANGED <<chat, disk, half, task, lock, agents, fates, calls, chatUpsets>>
\* What comes after cancel.
Follows(c) ==
    /\ ~half /\ handler[c].pc = "after"
    /\ CASE handler[c].op = "send_now" ->
              /\ chat' = Started(chat, handler[c].msg) /\ Saved
              /\ task' = [task EXCEPT ![handler[c].msg] = New]
              /\ handler' = [handler EXCEPT ![c] = NoHandler] /\ UNCHANGED removed
         [] handler[c].op = "delete" -> Stops(c) /\ UNCHANGED task
         [] OTHER -> /\ handler' = [handler EXCEPT ![c] = NoHandler]
                     /\ UNCHANGED <<chat, disk, half, task, removed>>
    /\ UNCHANGED <<lock, agents, asked, written, dropped, lost, calls, chatUpsets>>
Closed(c) ==
    /\ Runs /\ handler[c].pc = "closing" /\ handler[c].proc \notin alive
    /\ IF handler[c].op = "delete" THEN Gone(chat) ELSE UNCHANGED <<chat, disk, half, removed>>
    /\ handler' = [handler EXCEPT ![c] = NoHandler]
    /\ UNCHANGED <<task, lock, agents, asked, written, dropped, lost, calls, chatUpsets>>
-----------------------------------------------------------------------------
(* Time, agents, and the server *)

IdleFires(c) ==
    /\ Runs /\ chat.idle /\ handler[c] = NoHandler
    /\ handler' = [handler EXCEPT ![c].pc = IF chat.conn = None THEN "none" ELSE "closing",
                                  ![c].proc = chat.conn]
    /\ chat' = Unhooked(chat)
    /\ UNCHANGED <<disk, half, task, lock, agents, fates, calls, chatUpsets>>
\* expire: a chat unused for days; its agent has long been stopped by then.
Expires ==
    /\ OwnerCalls /\ ~Working /\ ~Active(Warm) /\ chat.conn = None
    /\ Gone(Unhooked(chat))
    /\ UNCHANGED <<task, lock, handler, agents, asked, written, dropped, lost, chatUpsets>>
\* _on_update, which has the chat saved a little later.
Updates(p) ==
    /\ Runs /\ p \in alive /\ ~chat.timer /\ ChatUpset
    /\ chat' = [chat EXCEPT !.timer = TRUE]
    /\ UNCHANGED <<disk, half, task, lock, handler, agents, fates, calls>>
TimerFires ==
    /\ Runs /\ chat.timer
    /\ chat' = [chat EXCEPT !.timer = FALSE] /\ Saved
    /\ UNCHANGED <<task, lock, handler, agents, fates, calls, chatUpsets>>

Closing == {task[t].proc : t \in {s \in Turn : task[s].pc \in {"replacing", "failing"}}}
             \cup {handler[c].proc : c \in {b \in Caller : handler[b].pc \in {"closing", "ending"}}}
\* A process ends because it is stopped, or by itself.
Exits(p) ==
    /\ p \in alive /\ alive' = alive \ {p}
    /\ IF p \in Closing THEN UNCHANGED chatUpsets ELSE ChatUpset
    /\ UNCHANGED <<chat, disk, half, task, lock, handler, told, made, stray, fates, calls>>

Loaded == [known |-> disk.record.there, queue |-> disk.record.queue, said |-> disk.said,
           turn |-> None, stopped |-> FALSE, conn |-> None, session |-> FALSE, idle |-> FALSE,
           timer |-> FALSE]
\* Messages in the hand of a call, and one whose sender has not heard yet that it was accepted.
InHand == {handler[c].msg : c \in Caller} \ {None}
Unheard == {m \in Elements(chat.queue) : m \notin Elements(disk.record.queue) \cup disk.said}
\* The server ends, in the middle of a save or after its shutdown; _load_all takes the chats from
\* the disk.  Agents run in sessions of their own: a shutdown stops those of the chats, but when
\* the server dies each ends or goes on as it likes (acp_client.py:64-75, chat_sessions.py:1109).
ChatRestart ==
    /\ ChatUpset
    /\ chat' = Loaded /\ half' = FALSE /\ lock' = Free
    /\ task' = [t \in Turn |-> NoTask] /\ handler' = [c \in Caller |-> NoHandler]
    /\ alive' \in SUBSET alive /\ told' = {} /\ stray' = alive'
    /\ lost' = lost \cup InHand \cup Unheard
    /\ UNCHANGED <<disk, made, asked, written, dropped, removed, calls>>
-----------------------------------------------------------------------------
\* create has saved the empty chat, and connect starts its agent.
ChatInit ==
    /\ disk = [said |-> {}, record |-> [there |-> TRUE, queue |-> <<>>]] /\ half = FALSE
    /\ chat = Loaded
    /\ task = [t \in Turn |-> IF t = Warm THEN New ELSE NoTask] /\ lock = Free
    /\ handler = [c \in Caller |-> NoHandler]
    /\ alive = {} /\ told = {} /\ made = 0 /\ stray = {}
    /\ asked = [m \in ChatMessage |-> 0] /\ written = 0 /\ dropped = {} /\ lost = {}
    /\ removed = FALSE /\ calls = 0 /\ chatUpsets = 0

ChatNext ==
    \/ SaveRecord
    \/ \E t \in Turn : \/ WaitsForLock(t) \/ Enters(t) \/ Replaced(t) \/ StartFails(t)
                       \/ AgentStarts(t) \/ Opened(t) \/ NotSignedIn(t) \/ OpenFails(t)
                       \/ Chosen(t) \/ Failed(t)
    \/ \E m \in ChatMessage : Answers(m) \/ AnswerFails(m) \/ Cancelled(m) \/ TakeBack(m)
    \/ Prompt \/ Connect \/ Expires \/ TimerFires \/ ChatRestart
    \/ \E c \in Caller : \/ \E m \in ChatMessage : SendNow(c, m)
                         \/ \E op \in {"stop", "delete", "restart"} : Asks(c, op)
                         \/ Begins(c) \/ TurnOver(c) \/ TimesOut(c) \/ AgentEnded(c) \/ Follows(c)
                         \/ Closed(c) \/ IdleFires(c)
    \/ \E p \in 1..MaxAgents : Updates(p) \/ Exits(p)

ChatSpec == ChatInit /\ [][ChatNext]_chatVars
-----------------------------------------------------------------------------
(* Properties *)

\* Tasks, calls, queue and files speak of messages and processes there are; who starts an agent
\* holds the lock.
ChatTypes ==
    /\ chat.turn \in {None} \cup ChatMessage /\ chat.conn \in 0..made
    /\ written \in 0..MaxChatMessages
    /\ \A q \in {chat.queue, disk.record.queue} :
         Elements(q) \subseteq 1..written /\ Len(q) <= MaxQueue
    /\ chat.said \cup disk.said \cup dropped \cup lost \subseteq 1..written
    /\ \A t \in Turn : task[t].proc \in 0..made
    /\ \A t \in Turn : task[t].pc \in {"replacing", "starting", "opening", "choosing"} <=> lock = t
    /\ \A c \in Caller : /\ handler[c].proc \in 0..made
                         /\ handler[c].msg \in 0..written /\ handler[c].on \in 0..written

\* No message is given to an agent twice, whatever stops, restarts and saves cut off come in
\* between; one that was given stands in the saved transcript and waits no more; and each one that
\* was accepted waits, stands in the transcript, was taken back by the owner, or is in the hand of
\* a send-now call, with which alone it may get lost, or with a server that dies before the sender
\* has heard that it was accepted (chat_sessions.py:972-1033).
MessageAccounted ==
    /\ \A m \in ChatMessage : asked[m] <= 1
    /\ removed \/ \A m \in 1..written :
         /\ asked[m] = 1 => m \in disk.said /\ ~Queued(m)
         /\ Queued(m) \/ m \in chat.said \cup dropped \cup InHand \cup lost

\* Every agent process that runs is the chat's or somebody waits for its end, and at rest a timer
\* is set that will end it; left out are the three ways in which a process is let go of: a Stop
\* while one is being closed, a warm-up without a sign-in, and a server that dies, whose agents
\* may outlive it and are unknown to the next one (chat_sessions.py:43, :1192-1255, :1318-1340,
\* :1387-1394, acp_client.py:64-75).
AgentsAccounted ==
    \A p \in alive \ stray :
        /\ p = chat.conn \/ p \in Closing
        /\ /\ p = chat.conn
           /\ \A t \in Turn : ~Active(t)
           /\ \A c \in Caller : handler[c] = NoHandler
           => chat.idle

\* Nothing of a chat that was removed is on the disk again: ChatShell.swift:211 says that "the
\* conversation and its history are removed" (chat_sessions.py:731-736, :827-831, :1070-1080).
RemovedStaysRemoved == removed => disk = [said |-> {}, record |-> NoRecord]
=============================================================================
