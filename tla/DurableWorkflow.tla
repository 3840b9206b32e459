--------------------------- MODULE DurableWorkflow ---------------------------
(***************************************************************************)
(* What the tool calls of a delegated agent may do, and who may go on      *)
(* after it: the durable workflow checkpoint (workflow_checkpoints.py),    *)
(* the tool-call wrapper that writes an intent before a call and closes it *)
(* afterwards (observability.py), the caller's idempotency keys            *)
(* (idempotency.py), and the resume and the retry of an agent that ended   *)
(* (tools_agents.py).                                                      *)
(*                                                                         *)
(* One workflow.  Its agents are numbered as they come: 1 has the task,    *)
(* the later ones resume it.  Every step is one locked read and write of   *)
(* the checkpoint, one transaction of the key journal, or one turn of the  *)
(* server's event loop; between two of them other calls run, a client may  *)
(* cancel, an agent may end, the disk may fail and the server may die.     *)
(***************************************************************************)
EXTENDS Naturals, FiniteSets

CONSTANTS Calls,       \* calls of tools that change something
          Keys, NoKey, \* the idempotency keys, and the absence of one
          KeyOf,       \* [Calls -> Keys \cup {NoKey}]; equal keys mean equal arguments
          MaxAgents,   \* bound: the first agent and the ones that resume it
          MaxResumes,  \* bound: resumes begun
          Resumers,    \* who may ask for a resume at one time: owners, team ticks
          MaxPending   \* MAX_PENDING_EFFECTS

ASSUME CallAssumption == /\ KeyOf \in [Calls -> Keys \cup {NoKey}] /\ NoKey \notin Keys
                         /\ MaxAgents \in Nat \ {0} /\ MaxResumes \in Nat
                         /\ MaxPending \in Nat

VARIABLES wf,       \* the checkpoint file of the workflow
          mapped,   \* the agents whose map file names the workflow
          meta,     \* the status in each agent's record
          launched, \* the agents whose worker ran the provider
          call,     \* each call: whose it is, where the wrapper is with it, how its tool ended
          work,     \* the calls whose tool goes on, which a cancel or a crash may leave behind
          ran,      \* the calls that have changed something (what the code cannot see)
          key,      \* the journal of idempotency keys, per agent
          resume,   \* each resumer: where it is, for whom, with which agent and generation
          retried   \* the agents that had ended when their prompt was given to a new one
vars == <<wf, mapped, meta, launched, call, work, ran, key, resume, retried>>

Agents   == 1 .. MaxAgents
NoAgent  == 0
Ended    == {"completed", "failed"}     \* failed: also timeout, stalled, cancelled
Rejected == {"refused", "rejected"}     \* the tool raised before it did anything
Answers  == {"ok", "failed", "not_dispatched"}   \* ok: also a failure with a known outcome
-----------------------------------------------------------------------------
(* What each operation makes of the checkpoint w.                          *)

Unknown(w) == [w EXCEPT !.safety = "unknown"]


\* A workflow in doubt only because of calls in flight is certain again with the last.
Calmed(w) == IF w.pending = {} /\ w.safety = "pending" THEN [w EXCEPT !.safety = "verified"] ELSE w

Closed(w, c) == [w EXCEPT !.pending = @ \ {c}]

\* Mutant: the state is not looked at.
MayBeginAnyState(w, a) == w.current = a /\ w.safety # "unknown"

MayBegin(w, a) == w.current = a /\ w.state = "running" /\ w.safety # "unknown"


HasRoom(w) == Cardinality(w.pending) < MaxPending

Opened(w, c) == [w EXCEPT !.pending = @ \cup {c},
                          !.safety  = IF @ = "verified" THEN "pending" ELSE @]

Released(w, c)  == Calmed(Closed(w, c))
Abandoned(w, c) == Unknown(Closed(w, c))

\* The result of call c, whose tool ended in the way how.
Recorded(w, c, how) ==
    IF c \notin w.pending THEN Unknown(w)
    ELSE CASE how = "not_dispatched" -> Released(w, c)
           [] how = "failed"         -> Abandoned(w, c)
           [] how = "ok"             -> Calmed([Closed(w, c) EXCEPT !.receipts = @ \cup {c}])

\* The status of an ended agent reaches the checkpoint once, and only if it still owns it.
Converged(w, a, status) ==
    IF w.current # a \/ w.terminal # "none" THEN w
    ELSE [w EXCEPT !.terminal = status, !.before = "none",
                   !.state = IF status = "completed" THEN "completed" ELSE "interrupted"]

\* Mutant: open intents do not matter as long as the outcome is not in doubt.
MayResumePending(w, a) == /\ w.current = a /\ w.state \notin {"resuming", "completed"}
                          /\ w.safety # "unknown"

MayResume(w, a) == /\ w.current = a /\ w.state \notin {"resuming", "completed"}
                   /\ w.pending = {} /\ w.safety = "verified"

Prepared(w) == [w EXCEPT !.state = "resuming", !.gen = @ + 1, !.token = w.gen + 1,
                         !.before = w.terminal]

MayBind(w, g) == w.state = "resuming" /\ w.token = g

Bound(w, a) == [w EXCEPT !.state = "running", !.current = a, !.terminal = "none", !.token = 0]

Aborted(w, g) ==
    IF MayBind(w, g) THEN [w EXCEPT !.state = "interrupted", !.token = 0, !.before = "none"] ELSE w

RolledBack(w, parent, a) ==
    IF w.current # a THEN w
    ELSE [w EXCEPT !.state = "interrupted", !.current = parent, !.terminal = w.before,
                   !.before = "none"]
-----------------------------------------------------------------------------
(* One tool call, from the request to the answer.                          *)

At(c, p) == call[c].at = p
Moves(c, p) == call' = [call EXCEPT ![c] = [@ EXCEPT !.at = p, !.how = "none"]]
Key(c) == <<call[c].by, KeyOf[c]>>

\* A call with a key has one more step: what its end means for the key.
EndsWith(c, verdict) == Moves(c, IF KeyOf[c] = NoKey THEN "over" ELSE verdict)

\* A request may be on its way when its agent ends, so it may come later.
Send(c, a) == /\ At(c, "idle") /\ a \in launched
              /\ call' = [call EXCEPT ![c] = [@ EXCEPT !.by = a,
                             !.at = IF KeyOf[c] = NoKey THEN "gate" ELSE "claim"]]
              /\ UNCHANGED <<wf, mapped, meta, launched, work, ran, key, resume, retried>>

\* Mutant: only a call that is done is not new.
IsNewUntilDone(k) == key[k] \in {"free", "started"}

\* A call that has started, in this life of the server or an earlier one, is not new.
IsNew(k) == key[k] = "free"

\* The transaction runs in a thread: a client that cancels meanwhile does not stop it.
Claim(c) == /\ At(c, "claim")
            /\ IF IsNew(Key(c))
               THEN /\ key' = [key EXCEPT ![Key(c)] = "started"]
                    /\ \E p \in {"gate", "over"} : Moves(c, p)
               ELSE UNCHANGED key /\ Moves(c, "over")
            /\ UNCHANGED <<wf, mapped, meta, launched, work, ran, resume, retried>>

\* Policy, scope, approvals: refused, or cancelled while waiting for one of them.
Deny(c) == /\ At(c, "gate")
           /\ \E verdict \in {"release", "unknown"} : EndsWith(c, verdict)
           /\ UNCHANGED <<wf, mapped, meta, launched, work, ran, key, resume, retried>>

\* The intent is on disk before the tool starts; without it the tool does not start.
Begin(c) == /\ At(c, "gate")
            /\ IF call[c].by \in mapped /\ MayBegin(wf, call[c].by) /\ HasRoom(wf)
               THEN /\ wf' = Opened(wf, c)
                    /\ work' = work \cup {c} /\ Moves(c, "running")
               ELSE /\ wf' = IF call[c].by \in mapped /\ MayBegin(wf, call[c].by)
                             THEN Unknown(wf) ELSE wf
                    /\ UNCHANGED work /\ EndsWith(c, "release")
            /\ UNCHANGED <<mapped, meta, launched, ran, key, resume, retried>>

Act(c) == /\ c \in work /\ c \notin ran
          /\ ran' = ran \cup {c}
          /\ UNCHANGED <<wf, mapped, meta, launched, call, work, key, resume, retried>>

\* A tool that says it did nothing did nothing; any other end says nothing about it.
ToolEnds(c, how) ==
    /\ c \in work /\ (how \in Rejected \cup {"not_dispatched"} => c \notin ran)
    /\ work' = work \ {c}
    /\ call' = IF At(c, "running")
               THEN [call EXCEPT ![c] = [@ EXCEPT !.at = "returned", !.how = how]] ELSE call
    /\ UNCHANGED <<wf, mapped, meta, launched, ran, key, resume, retried>>

\* A result is recorded; an exception closes the intent by what it is known to mean.
Settled(c) == IF call[c].how \in Answers THEN Recorded(wf, c, call[c].how)
              ELSE IF call[c].how = "refused" THEN Released(wf, c) ELSE Abandoned(wf, c)

\* A write that fails is passed over: the intent stays, at best with the outcome unknown.
Written(w) == wf' \in {w, wf}

Settle(c) == /\ At(c, "returned")
             /\ \/ Written(Settled(c))
                \/ call[c].how \in Answers /\ wf' = Unknown(wf)
             /\ EndsWith(c, CASE call[c].how \in Answers  -> "complete"
                              [] call[c].how \in Rejected -> "release"
                              [] OTHER                    -> "unknown")
             /\ UNCHANGED <<mapped, meta, launched, work, ran, key, resume, retried>>

\* The client gives up.
Cancel(c) == /\ At(c, "running") /\ Moves(c, "cancelling")
             /\ UNCHANGED <<wf, mapped, meta, launched, work, ran, key, resume, retried>>

\* Mutant: the call is released as if nothing had been done.
CancelReleases(c) == /\ At(c, "cancelling")
                     /\ Written(Released(wf, c))
                     /\ EndsWith(c, "unknown")
                     /\ UNCHANGED <<mapped, meta, launched, work, ran, key, resume, retried>>

\* The wrapper waits a moment for the tool, then abandons the call.
CancelCloses(c) == /\ At(c, "cancelling")
                   /\ Written(Abandoned(wf, c))
                   /\ EndsWith(c, "unknown")
                   /\ UNCHANGED <<mapped, meta, launched, work, ran, key, resume, retried>>

KeyAfter(old, verdict) == CASE verdict = "complete" -> "completed"
                            [] verdict = "unknown"  -> "unknown"
                            [] verdict = "release"  -> IF old = "started" THEN "free" ELSE old

CloseKey(c) == /\ call[c].at \in {"complete", "release", "unknown"}
               /\ key' = [key EXCEPT ![Key(c)] = KeyAfter(@, call[c].at)]
               /\ Moves(c, "over")
               /\ UNCHANGED <<wf, mapped, meta, launched, work, ran, resume, retried>>
-----------------------------------------------------------------------------
(* The agents of the workflow.                                             *)

\* An agent ends, or its start is given up (AgentLifecycle has how).
AgentEnds(a, status) ==
    /\ meta[a] = "running" \/ (meta[a] = "starting" /\ status = "failed")
    /\ meta' = [meta EXCEPT ![a] = status]
    /\ UNCHANGED <<wf, mapped, launched, call, work, ran, key, resume, retried>>

\* Whoever reads an ended agent carries its status over to the checkpoint.
MarkTerminal(a) == /\ meta[a] \in Ended /\ a \in mapped
                   /\ wf' = Converged(wf, a, meta[a])
                   /\ UNCHANGED <<mapped, meta, launched, call, work, ran, key, resume, retried>>

\* The provider used a tool of its own that may have changed something.
NativeActivity(a) == /\ a \in launched \cap mapped /\ wf' = Unknown(wf)
                     /\ UNCHANGED <<mapped, meta, launched, call, work, ran, key, resume, retried>>

\* retry gives the prompt to a new agent with a workflow of its own, of which nothing is
\* said here.  The status of an ended agent has been carried over before; that the agent
\* has ended is not asked.
Retry(a) == /\ a \in mapped /\ (meta[a] \in Ended => Converged(wf, a, meta[a]) = wf)
            /\ wf.safety = "verified" /\ wf.receipts = {} /\ wf.gen = 0 /\ wf.pending = {}
            /\ retried' = IF meta[a] \in Ended THEN retried \cup {a} ELSE retried
            /\ UNCHANGED <<wf, mapped, meta, launched, call, work, ran, key, resume>>

Idle == [at |-> "none", parent |-> NoAgent, child |-> NoAgent, gen |-> 0]
Goes(r, p) == resume' = [resume EXCEPT ![r] = IF p = "none" THEN Idle ELSE [@ EXCEPT !.at = p]]

PrepareResume(r, a) ==
    /\ resume[r].at = "none" /\ meta[a] = "failed" /\ a \in mapped /\ MayResume(wf, a)
    /\ wf.gen < MaxResumes
    /\ wf' = Prepared(wf)
    /\ resume' = [resume EXCEPT ![r] = [at |-> "prepared", parent |-> a,
                                        child |-> NoAgent, gen |-> wf.gen + 1]]
    /\ UNCHANGED <<mapped, meta, launched, call, work, ran, key, retried>>

\* The new agent's record is written (AgentLifecycle).
RecordChild(r, a) ==
    /\ resume[r].at = "prepared" /\ meta[a] = "none" /\ \A b \in 1 .. a - 1 : meta[b] # "none"
    /\ meta' = [meta EXCEPT ![a] = "starting"]
    /\ resume' = [resume EXCEPT ![r] = [@ EXCEPT !.at = "recorded", !.child = a]]
    /\ UNCHANGED <<wf, mapped, launched, call, work, ran, key, retried>>

\* Its directory is removed again.
Removed(r) == meta' = [a \in Agents |-> IF a = resume[r].child THEN "removed" ELSE meta[a]]

SpawnFails(r) == /\ resume[r].at \in {"prepared", "recorded"} /\ Goes(r, "aborting")
                 /\ Removed(r)
                 /\ UNCHANGED <<wf, mapped, launched, call, work, ran, key, retried>>

BindResumed(r) ==
    /\ resume[r].at = "recorded"
    /\ IF MayBind(wf, resume[r].gen)
       THEN wf' = Bound(wf, resume[r].child) /\ Goes(r, "bound") /\ UNCHANGED meta
       ELSE Removed(r) /\ Goes(r, "aborting") /\ UNCHANGED wf
    /\ UNCHANGED <<mapped, launched, call, work, ran, key, retried>>

WriteMap(r) == /\ resume[r].at = "bound" /\ Goes(r, "mapped")
               /\ mapped' = mapped \cup {resume[r].child}
               /\ UNCHANGED <<wf, meta, launched, call, work, ran, key, retried>>

\* A worker whose start was given up meanwhile does not run the provider.
Launch(r) == LET a == resume[r].child
             IN  /\ resume[r].at = "mapped" /\ Goes(r, "none")
                 /\ meta' = [meta EXCEPT ![a] = IF @ = "starting" THEN "running" ELSE @]
                 /\ launched' = IF meta[a] = "starting" THEN launched \cup {a} ELSE launched
                 /\ UNCHANGED <<wf, mapped, call, work, ran, key, retried>>

LaunchFails(r) == LET a == resume[r].child
                  IN  /\ resume[r].at = "mapped" /\ Goes(r, "rolling")
                      /\ meta' = [meta EXCEPT ![a] = IF @ = "starting" THEN "failed" ELSE @]
                      /\ UNCHANGED <<wf, mapped, launched, call, work, ran, key, retried>>

RollBack(r) == LET a == resume[r].child
               IN  /\ resume[r].at = "rolling" /\ Goes(r, "aborting")
                   /\ wf' = RolledBack(wf, resume[r].parent, a)
                   /\ mapped' = IF wf.current = a THEN mapped \ {a} ELSE mapped
                   /\ UNCHANGED <<meta, launched, call, work, ran, key, retried>>

AbortResume(r) == /\ resume[r].at = "aborting" /\ Goes(r, "none")
                  /\ wf' = Aborted(wf, resume[r].gen)
                  /\ UNCHANGED <<mapped, meta, launched, call, work, ran, key, retried>>

\* What the tools started may outlive the server; nothing of the wrapper does.
ServerDies ==
    /\ call' = [c \in Calls |-> IF call[c].at \in {"idle", "over"} THEN call[c]
                                ELSE [call[c] EXCEPT !.at = "over", !.how = "none"]]
    /\ resume' = [r \in Resumers |-> Idle]
    /\ UNCHANGED <<wf, mapped, meta, launched, work, ran, key, retried>>
-----------------------------------------------------------------------------
Init == /\ wf = [state |-> "running", safety |-> "verified", pending |-> {}, receipts |-> {},
                 gen |-> 0, current |-> 1, terminal |-> "none", token |-> 0, before |-> "none"]
        /\ mapped = {1} /\ launched = {1}
        /\ meta = [a \in Agents |-> IF a = 1 THEN "running" ELSE "none"]
        /\ call = [c \in Calls |-> [by |-> NoAgent, at |-> "idle", how |-> "none"]]
        /\ work = {} /\ ran = {}
        /\ key = [k \in Agents \X Keys |-> "free"]
        /\ resume = [r \in Resumers |-> Idle]
        /\ retried = {}

Next == \/ \E c \in Calls : \/ \E a \in Agents : Send(c, a)
                            \/ Claim(c) \/ Deny(c) \/ Begin(c) \/ Act(c)
                            \/ \E how \in Answers \cup Rejected \cup {"raised"} : ToolEnds(c, how)
                            \/ Settle(c) \/ Cancel(c) \/ CancelCloses(c) \/ CloseKey(c)
        \/ \E a \in Agents : \/ \E status \in Ended : AgentEnds(a, status)
                             \/ MarkTerminal(a) \/ NativeActivity(a) \/ Retry(a)
        \/ \E r \in Resumers : \/ \E a \in Agents : PrepareResume(r, a) \/ RecordChild(r, a)
                               \/ SpawnFails(r) \/ BindResumed(r) \/ WriteMap(r)
                               \/ Launch(r) \/ LaunchFails(r) \/ RollBack(r) \/ AbortResume(r)
        \/ ServerDies

Spec == Init /\ [][Next]_vars
-----------------------------------------------------------------------------
(* Properties.                                                             *)

\* The values of every variable, and never more open intents than MAX_PENDING_EFFECTS.
TypeOK ==
    /\ wf \in [state : {"running", "resuming", "interrupted", "completed"},
              safety : {"verified", "pending", "unknown"},
              pending : SUBSET Calls, receipts : SUBSET Calls, gen : 0 .. MaxResumes,
              current : Agents, terminal : Ended \cup {"none"}, token : 0 .. MaxResumes,
              before : Ended \cup {"none"}]
    /\ Cardinality(wf.pending) <= MaxPending
    /\ mapped \in SUBSET Agents /\ launched \in SUBSET Agents /\ retried \in SUBSET Agents
    /\ meta \in [Agents -> Ended \cup {"none", "starting", "running", "removed"}]
    /\ call \in [Calls -> [by : Agents \cup {NoAgent},
                           at : {"idle", "claim", "gate", "running", "returned", "cancelling",
                                 "complete", "release", "unknown", "over"},
                           how : Answers \cup Rejected \cup {"raised", "none"}]]
    /\ work \in SUBSET Calls /\ ran \in SUBSET Calls
    /\ key \in [Agents \X Keys -> {"free", "started", "completed", "unknown"}]
    /\ resume \in [Resumers -> [at : {"none", "prepared", "recorded", "bound", "mapped",
                                     "rolling", "aborting"},
                                parent : Agents \cup {NoAgent}, child : Agents \cup {NoAgent},
                                gen : 0 .. MaxResumes]]

\* A checkpoint that does not say "unknown" accounts for everything that was changed: with
\* a receipt, or with an intent that is still open.  One that says "verified" has a receipt
\* for all of it, whatever calls were cancelled, went on behind the client's back, were cut
\* off by a crash or could not be written down.
NoEffectUnrecorded ==
    /\ wf.safety # "unknown"  => ran \subseteq wf.receipts \cup wf.pending
    /\ wf.safety = "verified" => ran \subseteq wf.receipts

\* While a call of an agent still works in the background, no other agent of the workflow
\* has its place: a resume never runs beside the work it is meant to continue.
CurrentActs == \A c \in work : call[c].by = wf.current

\* Once the outcome is in doubt for a reason of its own, or the workflow is completed, it
\* stays so: no later result, release, abort or rollback makes it resumable again.
OutcomeStands == [][/\ wf.safety = "unknown" => wf'.safety = "unknown"
                    /\ wf.state = "completed" => wf'.state = "completed"]_vars

\* An ended agent whose prompt was given to a new one has changed nothing and will not:
\* none of its requests that are still on their way begins, no cancelled call goes on.
RetryReplaysNothing == \A a \in retried : \A c \in ran : call[c].by # a

\* Calls of one agent with the same key change something at most once between them,
\* however often the call is cancelled, repeated or cut off by a crash.
KeyRunsOnce == \A c, d \in ran : (Key(c) = Key(d) /\ KeyOf[c] # NoKey) => c = d
=============================================================================
