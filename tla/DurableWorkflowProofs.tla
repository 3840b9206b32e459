------------------------ MODULE DurableWorkflowProofs ------------------------
(***************************************************************************)
(* Proofs about DurableWorkflow, for any number of calls, keys, agents and *)
(* resumers: what the checkpoint says of the changes made, that nobody     *)
(* acts beside the agent whose place it is, that a retry or a repeated key *)
(* repeats nothing, and that an outcome once settled stays.                *)
(***************************************************************************)
EXTENDS DurableWorkflow, FiniteSetTheorems, TLAPS

\* What a resumer holds: the ended agent, and the new one once there is a record of it.
WithChild == {"recorded", "bound", "mapped", "rolling"}
HoldsAgents == \A r \in Resumers :
    /\ resume[r].at # "none" => resume[r].parent \in Agents
    /\ resume[r].at = "prepared" => resume[r].child = NoAgent
    /\ resume[r].at \in WithChild => resume[r].child \in Agents

\* A tool works or has worked only for a call that was begun, and one that says it did
\* nothing did nothing.
Unbegun == {"idle", "claim", "gate"}
BegunWorks == \A c \in Calls :
    /\ call[c].at \in Unbegun => c \notin work /\ c \notin ran
    /\ call[c].at = "returned" => c \notin work
    /\ call[c].at = "returned" /\ call[c].how \in Rejected \cup {"not_dispatched"} => c \notin ran
    /\ call[c].at = "release" => c \notin work /\ c \notin ran

\* The checkpoint knows what works, and is certain only with nothing open.
WorkIsOpen == /\ IsFiniteSet(wf.pending)
              /\ wf.safety # "unknown"  => work \subseteq wf.pending
              /\ wf.safety = "verified" => wf.pending = {}
              /\ wf.state = "resuming" => work = {}
              /\ wf.state = "running" => wf.terminal = "none"

\* An agent has a provider only once it was started, and a call only if it had one.
Started == /\ \A a \in Agents : meta[a] \in {"none", "starting"} => a \notin launched
           /\ \A a \in Agents : meta[a] = "none" => a \notin mapped \cup retried
           /\ \A c \in Calls : call[c].at # "idle" => call[c].by \in launched

\* The new agent of a resumer is its own, is not started yet and is nobody's parent so far.
OwnChild == \A r \in Resumers : resume[r].at \in WithChild =>
    /\ resume[r].child \notin launched
    /\ meta[resume[r].child] \in {"starting", "failed"}
    /\ resume[r].at = "rolling" => meta[resume[r].child] = "failed"
    /\ resume[r].at = "recorded" => resume[r].child \notin mapped \cup retried
    /\ resume[r].at = "bound" => resume[r].child \notin mapped \cup retried
    /\ \A q \in Resumers : (resume[q].at \in WithChild /\ resume[q].child = resume[r].child)
                              => q = r

CompletedIsCurrent == wf.state = "completed" =>
                         wf.terminal # "none" /\ meta[wf.current] = "completed"

\* A retried agent has nothing at work and cannot begin anything.
RetriedIsOver == \A a \in retried : /\ ~(wf.current = a /\ wf.state = "running")
                                    /\ \A c \in work : call[c].by # a

\* A key that is free has no call that changed or may change something under it, and one
\* that is held has only its holder.
Holder == {"gate", "running", "returned", "cancelling", "complete", "release", "unknown"}
Involved(c) == c \in ran \cup work \/ call[c].at \in Holder
KeysHeld == \A c \in Calls : KeyOf[c] # NoKey =>
    /\ Involved(c) => key[Key(c)] # "free"
    /\ call[c].at \in Holder => /\ key[Key(c)] = "started"
                                /\ \A d \in Calls : Key(d) = Key(c) /\ Involved(d) => d = c

WorksOnce == \A c, d \in ran \cup work : (Key(c) = Key(d) /\ KeyOf[c] # NoKey) => c = d

IInv == /\ TypeOK /\ HoldsAgents /\ BegunWorks /\ WorkIsOpen /\ Started /\ OwnChild
        /\ CompletedIsCurrent /\ RetriedIsOver /\ KeysHeld /\ WorksOnce
        /\ NoEffectUnrecorded /\ CurrentActs /\ RetryReplaysNothing /\ KeyRunsOnce
-----------------------------------------------------------------------------
(* Types, and what each operation does to the checkpoint and to a call.    *)

WfType == [state : {"running", "resuming", "interrupted", "completed"},
           safety : {"verified", "pending", "unknown"},
           pending : SUBSET Calls, receipts : SUBSET Calls, gen : 0 .. MaxResumes,
           current : Agents, terminal : Ended \cup {"none"}, token : 0 .. MaxResumes,
           before : Ended \cup {"none"}]
Place == {"idle", "claim", "gate", "running", "returned", "cancelling",
          "complete", "release", "unknown", "over"}
How == Answers \cup Rejected \cup {"raised", "none"}
CallType == [by : Agents \cup {NoAgent}, at : Place, how : How]
Plan == {"none", "prepared", "recorded", "bound", "mapped", "rolling", "aborting"}
ResumeType == [at : Plan, parent : Agents \cup {NoAgent}, child : Agents \cup {NoAgent},
               gen : 0 .. MaxResumes]
MetaValues == Ended \cup {"none", "starting", "running", "removed"}

LEMMA TypeParts ==
    TypeOK <=> /\ wf \in WfType /\ Cardinality(wf.pending) <= MaxPending
               /\ mapped \in SUBSET Agents /\ launched \in SUBSET Agents
               /\ retried \in SUBSET Agents /\ meta \in [Agents -> MetaValues]
               /\ call \in [Calls -> CallType] /\ work \in SUBSET Calls /\ ran \in SUBSET Calls
               /\ key \in [Agents \X Keys -> {"free", "started", "completed", "unknown"}]
               /\ resume \in [Resumers -> ResumeType]
BY DEF TypeOK, WfType, CallType, Place, How, ResumeType, Plan, MetaValues

\* Neither the state nor the owner changes.
SameOwner(w, v) == /\ v.state = w.state /\ v.current = w.current /\ v.terminal = w.terminal
                   /\ v.gen = w.gen /\ v.token = w.token /\ v.before = w.before

\* The intent of c may be closed; a doubt stays, and certainty needs that nothing is open.
Closes(w, v, c) ==
    /\ v \in WfType /\ SameOwner(w, v)
    /\ v.pending \subseteq w.pending /\ w.pending \ {c} \subseteq v.pending
    /\ w.receipts \subseteq v.receipts
    /\ w.safety = "unknown" => v.safety = "unknown"
    /\ v.safety = "verified" => v.pending = {}

LEMMA UnknownCloses ==
    ASSUME NEW w \in WfType, NEW c \in Calls
    PROVE  Closes(w, Unknown(w), c) /\ Unknown(w).safety = "unknown"
BY DEF WfType, Unknown, Closes, SameOwner

LEMMA SameCloses ==
    ASSUME NEW w \in WfType, NEW c \in Calls, w.safety = "verified" => w.pending = {}
    PROVE  Closes(w, w, c)
BY DEF WfType, Closes, SameOwner

LEMMA ClosedType == ASSUME NEW w \in WfType, NEW c \in Calls
                    PROVE  /\ Closed(w, c) \in WfType /\ SameOwner(w, Closed(w, c))
                           /\ Closed(w, c).pending = w.pending \ {c}
                           /\ Closed(w, c).receipts = w.receipts
                           /\ Closed(w, c).safety = w.safety
BY DEF WfType, Closed, SameOwner

LEMMA AbandonedCloses ==
    ASSUME NEW w \in WfType, NEW c \in Calls
    PROVE  Closes(w, Abandoned(w, c), c) /\ Abandoned(w, c).safety = "unknown"
<1>1. Closed(w, c) \in WfType  BY ClosedType
<1>2. /\ Abandoned(w, c) \in WfType /\ Abandoned(w, c).safety = "unknown"
      /\ SameOwner(Closed(w, c), Abandoned(w, c))
      /\ Abandoned(w, c).pending = Closed(w, c).pending
      /\ Abandoned(w, c).receipts = Closed(w, c).receipts
  BY <1>1 DEF WfType, Unknown, Abandoned, SameOwner
<1> QED  BY <1>2, ClosedType DEF Closes, SameOwner

LEMMA CalmedSafe ==
    ASSUME NEW w \in WfType
    PROVE  /\ Calmed(w) \in WfType /\ SameOwner(w, Calmed(w))
           /\ Calmed(w).pending = w.pending /\ Calmed(w).receipts = w.receipts
           /\ w.safety = "unknown" => Calmed(w).safety = "unknown"
           /\ Calmed(w).safety = "verified" => w.pending = {} \/ w.safety = "verified"
BY DEF WfType, Calmed, SameOwner

LEMMA ReleasedCloses ==
    ASSUME NEW w \in WfType, NEW c \in Calls, w.safety = "verified" => w.pending = {}
    PROVE  Closes(w, Released(w, c), c)
<1> DEFINE v == Closed(w, c)
<1>1. /\ v \in WfType /\ SameOwner(w, v) /\ v.pending = w.pending \ {c}
      /\ v.receipts = w.receipts /\ v.safety = w.safety
  BY ClosedType
<1>2. Released(w, c) = Calmed(v)  BY DEF Released
<1> HIDE DEF v
<1> QED  BY <1>1, <1>2, CalmedSafe DEF Closes, SameOwner

\* The result of a call: it has its receipt, or did nothing, or leaves a doubt.
LEMMA RecordedCloses ==
    ASSUME NEW w \in WfType, NEW c \in Calls, NEW how \in Answers,
           w.safety = "verified" => w.pending = {}
    PROVE  /\ Closes(w, Recorded(w, c, how), c)
           /\ Recorded(w, c, how).safety # "unknown" =>
                 c \in Recorded(w, c, how).receipts \/ how = "not_dispatched"
<1>1. CASE c \notin w.pending
  <2>1. Recorded(w, c, how) = Unknown(w)  BY <1>1 DEF Recorded
  <2> QED  BY <2>1, UnknownCloses
<1>2. CASE c \in w.pending /\ how = "not_dispatched"
  <2>1. Recorded(w, c, how) = Released(w, c)  BY <1>2 DEF Recorded
  <2> QED  BY <2>1, <1>2, ReleasedCloses
<1>3. CASE c \in w.pending /\ how = "failed"
  <2>1. Recorded(w, c, how) = Abandoned(w, c)  BY <1>3 DEF Recorded
  <2> QED  BY <2>1, AbandonedCloses
<1>4. CASE c \in w.pending /\ how = "ok"
  <2> DEFINE v == [Closed(w, c) EXCEPT !.receipts = @ \cup {c}]
  <2>1. Recorded(w, c, how) = Calmed(v)  BY <1>4 DEF Recorded
  <2>2. Closed(w, c) \in WfType  BY ClosedType
  <2>3. /\ v \in WfType /\ SameOwner(Closed(w, c), v) /\ v.pending = Closed(w, c).pending
        /\ v.receipts = Closed(w, c).receipts \cup {c} /\ v.safety = Closed(w, c).safety
    BY <2>2 DEF WfType, SameOwner
  <2> HIDE DEF v
  <2>4. /\ SameOwner(w, v) /\ v.pending = w.pending \ {c}
        /\ v.receipts = w.receipts \cup {c} /\ v.safety = w.safety
    BY <2>3, ClosedType DEF SameOwner
  <2> QED  BY <2>1, <2>3, <2>4, CalmedSafe DEF Closes, SameOwner
<1> QED  BY <1>1, <1>2, <1>3, <1>4 DEF Answers
-----------------------------------------------------------------------------
(* What a step of a call leaves true of the other calls and of the agents. *)

\* Call c goes to the place p; its agent and the other calls stay as they are.
GoesTo(c, p) == /\ call' \in [Calls -> CallType]
                /\ call'[c].by = call[c].by /\ call'[c].at = p
                /\ \A d \in Calls : d # c => call'[d] = call[d]

LEMMA MovesThere ==
    ASSUME call \in [Calls -> CallType], NEW c \in Calls, NEW p \in Place, Moves(c, p)
    PROVE  GoesTo(c, p)
BY DEF Moves, GoesTo, CallType, How

LEMMA EndsThere ==
    ASSUME call \in [Calls -> CallType], NEW c \in Calls, NEW v \in Place, EndsWith(c, v)
    PROVE  GoesTo(c, IF KeyOf[c] = NoKey THEN "over" ELSE v)
<1> DEFINE p == IF KeyOf[c] = NoKey THEN "over" ELSE v
<1>1. p \in Place /\ Moves(c, p)  BY DEF EndsWith, Place
<1> HIDE DEF p
<1>2. GoesTo(c, p)  BY <1>1, MovesThere
<1> QED  BY <1>2 DEF p

LEMMA KeysStay ==
    ASSUME KeysHeld, key' = key,
           \A d \in Calls :
              /\ (d \in ran' \cup work' \/ call'[d].at \in Holder)
                    => Involved(d) /\ call'[d].by = call[d].by
              /\ call'[d].at \in Holder => call[d].at \in Holder
    PROVE  KeysHeld'
<1> SUFFICES ASSUME NEW c \in Calls, KeyOf[c] # NoKey
             PROVE  /\ Involved(c)' => key[Key(c)'] # "free"
                    /\ call'[c].at \in Holder =>
                          /\ key[Key(c)'] = "started"
                          /\ \A d \in Calls : Key(d)' = Key(c)' /\ Involved(d)' => d = c
  BY DEF KeysHeld
<1>1. Involved(c)' => Involved(c) /\ Key(c)' = Key(c)
  BY DEF Involved, Key
<1>2. ASSUME NEW d \in Calls, Involved(d)'
      PROVE  Involved(d) /\ Key(d)' = Key(d)
  BY <1>2 DEF Involved, Key
<1>3. call'[c].at \in Holder => Involved(c)' /\ call[c].at \in Holder
  BY DEF Involved
<1> QED  BY <1>1, <1>2, <1>3 DEF KeysHeld

\* Everything but the types and the keys.
Rest == /\ HoldsAgents /\ BegunWorks /\ WorkIsOpen /\ Started /\ OwnChild
        /\ CompletedIsCurrent /\ RetriedIsOver /\ WorksOnce
        /\ NoEffectUnrecorded /\ CurrentActs /\ RetryReplaysNothing /\ KeyRunsOnce

\* A call that is already under way goes on, and neither its tool nor the checkpoint does.
LEMMA QuietMove ==
    ASSUME TypeOK, Rest, NEW c \in Calls, NEW p \in Place, GoesTo(c, p),
           call[c].at # "idle", p \notin {"idle", "claim", "returned"},
           p \in {"gate", "release"} => c \notin work /\ c \notin ran,
           UNCHANGED <<wf, mapped, meta, launched, work, ran, resume, retried>>
    PROVE  Rest'
<1>1. (HoldsAgents /\ WorkIsOpen /\ OwnChild /\ CompletedIsCurrent /\ NoEffectUnrecorded)'
  BY DEF Rest, HoldsAgents, WorkIsOpen, OwnChild, CompletedIsCurrent, NoEffectUnrecorded
<1>2. BegunWorks'
  BY DEF Rest, BegunWorks, GoesTo, Unbegun
<1>3. \A d \in Calls : call'[d].by = call[d].by /\ (call'[d].at # "idle" => call[d].at # "idle")
  BY DEF GoesTo
<1>4. Started' /\ RetriedIsOver' /\ CurrentActs' /\ RetryReplaysNothing'
  BY <1>3, TypeParts DEF Rest, Started, RetriedIsOver, CurrentActs, RetryReplaysNothing
<1>5. WorksOnce' /\ KeyRunsOnce'
  BY <1>3, TypeParts DEF Rest, WorksOnce, KeyRunsOnce, Key
<1> QED  BY <1>1, <1>2, <1>4, <1>5 DEF Rest
-----------------------------------------------------------------------------
(* The steps of a call.                                                    *)

LEMMA SendKeeps ==
    ASSUME IInv, NEW c \in Calls, NEW a \in Agents, Send(c, a)
    PROVE  IInv'
<1>1. /\ call' \in [Calls -> CallType] /\ call'[c].by = a /\ a \in launched
      /\ call'[c].at \in {"gate", "claim"} /\ (KeyOf[c] # NoKey => call'[c].at = "claim")
      /\ call[c].at = "idle" /\ \A d \in Calls : d # c => call'[d] = call[d]
  BY TypeParts DEF IInv, Send, At, CallType, Place, How
<1>2. c \notin work /\ c \notin ran
  BY <1>1 DEF IInv, BegunWorks, Unbegun
<1>3. UNCHANGED <<wf, mapped, meta, launched, work, ran, key, resume, retried>>
  BY DEF Send
<1>4. TypeOK'
  BY <1>1, <1>3, TypeParts DEF IInv, TypeOK, CallType, Place, How
<1>5. (HoldsAgents /\ WorkIsOpen /\ OwnChild /\ CompletedIsCurrent /\ NoEffectUnrecorded)'
  BY <1>3 DEF IInv, HoldsAgents, WorkIsOpen, OwnChild, CompletedIsCurrent, NoEffectUnrecorded
<1>6. BegunWorks'
  BY <1>1, <1>2, <1>3 DEF IInv, BegunWorks, Unbegun
<1>7. (Started /\ RetriedIsOver /\ CurrentActs /\ RetryReplaysNothing)'
  BY <1>1, <1>2, <1>3, TypeParts
  DEF IInv, Started, RetriedIsOver, CurrentActs, RetryReplaysNothing
<1>8. WorksOnce' /\ KeyRunsOnce'
  BY <1>1, <1>2, <1>3, TypeParts DEF IInv, WorksOnce, KeyRunsOnce, Key
<1>9. KeysHeld'
  <2> SUFFICES ASSUME NEW d \in Calls, KeyOf[d] # NoKey
               PROVE  /\ Involved(d)' => key[Key(d)'] # "free"
                      /\ call'[d].at \in Holder =>
                            /\ key[Key(d)'] = "started"
                            /\ \A e \in Calls : Key(e)' = Key(d)' /\ Involved(e)' => e = d
    BY <1>3 DEF KeysHeld
  <2>1. \A e \in Calls : KeyOf[e] # NoKey =>
           /\ Involved(e)' => Involved(e) /\ Key(e)' = Key(e)
           /\ call'[e].at \in Holder => call[e].at \in Holder /\ Involved(e)'
    BY <1>1, <1>2, <1>3 DEF Involved, Key, Holder
  <2>2. \A e \in Calls : Key(e)' = Key(d)' => KeyOf[e] = KeyOf[d]
    BY DEF Key
  <2> QED  BY <2>1, <2>2 DEF IInv, KeysHeld
<1> QED  BY <1>4, <1>5, <1>6, <1>7, <1>8, <1>9 DEF IInv

LEMMA KeyDomain ==
    ASSUME TypeOK, Started, NEW c \in Calls, KeyOf[c] # NoKey, call[c].at # "idle"
    PROVE  Key(c) \in Agents \X Keys
BY CallAssumption, TypeParts DEF Started, Key

LEMMA ClaimKeeps ==
    ASSUME IInv, NEW c \in Calls, Claim(c)
    PROVE  IInv'
<1>1. PICK p \in {"gate", "over"} :
         /\ Moves(c, p) /\ (p = "gate" => IsNew(Key(c)))
         /\ IF IsNew(Key(c)) THEN key' = [key EXCEPT ![Key(c)] = "started"]
            ELSE p = "over" /\ key' = key
  BY DEF Claim
<1>2. GoesTo(c, p) /\ p \in Place /\ call[c].at = "claim"
  BY <1>1, MovesThere, TypeParts DEF IInv, Claim, At, Place
<1>3. c \notin work /\ c \notin ran
  BY <1>2 DEF IInv, BegunWorks, Unbegun
<1>4. UNCHANGED <<wf, mapped, meta, launched, work, ran, resume, retried>>
  BY DEF Claim
<1>5. TypeOK'
  BY <1>1, <1>2, <1>4, TypeParts DEF IInv, TypeOK, GoesTo, CallType, Place, How
<1>6. Rest'
  BY <1>2, <1>3, <1>4, QuietMove DEF IInv, Rest
<1>7. KeysHeld'
  <2>1. \A e \in Calls : /\ Key(e)' = Key(e)
                         /\ e # c => (Involved(e)' <=> Involved(e)) /\ call'[e] = call[e]
    BY <1>2, <1>4 DEF Key, Involved, GoesTo
  <2>2. Involved(c)' <=> p = "gate"
    BY <1>2, <1>3, <1>4 DEF Involved, GoesTo, Holder
  <2>3. CASE ~IsNew(Key(c))
    <3>1. p = "over" /\ key' = key  BY <2>3, <1>1
    <3>2. \A d \in Calls :
             /\ (d \in ran' \cup work' \/ call'[d].at \in Holder)
                   => Involved(d) /\ call'[d].by = call[d].by
             /\ call'[d].at \in Holder => call[d].at \in Holder
      BY <3>1, <1>2, <1>3, <1>4 DEF Involved, GoesTo, Holder
    <3> QED  BY <3>1, <3>2, KeysStay DEF IInv
  <2>4. CASE IsNew(Key(c))
    <3>1. key' = [key EXCEPT ![Key(c)] = "started"] /\ key[Key(c)] = "free"
      BY <2>4, <1>1 DEF IsNew
    <3>2. ASSUME NEW e \in Calls, KeyOf[e] # NoKey, Key(e) = Key(c)
          PROVE  ~Involved(e)
      BY <3>1, <3>2 DEF IInv, KeysHeld
    <3>3. \A e \in Calls : KeyOf[e] # NoKey /\ Key(e) # Key(c) => key'[Key(e)] = key[Key(e)]
      BY <3>1, TypeParts DEF IInv
    <3>4. KeyOf[c] # NoKey => key'[Key(c)] = "started"
      BY <3>1, <1>2, KeyDomain, TypeParts DEF IInv
    <3>5. ASSUME NEW e \in Calls, KeyOf[e] # NoKey
          PROVE  /\ Involved(e)' => key'[Key(e)] # "free"
                 /\ call'[e].at \in Holder =>
                       /\ key'[Key(e)] = "started"
                       /\ \A d \in Calls : Key(d) = Key(e) /\ Involved(d)' => d = e
      <4>1. CASE e = c
        <5>1. \A d \in Calls : Key(d) = Key(c) => KeyOf[d] # NoKey
          BY <3>5, <4>1 DEF Key
        <5> QED  BY <4>1, <5>1, <3>2, <3>4, <3>5, <2>1
      <4>2. CASE e # c
        <5>1. Involved(e)' => Key(e) # Key(c)
          BY <4>2, <3>2, <3>5, <2>1
        <5>2. call'[e].at \in Holder => call[e].at \in Holder /\ Involved(e)'
          BY <4>2, <2>1 DEF Involved
        <5>3. \A d \in Calls : d = c => (Key(d) = Key(e) => Key(e) = Key(c))
          OBVIOUS
        <5> QED  BY <4>2, <5>1, <5>2, <5>3, <3>3, <3>5, <2>1 DEF IInv, KeysHeld
      <4> QED  BY <4>1, <4>2
    <3> QED  BY <3>5, <2>1 DEF KeysHeld
  <2> QED  BY <2>3, <2>4
<1> QED  BY <1>5, <1>6, <1>7 DEF IInv, Rest

LEMMA DenyKeeps ==
    ASSUME IInv, NEW c \in Calls, Deny(c)
    PROVE  IInv'
<1>1. PICK v \in {"release", "unknown"} : EndsWith(c, v)
  BY DEF Deny
<1> DEFINE p == IF KeyOf[c] = NoKey THEN "over" ELSE v
<1>2. GoesTo(c, p) /\ p \in Place \ Unbegun /\ p # "returned" /\ call[c].at = "gate"
  BY <1>1, EndsThere, TypeParts DEF IInv, Deny, At, Place, Unbegun
<1> HIDE DEF p
<1>3. c \notin work /\ c \notin ran
  BY <1>2 DEF IInv, BegunWorks, Unbegun
<1>4. UNCHANGED <<wf, mapped, meta, launched, work, ran, key, resume, retried>>
  BY DEF Deny
<1>5. TypeOK'
  BY <1>2, <1>4, TypeParts DEF IInv, TypeOK, GoesTo, CallType, Place, How
<1>6. Rest'
  BY <1>2, <1>3, <1>4, QuietMove DEF IInv, Rest, Unbegun
<1>7. \A d \in Calls :
         /\ (d \in ran' \cup work' \/ call'[d].at \in Holder)
               => Involved(d) /\ call'[d].by = call[d].by
         /\ call'[d].at \in Holder => call[d].at \in Holder
  BY <1>2, <1>4 DEF Involved, GoesTo, Holder
<1> QED  BY <1>4, <1>5, <1>6, <1>7, KeysStay DEF IInv, Rest

LEMMA CancelKeeps ==
    ASSUME IInv, NEW c \in Calls, Cancel(c)
    PROVE  IInv'
<1>1. GoesTo(c, "cancelling") /\ call[c].at = "running"
  BY MovesThere, TypeParts DEF IInv, Cancel, At, Place
<1>2. UNCHANGED <<wf, mapped, meta, launched, work, ran, key, resume, retried>>
  BY DEF Cancel
<1>3. TypeOK'
  BY <1>1, <1>2, TypeParts DEF IInv, TypeOK, GoesTo, CallType, Place, How
<1>4. "cancelling" \in Place  BY DEF Place
<1>5. Rest'
  BY <1>1, <1>2, <1>4, QuietMove DEF IInv, Rest
<1>6. \A d \in Calls :
         /\ (d \in ran' \cup work' \/ call'[d].at \in Holder)
               => Involved(d) /\ call'[d].by = call[d].by
         /\ call'[d].at \in Holder => call[d].at \in Holder
  BY <1>1, <1>2 DEF Involved, GoesTo, Holder
<1> QED  BY <1>2, <1>3, <1>5, <1>6, KeysStay DEF IInv, Rest

LEMMA CloseKeyKeeps ==
    ASSUME IInv, NEW c \in Calls, CloseKey(c)
    PROVE  IInv'
<1>1. /\ GoesTo(c, "over") /\ call[c].at \in {"complete", "release", "unknown"}
      /\ key' = [key EXCEPT ![Key(c)] = KeyAfter(key[Key(c)], call[c].at)]
  BY MovesThere, TypeParts DEF IInv, CloseKey, Place
<1>2. UNCHANGED <<wf, mapped, meta, launched, work, ran, resume, retried>>
  BY DEF CloseKey
<1>3. \A old \in {"free", "started", "completed", "unknown"} :
         KeyAfter(old, call[c].at) \in {"free", "started", "completed", "unknown"}
  BY <1>1 DEF KeyAfter
<1>4. TypeOK'
  <2>1. key' \in [Agents \X Keys -> {"free", "started", "completed", "unknown"}]
    BY <1>1, <1>3, TypeParts DEF IInv
  <2> QED  BY <2>1, <1>1, <1>2, TypeParts DEF IInv, TypeOK, GoesTo, CallType, Place, How
<1>5. "over" \in Place  BY DEF Place
<1>6. Rest'
  BY <1>1, <1>2, <1>5, QuietMove DEF IInv, Rest
<1>7. KeysHeld'
  <2>1. \A e \in Calls : /\ Key(e)' = Key(e) /\ (Involved(e)' => Involved(e))
                         /\ call'[e].at \in Holder => e # c /\ call[e].at \in Holder
    BY <1>1, <1>2 DEF Key, Involved, GoesTo, Holder
  <2>2. call[c].at \in Holder  BY <1>1 DEF Holder
  <2>3. ASSUME NEW e \in Calls, KeyOf[e] # NoKey, Involved(e)'
        PROVE  key'[Key(e)] # "free" /\ (e # c => key'[Key(e)] = key[Key(e)])
    <3>1. CASE Key(e) # Key(c)
      BY <3>1, <2>1, <2>3, <1>1, TypeParts DEF IInv, KeysHeld
    <3>2. CASE Key(e) = Key(c)
      <4>1. KeyOf[c] # NoKey  BY <3>2, <2>3 DEF Key
      <4>2. e = c  BY <4>1, <3>2, <2>1, <2>2, <2>3 DEF IInv, KeysHeld
      <4>3. c \in work \/ c \in ran
        BY <4>2, <2>3, <1>1, <1>2 DEF Involved, GoesTo, Holder
      <4>4. call[c].at # "release"  BY <4>3 DEF IInv, BegunWorks
      <4>5. Key(c) \in Agents \X Keys
        BY <4>1, <1>1, KeyDomain DEF IInv
      <4>6. key'[Key(c)] \in {"completed", "unknown"}
        BY <4>4, <4>5, <1>1, TypeParts DEF IInv, KeyAfter
      <4> QED  BY <4>2, <4>6
    <3> QED  BY <3>1, <3>2
  <2>4. ASSUME NEW e \in Calls, KeyOf[e] # NoKey, call'[e].at \in Holder
        PROVE  /\ key'[Key(e)] = "started"
               /\ \A d \in Calls : Key(d) = Key(e) /\ Involved(d)' => d = e
    <3>1. e # c /\ call[e].at \in Holder /\ Involved(e)'
      BY <2>4, <2>1 DEF Involved
    <3> QED  BY <3>1, <2>1, <2>3, <2>4 DEF IInv, KeysHeld
  <2> QED  BY <2>1, <2>3, <2>4 DEF KeysHeld
<1> QED  BY <1>4, <1>6, <1>7 DEF IInv, Rest

LEMMA ActKeeps ==
    ASSUME IInv, NEW c \in Calls, Act(c)
    PROVE  IInv'
<1>1. /\ c \in work /\ ran' = ran \cup {c}
      /\ UNCHANGED <<wf, mapped, meta, launched, call, work, key, resume, retried>>
  BY DEF Act
<1>2. TypeOK'
  BY <1>1, TypeParts DEF IInv, TypeOK
<1>3. (HoldsAgents /\ WorkIsOpen /\ Started /\ OwnChild /\ CompletedIsCurrent
         /\ RetriedIsOver /\ CurrentActs)'
  BY <1>1 DEF IInv, HoldsAgents, WorkIsOpen, Started, OwnChild, CompletedIsCurrent,
              RetriedIsOver, CurrentActs
<1>4. BegunWorks'
  BY <1>1 DEF IInv, BegunWorks
<1>5. NoEffectUnrecorded'
  BY <1>1 DEF IInv, NoEffectUnrecorded, WorkIsOpen
<1>6. RetryReplaysNothing'
  BY <1>1 DEF IInv, RetryReplaysNothing, RetriedIsOver
<1>7. \A d \in Calls :
         /\ (d \in ran' \cup work' \/ call'[d].at \in Holder)
               => Involved(d) /\ call'[d].by = call[d].by
         /\ call'[d].at \in Holder => call[d].at \in Holder
  BY <1>1 DEF Involved
<1>8. KeysHeld'
  BY <1>1, <1>7, KeysStay DEF IInv
<1>9. WorksOnce' /\ KeyRunsOnce'
  BY <1>1 DEF IInv, WorksOnce, KeyRunsOnce, Key
<1> QED  BY <1>2, <1>3, <1>4, <1>5, <1>6, <1>8, <1>9 DEF IInv

\* Call c is over, and its intent closed as what is known of it allows.
LEMMA CloseRest ==
    ASSUME IInv, NEW c \in Calls, NEW p \in {"over", "complete", "release", "unknown"},
           GoesTo(c, p), call[c].at # "idle", Closes(wf, wf', c),
           wf'.safety # "unknown" => \/ wf'.pending = wf.pending
                                     \/ c \notin work /\ (c \in ran => c \in wf'.receipts),
           p = "release" => c \notin work /\ c \notin ran,
           UNCHANGED <<mapped, meta, launched, work, ran, key, resume, retried>>
    PROVE  TypeOK' /\ Rest'
<1>1. wf \in WfType /\ wf' \in WfType /\ SameOwner(wf, wf')
  BY TypeParts DEF IInv, Closes
<1>2. IsFiniteSet(wf'.pending) /\ Cardinality(wf'.pending) <= Cardinality(wf.pending)
  BY FS_Subset DEF Closes, IInv, WorkIsOpen
<1>3. TypeOK'
  <2>1. Cardinality(wf'.pending) \in Nat /\ Cardinality(wf.pending) \in Nat
    BY <1>2, FS_CardinalityType DEF IInv, WorkIsOpen
  <2>2. Cardinality(wf'.pending) <= MaxPending
    BY <2>1, <1>2, CallAssumption, TypeParts DEF IInv
  <2> QED  BY <2>2, <1>1, TypeParts DEF IInv, GoesTo, TypeOK, WfType, CallType, Place, How
<1>4. (HoldsAgents /\ OwnChild)'
  BY DEF IInv, HoldsAgents, OwnChild
<1>5. BegunWorks'
  BY DEF IInv, BegunWorks, GoesTo, Unbegun
<1>6. \A d \in Calls : call'[d].by = call[d].by /\ (call'[d].at # "idle" => call[d].at # "idle")
  BY DEF GoesTo
<1>7. WorkIsOpen'
  <2>1. wf'.safety # "unknown" => work' \subseteq wf'.pending
    BY DEF IInv, WorkIsOpen, Closes
  <2> QED  BY <2>1, <1>1, <1>2 DEF IInv, WorkIsOpen, Closes, SameOwner
<1>8. NoEffectUnrecorded'
  <2>1. wf'.safety # "unknown" => ran' \subseteq wf'.receipts \cup wf'.pending
    BY DEF IInv, NoEffectUnrecorded, Closes
  <2> QED  BY <2>1 DEF NoEffectUnrecorded, Closes
<1>9. (Started /\ RetryReplaysNothing /\ KeyRunsOnce /\ WorksOnce)'
  BY <1>6, TypeParts DEF IInv, Started, RetryReplaysNothing, KeyRunsOnce, WorksOnce, Key
<1>10. (CompletedIsCurrent /\ RetriedIsOver /\ CurrentActs)'
  BY <1>1, <1>6, TypeParts DEF IInv, CompletedIsCurrent, RetriedIsOver, CurrentActs, SameOwner
<1> QED  BY <1>3, <1>4, <1>5, <1>7, <1>8, <1>9, <1>10 DEF Rest

LEMMA CloseKeys ==
    ASSUME IInv, NEW c \in Calls, NEW p, GoesTo(c, p), p \in Holder => call[c].at \in Holder,
           UNCHANGED <<work, ran, key>>
    PROVE  KeysHeld'
<1>1. \A d \in Calls :
         /\ (d \in ran' \cup work' \/ call'[d].at \in Holder)
               => Involved(d) /\ call'[d].by = call[d].by
         /\ call'[d].at \in Holder => call[d].at \in Holder
  BY DEF Involved, GoesTo
<1> QED  BY <1>1, KeysStay DEF IInv

LEMMA CancelClosesKeeps ==
    ASSUME IInv, NEW c \in Calls, CancelCloses(c)
    PROVE  IInv'
<1> DEFINE p == IF KeyOf[c] = NoKey THEN "over" ELSE "unknown"
<1>1. /\ GoesTo(c, p) /\ p \in {"over", "complete", "release", "unknown"}
      /\ p # "release" /\ call[c].at = "cancelling"
  BY EndsThere, TypeParts DEF IInv, CancelCloses, At, Place
<1> HIDE DEF p
<1>2. wf' \in {Abandoned(wf, c), wf}
      /\ UNCHANGED <<mapped, meta, launched, work, ran, key, resume, retried>>
  BY DEF CancelCloses, Written
<1>3. Closes(wf, wf', c) /\ (wf'.safety # "unknown" => wf'.pending = wf.pending)
  BY <1>2, AbandonedCloses, SameCloses, TypeParts DEF IInv, WorkIsOpen
<1>4. TypeOK' /\ Rest'
  BY <1>1, <1>2, <1>3, CloseRest
<1>5. KeysHeld'
  BY <1>1, <1>2, CloseKeys DEF Holder
<1> QED  BY <1>4, <1>5 DEF IInv, Rest

\* What is known of a returned call goes to the checkpoint, or a doubt, or nothing.
LEMMA SettleCloses ==
    ASSUME IInv, NEW c \in Calls, Settle(c)
    PROVE  /\ Closes(wf, wf', c)
           /\ c \notin work
           /\ wf'.safety # "unknown" =>
                 wf'.pending = wf.pending \/ (c \in ran => c \in wf'.receipts)
<1>1. c \notin work /\ (call[c].how \in Rejected \cup {"not_dispatched"} => c \notin ran)
  BY DEF Settle, At, IInv, BegunWorks
<1>2. \/ wf' \in {Settled(c), wf}
      \/ call[c].how \in Answers /\ wf' = Unknown(wf)
  BY DEF Settle, Written
<1>3. wf \in WfType /\ (wf.safety = "verified" => wf.pending = {})
  BY TypeParts DEF IInv, WorkIsOpen
<1>4. CASE wf' = wf
  BY <1>1, <1>3, <1>4, SameCloses
<1>5. CASE wf' = Unknown(wf)
  BY <1>1, <1>3, <1>5, UnknownCloses
<1>6. CASE wf' = Settled(c) /\ call[c].how \in Answers
  <2>1. wf' = Recorded(wf, c, call[c].how)  BY <1>6 DEF Settled
  <2> QED  BY <2>1, <1>1, <1>3, <1>6, RecordedCloses
<1>7. CASE wf' = Settled(c) /\ call[c].how = "refused"
  <2>1. wf' = Released(wf, c)  BY <1>7 DEF Settled, Answers
  <2> QED  BY <2>1, <1>1, <1>3, <1>7, ReleasedCloses DEF Rejected
<1>8. CASE wf' = Settled(c) /\ call[c].how \notin Answers /\ call[c].how # "refused"
  <2>1. wf' = Abandoned(wf, c)  BY <1>8 DEF Settled
  <2> QED  BY <2>1, <1>1, <1>3, AbandonedCloses
<1> QED  BY <1>2, <1>4, <1>5, <1>6, <1>7, <1>8

LEMMA SettleKeeps ==
    ASSUME IInv, NEW c \in Calls, Settle(c)
    PROVE  IInv'
<1> DEFINE v == CASE call[c].how \in Answers  -> "complete"
                  [] call[c].how \in Rejected -> "release"
                  [] OTHER                    -> "unknown"
           p == IF KeyOf[c] = NoKey THEN "over" ELSE v
<1>1. /\ v \in {"complete", "release", "unknown"} /\ call[c].at = "returned"
      /\ v = "release" => call[c].how \in Rejected
  BY DEF Settle, At, Answers, Rejected
<1>2. EndsWith(c, v)  BY DEF Settle
<1> HIDE DEF v
<1>3. /\ GoesTo(c, p) /\ p \in {"over", "complete", "release", "unknown"}
      /\ p = "release" => call[c].how \in Rejected
  BY <1>1, <1>2, EndsThere, TypeParts DEF IInv, Place
<1> HIDE DEF p
<1>4. call[c].how \in Rejected => c \notin ran
  BY <1>1 DEF IInv, BegunWorks
<1>5. UNCHANGED <<mapped, meta, launched, work, ran, key, resume, retried>>
  BY DEF Settle
<1>6. TypeOK' /\ Rest'
  BY <1>1, <1>3, <1>4, <1>5, SettleCloses, CloseRest
<1>7. KeysHeld'
  BY <1>1, <1>3, <1>5, CloseKeys DEF Holder
<1> QED  BY <1>6, <1>7 DEF IInv, Rest

LEMMA BeginKeeps ==
    ASSUME IInv, NEW c \in Calls, Begin(c)
    PROVE  IInv'
<1>1. call[c].at = "gate" /\ c \notin work /\ c \notin ran
  BY DEF Begin, At, IInv, BegunWorks, Unbegun
<1>2. UNCHANGED <<mapped, meta, launched, ran, key, resume, retried>>
  BY DEF Begin
<1>3. wf \in WfType /\ (wf.safety = "verified" => wf.pending = {})
  BY TypeParts DEF IInv, WorkIsOpen
<1>4. CASE call[c].by \in mapped /\ MayBegin(wf, call[c].by) /\ HasRoom(wf)
  <2>1. /\ wf' = Opened(wf, c) /\ work' = work \cup {c} /\ Moves(c, "running")
        /\ wf.current = call[c].by /\ wf.state = "running" /\ wf.safety # "unknown"
        /\ Cardinality(wf.pending) < MaxPending
    BY <1>4 DEF Begin, MayBegin, HasRoom
  <2>2. GoesTo(c, "running")
    BY <2>1, MovesThere, TypeParts DEF IInv, Place
  <2>3. /\ wf' \in WfType /\ SameOwner(wf, wf') /\ wf'.pending = wf.pending \cup {c}
        /\ wf'.receipts = wf.receipts /\ wf'.safety = "pending"
    BY <2>1, <1>3 DEF Opened, WfType, SameOwner
  <2>4. IsFiniteSet(wf'.pending) /\ Cardinality(wf'.pending) <= MaxPending
    <3>1. IsFiniteSet(wf.pending) /\ Cardinality(wf.pending) \in Nat
      BY FS_CardinalityType DEF IInv, WorkIsOpen
    <3>2. /\ IsFiniteSet(wf'.pending)
          /\ \/ Cardinality(wf'.pending) = Cardinality(wf.pending)
             \/ Cardinality(wf'.pending) = Cardinality(wf.pending) + 1
      BY <3>1, <2>3, FS_AddElement
    <3> QED  BY <3>1, <3>2, <2>1, CallAssumption
  <2>5. TypeOK'
    BY <1>2, <2>1, <2>2, <2>3, <2>4, TypeParts
    DEF IInv, TypeOK, WfType, GoesTo, CallType, Place, How
  <2>6. (HoldsAgents /\ OwnChild /\ CompletedIsCurrent)'
    BY <1>2, <2>1, <2>3
    DEF IInv, HoldsAgents, OwnChild, CompletedIsCurrent, SameOwner
  <2>7. BegunWorks'
    BY <1>2, <2>1, <2>2 DEF IInv, BegunWorks, GoesTo, Unbegun
  <2>8. WorkIsOpen' /\ NoEffectUnrecorded'
    BY <1>2, <2>1, <2>3, <2>4 DEF IInv, WorkIsOpen, NoEffectUnrecorded, SameOwner
  <2>9. \A d \in Calls : /\ call'[d].by = call[d].by
                         /\ call'[d].at # "idle" => call[d].at # "idle"
    BY <1>1, <2>2 DEF GoesTo
  <2>10. (Started /\ CurrentActs /\ RetryReplaysNothing /\ KeyRunsOnce)'
    BY <1>2, <2>1, <2>3, <2>9, TypeParts
    DEF IInv, Started, CurrentActs, RetryReplaysNothing, KeyRunsOnce, Key, SameOwner
  <2>11. RetriedIsOver'
    BY <1>2, <2>1, <2>3, <2>9, TypeParts DEF IInv, RetriedIsOver, SameOwner
  <2>12. WorksOnce'
    <3>1. \A d \in ran \cup work : (Key(c) = Key(d) /\ KeyOf[c] # NoKey) => d = c
      BY <1>1, TypeParts DEF IInv, KeysHeld, Involved, Holder
    <3>2. \A d \in Calls : Key(d)' = Key(d)
      BY <2>9 DEF Key
    <3>3. \A d \in Calls : Key(c) = Key(d) => KeyOf[c] = KeyOf[d]
      BY DEF Key
    <3>4. ran' \cup work' = ran \cup work \cup {c} /\ ran \cup work \subseteq Calls
      BY <1>2, <2>1, TypeParts DEF IInv
    <3> SUFFICES ASSUME NEW d \in ran \cup work \cup {c}, NEW e \in ran \cup work \cup {c},
                        Key(d) = Key(e), KeyOf[d] # NoKey
                 PROVE  d = e
      BY <3>2, <3>4 DEF WorksOnce
    <3>5. CASE d \in ran \cup work /\ e \in ran \cup work
      BY <3>5 DEF IInv, WorksOnce
    <3>6. CASE d = c /\ e \in ran \cup work
      BY <3>6, <3>1
    <3>7. CASE e = c /\ d \in ran \cup work
      BY <3>7, <3>1, <3>3, <3>4
    <3> QED  BY <3>5, <3>6, <3>7
  <2>13. \A d \in Calls :
           /\ (d \in ran' \cup work' \/ call'[d].at \in Holder)
                 => Involved(d) /\ call'[d].by = call[d].by
           /\ call'[d].at \in Holder => call[d].at \in Holder
    BY <1>1, <1>2, <2>1, <2>2 DEF Involved, GoesTo, Holder
  <2>14. KeysHeld'
    BY <1>2, <2>13, KeysStay DEF IInv
  <2> QED  BY <2>5, <2>6, <2>7, <2>8, <2>10, <2>11, <2>12, <2>14 DEF IInv
<1>5. CASE ~(call[c].by \in mapped /\ MayBegin(wf, call[c].by) /\ HasRoom(wf))
  <2> DEFINE p == IF KeyOf[c] = NoKey THEN "over" ELSE "release"
  <2>1. wf' \in {Unknown(wf), wf} /\ work' = work /\ EndsWith(c, "release")
    BY <1>5 DEF Begin
  <2>2. GoesTo(c, p) /\ p \in {"over", "complete", "release", "unknown"}
    BY <2>1, EndsThere, TypeParts DEF IInv, Place
  <2> HIDE DEF p
  <2>3. Closes(wf, wf', c) /\ (wf'.safety # "unknown" => wf'.pending = wf.pending)
    BY <2>1, <1>3, UnknownCloses, SameCloses
  <2>4. TypeOK' /\ Rest'
    BY <1>1, <1>2, <2>1, <2>2, <2>3, CloseRest
  <2>5. KeysHeld'
    BY <1>1, <1>2, <2>1, <2>2, CloseKeys DEF Holder
  <2> QED  BY <2>4, <2>5 DEF IInv, Rest
<1> QED  BY <1>4, <1>5

LEMMA ToolEndsKeeps ==
    ASSUME IInv, NEW c \in Calls, NEW how \in Answers \cup Rejected \cup {"raised"},
           ToolEnds(c, how)
    PROVE  IInv'
<1>1. /\ c \in work /\ work' = work \ {c}
      /\ how \in Rejected \cup {"not_dispatched"} => c \notin ran
      /\ UNCHANGED <<wf, mapped, meta, launched, ran, key, resume, retried>>
  BY DEF ToolEnds
<1>2. /\ call' \in [Calls -> CallType] /\ \A d \in Calls : d # c => call'[d] = call[d]
      /\ call'[c].by = call[c].by
      /\ \/ call'[c] = call[c] /\ call[c].at # "running"
         \/ call[c].at = "running" /\ call'[c].at = "returned" /\ call'[c].how = how
  BY TypeParts DEF IInv, ToolEnds, At, CallType, Place, How
<1>3. TypeOK'
  BY <1>1, <1>2, TypeParts DEF IInv, TypeOK, CallType, Place, How
<1>4. (HoldsAgents /\ WorkIsOpen /\ OwnChild /\ CompletedIsCurrent /\ NoEffectUnrecorded)'
  BY <1>1 DEF IInv, HoldsAgents, WorkIsOpen, OwnChild, CompletedIsCurrent, NoEffectUnrecorded
<1>5. BegunWorks'
  BY <1>1, <1>2 DEF IInv, BegunWorks, Unbegun
<1>6. \A d \in Calls : call'[d].by = call[d].by /\ (call'[d].at # "idle" => call[d].at # "idle")
  BY <1>2
<1>7. (Started /\ RetriedIsOver /\ CurrentActs /\ RetryReplaysNothing)'
  BY <1>1, <1>6, TypeParts
  DEF IInv, Started, RetriedIsOver, CurrentActs, RetryReplaysNothing
<1>8. WorksOnce' /\ KeyRunsOnce'
  BY <1>1, <1>6, TypeParts DEF IInv, WorksOnce, KeyRunsOnce, Key
<1>9. \A d \in Calls :
         /\ (d \in ran' \cup work' \/ call'[d].at \in Holder)
               => Involved(d) /\ call'[d].by = call[d].by
         /\ call'[d].at \in Holder => call[d].at \in Holder
  BY <1>1, <1>2 DEF Involved, Holder
<1>10. KeysHeld'
  BY <1>1, <1>9, KeysStay DEF IInv
<1> QED  BY <1>3, <1>4, <1>5, <1>7, <1>8, <1>10 DEF IInv
-----------------------------------------------------------------------------
(* The steps of the agents and of whoever resumes or retries them.         *)

LEMMA CallsStay ==
    ASSUME IInv, UNCHANGED <<call, work, ran, key>>
    PROVE  (BegunWorks /\ KeysHeld /\ WorksOnce /\ KeyRunsOnce)'
<1>1. \A d \in Calls : Key(d)' = Key(d) /\ (Involved(d)' <=> Involved(d))
  BY DEF Key, Involved
<1>2. KeysHeld'
  BY <1>1 DEF IInv, KeysHeld
<1> QED  BY <1>2 DEF IInv, BegunWorks, WorksOnce, KeyRunsOnce, Key

LEMMA AgentEndsKeeps ==
    ASSUME IInv, NEW a \in Agents, NEW status \in Ended, AgentEnds(a, status)
    PROVE  IInv'
<1>1. /\ meta[a] = "running" \/ (meta[a] = "starting" /\ status = "failed")
      /\ meta' = [meta EXCEPT ![a] = status]
      /\ UNCHANGED <<wf, mapped, launched, call, work, ran, key, resume, retried>>
  BY DEF AgentEnds
<1>2. meta \in [Agents -> MetaValues]  BY TypeParts DEF IInv
<1>3. meta'[a] = status /\ \A b \in Agents : b # a => meta'[b] = meta[b]
  BY <1>1, <1>2
<1>4. TypeOK'
  <2>1. meta' \in [Agents -> MetaValues]  BY <1>1, <1>2 DEF MetaValues
  <2> QED  BY <1>1, <2>1, TypeParts DEF IInv, TypeOK, MetaValues
<1>5. (HoldsAgents /\ WorkIsOpen /\ RetriedIsOver /\ NoEffectUnrecorded /\ CurrentActs
         /\ RetryReplaysNothing)'
  BY <1>1 DEF IInv, HoldsAgents, WorkIsOpen, RetriedIsOver, NoEffectUnrecorded, CurrentActs,
              RetryReplaysNothing
<1>6. Started'
  BY <1>1, <1>3 DEF IInv, Started, Ended
<1>7. OwnChild'
  <2> SUFFICES ASSUME NEW r \in Resumers, resume[r].at \in WithChild
               PROVE  /\ meta'[resume[r].child] \in {"starting", "failed"}
                      /\ resume[r].at = "rolling" => meta'[resume[r].child] = "failed"
    BY <1>1 DEF IInv, OwnChild
  <2>1. resume[r].child \in Agents  BY DEF IInv, HoldsAgents
  <2> QED  BY <1>1, <1>3, <2>1 DEF IInv, OwnChild
<1>8. CompletedIsCurrent'
  BY <1>1, <1>3, TypeParts DEF IInv, CompletedIsCurrent, WfType
<1> QED  BY <1>1, <1>4, <1>5, <1>6, <1>7, <1>8, CallsStay DEF IInv

LEMMA MarkTerminalKeeps ==
    ASSUME IInv, NEW a \in Agents, MarkTerminal(a)
    PROVE  IInv'
<1>1. /\ meta[a] \in Ended /\ wf' = Converged(wf, a, meta[a])
      /\ UNCHANGED <<mapped, meta, launched, call, work, ran, key, resume, retried>>
  BY DEF MarkTerminal
<1>2. wf \in WfType  BY TypeParts DEF IInv
<1>3. CASE wf.current # a \/ wf.terminal # "none"
  <2>1. wf' = wf  BY <1>1, <1>3 DEF Converged
  <2>2. IInv' = IInv
    BY <1>1, <2>1
    DEF IInv, TypeOK, HoldsAgents, BegunWorks, WorkIsOpen, Started, OwnChild,
        CompletedIsCurrent, RetriedIsOver, KeysHeld, WorksOnce, NoEffectUnrecorded,
        CurrentActs, RetryReplaysNothing, KeyRunsOnce, Involved, Key
  <2> QED  BY <2>2
<1>4. CASE wf.current = a /\ wf.terminal = "none"
  <2>1. /\ wf' \in WfType /\ wf'.terminal = meta[a] /\ wf'.current = a
        /\ wf'.pending = wf.pending /\ wf'.receipts = wf.receipts /\ wf'.safety = wf.safety
        /\ wf'.state = IF meta[a] = "completed" THEN "completed" ELSE "interrupted"
    BY <1>1, <1>2, <1>4 DEF Converged, WfType, Ended
  <2>2. TypeOK'
    BY <1>1, <2>1, TypeParts DEF IInv, TypeOK, WfType
  <2>3. (HoldsAgents /\ Started /\ OwnChild /\ RetryReplaysNothing)'
    BY <1>1 DEF IInv, HoldsAgents, Started, OwnChild, RetryReplaysNothing
  <2>4. (WorkIsOpen /\ NoEffectUnrecorded /\ CurrentActs /\ RetriedIsOver)'
    BY <1>1, <1>4, <2>1
    DEF IInv, WorkIsOpen, NoEffectUnrecorded, CurrentActs, RetriedIsOver
  <2>5. CompletedIsCurrent'
    BY <1>1, <2>1 DEF CompletedIsCurrent, Ended
  <2> QED  BY <1>1, <2>2, <2>3, <2>4, <2>5, CallsStay DEF IInv
<1> QED  BY <1>3, <1>4

LEMMA NativeActivityKeeps ==
    ASSUME IInv, NEW a \in Agents, NativeActivity(a)
    PROVE  IInv'
<1>1. /\ wf' = Unknown(wf)
      /\ UNCHANGED <<mapped, meta, launched, call, work, ran, key, resume, retried>>
  BY DEF NativeActivity
<1>2. wf \in WfType  BY TypeParts DEF IInv
<1>3. wf' \in WfType /\ SameOwner(wf, wf') /\ wf'.pending = wf.pending /\ wf'.safety = "unknown"
  BY <1>1, <1>2 DEF Unknown, WfType, SameOwner
<1>4. TypeOK'
  BY <1>1, <1>3, TypeParts DEF IInv, TypeOK, WfType
<1>5. (HoldsAgents /\ Started /\ OwnChild /\ RetryReplaysNothing)'
  BY <1>1 DEF IInv, HoldsAgents, Started, OwnChild, RetryReplaysNothing
<1>6. (WorkIsOpen /\ NoEffectUnrecorded /\ CurrentActs /\ RetriedIsOver
         /\ CompletedIsCurrent)'
  BY <1>1, <1>3 DEF IInv, WorkIsOpen, NoEffectUnrecorded, CurrentActs, RetriedIsOver,
                    CompletedIsCurrent, SameOwner
<1> QED  BY <1>1, <1>4, <1>5, <1>6, CallsStay DEF IInv

LEMMA RetryKeeps ==
    ASSUME IInv, NEW a \in Agents, Retry(a)
    PROVE  IInv'
<1>1. /\ a \in mapped /\ (meta[a] \in Ended => Converged(wf, a, meta[a]) = wf)
      /\ wf.safety = "verified" /\ wf.receipts = {} /\ wf.pending = {}
      /\ UNCHANGED <<wf, mapped, meta, launched, call, work, ran, key, resume>>
      /\ retried' = IF meta[a] \in Ended THEN retried \cup {a} ELSE retried
  BY DEF Retry
<1>2. TypeOK'
  BY <1>1, TypeParts DEF IInv, TypeOK
<1>3. (HoldsAgents /\ WorkIsOpen /\ CompletedIsCurrent /\ NoEffectUnrecorded /\ CurrentActs)'
  BY <1>1 DEF IInv, HoldsAgents, WorkIsOpen, CompletedIsCurrent, NoEffectUnrecorded,
              CurrentActs
<1>4. Started'
  BY <1>1 DEF IInv, Started, Ended
<1>5. OwnChild'
  BY <1>1 DEF IInv, OwnChild
<1>6. work = {} /\ ran = {}
  BY <1>1 DEF IInv, WorkIsOpen, NoEffectUnrecorded
<1>7. RetryReplaysNothing'
  BY <1>1, <1>6 DEF RetryReplaysNothing
<1>8. meta[a] \in Ended => ~(wf.current = a /\ wf.state = "running")
  <2> SUFFICES ASSUME meta[a] \in Ended, wf.current = a, wf.state = "running"
               PROVE  FALSE
    OBVIOUS
  <2>1. wf.terminal = "none" /\ wf \in WfType
    BY TypeParts DEF IInv, WorkIsOpen
  <2>2. Converged(wf, a, meta[a]).terminal = meta[a]
    BY <2>1 DEF Converged, WfType
  <2> QED  BY <1>1, <2>1, <2>2 DEF Ended
<1>9. RetriedIsOver'
  BY <1>1, <1>6, <1>8 DEF IInv, RetriedIsOver
<1> QED  BY <1>1, <1>2, <1>3, <1>4, <1>5, <1>7, <1>9, CallsStay DEF IInv

LEMMA PrepareResumeKeeps ==
    ASSUME IInv, NEW r \in Resumers, NEW a \in Agents, PrepareResume(r, a)
    PROVE  IInv'
<1>1. /\ MayResume(wf, a) /\ wf.gen < MaxResumes /\ wf' = Prepared(wf)
      /\ resume' = [resume EXCEPT ![r] = [at |-> "prepared", parent |-> a,
                                          child |-> NoAgent, gen |-> wf.gen + 1]]
      /\ UNCHANGED <<mapped, meta, launched, call, work, ran, key, retried>>
  BY DEF PrepareResume
<1>2. wf \in WfType /\ resume \in [Resumers -> ResumeType]  BY TypeParts DEF IInv
<1>3. wf.gen + 1 \in 0 .. MaxResumes
  BY <1>1, <1>2, CallAssumption DEF WfType
<1>4. /\ resume' \in [Resumers -> ResumeType]
      /\ resume'[r].at = "prepared" /\ resume'[r].parent = a /\ resume'[r].child = NoAgent
      /\ \A q \in Resumers : q # r => resume'[q] = resume[q]
  BY <1>1, <1>2, <1>3 DEF ResumeType, Plan
<1>5. /\ wf' \in WfType /\ wf'.state = "resuming" /\ wf'.current = wf.current
      /\ wf'.pending = wf.pending /\ wf'.receipts = wf.receipts /\ wf'.safety = wf.safety
  BY <1>1, <1>2, <1>3 DEF Prepared, WfType
<1>6. TypeOK'
  BY <1>1, <1>4, <1>5, TypeParts DEF IInv, TypeOK, WfType, ResumeType, Plan
<1>7. HoldsAgents' /\ OwnChild'
  BY <1>1, <1>4 DEF IInv, HoldsAgents, OwnChild, WithChild
<1>8. (Started /\ RetryReplaysNothing)'
  BY <1>1 DEF IInv, Started, RetryReplaysNothing
<1>9. work = {}
  BY <1>1 DEF IInv, WorkIsOpen, MayResume
<1>10. (WorkIsOpen /\ NoEffectUnrecorded /\ CurrentActs /\ RetriedIsOver
         /\ CompletedIsCurrent)'
  BY <1>1, <1>5, <1>9 DEF IInv, WorkIsOpen, NoEffectUnrecorded, CurrentActs, RetriedIsOver,
                          CompletedIsCurrent
<1> QED  BY <1>1, <1>6, <1>7, <1>8, <1>10, CallsStay DEF IInv

LEMMA RecordChildKeeps ==
    ASSUME IInv, NEW r \in Resumers, NEW a \in Agents, RecordChild(r, a)
    PROVE  IInv'
<1>1. /\ resume[r].at = "prepared" /\ meta[a] = "none"
      /\ meta' = [meta EXCEPT ![a] = "starting"]
      /\ resume' = [resume EXCEPT ![r] = [@ EXCEPT !.at = "recorded", !.child = a]]
      /\ UNCHANGED <<wf, mapped, launched, call, work, ran, key, retried>>
  BY DEF RecordChild
<1>2. /\ meta \in [Agents -> MetaValues] /\ resume \in [Resumers -> ResumeType]
      /\ wf.current \in Agents
  BY TypeParts DEF IInv, WfType
<1>3. /\ resume' \in [Resumers -> ResumeType]
      /\ resume'[r].at = "recorded" /\ resume'[r].parent = resume[r].parent
      /\ resume'[r].child = a /\ \A q \in Resumers : q # r => resume'[q] = resume[q]
  BY <1>1, <1>2 DEF ResumeType, Plan
<1>4. /\ meta' \in [Agents -> MetaValues] /\ meta'[a] = "starting"
      /\ \A b \in Agents : b # a => meta'[b] = meta[b]
  BY <1>1, <1>2 DEF MetaValues
<1>5. TypeOK'
  BY <1>1, <1>3, <1>4, TypeParts DEF IInv, TypeOK, ResumeType, Plan, MetaValues
<1>6. HoldsAgents'
  BY <1>1, <1>3 DEF IInv, HoldsAgents
<1>7. a \notin launched /\ a \notin mapped \cup retried
  BY <1>1 DEF IInv, Started
<1>8. \A q \in Resumers : resume[q].at \in WithChild =>
         resume[q].child \in Agents /\ resume[q].child # a
  BY <1>1 DEF IInv, HoldsAgents, OwnChild
<1>9. OwnChild'
  <2> SUFFICES ASSUME NEW q \in Resumers, resume'[q].at \in WithChild
               PROVE  /\ resume'[q].child \notin launched
                      /\ meta'[resume'[q].child] \in {"starting", "failed"}
                      /\ resume'[q].at = "rolling" => meta'[resume'[q].child] = "failed"
                      /\ resume'[q].at = "recorded" => resume'[q].child \notin mapped \cup retried
                      /\ resume'[q].at = "bound" => resume'[q].child \notin mapped \cup retried
                      /\ \A s \in Resumers :
                            (resume'[s].at \in WithChild /\ resume'[s].child = resume'[q].child)
                               => s = q
    BY <1>1 DEF OwnChild
  <2>1. CASE q = r
    BY <2>1, <1>3, <1>4, <1>7, <1>8
  <2>2. CASE q # r
    BY <2>2, <1>3, <1>4, <1>8 DEF IInv, OwnChild
  <2> QED  BY <2>1, <2>2
<1>10. Started'
  BY <1>1, <1>4, <1>7 DEF IInv, Started
<1>11. CompletedIsCurrent'
  BY <1>1, <1>2, <1>4 DEF IInv, CompletedIsCurrent
<1>12. (WorkIsOpen /\ NoEffectUnrecorded /\ CurrentActs /\ RetriedIsOver
          /\ RetryReplaysNothing)'
  BY <1>1 DEF IInv, WorkIsOpen, NoEffectUnrecorded, CurrentActs, RetriedIsOver,
              RetryReplaysNothing
<1> QED  BY <1>1, <1>5, <1>6, <1>9, <1>10, <1>11, <1>12, CallsStay DEF IInv

\* A resumer goes to p, which needs no agent of it or the same as before.
LEMMA GoesThere ==
    ASSUME TypeOK, NEW r \in Resumers, NEW p \in Plan, Goes(r, p)
    PROVE  /\ resume' \in [Resumers -> ResumeType] /\ resume'[r].at = p
           /\ p # "none" => /\ resume'[r].parent = resume[r].parent
                            /\ resume'[r].child = resume[r].child
                            /\ resume'[r].gen = resume[r].gen
           /\ \A q \in Resumers : q # r => resume'[q] = resume[q]
<1>1. resume \in [Resumers -> ResumeType]  BY TypeParts
<1>2. Idle \in ResumeType /\ Idle.at = "none"
  BY CallAssumption DEF Idle, ResumeType, Plan
<1>3. CASE p = "none"
  BY <1>1, <1>2, <1>3 DEF Goes
<1>4. CASE p # "none"
  BY <1>1, <1>4 DEF Goes, ResumeType
<1> QED  BY <1>3, <1>4

\* The new agent is taken away again before the checkpoint names it.
LEMMA RemovedKeeps ==
    ASSUME IInv, NEW r \in Resumers, resume[r].at \in {"prepared", "recorded"}, Removed(r),
           Goes(r, "aborting"),
           UNCHANGED <<wf, mapped, launched, call, work, ran, key, retried>>
    PROVE  IInv'
<1> DEFINE b == resume[r].child
<1>1. /\ resume' \in [Resumers -> ResumeType]
      /\ resume'[r].at = "aborting" /\ resume'[r].parent = resume[r].parent
      /\ \A q \in Resumers : q # r => resume'[q] = resume[q]
  BY GoesThere DEF IInv, Plan
<1>2. meta \in [Agents -> MetaValues] /\ wf.current \in Agents
  BY TypeParts DEF IInv, WfType
<1>3. /\ meta' \in [Agents -> MetaValues]
      /\ \A a \in Agents : a # b => meta'[a] = meta[a]
      /\ b \in Agents => meta'[b] = "removed"
  BY <1>2 DEF Removed, MetaValues
<1>4. b \in Agents => meta[b] \in {"starting", "failed"}
  <2>1. CASE resume[r].at = "prepared"
    BY <2>1 DEF IInv, HoldsAgents, NoAgent, Agents
  <2>2. CASE resume[r].at = "recorded"
    BY <2>2 DEF IInv, OwnChild, WithChild
  <2> QED  BY <2>1, <2>2
<1>5. \A q \in Resumers : q # r /\ resume[q].at \in WithChild =>
         resume[q].child \in Agents /\ resume[q].child # b
  <2>1. CASE resume[r].at = "prepared"
    BY <2>1 DEF IInv, HoldsAgents, NoAgent, Agents
  <2>2. CASE resume[r].at = "recorded"
    BY <2>2 DEF IInv, HoldsAgents, OwnChild, WithChild
  <2> QED  BY <2>1, <2>2
<1> HIDE DEF b
<1>6. TypeOK'
  BY <1>1, <1>3, TypeParts DEF IInv, TypeOK, ResumeType, Plan, MetaValues
<1>7. HoldsAgents'
  BY <1>1 DEF IInv, HoldsAgents, WithChild
<1>8. OwnChild'
  BY <1>1, <1>3, <1>5 DEF IInv, OwnChild, WithChild
<1>9. Started'
  BY <1>3 DEF IInv, Started
<1>10. CompletedIsCurrent'
  BY <1>2, <1>3, <1>4 DEF IInv, CompletedIsCurrent
<1>11. (WorkIsOpen /\ NoEffectUnrecorded /\ CurrentActs /\ RetriedIsOver
          /\ RetryReplaysNothing)'
  BY DEF IInv, WorkIsOpen, NoEffectUnrecorded, CurrentActs, RetriedIsOver,
         RetryReplaysNothing
<1> QED  BY <1>6, <1>7, <1>8, <1>9, <1>10, <1>11, CallsStay DEF IInv

LEMMA SpawnFailsKeeps ==
    ASSUME IInv, NEW r \in Resumers, SpawnFails(r)
    PROVE  IInv'
BY RemovedKeeps DEF SpawnFails

LEMMA BindResumedKeeps ==
    ASSUME IInv, NEW r \in Resumers, BindResumed(r)
    PROVE  IInv'
<1>1. CASE ~MayBind(wf, resume[r].gen)
  BY <1>1, RemovedKeeps DEF BindResumed
<1>2. CASE MayBind(wf, resume[r].gen)
  <2> DEFINE b == resume[r].child
  <2>1. /\ resume[r].at = "recorded" /\ wf.state = "resuming" /\ wf' = Bound(wf, b)
        /\ Goes(r, "bound")
        /\ UNCHANGED <<mapped, meta, launched, call, work, ran, key, retried>>
    BY <1>2 DEF BindResumed, MayBind
  <2>2. /\ b \in Agents /\ b \notin mapped \cup retried /\ b \notin launched
    BY <2>1 DEF IInv, HoldsAgents, OwnChild, WithChild
  <2>3. /\ resume' \in [Resumers -> ResumeType]
        /\ resume'[r].at = "bound" /\ resume'[r].parent = resume[r].parent
        /\ resume'[r].child = b /\ \A q \in Resumers : q # r => resume'[q] = resume[q]
    BY <2>1, GoesThere DEF IInv, Plan
  <2>4. wf \in WfType  BY TypeParts DEF IInv
  <2>5. /\ wf' \in WfType /\ wf'.state = "running" /\ wf'.current = b /\ wf'.terminal = "none"
        /\ wf'.pending = wf.pending /\ wf'.receipts = wf.receipts /\ wf'.safety = wf.safety
    <3>1. 0 \in 0 .. MaxResumes  BY CallAssumption
    <3> HIDE DEF b
    <3> QED  BY <2>1, <2>2, <2>4, <3>1 DEF Bound, WfType
  <2>6. work = {}  BY <2>1 DEF IInv, WorkIsOpen
  <2>7. TypeOK'
    BY <2>1, <2>3, <2>5, TypeParts DEF IInv, TypeOK, WfType, ResumeType, Plan
  <2>8. HoldsAgents' /\ OwnChild'
    <3>1. \A q \in Resumers : /\ resume'[q].child = resume[q].child
                              /\ resume'[q].parent = resume[q].parent
                              /\ resume'[q].at \in WithChild => resume[q].at \in WithChild
      BY <2>1, <2>3 DEF WithChild
    <3>2. HoldsAgents'
      BY <2>1, <2>2, <2>3 DEF IInv, HoldsAgents, WithChild
    <3>3. OwnChild'
      BY <2>1, <2>2, <2>3, <3>1 DEF IInv, OwnChild
    <3> QED  BY <3>2, <3>3
  <2>9. (Started /\ RetryReplaysNothing)'
    BY <2>1 DEF IInv, Started, RetryReplaysNothing
  <2>10. (WorkIsOpen /\ NoEffectUnrecorded /\ CurrentActs /\ RetriedIsOver
            /\ CompletedIsCurrent)'
    BY <2>1, <2>2, <2>5, <2>6 DEF IInv, WorkIsOpen, NoEffectUnrecorded, CurrentActs,
                                  RetriedIsOver, CompletedIsCurrent
  <2> QED  BY <2>1, <2>7, <2>8, <2>9, <2>10, CallsStay DEF IInv
<1> QED  BY <1>1, <1>2

LEMMA WriteMapKeeps ==
    ASSUME IInv, NEW r \in Resumers, WriteMap(r)
    PROVE  IInv'
<1> DEFINE b == resume[r].child
<1>1. /\ resume[r].at = "bound" /\ mapped' = mapped \cup {b}
      /\ UNCHANGED <<wf, meta, launched, call, work, ran, key, retried>>
  BY DEF WriteMap
<1>2. /\ resume' \in [Resumers -> ResumeType]
      /\ resume'[r].at = "mapped" /\ resume'[r].parent = resume[r].parent
      /\ resume'[r].child = b /\ \A q \in Resumers : q # r => resume'[q] = resume[q]
  BY GoesThere DEF IInv, WriteMap, Plan
<1>3. b \in Agents /\ meta[b] \in {"starting", "failed"}
  BY <1>1 DEF IInv, HoldsAgents, OwnChild, WithChild
<1>4. \A q \in Resumers : q # r /\ resume[q].at \in WithChild => resume[q].child # b
  BY <1>1 DEF IInv, OwnChild, WithChild
<1>5. TypeOK'
  BY <1>1, <1>2, <1>3, TypeParts DEF IInv, TypeOK, ResumeType, Plan
<1>6. HoldsAgents'
  BY <1>1, <1>2, <1>3 DEF IInv, HoldsAgents, WithChild
<1>7. OwnChild'
  <2>1. \A q \in Resumers : resume'[q].child = resume[q].child
    BY <1>2
  <2> SUFFICES ASSUME NEW q \in Resumers, resume'[q].at \in WithChild
               PROVE  /\ resume[q].child \notin launched
                      /\ meta[resume[q].child] \in {"starting", "failed"}
                      /\ resume'[q].at = "rolling" => meta[resume[q].child] = "failed"
                      /\ resume'[q].at \in {"recorded", "bound"} =>
                            resume[q].child \notin mapped' \cup retried
                      /\ \A s \in Resumers :
                            (resume'[s].at \in WithChild /\ resume[s].child = resume[q].child)
                               => s = q
    BY <1>1, <2>1 DEF OwnChild
  <2>2. \A s \in Resumers : resume'[s].at \in WithChild => resume[s].at \in WithChild
    BY <1>1, <1>2 DEF WithChild
  <2>3. CASE q = r
    BY <1>1, <1>2, <2>2, <2>3 DEF IInv, OwnChild
  <2>4. CASE q # r
    BY <1>1, <1>2, <1>4, <2>2, <2>4 DEF IInv, OwnChild
  <2> QED  BY <2>3, <2>4
<1>8. Started'
  BY <1>1, <1>3 DEF IInv, Started
<1>9. (WorkIsOpen /\ NoEffectUnrecorded /\ CurrentActs /\ RetriedIsOver
         /\ CompletedIsCurrent /\ RetryReplaysNothing)'
  BY <1>1 DEF IInv, WorkIsOpen, NoEffectUnrecorded, CurrentActs, RetriedIsOver,
              CompletedIsCurrent, RetryReplaysNothing
<1> QED  BY <1>1, <1>5, <1>6, <1>7, <1>8, <1>9, CallsStay DEF IInv

LEMMA LaunchKeeps ==
    ASSUME IInv, NEW r \in Resumers, Launch(r)
    PROVE  IInv'
<1> DEFINE b == resume[r].child
<1>1. /\ resume[r].at = "mapped" /\ Goes(r, "none")
      /\ meta' = [meta EXCEPT ![b] = IF @ = "starting" THEN "running" ELSE @]
      /\ launched' = IF meta[b] = "starting" THEN launched \cup {b} ELSE launched
      /\ UNCHANGED <<wf, mapped, call, work, ran, key, retried>>
  BY DEF Launch
<1>2. /\ resume' \in [Resumers -> ResumeType] /\ resume'[r].at = "none"
      /\ \A q \in Resumers : q # r => resume'[q] = resume[q]
  BY <1>1, GoesThere DEF IInv, Plan
<1>3. b \in Agents /\ meta[b] \in {"starting", "failed"}
  BY <1>1 DEF IInv, HoldsAgents, OwnChild, WithChild
<1>4. meta \in [Agents -> MetaValues] /\ wf.current \in Agents
  BY TypeParts DEF IInv, WfType
<1>5. /\ meta' \in [Agents -> MetaValues] /\ meta'[b] \in {"running", "failed"}
      /\ \A a \in Agents : a # b => meta'[a] = meta[a]
  BY <1>1, <1>3, <1>4 DEF MetaValues
<1>6. \A q \in Resumers : q # r /\ resume[q].at \in WithChild => resume[q].child # b
  BY <1>1 DEF IInv, OwnChild, WithChild
<1>7. \A q \in Resumers : resume[q].at \in WithChild => resume[q].child \in Agents
  BY DEF IInv, HoldsAgents
<1>8. launched \subseteq launched' /\ launched' \subseteq launched \cup {b}
  BY <1>1
<1> HIDE DEF b
<1>9. TypeOK'
  BY <1>1, <1>2, <1>3, <1>5, <1>8, TypeParts DEF IInv, TypeOK, ResumeType, Plan, MetaValues
<1>10. HoldsAgents'
  BY <1>1, <1>2 DEF IInv, HoldsAgents, WithChild
<1>11. OwnChild'
  <2> SUFFICES ASSUME NEW q \in Resumers, resume'[q].at \in WithChild
               PROVE  /\ resume'[q].child \notin launched'
                      /\ meta'[resume'[q].child] \in {"starting", "failed"}
                      /\ resume'[q].at = "rolling" => meta'[resume'[q].child] = "failed"
                      /\ resume'[q].at \in {"recorded", "bound"} =>
                            resume'[q].child \notin mapped \cup retried
                      /\ \A s \in Resumers :
                            (resume'[s].at \in WithChild /\ resume'[s].child = resume'[q].child)
                               => s = q
    BY <1>1 DEF OwnChild
  <2>1. \A s \in Resumers : resume'[s].at \in WithChild => s # r /\ resume'[s] = resume[s]
    BY <1>2 DEF WithChild
  <2> QED  BY <1>5, <1>6, <1>7, <1>8, <2>1 DEF IInv, OwnChild
<1>12. Started'
  BY <1>1, <1>5, <1>8 DEF IInv, Started
<1>13. CompletedIsCurrent'
  BY <1>1, <1>3, <1>4, <1>5 DEF IInv, CompletedIsCurrent
<1>14. (WorkIsOpen /\ NoEffectUnrecorded /\ CurrentActs /\ RetriedIsOver
          /\ RetryReplaysNothing)'
  BY <1>1 DEF IInv, WorkIsOpen, NoEffectUnrecorded, CurrentActs, RetriedIsOver,
              RetryReplaysNothing
<1> QED  BY <1>1, <1>9, <1>10, <1>11, <1>12, <1>13, <1>14, CallsStay DEF IInv

LEMMA LaunchFailsKeeps ==
    ASSUME IInv, NEW r \in Resumers, LaunchFails(r)
    PROVE  IInv'
<1> DEFINE b == resume[r].child
<1>1. /\ resume[r].at = "mapped" /\ Goes(r, "rolling")
      /\ meta' = [meta EXCEPT ![b] = IF @ = "starting" THEN "failed" ELSE @]
      /\ UNCHANGED <<wf, mapped, launched, call, work, ran, key, retried>>
  BY DEF LaunchFails
<1>2. /\ resume' \in [Resumers -> ResumeType]
      /\ resume'[r].at = "rolling" /\ resume'[r].parent = resume[r].parent
      /\ resume'[r].child = b /\ \A q \in Resumers : q # r => resume'[q] = resume[q]
  BY <1>1, GoesThere DEF IInv, Plan
<1>3. b \in Agents /\ meta[b] \in {"starting", "failed"}
  BY <1>1 DEF IInv, HoldsAgents, OwnChild, WithChild
<1>4. meta \in [Agents -> MetaValues] /\ wf.current \in Agents
  BY TypeParts DEF IInv, WfType
<1>5. /\ meta' \in [Agents -> MetaValues] /\ meta'[b] = "failed"
      /\ \A a \in Agents : a # b => meta'[a] = meta[a]
  BY <1>1, <1>3, <1>4 DEF MetaValues, Ended
<1>6. \A q \in Resumers : q # r /\ resume[q].at \in WithChild =>
         resume[q].child \in Agents /\ resume[q].child # b
  BY <1>1 DEF IInv, OwnChild, WithChild, HoldsAgents
<1>7. TypeOK'
  BY <1>1, <1>2, <1>5, TypeParts DEF IInv, TypeOK, ResumeType, Plan, MetaValues
<1>8. HoldsAgents'
  BY <1>1, <1>2, <1>3 DEF IInv, HoldsAgents, WithChild
<1>9. OwnChild'
  <2>1. \A q \in Resumers : /\ resume'[q].child = resume[q].child
                            /\ resume'[q].at \in WithChild => resume[q].at \in WithChild
    BY <1>1, <1>2 DEF WithChild
  <2> SUFFICES ASSUME NEW q \in Resumers, resume'[q].at \in WithChild
               PROVE  /\ resume[q].child \notin launched
                      /\ meta'[resume[q].child] \in {"starting", "failed"}
                      /\ resume'[q].at = "rolling" => meta'[resume[q].child] = "failed"
                      /\ resume'[q].at \in {"recorded", "bound"} =>
                            resume[q].child \notin mapped \cup retried
                      /\ \A s \in Resumers :
                            (resume'[s].at \in WithChild /\ resume[s].child = resume[q].child)
                               => s = q
    BY <1>1, <2>1 DEF OwnChild
  <2>2. CASE q = r
    BY <1>1, <1>2, <1>5, <2>1, <2>2 DEF IInv, OwnChild
  <2>3. CASE q # r
    BY <1>1, <1>2, <1>5, <1>6, <2>1, <2>3 DEF IInv, OwnChild
  <2> QED  BY <2>2, <2>3
<1> HIDE DEF b
<1>10. Started'
  BY <1>1, <1>5 DEF IInv, Started
<1>11. CompletedIsCurrent'
  BY <1>1, <1>3, <1>4, <1>5 DEF IInv, CompletedIsCurrent
<1>12. (WorkIsOpen /\ NoEffectUnrecorded /\ CurrentActs /\ RetriedIsOver
          /\ RetryReplaysNothing)'
  BY <1>1 DEF IInv, WorkIsOpen, NoEffectUnrecorded, CurrentActs, RetriedIsOver,
              RetryReplaysNothing
<1> QED  BY <1>1, <1>7, <1>8, <1>9, <1>10, <1>11, <1>12, CallsStay DEF IInv

LEMMA RollBackKeeps ==
    ASSUME IInv, NEW r \in Resumers, RollBack(r)
    PROVE  IInv'
<1> DEFINE b == resume[r].child
<1>1. /\ resume[r].at = "rolling" /\ Goes(r, "aborting")
      /\ wf' = RolledBack(wf, resume[r].parent, b)
      /\ mapped' = IF wf.current = b THEN mapped \ {b} ELSE mapped
      /\ UNCHANGED <<meta, launched, call, work, ran, key, retried>>
  BY DEF RollBack
<1>2. /\ resume' \in [Resumers -> ResumeType]
      /\ resume'[r].at = "aborting" /\ resume'[r].parent = resume[r].parent
      /\ \A q \in Resumers : q # r => resume'[q] = resume[q]
  BY <1>1, GoesThere DEF IInv, Plan
<1>3. b \in Agents /\ b \notin launched /\ meta[b] = "failed" /\ resume[r].parent \in Agents
  BY <1>1 DEF IInv, HoldsAgents, OwnChild, WithChild
<1>4. wf \in WfType  BY TypeParts DEF IInv
<1>5. wf.current = b => work = {}
  BY <1>3, TypeParts DEF IInv, CurrentActs, Started, BegunWorks, Unbegun
<1> HIDE DEF b
<1>6. /\ wf' \in WfType
      /\ wf'.pending = wf.pending /\ wf'.receipts = wf.receipts /\ wf'.safety = wf.safety
      /\ \/ wf' = wf
         \/ wf.current = b /\ wf'.state = "interrupted"
  BY <1>1, <1>3, <1>4 DEF RolledBack, WfType
<1>7. mapped' \subseteq mapped
  BY <1>1
<1>8. TypeOK'
  BY <1>1, <1>2, <1>6, <1>7, TypeParts DEF IInv, TypeOK, WfType, ResumeType, Plan
<1>9. HoldsAgents' /\ OwnChild'
  BY <1>1, <1>2, <1>7 DEF IInv, HoldsAgents, OwnChild, WithChild
<1>10. (Started /\ RetryReplaysNothing)'
  BY <1>1, <1>7 DEF IInv, Started, RetryReplaysNothing
<1>11. (WorkIsOpen /\ NoEffectUnrecorded /\ CurrentActs /\ RetriedIsOver
          /\ CompletedIsCurrent)'
  BY <1>1, <1>5, <1>6 DEF IInv, WorkIsOpen, NoEffectUnrecorded, CurrentActs,
                          RetriedIsOver, CompletedIsCurrent
<1> QED  BY <1>1, <1>8, <1>9, <1>10, <1>11, CallsStay DEF IInv

LEMMA AbortResumeKeeps ==
    ASSUME IInv, NEW r \in Resumers, AbortResume(r)
    PROVE  IInv'
<1>1. /\ Goes(r, "none") /\ wf' = Aborted(wf, resume[r].gen)
      /\ UNCHANGED <<mapped, meta, launched, call, work, ran, key, retried>>
  BY DEF AbortResume
<1>2. /\ resume' \in [Resumers -> ResumeType] /\ resume'[r].at = "none"
      /\ \A q \in Resumers : q # r => resume'[q] = resume[q]
  BY <1>1, GoesThere DEF IInv, Plan
<1>3. wf \in WfType /\ 0 \in 0 .. MaxResumes  BY CallAssumption, TypeParts DEF IInv
<1>4. /\ wf' \in WfType
      /\ wf'.pending = wf.pending /\ wf'.receipts = wf.receipts /\ wf'.safety = wf.safety
      /\ wf'.current = wf.current
      /\ wf' = wf \/ wf'.state = "interrupted"
  BY <1>1, <1>3 DEF Aborted, WfType
<1>5. TypeOK'
  BY <1>1, <1>2, <1>4, TypeParts DEF IInv, TypeOK, WfType, ResumeType, Plan
<1>6. HoldsAgents' /\ OwnChild'
  BY <1>1, <1>2 DEF IInv, HoldsAgents, OwnChild, WithChild
<1>7. (Started /\ RetryReplaysNothing)'
  BY <1>1 DEF IInv, Started, RetryReplaysNothing
<1>8. (WorkIsOpen /\ NoEffectUnrecorded /\ CurrentActs /\ RetriedIsOver
         /\ CompletedIsCurrent)'
  BY <1>1, <1>4 DEF IInv, WorkIsOpen, NoEffectUnrecorded, CurrentActs, RetriedIsOver,
                    CompletedIsCurrent
<1> QED  BY <1>1, <1>5, <1>6, <1>7, <1>8, CallsStay DEF IInv
-----------------------------------------------------------------------------
(* The invariant, and what follows from it.                                *)

LEMMA ServerDiesKeeps ==
    ASSUME IInv, ServerDies
    PROVE  IInv'
<1>1. /\ resume' = [r \in Resumers |-> Idle]
      /\ UNCHANGED <<wf, mapped, meta, launched, work, ran, key, retried>>
  BY DEF ServerDies
<1>2. /\ call' \in [Calls -> CallType]
      /\ \A c \in Calls : /\ call'[c].by = call[c].by
                          /\ \/ call[c].at = "idle" /\ call'[c].at = "idle"
                             \/ call[c].at # "idle" /\ call'[c].at = "over"
  BY TypeParts DEF IInv, ServerDies, CallType, Place, How
<1>3. resume' \in [Resumers -> ResumeType] /\ \A r \in Resumers : resume'[r].at = "none"
  BY <1>1, CallAssumption DEF Idle, ResumeType, Plan
<1>4. TypeOK'
  BY <1>1, <1>2, <1>3, TypeParts DEF IInv, TypeOK, CallType, Place, How, ResumeType, Plan
<1>5. HoldsAgents' /\ OwnChild'
  BY <1>3 DEF HoldsAgents, OwnChild, WithChild
<1>6. BegunWorks'
  BY <1>1, <1>2 DEF IInv, BegunWorks, Unbegun
<1>7. (WorkIsOpen /\ CompletedIsCurrent /\ NoEffectUnrecorded)'
  BY <1>1 DEF IInv, WorkIsOpen, CompletedIsCurrent, NoEffectUnrecorded
<1>8. (Started /\ RetriedIsOver /\ CurrentActs /\ RetryReplaysNothing)'
  BY <1>1, <1>2, TypeParts DEF IInv, Started, RetriedIsOver, CurrentActs, RetryReplaysNothing
<1>9. WorksOnce' /\ KeyRunsOnce'
  BY <1>1, <1>2, TypeParts DEF IInv, WorksOnce, KeyRunsOnce, Key
<1>10. \A d \in Calls :
          /\ (d \in ran' \cup work' \/ call'[d].at \in Holder)
                => Involved(d) /\ call'[d].by = call[d].by
          /\ call'[d].at \in Holder => call[d].at \in Holder
  BY <1>1, <1>2 DEF Involved, Holder
<1>11. KeysHeld'
  BY <1>1, <1>10, KeysStay DEF IInv
<1> QED  BY <1>4, <1>5, <1>6, <1>7, <1>8, <1>9, <1>11 DEF IInv

LEMMA InitHolds == Init => IInv
<1> SUFFICES ASSUME Init PROVE IInv
  OBVIOUS
<1>1. 1 \in Agents /\ 0 \in 0 .. MaxResumes
  BY CallAssumption DEF Agents
<1>2. IsFiniteSet({}) /\ Cardinality({}) = 0
  BY FS_EmptySet
<1>3. TypeOK
  <2>1. wf \in WfType  BY <1>1 DEF Init, WfType
  <2>2. Cardinality(wf.pending) <= MaxPending
    BY <1>2, CallAssumption DEF Init
  <2>3. call \in [Calls -> CallType]
    BY DEF Init, CallType, Place, How
  <2>4. resume \in [Resumers -> ResumeType]
    BY <1>1 DEF Init, Idle, ResumeType, Plan
  <2>5. meta \in [Agents -> MetaValues]
    BY DEF Init, MetaValues
  <2>6. mapped \in SUBSET Agents /\ launched \in SUBSET Agents /\ retried \in SUBSET Agents
    BY <1>1 DEF Init
  <2> QED  BY <2>1, <2>2, <2>3, <2>4, <2>5, <2>6, TypeParts DEF Init
<1>4. HoldsAgents /\ OwnChild
  BY DEF Init, Idle, HoldsAgents, OwnChild, WithChild
<1>5. BegunWorks /\ WorksOnce /\ KeyRunsOnce /\ CurrentActs /\ RetryReplaysNothing
  BY DEF Init, BegunWorks, WorksOnce, KeyRunsOnce, CurrentActs, RetryReplaysNothing
<1>6. WorkIsOpen /\ CompletedIsCurrent /\ RetriedIsOver /\ NoEffectUnrecorded
  BY <1>2 DEF Init, WorkIsOpen, CompletedIsCurrent, RetriedIsOver, NoEffectUnrecorded
<1>7. Started
  BY DEF Init, Started
<1>8. KeysHeld
  BY DEF Init, KeysHeld, Involved, Holder
<1> QED  BY <1>3, <1>4, <1>5, <1>6, <1>7, <1>8 DEF IInv

LEMMA StepKeeps == IInv /\ [Next]_vars => IInv'
<1> SUFFICES ASSUME IInv, [Next]_vars PROVE IInv'
  OBVIOUS
<1>1. ASSUME NEW c \in Calls, \E a \in Agents : Send(c, a) PROVE IInv'
  BY <1>1, SendKeeps
<1>2. ASSUME NEW c \in Calls, Claim(c) PROVE IInv'
  BY <1>2, ClaimKeeps
<1>3. ASSUME NEW c \in Calls, Deny(c) PROVE IInv'
  BY <1>3, DenyKeeps
<1>4. ASSUME NEW c \in Calls, Begin(c) PROVE IInv'
  BY <1>4, BeginKeeps
<1>5. ASSUME NEW c \in Calls, Act(c) PROVE IInv'
  BY <1>5, ActKeeps
<1>6. ASSUME NEW c \in Calls,
             \E how \in Answers \cup Rejected \cup {"raised"} : ToolEnds(c, how)
      PROVE  IInv'
  BY <1>6, ToolEndsKeeps
<1>7. ASSUME NEW c \in Calls, Settle(c) PROVE IInv'
  BY <1>7, SettleKeeps
<1>8. ASSUME NEW c \in Calls, Cancel(c) PROVE IInv'
  BY <1>8, CancelKeeps
<1>9. ASSUME NEW c \in Calls, CancelCloses(c) PROVE IInv'
  BY <1>9, CancelClosesKeeps
<1>10. ASSUME NEW c \in Calls, CloseKey(c) PROVE IInv'
  BY <1>10, CloseKeyKeeps
<1>11. ASSUME NEW a \in Agents, \E status \in Ended : AgentEnds(a, status) PROVE IInv'
  BY <1>11, AgentEndsKeeps
<1>12. ASSUME NEW a \in Agents, MarkTerminal(a) PROVE IInv'
  BY <1>12, MarkTerminalKeeps
<1>13. ASSUME NEW a \in Agents, NativeActivity(a) PROVE IInv'
  BY <1>13, NativeActivityKeeps
<1>14. ASSUME NEW a \in Agents, Retry(a) PROVE IInv'
  BY <1>14, RetryKeeps
<1>15. ASSUME NEW r \in Resumers,
              \E a \in Agents : PrepareResume(r, a) \/ RecordChild(r, a)
       PROVE  IInv'
  BY <1>15, PrepareResumeKeeps, RecordChildKeeps
<1>16. ASSUME NEW r \in Resumers, SpawnFails(r) \/ BindResumed(r) \/ WriteMap(r) PROVE IInv'
  BY <1>16, SpawnFailsKeeps, BindResumedKeeps, WriteMapKeeps
<1>17. ASSUME NEW r \in Resumers, Launch(r) \/ LaunchFails(r) PROVE IInv'
  BY <1>17, LaunchKeeps, LaunchFailsKeeps
<1>18. ASSUME NEW r \in Resumers, RollBack(r) \/ AbortResume(r) PROVE IInv'
  BY <1>18, RollBackKeeps, AbortResumeKeeps
<1>19. CASE ServerDies
  BY <1>19, ServerDiesKeeps
<1>20. CASE UNCHANGED vars
  BY <1>20 DEF vars, IInv, TypeOK, HoldsAgents, BegunWorks, WorkIsOpen, Started, OwnChild,
     CompletedIsCurrent, RetriedIsOver, KeysHeld, WorksOnce, NoEffectUnrecorded,
     CurrentActs, RetryReplaysNothing, KeyRunsOnce, Involved, Key
<1> QED  BY <1>1, <1>2, <1>3, <1>4, <1>5, <1>6, <1>7, <1>8, <1>9, <1>10, <1>11, <1>12,
            <1>13, <1>14, <1>15, <1>16, <1>17, <1>18, <1>19, <1>20 DEF Next

LEMMA Invariant == Spec => []IInv
BY InitHolds, StepKeeps, PTL DEF Spec

\* Every variable keeps to its values, and no more than MAX_PENDING_EFFECTS intents are
\* open (workflow_checkpoints.begin_effect).
THEOREM TypeCorrect == Spec => []TypeOK
BY Invariant, PTL DEF IInv

\* A checkpoint that does not say "unknown" accounts for every change with a receipt or an
\* open intent, one that says "verified" with a receipt, whatever was cancelled, went on
\* in the background, crashed or could not be written (begin_effect, record_effect_result,
\* abandon_effect, release_effect).
THEOREM NoEffectUnrecordedHolds == Spec => []NoEffectUnrecorded
<1>1. IInv => NoEffectUnrecorded  BY DEF IInv
<1> QED  BY <1>1, Invariant, PTL

\* Whatever still works in the background belongs to the agent that has the workflow: a
\* resume is bound only with nothing open (prepare_resume, bind_resumed_agent).
THEOREM CurrentActsHolds == Spec => []CurrentActs
<1>1. IInv => CurrentActs  BY DEF IInv
<1> QED  BY <1>1, Invariant, PTL

\* An ended agent whose prompt was given to a new one has changed nothing and will not
\* (workflow_resume_from_start_safe, mark_terminal, the state check of begin_effect).
THEOREM RetryReplaysNothingHolds == Spec => []RetryReplaysNothing
<1>1. IInv => RetryReplaysNothing  BY DEF IInv
<1> QED  BY <1>1, Invariant, PTL

\* Calls of one agent with the same key change something at most once between them
\* (IdempotencyStore: begin, complete, release, mark_unknown).
THEOREM KeyRunsOnceHolds == Spec => []KeyRunsOnce
<1>1. IInv => KeyRunsOnce  BY DEF IInv
<1> QED  BY <1>1, Invariant, PTL

\* What OutcomeStands says of one step.
Stands == /\ wf.safety = "unknown"  => wf'.safety = "unknown"
          /\ wf.state = "completed" => wf'.state = "completed"

LEMMA OutcomeStep == ASSUME IInv, [Next]_vars PROVE Stands
<1> USE DEF Stands
<1>0. wf \in WfType  BY TypeParts DEF IInv
<1>1. CASE wf' = wf
  BY <1>1
<1>2. ASSUME NEW c \in Calls, Begin(c) PROVE Stands
  <2>1. \/ wf' = Opened(wf, c) /\ wf.safety # "unknown"
        \/ wf' = Unknown(wf) \/ wf' = wf
    BY <1>2 DEF Begin, MayBegin
  <2> QED  BY <1>0, <2>1 DEF Opened, Unknown, WfType
<1>3. ASSUME NEW c \in Calls, Settle(c) PROVE Stands
  BY <1>3, SettleCloses DEF Closes, SameOwner
<1>4. ASSUME NEW c \in Calls, CancelCloses(c) PROVE Stands
  <2>1. wf' = Abandoned(wf, c) \/ wf' = wf
    BY <1>4 DEF CancelCloses, Written
  <2> QED  BY <1>0, <2>1, AbandonedCloses DEF Closes, SameOwner
<1>5. ASSUME NEW c \in Calls,
             \/ \E a \in Agents : Send(c, a)
             \/ Claim(c) \/ Deny(c) \/ Act(c) \/ Cancel(c) \/ CloseKey(c)
             \/ \E how \in Answers \cup Rejected \cup {"raised"} : ToolEnds(c, how)
      PROVE  Stands
  BY <1>1, <1>5 DEF Send, Claim, Deny, Act, Cancel, CloseKey, ToolEnds
<1>6. ASSUME NEW a \in Agents, MarkTerminal(a) PROVE Stands
  <2>1. wf' = Converged(wf, a, meta[a])
    BY <1>6 DEF MarkTerminal
  <2>2. wf.state = "completed" => wf' = wf
    BY <2>1 DEF Converged, IInv, CompletedIsCurrent
  <2>3. wf'.safety = wf.safety
    BY <1>0, <2>1 DEF Converged, WfType
  <2> QED  BY <2>2, <2>3
<1>7. ASSUME NEW a \in Agents, NativeActivity(a) PROVE Stands
  BY <1>0, <1>7 DEF NativeActivity, Unknown, WfType
<1>8. ASSUME NEW a \in Agents, (\E status \in Ended : AgentEnds(a, status)) \/ Retry(a)
      PROVE  Stands
  BY <1>1, <1>8 DEF AgentEnds, Retry
<1>9. ASSUME NEW r \in Resumers, NEW a \in Agents, PrepareResume(r, a) PROVE Stands
  BY <1>9 DEF PrepareResume, MayResume
<1>10. ASSUME NEW r \in Resumers, BindResumed(r) PROVE Stands
  <2>1. wf' = wf \/ (wf.state = "resuming" /\ wf' = Bound(wf, resume[r].child))
    BY <1>10 DEF BindResumed, MayBind
  <2> QED  BY <1>0, <2>1 DEF Bound, WfType
<1>11. ASSUME NEW r \in Resumers, RollBack(r) PROVE Stands
  <2>1. /\ wf' = RolledBack(wf, resume[r].parent, resume[r].child)
        /\ meta[resume[r].child] = "failed"
    BY <1>11 DEF RollBack, IInv, OwnChild, WithChild
  <2>2. wf.state = "completed" => wf' = wf
    BY <2>1 DEF RolledBack, IInv, CompletedIsCurrent
  <2>3. wf'.safety = wf.safety
    BY <1>0, <2>1 DEF RolledBack, WfType
  <2> QED  BY <2>2, <2>3
<1>12. ASSUME NEW r \in Resumers, AbortResume(r) PROVE Stands
  <2>1. \/ wf' = wf
        \/ wf.state = "resuming" /\ wf' = [wf EXCEPT !.state = "interrupted", !.token = 0,
                                                     !.before = "none"]
    BY <1>12 DEF AbortResume, Aborted, MayBind
  <2> QED  BY <1>0, <2>1 DEF WfType
<1>13. ASSUME NEW r \in Resumers,
              \/ \E a \in Agents : RecordChild(r, a)
              \/ SpawnFails(r) \/ WriteMap(r) \/ Launch(r) \/ LaunchFails(r)
       PROVE  Stands
  BY <1>1, <1>13 DEF RecordChild, SpawnFails, WriteMap, Launch, LaunchFails
<1>14. CASE ServerDies \/ UNCHANGED vars
  BY <1>1, <1>14 DEF ServerDies, vars
<1> HIDE DEF Stands
<1> QED  BY <1>2, <1>3, <1>4, <1>5, <1>6, <1>7, <1>8, <1>9, <1>10, <1>11, <1>12, <1>13,
            <1>14 DEF Next

\* A doubt about the outcome and a completed workflow stay, whichever result, release,
\* rollback or abort comes late (_effect_error, mark_terminal, rollback_bound_resume).
THEOREM OutcomeStandsHolds == Spec => OutcomeStands
<1>1. IInv /\ [Next]_vars => [Stands]_vars
  BY OutcomeStep
<1> QED
  BY <1>1, Invariant, PTL DEF Spec, OutcomeStands, Stands
=============================================================================
