------------------------------ MODULE Steering ------------------------------
(***************************************************************************)
(* The owner's instructions to a running conversation (steering.py), as    *)
(* the menu app submits them and the tool wrapper hands them over          *)
(* (observability.py).                                                     *)
(*                                                                         *)
(*   session  the sessions the manager knows, by conversation; each has a  *)
(*            life of its own and a public number (`life`)                 *)
(*   owners   _client_instruction_owners                                   *)
(*   call     the tool calls under way                                     *)
(*   sent     the instructions accepted, in order                          *)
(*   shown    how often a call's result or error carried each instruction  *)
(*   ended    instructions the recent rows report as ended or expired      *)
(*   lives    public session numbers given out                             *)
(*   boots    generations: lives of the server                             *)
(*                                                                         *)
(* Every method of the manager holds its lock and is one step.             *)
(***************************************************************************)
EXTENDS Naturals, FiniteSets, SequencesExt

CONSTANTS
    Conversation,      \* logical identities
    Transport,         \* those that are a transport session, which may disappear
    Call,              \* calls that may run at once
    MaxPending,        \* max_messages_per_session
    MaxKeys,           \* max_idempotency_keys_per_session
    MaxTombstones,     \* max_idempotency_tombstones_per_session
    MaxPresses,        \* bound: presses of Send, each with an id that is sent again on a retry
    MaxSent, MaxLives, MaxBoots  \* bounds: instructions accepted, sessions, boots

ASSUME LimitAssumption == /\ {MaxPending, MaxKeys, MaxTombstones} \subseteq Nat \ {0}
                          /\ MaxPending <= MaxKeys /\ MaxKeys <= MaxTombstones
                          /\ {MaxPresses, MaxSent, MaxLives, MaxBoots} \subseteq Nat
                          /\ Transport \subseteq Conversation

VARIABLES session, owners, call, sent, shown, ended, lives, boots
vars == <<session, owners, call, sent, shown, ended, lives, boots>>
-----------------------------------------------------------------------------
Message == 1..MaxSent
Key == 1..MaxPresses    \* client_instruction_id
Life == 1..MaxLives
NoSession == [life |-> 0]
Known == {k \in Conversation : session[k] # NoSession}
NewSession(n) == [life |-> n, state |-> "ready", pending |-> <<>>, awaiting |-> FALSE,
                  keys |-> <<>>, tombs |-> <<>>, active |-> {}, quiet |-> FALSE]
NoCall == [pc |-> "none"]

\* _LIFECYCLE_TRANSITIONS; any other change raises, which leaves the session half done.
Allowed ==
    [ready        |-> {"queued"},
     queued       |-> {"delivered", "failed"},
     failed       |-> {"queued", "delivered"},
     delivered    |-> {"acknowledged", "queued"},
     acknowledged |-> {"queued"},
     raised       |-> {}]
Moved(s, to) ==
    [s EXCEPT !.state = IF to = @ THEN @ ELSE IF to \in Allowed[@] THEN to ELSE "raised"]

\* Mutant: instructions that wait do not keep a session from being acknowledged.
AcknowledgedAll(s) == IF s.awaiting THEN Moved([s EXCEPT !.awaiting = FALSE], "acknowledged") ELSE s
\* _acknowledge_locked
Acknowledged(s) ==
    CASE ~s.awaiting -> s
      [] s.awaiting /\ s.pending # <<>> -> [s EXCEPT !.awaiting = FALSE]
      [] OTHER -> Moved([s EXCEPT !.awaiting = FALSE], "acknowledged")
Delivered(s) ==
    IF s.pending = <<>> THEN s
    ELSE Moved([s EXCEPT !.awaiting = TRUE, !.pending = <<>>], "delivered")

\* Mutant: a session that goes takes what it still held with it unsaid.
DroppedSilently(K) ==
    /\ session' = [k \in Conversation |-> IF k \in K THEN NoSession ELSE session[k]]
    /\ owners' = [i \in Key |-> IF \E k \in K \cap Known : owners[i] = session[k].life THEN 0 ELSE owners[i]]
    /\ UNCHANGED ended
\* _drop_key_locked
Dropped(K) ==
    /\ session' = [k \in Conversation |-> IF k \in K THEN NoSession ELSE session[k]]
    /\ owners' = [i \in Key |-> IF \E k \in K \cap Known : owners[i] = session[k].life THEN 0 ELSE owners[i]]
    /\ ended' = ended \cup UNION {ToSet(session[k].pending) : k \in K \cap Known}
Idle(k) == k \in Known /\ session[k].quiet
\* A method that begins with _prune_locked goes on when Prune has left no such session.
Pruned == \A k \in Conversation : ~Idle(k)
-----------------------------------------------------------------------------
(* The tool wrapper *)

\* What _ensure_identity_locked makes of a call of k: the session is there and was heard of.
Ensured(k) == IF k \in Known THEN session[k] ELSE NewSession(lives + 1)
MayEnsure(k) == k \in Known \/ lives < MaxLives
LivesAfter(k) == IF k \in Known THEN lives ELSE lives + 1
Count(M) == [m \in Message |-> shown[m] + (IF m \in M THEN 1 ELSE 0)]

\* prepare_call: what waits is handed over as the call's error, and the call does not run.
Prepare(c, k) ==
    /\ call[c] = NoCall /\ MayEnsure(k) /\ Pruned
    /\ LET s == Acknowledged(Ensured(k))
       IN  /\ session' = [session EXCEPT ![k] = Delivered(s)]
           /\ shown' = Count(ToSet(s.pending))
           /\ call' = IF s.pending = <<>> THEN [call EXCEPT ![c] = [pc |-> "prepared", of |-> k]] ELSE call
    /\ lives' = LivesAfter(k)
    /\ UNCHANGED <<owners, sent, ended, boots>>
\* A call that is denied after it was prepared.
Denied(c) ==
    /\ call[c].pc = "prepared" /\ call' = [call EXCEPT ![c] = NoCall]
    /\ UNCHANGED <<session, owners, sent, shown, ended, lives, boots>>
\* begin_call; the session may have expired in between.
BeginCall(c) ==
    /\ call[c].pc = "prepared" /\ MayEnsure(call[c].of) /\ Pruned
    /\ LET k == call[c].of
       IN  /\ session' = [session EXCEPT ![k] = [Ensured(k) EXCEPT !.active = @ \cup {c}]]
           /\ lives' = LivesAfter(k)
    /\ call' = [call EXCEPT ![c].pc = "running"]
    /\ UNCHANGED <<owners, sent, shown, ended, boots>>
\* What finish_call makes of the session of a call in any case.
Left(c, s) == [s EXCEPT !.active = @ \ {c}, !.quiet = FALSE]
\* finish_call(delivered=True): what was queued while the call ran rides along with its result.
Succeeds(c) ==
    /\ call[c].pc = "running" /\ call' = [call EXCEPT ![c] = NoCall]
    /\ LET k == call[c].of
       IN  IF k \in Known
           THEN /\ session' = [session EXCEPT ![k] = Delivered(Left(c, session[k]))]
                /\ shown' = Count(ToSet(session[k].pending))
           ELSE UNCHANGED <<session, shown>>
    /\ UNCHANGED <<owners, sent, ended, lives, boots>>
\* finish_call(delivered=False): the tool failed or was cancelled, and the instruction waits on.
Fails(c) ==
    /\ call[c].pc = "running" /\ call' = [call EXCEPT ![c] = NoCall]
    /\ LET k == call[c].of
           s == Left(c, session[k])
       IN  IF k \in Known
           THEN session' = [session EXCEPT ![k] =
                              IF s.pending = <<>> THEN s ELSE Moved(s, "failed")]
           ELSE UNCHANGED session
    /\ UNCHANGED <<owners, sent, shown, ended, lives, boots>>
-----------------------------------------------------------------------------
(* The menu app: enqueue *)

\* Mutant: a key that leaves the index is forgotten at once.
RememberedNoTombstone(s, i) ==
    LET keys == Append(s.keys, i)
    IN  [s EXCEPT !.keys = IF Len(keys) > MaxKeys THEN Tail(keys) ELSE keys]
\* _remember_idempotency_locked: the index, then the tombstones, each up to its limit.
Remembered(s, i) ==
    LET keys  == Append(s.keys, i)
        tombs == IF Len(keys) > MaxKeys THEN Append(s.tombs, Head(keys)) ELSE s.tombs
    IN  [s EXCEPT !.keys = IF Len(keys) > MaxKeys THEN Tail(keys) ELSE keys,
                  !.tombs = IF Len(tombs) > MaxTombstones THEN Tail(tombs) ELSE tombs]
Held(s) == ToSet(s.keys) \cup ToSet(s.tombs)

\* An instruction for the session with number `life`, under id i.  The menu app adds the generation
\* it knows, and a submission of another generation is refused: it is one of this boot.  Clients
\* that send no id have each submission queued, and are left out.
Enqueue(life, i) ==
    /\ Pruned /\ Len(sent) < MaxSent
    /\ i <= 1 + Cardinality({sent[m].id : m \in DOMAIN sent})  \* a retry, or the next press
    /\ \E k \in Known :
         /\ session[k].life = life
         /\ Len(session[k].pending) < MaxPending
         /\ owners[i] \in {0, life} /\ i \notin Held(session[k])
         /\ LET n == Len(sent) + 1
                s == Remembered(session[k], i)
                forgotten == Held(session[k]) \ Held(s)
            IN  /\ session' = [session EXCEPT ![k] = Moved([s EXCEPT !.pending = Append(@, n)], "queued")]
                /\ owners' = [j \in Key |-> CASE j \in forgotten /\ owners[j] = life -> 0
                                              [] j = i -> life
                                              [] OTHER -> owners[j]]
    /\ sent' = Append(sent, [life |-> life, id |-> i])
    /\ UNCHANGED <<call, shown, ended, lives, boots>>
-----------------------------------------------------------------------------
(* Time, transports, and the server *)

\* The retention time of a session passes without a call.
GoesQuiet(k) ==
    /\ k \in Known /\ session[k].active = {} /\ ~session[k].quiet
    /\ session' = [session EXCEPT ![k].quiet = TRUE]
    /\ UNCHANGED <<owners, call, sent, shown, ended, lives, boots>>
\* _prune_locked, which the menu, an instruction or a call sets off.
Prune ==
    /\ \E k \in Conversation : Idle(k)
    /\ Dropped({k \in Conversation : Idle(k)})
    /\ UNCHANGED <<call, sent, shown, lives, boots>>
\* _drop_transport_identity: the transport is gone, with calls under way or without.
TransportGone(k) ==
    /\ k \in Transport \cap Known
    /\ Dropped({k})
    /\ UNCHANGED <<call, sent, shown, lives, boots>>
\* Everything is in memory.  The instructions of the old generation end unreported.
Restart ==
    /\ boots < MaxBoots /\ boots' = boots + 1
    /\ session' = [k \in Conversation |-> NoSession] /\ owners' = [i \in Key |-> 0]
    /\ call' = [c \in Call |-> NoCall]
    /\ ended' = DOMAIN sent \ {m \in DOMAIN sent : shown[m] > 0}
    /\ UNCHANGED <<sent, shown, lives>>
-----------------------------------------------------------------------------
Init == /\ session = [k \in Conversation |-> NoSession] /\ owners = [i \in Key |-> 0]
        /\ call = [c \in Call |-> NoCall] /\ sent = <<>>
        /\ shown = [m \in Message |-> 0] /\ ended = {} /\ lives = 0 /\ boots = 0

Next == \/ \E c \in Call : \/ \E k \in Conversation : Prepare(c, k)
                           \/ Denied(c) \/ BeginCall(c) \/ Succeeds(c) \/ Fails(c)
        \/ \E life \in Life, i \in Key : Enqueue(life, i)
        \/ \E k \in Conversation : GoesQuiet(k) \/ TransportGone(k)
        \/ Prune \/ Restart

Spec == Init /\ [][Next]_vars
-----------------------------------------------------------------------------
\* Sessions, queues, owners and calls have their types.
TypeOK ==
    /\ \A k \in Known :
         LET s == session[k]
         IN  /\ s.life \in Life /\ s.state \in DOMAIN Allowed
             /\ s.pending \in Seq(Message) /\ s.awaiting \in BOOLEAN
             /\ s.keys \in Seq(Key) /\ Len(s.keys) <= MaxKeys
             /\ s.tombs \in Seq(Key) /\ Len(s.tombs) <= MaxTombstones
             /\ s.active \subseteq Call /\ s.quiet \in BOOLEAN
    /\ owners \in [Key -> {0} \cup Life]
    /\ \A c \in Call : call[c] = NoCall \/ call[c] \in [pc : {"prepared", "running"}, of : Conversation]
    /\ sent \in Seq([life : Life, id : Key])
    /\ shown \in [Message -> Nat] /\ ended \subseteq Message

Waiting == UNION {ToSet(session[k].pending) : k \in Known}

\* Every instruction that was accepted waits in a session, or was handed to a call exactly once, or is
\* reported as ended or went with its server: never two of these and never none, however calls of one conversation overlap,
\* fail, expire and lose their transport (steering.py:390-470, :506-640).
InstructionAccounted ==
    \A m \in DOMAIN sent :
        \/ m \in Waiting /\ shown[m] = 0 /\ m \notin ended
        \/ m \notin Waiting /\ shown[m] = 1 /\ m \notin ended
        \/ m \notin Waiting /\ shown[m] = 0 /\ m \in ended

\* What the menu shows is so: a session is queued or failed exactly while an instruction waits, and
\* delivered exactly while what was handed over is not acknowledged; no change is ever one that the
\* table of transitions would refuse half-way (steering.py:57-65, :302-346, :390-399).
LifecycleTrue ==
    \A k \in Known :
        LET s == session[k]
        IN  /\ s.state \in {"queued", "failed"} <=> s.pending # <<>>
            /\ s.state = "delivered" <=> s.pending = <<>> /\ s.awaiting

\* A press of Send is queued once: the same id is accepted again only after the index and the
\* tombstones of that session have both been filled by others since, and no two sessions that live
\* at once hold the same id (steering.py:608-655, :672-720).
AcceptedOnce ==
    /\ \A m, n \in DOMAIN sent : m < n /\ sent[m] = sent[n] =>
         Cardinality({l \in (m + 1)..(n - 1) : sent[l].life = sent[m].life})
             >= MaxKeys + MaxTombstones
    /\ \A j, k \in Known : j # k => Held(session[j]) \cap Held(session[k]) = {}
=============================================================================
