------------------------- MODULE ConversationsProofs -------------------------
(***************************************************************************)
(* Proofs about what running agents are told.                              *)
(*                                                                         *)
(* Steering, for any number of conversations, calls, presses and boots and *)
(* every limit: the state a session shows is true, every instruction is    *)
(* accounted for, and a press of Send is queued once.                      *)
(*                                                                         *)
(* TeamMessages, for every team and every limit: a message is shown to a   *)
(* member once and in order, and what a finished agent did not see reaches *)
(* the lead once.                                                          *)
(*                                                                         *)
(* Chat, for any number of messages, calls and agent processes: a message  *)
(* is given to an agent once and never goes missing, and every process     *)
(* that runs has one who will end it.                                      *)
(***************************************************************************)
EXTENDS Steering, TeamMessages, Chat, FiniteSetTheorems, SequenceTheorems, NaturalsInduction,
        WellFoundedInduction, TLAPS

States == {"ready", "queued", "failed", "delivered", "acknowledged"}
SessionRec == [life : Life, state : States, pending : Seq(Message), awaiting : BOOLEAN,
               keys : Seq(Key), tombs : Seq(Key), active : SUBSET Call, quiet : BOOLEAN]

\* What the menu shows of a session is so, and no change of state has raised.
True(s) == /\ s.state \in {"queued", "failed"} <=> s.pending # <<>>
           /\ s.state = "delivered" <=> s.pending = <<>> /\ s.awaiting
Fine(s) == s \in SessionRec /\ Len(s.keys) <= MaxKeys /\ Len(s.tombs) <= MaxTombstones /\ True(s)

\* What waits in a session.
Pend(k) == IF session[k] = NoSession THEN {} ELSE ToSet(session[k].pending)

Sessions == /\ session \in [Conversation -> SessionRec \cup {NoSession}]
            /\ \A k \in Conversation : session[k] # NoSession => Fine(session[k])
OwnersType == owners \in [Key -> {0} \cup Life]
CallsType  == call \in [Call -> [pc : {"prepared", "running"}, of : Conversation] \cup {NoCall}]
LivesType  == lives \in 0..MaxLives
SentType   == sent \in Seq([life : Life, id : Key]) /\ Len(sent) <= MaxSent
ShownType  == shown \in [Message -> Nat] /\ ended \subseteq DOMAIN sent
                /\ \A m \in Message : m > Len(sent) => shown[m] = 0
Types == Sessions /\ OwnersType /\ CallsType /\ LivesType /\ SentType /\ ShownType

\* Each instruction waits in at most one session; with that, InstructionAccounted is inductive.
Waits(m) == \E k \in Conversation : m \in Pend(k)
Apart == /\ \A k \in Conversation : Pend(k) \subseteq DOMAIN sent
         /\ \A j, k \in Conversation : j # k => Pend(j) \cap Pend(k) = {}
Accounted ==
    \A m \in DOMAIN sent :
        \/ Waits(m) /\ shown[m] = 0 /\ m \notin ended
        \/ ~Waits(m) /\ shown[m] = 1 /\ m \notin ended
        \/ ~Waits(m) /\ shown[m] = 0 /\ m \in ended

IInv == Types /\ Apart /\ Accounted

\* What the manager remembers of the ids it accepted: the life of a session is its own, an id it holds
\* is owned by that life, and of the instructions of that life it holds the latest, one place per
\* instruction, the index before the tombstones; what it has forgotten, both limits came after.
Numbered == /\ \A k \in Known : session[k].life <= lives
            /\ \A j, k \in Known : j # k => session[j].life # session[k].life
            /\ \A m \in DOMAIN sent : sent[m].life <= lives
Owned    == \A k \in Known : \A i \in Held(session[k]) : owners[i] = session[k].life
Since(m) == {l \in (m + 1)..Len(sent) : sent[l].life = sent[m].life}
Filled(s) == s.tombs # <<>> => Len(s.keys) = MaxKeys
\* What s knows of an id, a instructions of its life ago.
Knows(s, id, a) ==
    \/ a < Len(s.keys) /\ s.keys[Len(s.keys) - a] = id
    \/ /\ a >= Len(s.keys) /\ a < Len(s.keys) + Len(s.tombs)
       /\ s.tombs[Len(s.keys) + Len(s.tombs) - a] = id
    \/ a >= MaxKeys + MaxTombstones /\ Len(s.keys) = MaxKeys /\ Len(s.tombs) = MaxTombstones
Recalled == \A k \in Known :
    /\ Filled(session[k])
    /\ \A m \in DOMAIN sent : sent[m].life = session[k].life =>
         Knows(session[k], sent[m].id, Cardinality(Since(m)))
Spaced ==
    \A m, n \in DOMAIN sent : m < n /\ sent[m] = sent[n] =>
      Cardinality({l \in (m + 1)..(n - 1) : sent[l].life = sent[m].life}) >= MaxKeys + MaxTombstones
Remembers == Numbered /\ Owned /\ Recalled /\ Spaced
-----------------------------------------------------------------------------
(* Sequences *)

LEMMA ToSetAppend ==
    ASSUME NEW S, NEW s \in Seq(S), NEW x PROVE ToSet(Append(s, x)) = ToSet(s) \cup {x}
BY DEF ToSet
LEMMA ToSetEmpty == ToSet(<<>>) = {}
BY DEF ToSet
LEMMA ToSetIn == ASSUME NEW S, NEW s \in Seq(S) PROVE ToSet(s) \subseteq S
BY DEF ToSet
LEMMA TailIs ==
    ASSUME NEW S, NEW s \in Seq(S), s # <<>> PROVE Tail(s) \in Seq(S) /\ Len(Tail(s)) = Len(s) - 1
OBVIOUS
-----------------------------------------------------------------------------
(* Sessions *)

LEMMA NoSessionIs == NoSession \notin SessionRec
BY DEF NoSession, SessionRec, Life

LEMMA NewIs == ASSUME NEW n \in Life PROVE Fine(NewSession(n)) /\ NewSession(n).pending = <<>>
<1>1. NewSession(n) \in SessionRec
  BY DEF NewSession, SessionRec, States
<1>2. /\ Len(NewSession(n).keys) <= MaxKeys /\ Len(NewSession(n).tombs) <= MaxTombstones
      /\ NewSession(n).pending = <<>> /\ True(NewSession(n))
  BY LimitAssumption DEF NewSession, True
<1> QED
  BY <1>1, <1>2 DEF Fine

\* The changes of state that the methods make are all in the table.
LEMMA MovedIs ==
    ASSUME NEW s, s.state \in States, NEW to \in States,
           \/ to = "queued"
           \/ to \in {"delivered", "failed"} /\ s.state \in {"queued", "failed"}
           \/ to = "acknowledged" /\ s.state = "delivered"
    PROVE  Moved(s, to) = [s EXCEPT !.state = to]
<1>1. CASE s.state = to
  BY <1>1 DEF Moved
<1>2. CASE s.state = "ready" /\ to = "queued"
  BY <1>2 DEF Moved, Allowed
<1>3. CASE s.state = "queued" /\ to \in {"delivered", "failed"}
  BY <1>3 DEF Moved, Allowed
<1>4. CASE s.state = "failed" /\ to \in {"queued", "delivered"}
  BY <1>4 DEF Moved, Allowed
<1>5. CASE s.state = "delivered" /\ to \in {"acknowledged", "queued"}
  BY <1>5 DEF Moved, Allowed
<1>6. CASE s.state = "acknowledged" /\ to = "queued"
  BY <1>6 DEF Moved, Allowed
<1> QED
  BY <1>1, <1>2, <1>3, <1>4, <1>5, <1>6 DEF States

LEMMA AcknowledgedIs ==
    ASSUME NEW s, Fine(s)
    PROVE  Fine(Acknowledged(s)) /\ Acknowledged(s).pending = s.pending
<1>0. s \in SessionRec /\ s.state \in States
  BY DEF Fine, SessionRec
<1>1. CASE ~s.awaiting
  BY <1>1 DEF Acknowledged
<1>2. CASE s.awaiting /\ s.pending # <<>>
  BY <1>0, <1>2 DEF Acknowledged, Fine, True, SessionRec
<1>3. CASE s.awaiting /\ s.pending = <<>>
  <2> DEFINE t == [s EXCEPT !.awaiting = FALSE]
  <2>1. /\ t \in SessionRec /\ t.state = "delivered" /\ t.pending = <<>> /\ ~t.awaiting
        /\ t.keys = s.keys /\ t.tombs = s.tombs
    BY <1>0, <1>3 DEF Fine, True, SessionRec
  <2>2. Acknowledged(s) = Moved(t, "acknowledged")
    BY <1>3 DEF Acknowledged
  <2> HIDE DEF t
  <2>3. Moved(t, "acknowledged") = [t EXCEPT !.state = "acknowledged"]
    BY <2>1, MovedIs DEF States
  <2> QED
    BY <1>3, <2>1, <2>2, <2>3 DEF Fine, True, SessionRec, States
<1> QED
  BY <1>0, <1>1, <1>2, <1>3 DEF SessionRec

LEMMA DeliveredIs ==
    ASSUME NEW s, Fine(s)
    PROVE  Fine(Delivered(s)) /\ Delivered(s).pending = <<>>
<1>1. CASE s.pending = <<>>
  BY <1>1 DEF Delivered
<1>2. CASE s.pending # <<>>
  <2> DEFINE t == [s EXCEPT !.awaiting = TRUE, !.pending = <<>>]
  <2>1. /\ t \in SessionRec /\ t.state = s.state /\ t.pending = <<>> /\ t.awaiting
        /\ t.keys = s.keys /\ t.tombs = s.tombs
    <3>1. s \in SessionRec /\ <<>> \in Seq(Message)
      BY DEF Fine
    <3> QED
      BY <3>1 DEF SessionRec
  <2>2. t.state \in {"queued", "failed"} /\ t.state \in States /\ "delivered" \in States
    BY <1>2, <2>1 DEF Fine, True, SessionRec, States
  <2>3. Delivered(s) = Moved(t, "delivered")
    BY <1>2 DEF Delivered
  <2> HIDE DEF t
  <2>4. Moved(t, "delivered") = [t EXCEPT !.state = "delivered"]
    BY <2>2, MovedIs
  <2> QED
    BY <1>2, <2>1, <2>3, <2>4 DEF Fine, True, SessionRec, States
<1> QED
  BY <1>1, <1>2

LEMMA FailedIs ==
    ASSUME NEW s, Fine(s), s.pending # <<>>
    PROVE  Fine(Moved(s, "failed")) /\ Moved(s, "failed").pending = s.pending
<1>1. s \in SessionRec /\ s.state \in {"queued", "failed"}
  BY DEF Fine, True
<1>2. Moved(s, "failed") = [s EXCEPT !.state = "failed"]
  BY <1>1, MovedIs DEF States
<1> QED
  BY <1>1, <1>2 DEF Fine, True, SessionRec, States

\* A call comes to or leaves a session, which may have gone quiet meanwhile or not.
LEMMA TouchedIs ==
    ASSUME NEW s, Fine(s), NEW A \in SUBSET Call, NEW q \in BOOLEAN
    PROVE  /\ Fine([s EXCEPT !.active = A]) /\ [s EXCEPT !.active = A].pending = s.pending
           /\ Fine([s EXCEPT !.quiet = q]) /\ [s EXCEPT !.quiet = q].pending = s.pending
           /\ Fine([s EXCEPT !.active = A, !.quiet = q])
           /\ [s EXCEPT !.active = A, !.quiet = q].pending = s.pending
BY DEF Fine, True, SessionRec

LEMMA RememberedIs ==
    ASSUME NEW s, Fine(s), NEW i \in Key
    PROVE  Fine(Remembered(s, i)) /\ Remembered(s, i).pending = s.pending
<1> DEFINE keys  == Append(s.keys, i)
           tombs == IF Len(keys) > MaxKeys THEN Append(s.tombs, Head(keys)) ELSE s.tombs
           ks == IF Len(keys) > MaxKeys THEN Tail(keys) ELSE keys
           ts == IF Len(tombs) > MaxTombstones THEN Tail(tombs) ELSE tombs
<1>0. /\ s \in SessionRec /\ s.keys \in Seq(Key) /\ s.tombs \in Seq(Key)
      /\ Len(s.keys) <= MaxKeys /\ Len(s.tombs) <= MaxTombstones
  BY DEF Fine, SessionRec
<1>1. keys \in Seq(Key) /\ Len(keys) = Len(s.keys) + 1 /\ keys # <<>>
  BY <1>0
<1>2. Head(keys) \in Key
  BY <1>1
<1>3. tombs \in Seq(Key) /\ Len(tombs) <= MaxTombstones + 1
  <2> HIDE DEF keys
  <2> QED
    BY <1>0, <1>2, LimitAssumption
<1>4. ks \in Seq(Key) /\ Len(ks) <= MaxKeys
  <2> HIDE DEF keys
  <2> QED
    BY <1>0, <1>1, TailIs, LimitAssumption
<1>5. ts \in Seq(Key) /\ Len(ts) <= MaxTombstones
  <2>1. CASE Len(tombs) > MaxTombstones
    <3> HIDE DEF tombs
    <3>1. tombs # <<>>
      BY <2>1, LimitAssumption
    <3> QED
      BY <1>3, <2>1, <3>1, TailIs, LimitAssumption
  <2>2. CASE ~(Len(tombs) > MaxTombstones)
    <3> HIDE DEF tombs
    <3> QED
      BY <1>3, <2>2, LimitAssumption
  <2> QED
    BY <2>1, <2>2
<1>6. Remembered(s, i) = [s EXCEPT !.keys = ks, !.tombs = ts]
  BY DEF Remembered
<1> HIDE DEF ks, ts
<1> QED
  BY <1>0, <1>4, <1>5, <1>6 DEF Fine, True, SessionRec

LEMMA QueuedIs ==
    ASSUME NEW s, Fine(s), NEW n \in Message
    PROVE  LET t == Moved([s EXCEPT !.pending = Append(@, n)], "queued")
           IN  Fine(t) /\ t.pending = Append(s.pending, n)
<1> DEFINE t == [s EXCEPT !.pending = Append(@, n)]
<1>0. s \in SessionRec /\ s.pending \in Seq(Message)
  BY DEF Fine, SessionRec
<1>1. Append(s.pending, n) \in Seq(Message) /\ Append(s.pending, n) # <<>>
  BY <1>0
<1>2. /\ t \in SessionRec /\ t.state = s.state /\ t.pending = Append(s.pending, n)
      /\ t.keys = s.keys /\ t.tombs = s.tombs /\ t.state \in States
  BY <1>0, <1>1 DEF SessionRec
<1> HIDE DEF t
<1>3. "queued" \in States
  BY DEF States
<1>4. Moved(t, "queued") = [t EXCEPT !.state = "queued"]
  BY <1>2, <1>3, MovedIs
<1>5. Fine(Moved(t, "queued")) /\ Moved(t, "queued").pending = Append(s.pending, n)
  BY <1>1, <1>2, <1>4 DEF Fine, True, SessionRec, States
<1> QED
  BY <1>5 DEF t
-----------------------------------------------------------------------------
(* Steps *)

LEMMA SessionMoves ==
    ASSUME Sessions, NEW k \in Conversation, NEW r, Fine(r), session' = [session EXCEPT ![k] = r]
    PROVE  /\ Sessions' /\ Pend(k)' = ToSet(r.pending)
           /\ \A j \in Conversation : j # k => Pend(j)' = Pend(j)
<1>1. r \in SessionRec /\ r # NoSession
  BY NoSessionIs DEF Fine
<1> QED
  BY <1>1 DEF Sessions, Pend

LEMMA EnsuredIs ==
    ASSUME Sessions, LivesType, NEW k \in Conversation, MayEnsure(k)
    PROVE  /\ Fine(Ensured(k)) /\ ToSet(Ensured(k).pending) = Pend(k)
           /\ LivesAfter(k) \in 0..MaxLives
<1>1. CASE k \in Known
  BY <1>1 DEF Known, Ensured, LivesAfter, Sessions, LivesType, Pend
<1>2. CASE k \notin Known
  <2>1. lives + 1 \in Life /\ lives + 1 \in 0..MaxLives
    BY <1>2, LimitAssumption DEF MayEnsure, LivesType, Life
  <2>2. Ensured(k) = NewSession(lives + 1) /\ LivesAfter(k) = lives + 1 /\ Pend(k) = {}
    BY <1>2 DEF Known, Ensured, LivesAfter, Pend
  <2> QED
    BY <2>1, <2>2, NewIs, ToSetEmpty
<1> QED
  BY <1>1, <1>2

\* Nothing is queued, shown or ended.
LEMMA NothingMoves ==
    ASSUME IInv, UNCHANGED <<sent, shown, ended>>, \A k \in Conversation : Pend(k)' = Pend(k)
    PROVE  SentType' /\ ShownType' /\ Apart' /\ Accounted'
<1>1. SentType' /\ ShownType'
  BY DEF IInv, Types, SentType, ShownType
<1>2. \A m : Waits(m)' <=> Waits(m)
  BY DEF Waits
<1> QED
  BY <1>1, <1>2 DEF IInv, Apart, Accounted

\* What waits in one session is handed over.
LEMMA HandedOver ==
    ASSUME IInv, NEW k \in Conversation, UNCHANGED <<sent, ended>>,
           Pend(k)' = {}, \A j \in Conversation : j # k => Pend(j)' = Pend(j),
           shown' = Count(Pend(k))
    PROVE  SentType' /\ ShownType' /\ Apart' /\ Accounted'
<1>0. Pend(k) \subseteq DOMAIN sent /\ sent \in Seq([life : Life, id : Key]) /\ Len(sent) <= MaxSent
      /\ DOMAIN sent \subseteq Message
  BY LimitAssumption DEF IInv, Types, Apart, SentType, Message
<1>1. \A m \in Message : shown'[m] = IF m \in Pend(k) THEN shown[m] + 1 ELSE shown[m]
  BY DEF Count, IInv, Types, ShownType
<1>2. SentType' /\ ShownType'
  <2>1. SentType'
    BY DEF IInv, Types, SentType
  <2>2. shown' \in [Message -> Nat]
    BY DEF Count, IInv, Types, ShownType
  <2>3. \A m \in Message : m > Len(sent) => m \notin Pend(k)
    BY <1>0
  <2> QED
    BY <1>1, <2>1, <2>2, <2>3 DEF IInv, Types, ShownType
<1>3. Apart'
  BY DEF IInv, Apart
<1>4. \A m : Waits(m)' <=> Waits(m) /\ m \notin Pend(k)
  BY DEF IInv, Apart, Waits
<1>5. \A m \in Pend(k) : Waits(m)
  BY DEF Waits
<1>6. Accounted'
  <2> SUFFICES ASSUME NEW m \in DOMAIN sent
               PROVE  \/ Waits(m)' /\ shown'[m] = 0 /\ m \notin ended
                      \/ ~Waits(m)' /\ shown'[m] = 1 /\ m \notin ended
                      \/ ~Waits(m)' /\ shown'[m] = 0 /\ m \in ended
    BY DEF Accounted
  <2>1. m \in Message
    BY <1>0
  <2> QED
    BY <1>1, <1>4, <1>5, <2>1 DEF IInv, Accounted
<1> QED
  BY <1>2, <1>3, <1>6

\* Sessions go, and what waits in them is reported as ended.
LEMMA DroppedIs ==
    ASSUME IInv, NEW K \in SUBSET Conversation, Dropped(K), UNCHANGED <<sent, shown>>
    PROVE  Sessions' /\ OwnersType' /\ SentType' /\ ShownType' /\ Apart' /\ Accounted'
<1>0. /\ session' = [k \in Conversation |-> IF k \in K THEN NoSession ELSE session[k]]
      /\ ended' = ended \cup UNION {ToSet(session[k].pending) : k \in K \cap Known}
  BY DEF Dropped
<1>1. Sessions'
  BY <1>0 DEF IInv, Types, Sessions
<1>2. OwnersType'
  BY DEF Dropped, IInv, Types, OwnersType
<1>3. \A k \in Conversation : Pend(k)' = IF k \in K THEN {} ELSE Pend(k)
  BY <1>0 DEF Pend
<1>4. ended' = ended \cup UNION {Pend(k) : k \in K}
  BY <1>0 DEF Pend, Known
<1>5. SentType' /\ ShownType'
  BY <1>4 DEF IInv, Types, SentType, ShownType, Apart
<1>6. Apart'
  BY <1>3 DEF IInv, Apart
<1>7. \A m : Waits(m)' <=> Waits(m) /\ m \notin UNION {Pend(k) : k \in K}
  BY <1>3 DEF IInv, Apart, Waits
<1>8. \A m \in UNION {Pend(k) : k \in K} : Waits(m)
  BY DEF Waits
<1>9. Accounted'
  BY <1>4, <1>7, <1>8 DEF IInv, Accounted
<1> QED
  BY <1>1, <1>2, <1>5, <1>6, <1>9

LEMMA PrepareKeeps ==
    ASSUME IInv, NEW c \in Call, NEW k \in Conversation, Prepare(c, k)
    PROVE  IInv'
<1> DEFINE s == Acknowledged(Ensured(k))
<1>1. MayEnsure(k) /\ session' = [session EXCEPT ![k] = Delivered(s)]
      /\ shown' = Count(ToSet(s.pending)) /\ lives' = LivesAfter(k) /\ UNCHANGED <<owners, sent, ended>>
      /\ call' \in {[call EXCEPT ![c] = [pc |-> "prepared", of |-> k]], call}
  BY DEF Prepare
<1>2. Fine(Ensured(k)) /\ ToSet(Ensured(k).pending) = Pend(k) /\ LivesAfter(k) \in 0..MaxLives
  BY <1>1, EnsuredIs DEF IInv, Types
<1>3. Fine(s) /\ ToSet(s.pending) = Pend(k)
  BY <1>2, AcknowledgedIs
<1> HIDE DEF s
<1>4. Fine(Delivered(s)) /\ ToSet(Delivered(s).pending) = {}
  BY <1>3, DeliveredIs, ToSetEmpty
<1>5. Sessions' /\ Pend(k)' = {} /\ \A j \in Conversation : j # k => Pend(j)' = Pend(j)
  BY <1>1, <1>4, SessionMoves DEF IInv, Types
<1>6. SentType' /\ ShownType' /\ Apart' /\ Accounted'
  BY <1>1, <1>3, <1>5, HandedOver
<1>7. OwnersType' /\ CallsType' /\ LivesType'
  BY <1>1, <1>2 DEF IInv, Types, OwnersType, CallsType, LivesType
<1> QED
  BY <1>5, <1>6, <1>7 DEF IInv, Types

LEMMA DeniedKeeps == ASSUME IInv, NEW c \in Call, Denied(c) PROVE IInv'
<1>1. UNCHANGED <<session, owners, sent, shown, ended, lives>> /\ call' = [call EXCEPT ![c] = NoCall]
  BY DEF Denied
<1>2. Sessions' /\ OwnersType' /\ CallsType' /\ LivesType' /\ \A k \in Conversation : Pend(k)' = Pend(k)
  BY <1>1 DEF IInv, Types, Sessions, OwnersType, CallsType, LivesType, Pend
<1> QED
  BY <1>1, <1>2, NothingMoves DEF IInv, Types

LEMMA BeginCallKeeps == ASSUME IInv, NEW c \in Call, BeginCall(c) PROVE IInv'
<1> DEFINE k == call[c].of
           r == [Ensured(k) EXCEPT !.active = @ \cup {c}]
<1>1. /\ call[c].pc = "prepared" /\ MayEnsure(k) /\ session' = [session EXCEPT ![k] = r]
      /\ lives' = LivesAfter(k) /\ call' = [call EXCEPT ![c].pc = "running"]
      /\ UNCHANGED <<owners, sent, shown, ended>>
  BY DEF BeginCall
<1>2. call[c] \in [pc : {"prepared", "running"}, of : Conversation] /\ k \in Conversation
  BY <1>1 DEF IInv, Types, CallsType, NoCall
<1>3. Fine(Ensured(k)) /\ ToSet(Ensured(k).pending) = Pend(k) /\ LivesAfter(k) \in 0..MaxLives
  BY <1>1, <1>2, EnsuredIs DEF IInv, Types
<1>4. Ensured(k).active \cup {c} \in SUBSET Call
  BY <1>3 DEF Fine, SessionRec
<1>5. r = [Ensured(k) EXCEPT !.active = Ensured(k).active \cup {c}]
  BY <1>3 DEF Fine, SessionRec
<1>6. Fine(r) /\ ToSet(r.pending) = Pend(k)
  BY <1>3, <1>4, <1>5, TouchedIs
<1> HIDE DEF r
<1>7. Sessions' /\ \A j \in Conversation : Pend(j)' = Pend(j)
  BY <1>1, <1>2, <1>6, SessionMoves DEF IInv, Types
<1>8. OwnersType' /\ CallsType' /\ LivesType'
  BY <1>1, <1>2, <1>3 DEF IInv, Types, OwnersType, CallsType, LivesType
<1> QED
  BY <1>1, <1>7, <1>8, NothingMoves DEF IInv, Types

\* A call that ends leaves its session, if that is still known.
LEMMA LeftIs ==
    ASSUME Sessions, NEW c \in Call, NEW k \in Known
    PROVE  Fine(Left(c, session[k])) /\ Left(c, session[k]).pending = session[k].pending
<1>1. Fine(session[k]) /\ session[k].active \ {c} \in SUBSET Call
  BY DEF Sessions, Known, Fine, SessionRec
<1>2. Left(c, session[k])
        = [session[k] EXCEPT !.active = session[k].active \ {c}, !.quiet = FALSE]
  BY <1>1 DEF Fine, SessionRec, Left
<1> DEFINE A == session[k].active \ {c}
<1>3. A \in SUBSET Call /\ FALSE \in BOOLEAN
  BY <1>1
<1> HIDE DEF A
<1>4. /\ Fine([session[k] EXCEPT !.active = A, !.quiet = FALSE])
      /\ [session[k] EXCEPT !.active = A, !.quiet = FALSE].pending = session[k].pending
  BY <1>1, <1>3, TouchedIs
<1> QED
  BY <1>2, <1>4 DEF A

LEMMA SucceedsKeeps == ASSUME IInv, NEW c \in Call, Succeeds(c) PROVE IInv'
<1>1. call' = [call EXCEPT ![c] = NoCall] /\ UNCHANGED <<owners, sent, ended, lives>>
  BY DEF Succeeds
<1>2. OwnersType' /\ CallsType' /\ LivesType'
  BY <1>1 DEF IInv, Types, OwnersType, CallsType, LivesType
<1>3. CASE call[c].of \in Known
  <2> PICK k \in Known : k = call[c].of
    BY <1>3
  <2> DEFINE r == Left(c, session[k])
  <2>1. session' = [session EXCEPT ![k] = Delivered(r)] /\ shown' = Count(ToSet(session[k].pending))
    BY <1>3 DEF Succeeds
  <2>2. Fine(r)
    BY LeftIs DEF IInv, Types
  <2>3. ToSet(session[k].pending) = Pend(k) /\ k \in Conversation
    BY DEF Pend, Known
  <2> HIDE DEF r
  <2>4. Fine(Delivered(r)) /\ ToSet(Delivered(r).pending) = {}
    BY <2>2, DeliveredIs, ToSetEmpty
  <2>5. Sessions' /\ Pend(k)' = {} /\ \A j \in Conversation : j # k => Pend(j)' = Pend(j)
    BY <2>1, <2>3, <2>4, SessionMoves DEF IInv, Types
  <2>6. SentType' /\ ShownType' /\ Apart' /\ Accounted'
    BY <1>1, <2>1, <2>3, <2>5, HandedOver
  <2> QED
    BY <1>2, <2>5, <2>6 DEF IInv, Types
<1>4. CASE call[c].of \notin Known
  <2>1. UNCHANGED <<session, shown>>
    BY <1>4 DEF Succeeds
  <2>2. Sessions' /\ \A j \in Conversation : Pend(j)' = Pend(j)
    BY <2>1 DEF IInv, Types, Sessions, Pend
  <2> QED
    BY <1>1, <1>2, <2>1, <2>2, NothingMoves DEF IInv, Types
<1> QED
  BY <1>3, <1>4

LEMMA FailsKeeps == ASSUME IInv, NEW c \in Call, Fails(c) PROVE IInv'
<1>1. call' = [call EXCEPT ![c] = NoCall] /\ UNCHANGED <<owners, sent, shown, ended, lives>>
  BY DEF Fails
<1>2. OwnersType' /\ CallsType' /\ LivesType'
  BY <1>1 DEF IInv, Types, OwnersType, CallsType, LivesType
<1>3. Sessions' /\ \A j \in Conversation : Pend(j)' = Pend(j)
  <2>1. CASE call[c].of \in Known
    <3> PICK k \in Known : k = call[c].of
      BY <2>1
    <3> DEFINE r == Left(c, session[k])
               f == IF r.pending = <<>> THEN r ELSE Moved(r, "failed")
    <3>1. session' = [session EXCEPT ![k] = f]
      BY <2>1 DEF Fails
    <3>2. Fine(r) /\ r.pending = session[k].pending
      BY LeftIs DEF IInv, Types
    <3>3. ToSet(session[k].pending) = Pend(k) /\ k \in Conversation
      BY DEF Pend, Known
    <3>4. Fine(f) /\ f.pending = session[k].pending
      <4> HIDE DEF r
      <4> QED
        BY <3>2, FailedIs
    <3> HIDE DEF f
    <3> QED
      BY <3>1, <3>3, <3>4, SessionMoves DEF IInv, Types
  <2>2. CASE call[c].of \notin Known
    BY <2>2 DEF Fails, IInv, Types, Sessions, Pend
  <2> QED
    BY <2>1, <2>2
<1> QED
  BY <1>1, <1>2, <1>3, NothingMoves DEF IInv, Types

LEMMA EnqueueKeeps ==
    ASSUME IInv, NEW life \in Life, NEW i \in Key, Enqueue(life, i)
    PROVE  IInv'
<1> DEFINE n == Len(sent) + 1
<1> PICK k \in Known :
      LET q == Remembered(session[k], i)
          forgotten == Held(session[k]) \ Held(q)
      IN  /\ session' = [session EXCEPT ![k] = Moved([q EXCEPT !.pending = Append(@, n)], "queued")]
          /\ owners' = [j \in Key |-> CASE j \in forgotten /\ owners[j] = life -> 0
                                        [] j = i -> life
                                        [] OTHER -> owners[j]]
  BY DEF Enqueue
<1> DEFINE r == Remembered(session[k], i)
           t == Moved([r EXCEPT !.pending = Append(@, n)], "queued")
<1>1. /\ Len(sent) < MaxSent /\ sent' = Append(sent, [life |-> life, id |-> i])
      /\ UNCHANGED <<call, shown, ended, lives>>
  BY DEF Enqueue
<1>2. k \in Conversation /\ Fine(session[k]) /\ Pend(k) = ToSet(session[k].pending)
  BY DEF IInv, Types, Sessions, Known, Pend
<1>3. /\ sent \in Seq([life : Life, id : Key]) /\ [life |-> life, id |-> i] \in [life : Life, id : Key]
      /\ Len(sent) \in Nat /\ DOMAIN sent = 1..Len(sent)
  BY DEF IInv, Types, SentType
<1>4. /\ sent' \in Seq([life : Life, id : Key]) /\ Len(sent') = n /\ n <= MaxSent
      /\ DOMAIN sent' = DOMAIN sent \cup {n} /\ n \notin DOMAIN sent /\ n \in Message
  BY <1>1, <1>3, LimitAssumption DEF Message
<1>5. owners' \in [Key -> {0} \cup Life]
  BY DEF IInv, Types, OwnersType
<1> HIDE DEF n
<1>6. Fine(r) /\ r.pending = session[k].pending
  BY <1>2, RememberedIs
<1>7. Fine(t) /\ t.pending = Append(session[k].pending, n)
  <2> HIDE DEF r
  <2> QED
    BY <1>4, <1>6, QueuedIs
<1>8. session' = [session EXCEPT ![k] = t]
  OBVIOUS
<1> HIDE DEF t
<1>9. /\ Sessions' /\ Pend(k)' = Pend(k) \cup {n}
      /\ \A j \in Conversation : j # k => Pend(j)' = Pend(j)
  <2>1. Sessions' /\ Pend(k)' = ToSet(t.pending)
        /\ \A j \in Conversation : j # k => Pend(j)' = Pend(j)
    BY <1>2, <1>7, <1>8, SessionMoves DEF IInv, Types
  <2>2. session[k].pending \in Seq(Message)
    BY <1>2 DEF Fine, SessionRec
  <2>3. ToSet(t.pending) = Pend(k) \cup {n}
    BY <1>2, <1>7, <2>2, ToSetAppend
  <2> QED
    BY <2>1, <2>3
<1>10. SentType' /\ OwnersType' /\ CallsType' /\ LivesType'
  BY <1>1, <1>4, <1>5 DEF IInv, Types, SentType, OwnersType, CallsType, LivesType
<1>11. ShownType'
  BY <1>1, <1>3, <1>4, LimitAssumption DEF IInv, Types, ShownType, Message, n
<1>12. Apart'
  BY <1>4, <1>9 DEF IInv, Apart
<1>13. \A m : Waits(m)' <=> Waits(m) \/ m = n
  BY <1>2, <1>9 DEF Waits
<1>14. shown[n] = 0 /\ n \notin ended
  BY <1>3, <1>4 DEF IInv, Types, ShownType, Message, n
<1>15. Accounted'
  <2> SUFFICES ASSUME NEW m \in DOMAIN sent'
               PROVE  \/ Waits(m)' /\ shown[m] = 0 /\ m \notin ended
                      \/ ~Waits(m)' /\ shown[m] = 1 /\ m \notin ended
                      \/ ~Waits(m)' /\ shown[m] = 0 /\ m \in ended
    BY <1>1 DEF Accounted
  <2> QED
    BY <1>4, <1>13, <1>14 DEF IInv, Accounted
<1> QED
  BY <1>9, <1>10, <1>11, <1>12, <1>15 DEF IInv, Types

LEMMA GoesQuietKeeps == ASSUME IInv, NEW k \in Conversation, GoesQuiet(k) PROVE IInv'
<1> DEFINE r == [session[k] EXCEPT !.quiet = TRUE]
<1>1. k \in Known /\ session' = [session EXCEPT ![k].quiet = TRUE]
      /\ UNCHANGED <<owners, call, sent, shown, ended, lives>>
  BY DEF GoesQuiet
<1>2. Fine(session[k]) /\ ToSet(session[k].pending) = Pend(k)
  BY <1>1 DEF IInv, Types, Sessions, Known, Pend
<1>3. {} \in SUBSET Call
  OBVIOUS
<1>4. Fine(r) /\ r.pending = session[k].pending
  BY <1>2, <1>3, TouchedIs
<1>5. session' = [session EXCEPT ![k] = r]
  BY <1>1
<1> HIDE DEF r
<1>6. Sessions' /\ \A j \in Conversation : Pend(j)' = Pend(j)
  BY <1>2, <1>4, <1>5, SessionMoves DEF IInv, Types
<1>7. OwnersType' /\ CallsType' /\ LivesType'
  BY <1>1 DEF IInv, Types, OwnersType, CallsType, LivesType
<1> QED
  BY <1>1, <1>6, <1>7, NothingMoves DEF IInv, Types

LEMMA PruneKeeps == ASSUME IInv, Prune \/ (\E k \in Conversation : TransportGone(k)) PROVE IInv'
<1>1. PICK K \in SUBSET Conversation : Dropped(K) /\ UNCHANGED <<call, sent, shown, lives>>
  BY DEF Prune, TransportGone
<1>2. CallsType' /\ LivesType'
  BY <1>1 DEF IInv, Types, CallsType, LivesType
<1> QED
  BY <1>1, <1>2, DroppedIs DEF IInv, Types

LEMMA RestartKeeps == ASSUME IInv, Restart PROVE IInv'
<1>1. /\ session' = [k \in Conversation |-> NoSession] /\ owners' = [i \in Key |-> 0]
      /\ call' = [c \in Call |-> NoCall] /\ UNCHANGED <<sent, shown, lives>>
      /\ ended' = DOMAIN sent \ {m \in DOMAIN sent : shown[m] > 0}
  BY DEF Restart
<1>2. \A k \in Conversation : Pend(k)' = {}
  BY <1>1 DEF Pend
<1>3. Types'
  BY <1>1 DEF IInv, Types, Sessions, OwnersType, CallsType, LivesType, SentType, ShownType
<1>4. Apart' /\ \A m : ~Waits(m)'
  BY <1>2 DEF Apart, Waits
<1>5. \A m \in DOMAIN sent : shown[m] \in {0, 1}
  BY DEF IInv, Accounted
<1>6. Accounted'
  BY <1>1, <1>4, <1>5 DEF Accounted
<1> QED
  BY <1>3, <1>4, <1>6 DEF IInv
-----------------------------------------------------------------------------
(* What a session remembers of the ids it accepted *)

Memory(s) == <<s.life, s.keys, s.tombs>>

LEMMA SameMemory ==
    ASSUME NEW s, Fine(s), NEW c
    PROVE  /\ Memory(Acknowledged(s)) = Memory(s) /\ Memory(Delivered(s)) = Memory(s)
           /\ Memory(Moved(s, "failed")) = Memory(s) /\ Memory(Left(c, s)) = Memory(s)
<1>0. s \in SessionRec
  BY DEF Fine
<1>1. ASSUME NEW t \in [life : Life, state : States, pending : Seq(Message), awaiting : BOOLEAN,
                        keys : Seq(Key), tombs : Seq(Key), active : SUBSET Call, quiet : BOOLEAN],
             NEW to
      PROVE  Memory(Moved(t, to)) = Memory(t)
  BY <1>1 DEF Moved, Memory
<1>2. Memory(Moved(s, "failed")) = Memory(s)
  BY <1>0, <1>1 DEF SessionRec
<1>3. Memory(Left(c, s)) = Memory(s)
  BY <1>0 DEF Memory, Left, SessionRec
<1>4. Memory(Acknowledged(s)) = Memory(s)
  <2> DEFINE t == [s EXCEPT !.awaiting = FALSE]
  <2>1. t \in SessionRec /\ Memory(t) = Memory(s)
    BY <1>0 DEF SessionRec, Memory
  <2>2. Acknowledged(s) \in {s, t, Moved(t, "acknowledged")}
    BY DEF Acknowledged
  <2> HIDE DEF t
  <2> QED
    BY <1>1, <2>1, <2>2 DEF SessionRec
<1>5. Memory(Delivered(s)) = Memory(s)
  <2> DEFINE t == [s EXCEPT !.awaiting = TRUE, !.pending = <<>>]
  <2>1. t \in SessionRec /\ Memory(t) = Memory(s)
    <3>1. <<>> \in Seq(Message)
      OBVIOUS
    <3> QED
      BY <1>0, <3>1 DEF SessionRec, Memory
  <2>2. Delivered(s) \in {s, Moved(t, "delivered")}
    BY DEF Delivered
  <2> HIDE DEF t
  <2> QED
    BY <1>1, <2>1, <2>2 DEF SessionRec
<1> QED
  BY <1>2, <1>3, <1>4, <1>5

\* What is remembered depends on the memory alone.
LEMMA MemoryDecides ==
    ASSUME NEW s, NEW t, Memory(s) = Memory(t)
    PROVE  /\ s.life = t.life /\ Held(s) = Held(t) /\ Filled(s) = Filled(t)
           /\ \A id, a : Knows(s, id, a) = Knows(t, id, a)
<1>1. s.life = t.life /\ s.keys = t.keys /\ s.tombs = t.tombs
  BY DEF Memory
<1> QED
  BY <1>1 DEF Held, Filled, Knows

LEMMA SentIs ==
    ASSUME SentType, NEW m \in DOMAIN sent
    PROVE  /\ sent[m] \in [life : Life, id : Key] /\ sent[m].life \in Nat /\ m \in 1..Len(sent)
           /\ Len(sent) \in Nat
<1>1. sent[m] \in [life : Life, id : Key] /\ m \in 1..Len(sent) /\ Len(sent) \in Nat
  <2> DEFINE R == [life : Life, id : Key]
  <2>1. sent \in Seq(R)
    BY DEF SentType
  <2> HIDE DEF R
  <2>2. DOMAIN sent = 1..Len(sent) /\ Len(sent) \in Nat /\ sent[m] \in R
    BY <2>1
  <2> QED
    BY <2>2 DEF R
<1>2. sent[m].life \in Life
  BY <1>1
<1>3. Life \subseteq Nat
  BY LimitAssumption DEF Life
<1> QED
  BY <1>1, <1>2, <1>3

LEMMA SinceIs ==
    ASSUME SentType, NEW m \in DOMAIN sent
    PROVE  IsFiniteSet(Since(m)) /\ Cardinality(Since(m)) \in Nat
<1>1. Since(m) \subseteq 1..Len(sent) /\ IsFiniteSet(1..Len(sent))
  BY FS_Interval DEF Since, SentType
<1> QED
  BY <1>1, FS_Subset, FS_CardinalityType

\* A step of the tool wrapper or of time leaves alone what is remembered; a new session knows nothing.
LEMMA RemembersOn ==
    ASSUME IInv, Remembers, UNCHANGED <<sent, owners>>, NEW k \in Conversation, NEW r, Fine(r),
           session' = [session EXCEPT ![k] = r], Memory(r) = Memory(Ensured(k)),
           lives' = LivesAfter(k)
    PROVE  Remembers'
<1>0. /\ r # NoSession /\ session \in [Conversation -> SessionRec \cup {NoSession}] /\ lives \in Nat
      /\ \A m \in DOMAIN sent : sent[m].life <= lives
      /\ DOMAIN sent' = DOMAIN sent
  BY NoSessionIs, LimitAssumption DEF Fine, IInv, Types, Sessions, LivesType, Remembers, Numbered
<1>1. Known' = Known \cup {k} /\ \A j \in Known' \ {k} : session'[j] = session[j]
  BY <1>0 DEF Known
<1>2. session'[k] = r
  BY <1>0
<1>3. CASE k \in Known
  <2>1. lives' = lives /\ \A j \in Known' : j \in Known /\ Memory(session'[j]) = Memory(session[j])
    BY <1>1, <1>2, <1>3 DEF LivesAfter, Ensured
  <2>2. \A j \in Known' : j \in Known /\ session'[j].life = session[j].life /\ Held(session'[j]) = Held(session[j])
                          /\ Filled(session'[j]) = Filled(session[j])
                          /\ \A id, a : Knows(session'[j], id, a) = Knows(session[j], id, a)
    BY <2>1, MemoryDecides
  <2>3. Numbered'
    BY <1>0, <2>1, <2>2 DEF Remembers, Numbered
  <2>4. Owned'
    BY <2>2 DEF Remembers, Owned
  <2>5. Recalled'
    <3>1. \A m \in DOMAIN sent : Since(m)' = Since(m)
      BY DEF Since
    <3> QED
      BY <1>0, <2>2, <3>1 DEF Remembers, Recalled
  <2> QED
    BY <2>3, <2>4, <2>5 DEF Remembers, Spaced
<1>4. CASE k \notin Known
  <2>1. /\ lives' = lives + 1 /\ r.life = lives + 1 /\ r.keys = <<>> /\ r.tombs = <<>>
    <3>1. Memory(r) = <<lives + 1, <<>>, <<>>>>
      BY <1>4 DEF Memory, Ensured, NewSession
    <3> QED
      BY <1>4, <3>1 DEF Memory, LivesAfter
  <2>2. \A j \in Known' : j = k \/ (j \in Known /\ session'[j] = session[j])
    BY <1>1
  <2>3. \A j \in Known : session[j].life <= lives /\ session[j].life \in Nat /\ session[j] \in SessionRec
    BY <1>0, LimitAssumption DEF Remembers, Numbered, Known, SessionRec, Life
  <2>4. Numbered'
    <3>1. \A j \in Known' : session'[j].life <= lives'
      BY <1>0, <1>2, <2>1, <2>2, <2>3
    <3>2. \A i, j \in Known' : i # j => session'[i].life # session'[j].life
      <4> SUFFICES ASSUME NEW i \in Known', NEW j \in Known', i # j
                   PROVE  session'[i].life # session'[j].life
        OBVIOUS
      <4>1. CASE i \in Known /\ j \in Known /\ session'[i] = session[i] /\ session'[j] = session[j]
        BY <4>1 DEF Remembers, Numbered
      <4>2. CASE i = k /\ j \in Known /\ session'[j] = session[j]
        BY <1>0, <1>2, <2>1, <2>3, <4>2
      <4>3. CASE j = k /\ i \in Known /\ session'[i] = session[i]
        BY <1>0, <1>2, <2>1, <2>3, <4>3
      <4> QED
        BY <2>2, <4>1, <4>2, <4>3
    <3>3. \A m \in DOMAIN sent' : sent'[m].life <= lives'
      <4>1. \A m \in DOMAIN sent : sent[m].life \in Nat
        BY SentIs DEF IInv, Types
      <4>2. sent' = sent /\ lives' = lives + 1 /\ lives \in Nat
        BY <1>0, <2>1
      <4> SUFFICES ASSUME NEW m \in DOMAIN sent PROVE sent[m].life <= lives + 1
        BY <4>2
      <4>3. sent[m].life <= lives /\ sent[m].life \in Nat
        BY <1>0, <4>1
      <4> DEFINE l == sent[m].life
      <4> HIDE DEF l
      <4> QED
        BY <4>2, <4>3 DEF l
    <3> QED
      BY <3>1, <3>2, <3>3 DEF Numbered
  <2>5. Owned'
    <3>1. Held(r) = {}
      BY <2>1, ToSetEmpty DEF Held
    <3> QED
      BY <1>2, <2>2, <3>1 DEF Remembers, Owned
  <2>6. Recalled'
    <3>1. \A m \in DOMAIN sent : Since(m)' = Since(m) /\ sent[m].life # r.life
      BY <1>0, <2>1, LimitAssumption DEF Since, IInv, Types, SentType, Life
    <3>2. Filled(r)
      BY <2>1 DEF Filled
    <3> QED
      BY <1>0, <1>2, <2>2, <3>1, <3>2 DEF Remembers, Recalled
  <2> QED
    BY <2>4, <2>5, <2>6 DEF Remembers, Spaced
<1> QED
  BY <1>3, <1>4

\* Sessions that go give up their ids, and no other session's.
LEMMA RemembersDrop ==
    ASSUME IInv, Remembers, NEW K \in SUBSET Conversation, Dropped(K), UNCHANGED <<sent, lives>>
    PROVE  Remembers'
<1>1. /\ session' = [k \in Conversation |-> IF k \in K THEN NoSession ELSE session[k]]
      /\ owners' = [i \in Key |-> IF \E k \in K \cap Known : owners[i] = session[k].life THEN 0 ELSE owners[i]]
      /\ DOMAIN sent' = DOMAIN sent
  BY DEF Dropped
<1>2. \A k \in Known' : k \in Known \ K /\ session'[k] = session[k]
  BY <1>1 DEF Known
<1>3. Numbered' /\ Recalled' /\ Spaced'
  <2>1. \A m \in DOMAIN sent : Since(m)' = Since(m)
    BY DEF Since
  <2>2. Numbered'
    BY <1>1, <1>2 DEF Remembers, Numbered
  <2>3. Recalled'
    BY <1>1, <1>2, <2>1 DEF Remembers, Recalled
  <2> QED
    BY <2>2, <2>3 DEF Remembers, Spaced
<1>4. Owned'
  <2> SUFFICES ASSUME NEW k \in Known', NEW i \in Held(session[k])
               PROVE  owners'[i] = session[k].life
    BY <1>2 DEF Owned
  <2>1. k \in Known \ K /\ owners[i] = session[k].life
    BY <1>2 DEF Remembers, Owned
  <2>2. i \in Key
    <3>1. session[k].keys \in Seq(Key) /\ session[k].tombs \in Seq(Key)
      BY <2>1 DEF IInv, Types, Sessions, Known, Fine, SessionRec
    <3> QED
      BY <3>1, ToSetIn DEF Held
  <2>3. ~\E j \in K \cap Known : owners[i] = session[j].life
    BY <2>1 DEF Remembers, Numbered
  <2> QED
    BY <1>1, <2>1, <2>2, <2>3
<1> QED
  BY <1>3, <1>4 DEF Remembers

LEMMA AppendIs ==
    ASSUME NEW S, NEW s \in Seq(S), NEW x \in S
    PROVE  /\ Append(s, x) \in Seq(S) /\ Len(Append(s, x)) = Len(s) + 1
           /\ \A j \in 1..Len(s) : Append(s, x)[j] = s[j]
           /\ Append(s, x)[Len(s) + 1] = x
OBVIOUS
LEMMA PushIs ==
    ASSUME NEW S, NEW s \in Seq(S), NEW x \in S, Len(s) > 0
    PROVE  /\ Tail(Append(s, x)) \in Seq(S) /\ Len(Tail(Append(s, x))) = Len(s)
           /\ \A j \in 1..(Len(s) - 1) : Tail(Append(s, x))[j] = s[j + 1]
           /\ Tail(Append(s, x))[Len(s)] = x
           /\ Head(Append(s, x)) = s[1]
<1> DEFINE t == Append(s, x)
<1>1. /\ t \in Seq(S) /\ Len(t) = Len(s) + 1 /\ t # <<>> /\ Len(s) \in Nat
      /\ \A j \in 1..Len(s) : t[j] = s[j]
      /\ t[Len(s) + 1] = x
  BY AppendIs
<1> HIDE DEF t
<1>2. /\ Tail(t) \in Seq(S) /\ Len(Tail(t)) = Len(s) /\ Head(t) = t[1]
      /\ \A j \in 1..Len(s) : Tail(t)[j] = t[j + 1]
  BY <1>1
<1>3. Tail(t)[Len(s)] = x /\ Head(t) = s[1]
  BY <1>1, <1>2
<1>4. \A j \in 1..(Len(s) - 1) : Tail(t)[j] = s[j + 1]
  BY <1>1, <1>2
<1> QED
  BY <1>2, <1>3, <1>4 DEF t

\* The newest id enters the index, the oldest of the index the tombstones, and the oldest of those
\* is forgotten: what came a instructions ago came a + 1 ago from now on.
LEMMA RememberedKnows ==
    ASSUME NEW s, Fine(s), Filled(s), NEW i \in Key
    PROVE  LET t == Remembered(s, i)
           IN  /\ t.life = s.life /\ Filled(t) /\ Knows(t, i, 0)
               /\ \A id : \A a \in Nat : Knows(s, id, a) => Knows(t, id, a + 1)
               /\ Held(t) \subseteq Held(s) \cup {i}
<1> DEFINE t == Remembered(s, i)
           K == Len(s.keys)
           U == Len(s.tombs)
<1>0. /\ s \in SessionRec /\ s.keys \in Seq(Key) /\ s.tombs \in Seq(Key)
      /\ K \in Nat /\ U \in Nat /\ K <= MaxKeys /\ U <= MaxTombstones
      /\ MaxKeys \in Nat /\ MaxTombstones \in Nat /\ MaxKeys > 0 /\ MaxTombstones > 0
      /\ (s.tombs # <<>> <=> U > 0) /\ Len(s.keys) = K /\ Len(s.tombs) = U
  BY LimitAssumption DEF Fine, SessionRec
<1> HIDE DEF K, U
<1>1. /\ Append(s.keys, i) \in Seq(Key) /\ Len(Append(s.keys, i)) = K + 1
      /\ (\A j \in 1..K : Append(s.keys, i)[j] = s.keys[j]) /\ Append(s.keys, i)[K + 1] = i
  BY <1>0, AppendIs
<1>2. U > 0 => K = MaxKeys
  BY <1>0 DEF Filled
<1>5. \A id : \A a \in Nat : Knows(s, id, a) =>
        \/ a < K /\ s.keys[K - a] = id
        \/ a >= K /\ a < K + U /\ s.tombs[K + U - a] = id
        \/ a >= MaxKeys + MaxTombstones /\ K = MaxKeys /\ U = MaxTombstones
  <2>1. Len(s.keys) = K /\ Len(s.tombs) = U
    BY <1>0
  <2> QED
    BY <2>1, ZenonT(20) DEF Knows
<1>3. CASE K < MaxKeys
  <2>1. t.keys = Append(s.keys, i) /\ t.tombs = s.tombs /\ t.life = s.life /\ U = 0
    <3>1. ~(Len(Append(s.keys, i)) > MaxKeys) /\ ~(Len(s.tombs) > MaxTombstones)
      BY <1>0, <1>1, <1>3
    <3>2. t = [s EXCEPT !.keys = Append(s.keys, i), !.tombs = s.tombs]
      BY <3>1 DEF Remembered
    <3> QED
      BY <1>0, <1>2, <1>3, <3>2 DEF SessionRec
  <2>2. Filled(t) /\ Knows(t, i, 0)
    <3>1. s.tombs = <<>> /\ Len(t.keys) = K + 1 /\ 0 < K + 1 /\ (K + 1) - 0 = K + 1 /\ t.keys[K + 1] = i
      BY <1>0, <1>1, <2>1
    <3> HIDE DEF t
    <3> QED
      BY <2>1, <3>1 DEF Filled, Knows
  <2>3. \A id : \A a \in Nat : Knows(s, id, a) => Knows(t, id, a + 1)
    <3> SUFFICES ASSUME NEW id, NEW a \in Nat, Knows(s, id, a) PROVE Knows(t, id, a + 1)
      OBVIOUS
    <3>1. a < K /\ s.keys[K - a] = id
      BY <1>0, <1>3, <1>5, <2>1
    <3>2. Len(t.keys) - (a + 1) = K - a /\ K - a \in 1..K /\ a + 1 < Len(t.keys)
      BY <1>0, <1>1, <2>1, <3>1
    <3> QED
      BY <1>1, <2>1, <3>1, <3>2 DEF Knows
  <2>4. Held(t) \subseteq Held(s) \cup {i}
    BY <1>0, <2>1, ToSetAppend DEF Held
  <2> QED
    BY <2>1, <2>2, <2>3, <2>4
<1>4. CASE K = MaxKeys
  <2> DEFINE ks == Tail(Append(s.keys, i))
             h  == Head(Append(s.keys, i))
             ts == IF U < MaxTombstones THEN Append(s.tombs, h) ELSE Tail(Append(s.tombs, h))
  <2>1. /\ ks \in Seq(Key) /\ Len(ks) = K /\ h = s.keys[1] /\ h \in Key /\ ks[K] = i
        /\ \A j \in 1..(K - 1) : ks[j] = s.keys[j + 1]
    <3>1. s.keys[1] \in Key /\ K > 0
      BY <1>0, <1>4
    <3>2. PICK q \in Seq(Key) : q = s.keys /\ Len(q) = K /\ Len(q) > 0
      BY <1>0, <3>1
    <3>3. /\ Tail(Append(q, i)) \in Seq(Key) /\ Len(Tail(Append(q, i))) = Len(q)
          /\ \A j \in 1..(Len(q) - 1) : Tail(Append(q, i))[j] = q[j + 1]
          /\ Tail(Append(q, i))[Len(q)] = i
          /\ Head(Append(q, i)) = q[1]
      BY <3>2, PushIs
    <3> QED
      BY <3>1, <3>2, <3>3
  <2>2. t.keys = ks /\ t.tombs = ts /\ t.life = s.life
    <3>1. Len(Append(s.tombs, h)) = U + 1
      BY <1>0, <2>1, AppendIs
    <3>2. Len(Append(s.keys, i)) > MaxKeys
      BY <1>0, <1>1, <1>4
    <3>3. (Len(Append(s.tombs, h)) > MaxTombstones) <=> ~(U < MaxTombstones)
      BY <1>0, <3>1
    <3>4. t = [s EXCEPT !.keys = ks, !.tombs = ts]
      BY <3>2, <3>3 DEF Remembered
    <3> HIDE DEF ks, ts, t
    <3> QED
      BY <1>0, <3>4 DEF SessionRec
  <2>3. CASE U < MaxTombstones
    <3>1. ts \in Seq(Key) /\ Len(ts) = U + 1 /\ ts[U + 1] = h /\ \A j \in 1..U : ts[j] = s.tombs[j]
      BY <1>0, <2>1, <2>3, AppendIs
    <3> HIDE DEF ks, ts, h, t
    <3>2. Filled(t) /\ Knows(t, i, 0)
      BY <1>0, <1>4, <2>1, <2>2, <3>1 DEF Filled, Knows
    <3>3. \A id : \A a \in Nat : Knows(s, id, a) => Knows(t, id, a + 1)
      <4> SUFFICES ASSUME NEW id, NEW a \in Nat, Knows(s, id, a) PROVE Knows(t, id, a + 1)
        OBVIOUS
      <4>1. CASE a < K /\ s.keys[K - a] = id
        <5>1. CASE a = K - 1
          <6>0. K - a = 1 /\ a + 1 = K /\ K + (U + 1) - (a + 1) = U + 1
            BY <1>0, <5>1
          <6>1. id = h
            BY <2>1, <4>1, <6>0
          <6> QED
            BY <1>0, <2>1, <2>2, <3>1, <6>0, <6>1 DEF Knows
        <5>2. CASE a < K - 1
          <6>1. K - (a + 1) \in 1..(K - 1) /\ (K - (a + 1)) + 1 = K - a
            BY <1>0, <5>2
          <6>2. ks[K - (a + 1)] = id
            BY <2>1, <4>1, <6>1
          <6> QED
            BY <1>0, <2>1, <2>2, <5>2, <6>2 DEF Knows
        <5>3. K \in Nat /\ a < K
          BY <1>0, <4>1
        <5>4. a = K - 1 \/ a < K - 1
          BY <5>3
        <5> QED
          BY <5>1, <5>2, <5>4
      <4>2. CASE a >= K /\ a < K + U /\ s.tombs[K + U - a] = id
        <5>1. K + U - a \in 1..U /\ K + (U + 1) - (a + 1) = K + U - a
          BY <1>0, <4>2
        <5>2. ts[K + (U + 1) - (a + 1)] = id
          BY <3>1, <4>2, <5>1
        <5> QED
          BY <1>0, <2>1, <2>2, <3>1, <4>2, <5>2 DEF Knows
      <4> QED
        BY <1>0, <1>5, <2>3, <4>1, <4>2
    <3>4. Held(t) \subseteq Held(s) \cup {i}
      <4> SUFFICES ASSUME NEW z \in Held(t) PROVE z \in Held(s) \cup {i}
        OBVIOUS
      <4>1. CASE z \in ToSet(ks)
        <5>1. PICK j \in 1..K : z = ks[j]
          BY <2>1, <4>1 DEF ToSet
        <5>2. j = K \/ (j \in 1..(K - 1) /\ j + 1 \in 1..K)
          BY <1>0, <5>1
        <5> QED
          BY <1>0, <2>1, <5>1, <5>2 DEF Held, ToSet
      <4>2. CASE z \in ToSet(ts)
        <5>1. PICK j \in 1..(U + 1) : z = ts[j]
          BY <3>1, <4>2 DEF ToSet
        <5>2. j = U + 1 \/ j \in 1..U
          BY <1>0, <5>1
        <5>3. 1 \in 1..K
          BY <1>0, <1>4
        <5> QED
          <6>1. CASE j = U + 1
            BY <1>0, <2>1, <3>1, <5>1, <5>3, <6>1 DEF Held, ToSet
          <6>2. CASE j \in 1..U
            BY <1>0, <3>1, <5>1, <6>2 DEF Held, ToSet
          <6> QED
            BY <5>2, <6>1, <6>2
      <4> QED
        BY <2>2, <4>1, <4>2 DEF Held
    <3> QED
      BY <2>2, <3>2, <3>3, <3>4 DEF t
  <2>4. CASE U = MaxTombstones
    <3>1. ts \in Seq(Key) /\ Len(ts) = U /\ ts[U] = h /\ \A j \in 1..(U - 1) : ts[j] = s.tombs[j + 1]
      <4>1. ts = Tail(Append(s.tombs, h)) /\ U > 0
        BY <1>0, <2>4
      <4> HIDE DEF ts, h
      <4> QED
        BY <1>0, <2>1, <4>1, PushIs
    <3> HIDE DEF ks, ts, h, t
    <3>2. Filled(t) /\ Knows(t, i, 0)
      BY <1>0, <1>4, <2>1, <2>2, <3>1 DEF Filled, Knows
    <3>3. \A id : \A a \in Nat : Knows(s, id, a) => Knows(t, id, a + 1)
      <4> SUFFICES ASSUME NEW id, NEW a \in Nat, Knows(s, id, a) PROVE Knows(t, id, a + 1)
        OBVIOUS
      <4>1. CASE a < K /\ s.keys[K - a] = id
        <5>1. CASE a = K - 1
          <6>0. K - a = 1 /\ a + 1 = K /\ K + U - (a + 1) = U
            BY <1>0, <5>1
          <6>1. id = h
            BY <2>1, <4>1, <6>0
          <6> QED
            BY <1>0, <2>1, <2>2, <2>4, <3>1, <6>0, <6>1 DEF Knows
        <5>2. CASE a < K - 1
          <6>1. K - (a + 1) \in 1..(K - 1) /\ (K - (a + 1)) + 1 = K - a
            BY <1>0, <5>2
          <6>2. ks[K - (a + 1)] = id
            BY <2>1, <4>1, <6>1
          <6> QED
            BY <1>0, <2>1, <2>2, <5>2, <6>2 DEF Knows
        <5>3. K \in Nat /\ a < K
          BY <1>0, <4>1
        <5>4. a = K - 1 \/ a < K - 1
          BY <5>3
        <5> QED
          BY <5>1, <5>2, <5>4
      <4>2. CASE a >= K /\ a < K + U - 1 /\ s.tombs[K + U - a] = id
        <5>1. K + U - (a + 1) \in 1..(U - 1) /\ (K + U - (a + 1)) + 1 = K + U - a
          BY <1>0, <4>2
        <5>2. ts[K + U - (a + 1)] = id
          BY <3>1, <4>2, <5>1
        <5> QED
          BY <1>0, <2>1, <2>2, <3>1, <4>2, <5>2 DEF Knows
      <4>3. CASE a + 1 >= MaxKeys + MaxTombstones
        BY <1>0, <1>4, <2>1, <2>2, <2>4, <3>1, <4>3 DEF Knows
      <4>4. CASE a >= K + U - 1
        BY <1>0, <1>4, <2>4, <4>3, <4>4
      <4> QED
        BY <1>0, <1>5, <4>1, <4>2, <4>4
    <3>4. Held(t) \subseteq Held(s) \cup {i}
      <4> SUFFICES ASSUME NEW z \in Held(t) PROVE z \in Held(s) \cup {i}
        OBVIOUS
      <4>1. CASE z \in ToSet(ks)
        <5>1. PICK j \in 1..K : z = ks[j]
          BY <2>1, <4>1 DEF ToSet
        <5>2. j = K \/ (j \in 1..(K - 1) /\ j + 1 \in 1..K)
          BY <1>0, <5>1
        <5> QED
          BY <1>0, <2>1, <5>1, <5>2 DEF Held, ToSet
      <4>2. CASE z \in ToSet(ts)
        <5>1. PICK j \in 1..U : z = ts[j]
          BY <3>1, <4>2 DEF ToSet
        <5>2. j = U \/ (j \in 1..(U - 1) /\ j + 1 \in 1..U)
          BY <1>0, <5>1
        <5>3. 1 \in 1..K
          BY <1>0, <1>4
        <5> QED
          BY <1>0, <2>1, <3>1, <5>1, <5>2, <5>3 DEF Held, ToSet
      <4> QED
        BY <2>2, <4>1, <4>2 DEF Held
    <3> QED
      BY <2>2, <3>2, <3>3, <3>4 DEF t
  <2>5. U < MaxTombstones \/ U = MaxTombstones
    BY <1>0
  <2> HIDE DEF t
  <2> QED
    BY <2>3, <2>4, <2>5
<1> QED
  BY <1>0, <1>3, <1>4

\* An id that is not held was forgotten.
LEMMA NotHeldIs ==
    ASSUME NEW s, Fine(s), NEW id, id \notin Held(s), NEW a \in Nat, Knows(s, id, a)
    PROVE  a >= MaxKeys + MaxTombstones
<1> DEFINE K == Len(s.keys)
           U == Len(s.tombs)
<1>0. s.keys \in Seq(Key) /\ s.tombs \in Seq(Key) /\ K \in Nat /\ U \in Nat
  BY DEF Fine, SessionRec
<1>1. \A j \in 1..K : s.keys[j] # id
  BY <1>0 DEF Held, ToSet
<1>2. \A j \in 1..U : s.tombs[j] # id
  BY <1>0 DEF Held, ToSet
<1>3. \/ a < K /\ s.keys[K - a] = id
      \/ a >= K /\ a < K + U /\ s.tombs[K + U - a] = id
      \/ a >= MaxKeys + MaxTombstones
  BY DEF Knows
<1> HIDE DEF K, U
<1>4. ~(a < K /\ s.keys[K - a] = id)
  <2> SUFFICES ASSUME a < K PROVE s.keys[K - a] # id
    OBVIOUS
  <2>1. K - a \in 1..K
    BY <1>0
  <2> QED
    BY <1>1, <2>1
<1>5. ~(a >= K /\ a < K + U /\ s.tombs[K + U - a] = id)
  <2> SUFFICES ASSUME a >= K, a < K + U PROVE s.tombs[K + U - a] # id
    OBVIOUS
  <2>1. K + U - a \in 1..U
    BY <1>0
  <2> QED
    BY <1>2, <2>1
<1> QED
  BY <1>3, <1>4, <1>5

LEMMA RemembersEnqueue ==
    ASSUME IInv, Remembers, NEW life \in Life, NEW i \in Key, Enqueue(life, i)
    PROVE  Remembers'
<1>0. sent \in Seq([life : Life, id : Key]) /\ Len(sent) + 1 \in Nat
  BY DEF IInv, Types, SentType
<1> PICK n \in Nat : n = Len(sent) + 1
  BY <1>0
<1> PICK k \in Known :
      /\ session[k].life = life /\ owners[i] \in {0, life} /\ i \notin Held(session[k])
      /\ LET q == Remembered(session[k], i)
             forgotten == Held(session[k]) \ Held(q)
         IN  /\ session' = [session EXCEPT ![k] = Moved([q EXCEPT !.pending = Append(@, n)], "queued")]
             /\ owners' = [j \in Key |-> CASE j \in forgotten /\ owners[j] = life -> 0
                                           [] j = i -> life
                                           [] OTHER -> owners[j]]
  BY DEF Enqueue
<1> DEFINE s == session[k]
           q == Remembered(s, i)
           r == [q EXCEPT !.pending = Append(@, n)]
           t == Moved(r, "queued")
<1>1. /\ sent' = Append(sent, [life |-> life, id |-> i]) /\ lives' = lives /\ Len(sent) < MaxSent
  BY DEF Enqueue
<1>2. k \in Conversation /\ Fine(s) /\ Filled(s) /\ s # NoSession
  BY DEF IInv, Types, Sessions, Known, Remembers, Recalled
<1>3. /\ sent \in Seq([life : Life, id : Key]) /\ [life |-> life, id |-> i] \in [life : Life, id : Key]
      /\ Len(sent) \in Nat /\ DOMAIN sent = 1..Len(sent) /\ life \in Nat
  BY LimitAssumption DEF IInv, Types, SentType, Life
<1>4. /\ DOMAIN sent' = DOMAIN sent \cup {n} /\ Len(sent') = n /\ n \notin DOMAIN sent /\ n \in Nat
      /\ \A m \in DOMAIN sent : sent'[m] = sent[m] /\ m \in 1..Len(sent) /\ m < n
      /\ sent'[n] = [life |-> life, id |-> i]
  BY <1>1, <1>3
<1>18. sent'[n].life = life /\ sent'[n].id = i
  <2> DEFINE e == [life |-> life, id |-> i]
  <2>1. e.life = life /\ e.id = i /\ sent'[n] = e
    BY <1>4
  <2> QED
    BY <2>1
<1>5. Fine(q) /\ q.life = s.life /\ Filled(q) /\ Knows(q, i, 0) /\ Held(q) \subseteq Held(s) \cup {i}
      /\ \A id : \A a \in Nat : Knows(s, id, a) => Knows(q, id, a + 1)
  BY <1>2, RememberedIs, RememberedKnows
<1>6. Memory(t) = Memory(q)
  <2>1. q \in SessionRec /\ n \in Message /\ q.pending \in Seq(Message)
    BY <1>1, <1>3, <1>5, LimitAssumption DEF Fine, SessionRec, Message
  <2> HIDE DEF q
  <2>2. Append(q.pending, n) \in Seq(Message)
    BY <2>1
  <2>3. r \in SessionRec /\ Memory(r) = Memory(q)
    BY <2>1, <2>2 DEF SessionRec, Memory
  <2> HIDE DEF r
  <2> QED
    BY <2>3 DEF Moved, Memory, SessionRec
<1>7. session' = [session EXCEPT ![k] = t]
  OBVIOUS
<1>8. \A j \in Key : owners'[j] = IF j \in Held(s) \ Held(q) /\ owners[j] = life THEN 0
                                  ELSE IF j = i THEN life ELSE owners[j]
  OBVIOUS
<1> HIDE DEF q, r, t
<1>9. /\ t.life = s.life /\ Held(t) = Held(q) /\ Filled(t) = Filled(q)
      /\ \A id, a : Knows(t, id, a) = Knows(q, id, a)
  BY <1>5, <1>6, MemoryDecides
<1>10. Known' = Known /\ session'[k] = t /\ \A j \in Known \ {k} : session'[j] = session[j]
  <2>1. session \in [Conversation -> SessionRec \cup {NoSession}] /\ NoSession \notin SessionRec
    BY NoSessionIs DEF IInv, Types, Sessions
  <2>2. t # NoSession
    <3>1. Fine(t)
      <4>1. Len(sent) + 1 \in Message
        BY <1>1, <1>3, LimitAssumption DEF Message
      <4> QED
        BY <1>5, <4>1, QueuedIs DEF t, r
    <3> QED
      BY <2>1, <3>1 DEF Fine
  <2> QED
    BY <1>2, <1>7, <2>1, <2>2 DEF Known
<1>11. \A m \in DOMAIN sent : Since(m)' = IF sent[m].life = life THEN Since(m) \cup {n} ELSE Since(m)
  <2> SUFFICES ASSUME NEW m \in DOMAIN sent
               PROVE  Since(m)' = IF sent[m].life = life THEN Since(m) \cup {n} ELSE Since(m)
    OBVIOUS
  <2>1. \A l : l \in (m + 1)..Len(sent') <=> l \in (m + 1)..Len(sent) \/ l = n
    BY <1>3, <1>4
  <2>2. \A l \in (m + 1)..Len(sent) : sent'[l] = sent[l]
    BY <1>3, <1>4
  <2>3. sent'[m] = sent[m] /\ sent'[n].life = life
    BY <1>4
  <2> QED
    BY <2>1, <2>2, <2>3 DEF Since
<1>12. \A m \in DOMAIN sent : /\ Cardinality(Since(m)) \in Nat
                              /\ sent[m].life = life => Cardinality(Since(m)') = Cardinality(Since(m)) + 1
  <2> SUFFICES ASSUME NEW m \in DOMAIN sent
               PROVE  /\ Cardinality(Since(m)) \in Nat
                      /\ sent[m].life = life => Cardinality(Since(m)') = Cardinality(Since(m)) + 1
    OBVIOUS
  <2>1. IsFiniteSet(Since(m)) /\ Cardinality(Since(m)) \in Nat
    BY SinceIs DEF IInv, Types
  <2>2. n \notin Since(m)
    BY <1>3 DEF Since
  <2> QED
    BY <1>11, <2>1, <2>2, FS_AddElement
<1>13. Cardinality(Since(n)') = 0
  <2>1. Since(n)' = {}
    BY <1>4 DEF Since
  <2> QED
    BY <2>1, FS_EmptySet
<1>14. Numbered'
  <2>1. \A j \in Known' : session'[j].life = session[j].life
    BY <1>9, <1>10
  <2>2. \A m \in DOMAIN sent' : sent'[m].life <= lives'
    <3>1. life <= lives
      BY DEF Remembers, Numbered
    <3>2. \A m \in DOMAIN sent : sent'[m].life <= lives
      BY <1>4 DEF Remembers, Numbered
    <3> QED
      BY <1>1, <1>4, <1>18, <3>1, <3>2
  <2>3. \A j \in Known' : session'[j].life <= lives'
    BY <1>1, <1>10, <2>1 DEF Remembers, Numbered
  <2>4. \A j, l \in Known' : j # l => session'[j].life # session'[l].life
    <3> SUFFICES ASSUME NEW j \in Known, NEW l \in Known, j # l
                 PROVE  session'[j].life # session'[l].life
      BY <1>10
    <3>1. session[j].life # session[l].life
      BY DEF Remembers, Numbered
    <3> QED
      BY <1>10, <2>1, <3>1
  <2> QED
    BY <2>2, <2>3, <2>4 DEF Numbered
<1>15. Owned'
  <2> SUFFICES ASSUME NEW j \in Known, NEW h \in Held(session'[j])
               PROVE  owners'[h] = session'[j].life
    BY <1>10 DEF Owned
  <2>1. CASE j = k
    <3>1. h \in Held(q) /\ session'[j].life = life /\ (h = i \/ (h \in Held(s) /\ owners[h] = life))
      BY <1>5, <1>9, <1>10, <2>1 DEF Remembers, Owned
    <3>2. h \in Key
      <4>1. q.keys \in Seq(Key) /\ q.tombs \in Seq(Key)
        BY <1>5 DEF Fine, SessionRec
      <4> QED
        BY <3>1, <4>1, ToSetIn DEF Held
    <3> QED
      BY <1>8, <3>1, <3>2
  <2>2. CASE j # k
    <3>1. /\ session'[j] = session[j] /\ owners[h] = session[j].life /\ session[j].life # life
          /\ session[j] \in SessionRec
      BY <1>10, <2>2 DEF Remembers, Owned, Numbered, IInv, Types, Sessions, Known, Fine
    <3>2. h \in Key /\ session[j].life # 0
      <4>1. session[j].keys \in Seq(Key) /\ session[j].tombs \in Seq(Key) /\ session[j].life \in Life
        BY <3>1 DEF SessionRec
      <4>2. 0 \notin Life
        BY DEF Life
      <4> QED
        BY <3>1, <4>1, <4>2, ToSetIn DEF Held
    <3> QED
      BY <1>8, <3>1, <3>2
  <2> QED
    BY <2>1, <2>2
<1>16. Recalled'
  <2> SUFFICES ASSUME NEW j \in Known
               PROVE  /\ Filled(session'[j])
                      /\ \A m \in DOMAIN sent' : sent'[m].life = session'[j].life =>
                           Knows(session'[j], sent'[m].id, Cardinality(Since(m)'))
    BY <1>10 DEF Recalled
  <2>1. CASE j # k
    <3>1. session'[j] = session[j] /\ session[j].life # life /\ Filled(session[j])
      BY <1>10, <2>1 DEF Remembers, Recalled, Numbered
    <3>2. ASSUME NEW m \in DOMAIN sent', sent'[m].life = session[j].life
          PROVE  Knows(session[j], sent'[m].id, Cardinality(Since(m)'))
      <4>1. m \in DOMAIN sent /\ sent'[m] = sent[m]
        BY <1>4, <3>1, <3>2
      <4>2. Since(m)' = Since(m)
        BY <1>11, <3>1, <3>2, <4>1
      <4> QED
        BY <3>2, <4>1, <4>2 DEF Remembers, Recalled
    <3> QED
      BY <3>1, <3>2
  <2>2. CASE j = k
    <3>1. session'[j] = t /\ t.life = life /\ Filled(t)
      BY <1>5, <1>9, <1>10, <2>2
    <3>2. ASSUME NEW m \in DOMAIN sent', sent'[m].life = life
          PROVE  Knows(t, sent'[m].id, Cardinality(Since(m)'))
      <4>1. CASE m = n
        BY <1>4, <1>5, <1>9, <1>13, <4>1
      <4>2. CASE m \in DOMAIN sent
        <5>1. sent'[m] = sent[m] /\ Knows(s, sent[m].id, Cardinality(Since(m)))
          BY <1>4, <3>2, <4>2 DEF Remembers, Recalled
        <5>2. Cardinality(Since(m)) \in Nat /\ Cardinality(Since(m)') = Cardinality(Since(m)) + 1
          BY <1>12, <3>2, <4>2, <5>1
        <5> QED
          BY <1>5, <1>9, <5>1, <5>2
      <4> QED
        BY <1>4, <4>1, <4>2
    <3> QED
      BY <3>1, <3>2
  <2> QED
    BY <2>1, <2>2
<1>17. Spaced'
  <2> SUFFICES ASSUME NEW m \in DOMAIN sent', NEW p \in DOMAIN sent', m < p, sent'[m] = sent'[p]
               PROVE  Cardinality({l \in (m + 1)..(p - 1) : sent'[l].life = sent'[m].life})
                        >= MaxKeys + MaxTombstones
    BY DEF Spaced
  <2>1. m \in DOMAIN sent /\ sent'[m] = sent[m]
    BY <1>3, <1>4
  <2>2. CASE p \in DOMAIN sent
    <3>1. {l \in (m + 1)..(p - 1) : sent'[l].life = sent'[m].life}
            = {l \in (m + 1)..(p - 1) : sent[l].life = sent[m].life}
      <4>1. (m + 1)..(p - 1) \subseteq DOMAIN sent
        BY <1>3, <2>1, <2>2
      <4> QED
        BY <1>4, <2>1, <4>1
    <3> QED
      BY <1>4, <2>1, <2>2, <3>1 DEF Remembers, Spaced
  <2>3. CASE p = n
    <3>1. sent[m].life = life /\ sent[m].id = i
      BY <1>18, <2>1, <2>3
    <3>2. Knows(s, i, Cardinality(Since(m))) /\ Cardinality(Since(m)) \in Nat
      BY <1>12, <2>1, <3>1 DEF Remembers, Recalled
    <3>3. Cardinality(Since(m)) >= MaxKeys + MaxTombstones
      BY <1>2, <3>2, NotHeldIs
    <3>4. {l \in (m + 1)..(p - 1) : sent'[l].life = sent'[m].life} = Since(m)
      <4>1. (m + 1)..(p - 1) = (m + 1)..Len(sent) /\ (m + 1)..(p - 1) \subseteq DOMAIN sent
        BY <1>3, <1>4, <2>1, <2>3
      <4> QED
        BY <1>4, <2>1, <4>1 DEF Since
    <3> QED
      BY <3>3, <3>4
  <2> QED
    BY <1>4, <2>2, <2>3
<1> QED
  BY <1>14, <1>15, <1>16, <1>17 DEF Remembers

LEMMA RemembersInit == Init => Remembers
<1> SUFFICES ASSUME Init PROVE Remembers
  OBVIOUS
<1>1. sent = <<>> /\ DOMAIN sent = {} /\ Known = {}
  BY DEF Init, Known
<1> QED
  BY <1>1 DEF Remembers, Numbered, Owned, Recalled, Spaced

LEMMA RemembersStep == IInv /\ Remembers /\ [Next]_vars => Remembers'
<1> SUFFICES ASSUME IInv, Remembers, [Next]_vars PROVE Remembers'
  OBVIOUS
<1> USE DEF IInv, Types
<1>1. ASSUME NEW c \in Call, NEW k \in Conversation, Prepare(c, k) PROVE Remembers'
  <2> DEFINE s == Acknowledged(Ensured(k))
  <2>1. MayEnsure(k) /\ session' = [session EXCEPT ![k] = Delivered(s)] /\ lives' = LivesAfter(k)
        /\ UNCHANGED <<owners, sent>>
    BY <1>1 DEF Prepare
  <2>2. Fine(Ensured(k))
    BY <2>1, EnsuredIs
  <2>3. Fine(s) /\ Memory(s) = Memory(Ensured(k))
    BY <2>2, AcknowledgedIs, SameMemory
  <2> HIDE DEF s
  <2>4. Fine(Delivered(s)) /\ Memory(Delivered(s)) = Memory(Ensured(k))
    BY <2>3, DeliveredIs, SameMemory
  <2> QED
    BY <2>1, <2>4, RemembersOn
<1>2. ASSUME NEW c \in Call, Denied(c) \/ UNCHANGED vars PROVE Remembers'
  <2>1. UNCHANGED <<session, owners, sent, lives>>
    BY <1>2 DEF Denied, vars
  <2> QED
    BY <2>1 DEF Remembers, Numbered, Owned, Recalled, Spaced, Known, Since
<1>3. ASSUME NEW c \in Call, BeginCall(c) PROVE Remembers'
  <2> DEFINE k == call[c].of
             r == [Ensured(k) EXCEPT !.active = @ \cup {c}]
  <2>1. /\ call[c].pc = "prepared" /\ MayEnsure(k) /\ session' = [session EXCEPT ![k] = r]
        /\ lives' = LivesAfter(k) /\ UNCHANGED <<owners, sent>>
    BY <1>3 DEF BeginCall
  <2>2. k \in Conversation
    BY <2>1 DEF CallsType, NoCall
  <2>3. Fine(Ensured(k))
    BY <2>1, <2>2, EnsuredIs
  <2>4. /\ Ensured(k).active \cup {c} \in SUBSET Call
        /\ r = [Ensured(k) EXCEPT !.active = Ensured(k).active \cup {c}]
        /\ Memory(r) = Memory(Ensured(k))
    BY <2>3 DEF Fine, SessionRec, Memory
  <2>5. Fine(r)
    BY <2>3, <2>4, TouchedIs
  <2> HIDE DEF r, k
  <2> QED
    BY <2>1, <2>2, <2>4, <2>5, RemembersOn
<1>4. ASSUME NEW k \in Known, NEW r, Fine(r), Memory(r) = Memory(session[k]),
             session' = [session EXCEPT ![k] = r], UNCHANGED <<owners, sent, lives>>
      PROVE  Remembers'
  <2>1. k \in Conversation /\ Ensured(k) = session[k] /\ LivesAfter(k) = lives
    BY DEF Known, Ensured, LivesAfter
  <2> QED
    BY <1>4, <2>1, RemembersOn
<1>5. ASSUME UNCHANGED <<session, owners, sent, lives>> PROVE Remembers'
  BY <1>5 DEF Remembers, Numbered, Owned, Recalled, Spaced, Known, Since
<1>6. ASSUME NEW c \in Call, Succeeds(c) PROVE Remembers'
  <2>1. CASE call[c].of \notin Known
    BY <1>5, <1>6, <2>1 DEF Succeeds
  <2>2. CASE call[c].of \in Known
    <3> PICK k \in Known : k = call[c].of
      BY <2>2
    <3>1. /\ session' = [session EXCEPT ![k] = Delivered(Left(c, session[k]))]
          /\ UNCHANGED <<owners, sent, lives>>
      BY <1>6, <2>2 DEF Succeeds
    <3>2. Fine(session[k]) /\ Fine(Left(c, session[k]))
      BY LeftIs DEF Sessions, Known
    <3>3. /\ Fine(Delivered(Left(c, session[k])))
          /\ Memory(Delivered(Left(c, session[k]))) = Memory(session[k])
      BY <3>2, DeliveredIs, SameMemory
    <3> QED
      BY <1>4, <3>1, <3>3
  <2> QED
    BY <2>1, <2>2
<1>7. ASSUME NEW c \in Call, Fails(c) PROVE Remembers'
  <2>1. CASE call[c].of \notin Known
    BY <1>5, <1>7, <2>1 DEF Fails
  <2>2. CASE call[c].of \in Known
    <3> PICK k \in Known : k = call[c].of
      BY <2>2
    <3> DEFINE s == Left(c, session[k])
               f == IF s.pending = <<>> THEN s ELSE Moved(s, "failed")
    <3>1. session' = [session EXCEPT ![k] = f] /\ UNCHANGED <<owners, sent, lives>>
      BY <1>7, <2>2 DEF Fails
    <3>2. Fine(session[k]) /\ Fine(s) /\ Memory(s) = Memory(session[k])
      BY LeftIs, SameMemory DEF Sessions, Known
    <3> HIDE DEF s
    <3>3. Fine(f) /\ Memory(f) = Memory(session[k])
      BY <3>2, FailedIs, SameMemory
    <3> HIDE DEF f
    <3> QED
      BY <1>4, <3>1, <3>3
  <2> QED
    BY <2>1, <2>2
<1>8. ASSUME NEW k \in Conversation, GoesQuiet(k) PROVE Remembers'
  <2>1. k \in Known /\ session' = [session EXCEPT ![k] = [session[k] EXCEPT !.quiet = TRUE]]
        /\ UNCHANGED <<owners, sent, lives>>
    BY <1>8 DEF GoesQuiet
  <2>2. Fine(session[k])
    BY <2>1 DEF Sessions, Known
  <2>3. Fine([session[k] EXCEPT !.quiet = TRUE])
    <3>1. {} \in SUBSET Call
      OBVIOUS
    <3> QED
      BY <2>2, <3>1, TouchedIs
  <2>4. Memory([session[k] EXCEPT !.quiet = TRUE]) = Memory(session[k])
    BY <2>2 DEF Fine, SessionRec, Memory
  <2> QED
    BY <1>4, <2>1, <2>3, <2>4
<1>9. CASE Prune \/ \E k \in Conversation : TransportGone(k)
  <2>1. PICK K \in SUBSET Conversation : Dropped(K) /\ UNCHANGED <<sent, lives>>
    BY <1>9 DEF Prune, TransportGone
  <2> QED
    BY <2>1, RemembersDrop
<1>10. CASE Restart
  <2>1. Known' = {} /\ sent' = sent /\ lives' = lives
    BY <1>10 DEF Restart, Known
  <2> QED
    BY <2>1 DEF Remembers, Numbered, Owned, Recalled, Spaced
<1>11. ASSUME NEW life \in Life, NEW i \in Key, Enqueue(life, i) PROVE Remembers'
  BY <1>11, RemembersEnqueue
<1>12. CASE UNCHANGED vars
  BY <1>5, <1>12 DEF vars
<1> QED
  BY <1>1, <1>2, <1>3, <1>6, <1>7, <1>8, <1>9, <1>10, <1>11, <1>12 DEF Next
-----------------------------------------------------------------------------
LEMMA InitHolds == Init => IInv
<1> SUFFICES ASSUME Init PROVE IInv
  OBVIOUS
<1>1. sent = <<>> /\ DOMAIN sent = {} /\ Len(sent) = 0
  BY DEF Init
<1>2. SentType /\ ShownType
  BY <1>1, LimitAssumption DEF Init, SentType, ShownType, Message
<1>3. Sessions /\ OwnersType /\ CallsType /\ LivesType
  BY LimitAssumption DEF Init, Sessions, OwnersType, CallsType, LivesType
<1>4. Apart /\ Accounted
  BY <1>1 DEF Init, Apart, Accounted, Pend
<1> QED
  BY <1>2, <1>3, <1>4 DEF IInv, Types

LEMMA StepKeeps == IInv /\ [Next]_vars => IInv'
<1> SUFFICES ASSUME IInv, [Next]_vars PROVE IInv'
  OBVIOUS
<1>1. ASSUME NEW c \in Call, NEW k \in Conversation, Prepare(c, k) PROVE IInv'
  BY <1>1, PrepareKeeps
<1>2. ASSUME NEW c \in Call, Denied(c) \/ BeginCall(c) \/ Succeeds(c) \/ Fails(c) PROVE IInv'
  BY <1>2, DeniedKeeps, BeginCallKeeps, SucceedsKeeps, FailsKeeps
<1>3. ASSUME NEW life \in Life, NEW i \in Key, Enqueue(life, i) PROVE IInv'
  BY <1>3, EnqueueKeeps
<1>4. ASSUME NEW k \in Conversation, GoesQuiet(k) PROVE IInv'
  BY <1>4, GoesQuietKeeps
<1>5. CASE Prune \/ \E k \in Conversation : TransportGone(k)
  BY <1>5, PruneKeeps
<1>6. CASE Restart
  BY <1>6, RestartKeeps
<1>7. CASE UNCHANGED vars
  <2>1. Sessions' /\ OwnersType' /\ CallsType' /\ LivesType' /\ \A k \in Conversation : Pend(k)' = Pend(k)
    BY <1>7 DEF vars, IInv, Types, Sessions, OwnersType, CallsType, LivesType, Pend
  <2> QED
    BY <1>7, <2>1, NothingMoves DEF vars, IInv, Types
<1> QED
  BY <1>1, <1>2, <1>3, <1>4, <1>5, <1>6, <1>7 DEF Next

LEMMA Invariant == Spec => []IInv
BY InitHolds, StepKeeps, PTL DEF Spec

\* Sessions, queues, owners and calls keep their types (steering.py:302-720).
THEOREM TypeCorrect == Spec => []TypeOK
<1>1. ASSUME IInv PROVE TypeOK
  <2>1. \A k \in Known : Fine(session[k])
    BY <1>1 DEF IInv, Types, Sessions, Known
  <2>2. \A k \in Known :
          LET s == session[k]
          IN  /\ s.life \in Life /\ s.state \in DOMAIN Allowed
              /\ s.pending \in Seq(Message) /\ s.awaiting \in BOOLEAN
              /\ s.keys \in Seq(Key) /\ Len(s.keys) <= MaxKeys
              /\ s.tombs \in Seq(Key) /\ Len(s.tombs) <= MaxTombstones
              /\ s.active \subseteq Call /\ s.quiet \in BOOLEAN
    BY <2>1 DEF Fine, SessionRec, States, Allowed
  <2>3. \A c \in Call : call[c] = NoCall \/ call[c] \in [pc : {"prepared", "running"}, of : Conversation]
    BY <1>1 DEF IInv, Types, CallsType
  <2>4. ended \subseteq Message
    BY <1>1, LimitAssumption DEF IInv, Types, SentType, ShownType, Message
  <2> QED
    BY <1>1, <2>2, <2>3, <2>4 DEF IInv, Types, OwnersType, SentType, ShownType, TypeOK
<1> QED
  BY <1>1, Invariant, PTL

\* What the menu shows of a session is so, and no change of state is one the table of transitions
\* refuses half-way (steering.py:57-65, :302-346).
THEOREM LifecycleTrueHolds == Spec => []LifecycleTrue
<1>1. ASSUME IInv PROVE LifecycleTrue
  BY <1>1 DEF IInv, Types, Sessions, Known, Fine, True, LifecycleTrue
<1> QED
  BY <1>1, Invariant, PTL

\* Every instruction waits, or was shown once, or is reported as ended: an instruction waits in one
\* session only, and whatever empties a session's queue shows it or reports it
\* (steering.py:390-470, :506-640).
THEOREM InstructionAccountedHolds == Spec => []InstructionAccounted
<1>1. ASSUME IInv PROVE InstructionAccounted
  <2>1. \A m : m \in Waiting <=> Waits(m)
    BY DEF Waiting, Waits, Pend, Known
  <2> QED
    BY <1>1, <2>1 DEF IInv, Accounted, InstructionAccounted
<1> QED
  BY <1>1, Invariant, PTL

\* A press of Send is queued once: an id owned by no other life, and held by its session until both
\* limits have come after it, is accepted again only then (steering.py:608-655, :672-720).
THEOREM AcceptedOnceHolds == Spec => []AcceptedOnce
<1>1. ASSUME IInv, Remembers PROVE AcceptedOnce
  <2>1. ASSUME NEW j \in Known, NEW k \in Known, j # k
        PROVE  Held(session[j]) \cap Held(session[k]) = {}
    BY <1>1, <2>1 DEF Remembers, Numbered, Owned
  <2> QED
    BY <1>1, <2>1 DEF Remembers, Spaced, AcceptedOnce
<1>2. Init => Remembers
  BY RemembersInit
<1>3. IInv /\ Remembers /\ [Next]_vars => Remembers'
  BY RemembersStep
<1> QED
  BY <1>1, <1>2, <1>3, Invariant, PTL DEF Spec
-----------------------------------------------------------------------------
(* The room of a team.  What a state of it holds. *)

PostType == [from : Member, to : Recipient, note : BOOLEAN, copyOf : Nat]
MarksType == [state : {"none", "in", "left", "quit"}, delivered : Nat, read : Nat]
RoomTypes ==
    /\ messages \in Seq(PostType) /\ pruned \in 0..Len(messages)
    /\ member \in [Member -> MarksType]
    /\ rows \in [Member -> SUBSET (1..Len(messages))]
    /\ opened \in [Member -> SUBSET (1..Len(messages))]
    /\ batch \in [Pusher -> [to : Member, seqs : SUBSET Nat]]
    /\ spilt \in [Agent -> [now : SUBSET Nat, ever : SUBSET Nat]]
    /\ late \in [Agent -> SUBSET Nat]
    /\ due \in SUBSET [seq : Nat, to : Task]
    /\ work \in [Agent -> {"new", "runs", "idle", "ended"}]
    /\ seen \in [Member -> [once : SUBSET Nat, again : SUBSET Nat]]

\* What the marks and rows of a member say: what lies below its marks was shown or opened.
Marked(m) ==
    /\ member[m].delivered <= Len(messages) /\ member[m].read <= Len(messages)
    /\ opened[m] \subseteq rows[m]
    /\ \A s \in Seqs : For(m, s) => /\ s <= member[m].delivered => s \in rows[m]
                                    /\ s <= member[m].read => s \in opened[m]

\* But for what a push gave back and its list kept, what a channel really showed, or a list holds
\* and no file yet, has a row; and none is both.
Kept(m)   == IF m \in Agent THEN spilt[m].ever ELSE {}
Listed(m) == IF m \in Agent THEN spilt[m].now ELSE {}
ShownOnce(m) ==
    /\ seen[m].again \subseteq Kept(m)
    /\ \A s \in seen[m].once \cup Listed(m) : s \in rows[m] \/ s \in Kept(m)
    /\ \A s \in seen[m].once : s \in Listed(m) => s \in Kept(m)

\* But for the same, what a push has claimed is in no list and was shown nowhere, nor claimed by another.
Claims(p) ==
    LET a == batch[p].to
        S == batch[p].seqs
    IN  batch[p] = NoPush \/ /\ a \in Agent /\ S # {} /\ S \subseteq rows[a]
                             /\ member[a].state # "none"
                             /\ \A s \in S : s \in seen[a].once \cup spilt[a].now => s \in spilt[a].ever
ClaimsApart == \A p, q \in Pusher :
                  p # q /\ batch[p].to = batch[q].to => batch[p].seqs \cap batch[q].seqs = {}
Pushes == ClaimsApart /\ \A p \in Pusher : Claims(p)
Shows == Pushes /\ \A m \in Member : Marked(m) /\ ShownOnce(m)

\* Copies are of messages that are noted, one for each recipient; what is still owed has no copy yet.
IsCopy(c, s, to) == messages[c].copyOf = s /\ messages[c].to = to
Copied ==
    \A c \in DOMAIN messages : messages[c].copyOf # 0 =>
        /\ messages[c].copyOf < c /\ messages[messages[c].copyOf].note
        /\ \A b \in DOMAIN messages : IsCopy(b, messages[c].copyOf, messages[c].to) => b = c
ToLead ==
    \A s \in DOMAIN messages : messages[s].note /\ messages[s].from # Lead =>
        \E c \in DOMAIN messages : IsCopy(c, s, Lead)
OwedOnce ==
    \A d \in due : /\ d.seq \in DOMAIN messages /\ messages[d.seq].note
                   /\ \A c \in DOMAIN messages : ~IsCopy(c, d.seq, d.to)
Copies == Copied /\ ToLead /\ OwedOnce

\* What was sent to agents that have all finished.
Mine(s) == {b \in Agent : messages[s].to \in {b, TaskOf[b]}}
Reached ==
    \A a \in Agent, s \in Seqs :
        /\ member[a].state = "left" /\ a \in Mine(s) /\ Original(s) /\ messages[s].from \notin Mine(s)
        /\ \A b \in Mine(s) : member[b].state \in {"none", "left"}
        => messages[s].note \/ \E b \in Mine(s) : s \in rows[b] \cup late[b]

RoomInv == RoomTypes /\ Shows /\ Copies /\ Reached
-----------------------------------------------------------------------------
(* Numbers *)

LEMMA LeastIs ==
    ASSUME NEW S \in SUBSET Nat, S # {}
    PROVE  Min(S) \in S /\ \A y \in S : Min(S) <= y
<1> DEFINE R == OpToRel(<, Nat)
<1>1. IsWellFoundedOn(R, Nat)
  BY NatLessThanWellFounded
<1>2. \A x, y \in Nat : <<y, x>> \in R <=> y < x
  BY DEF OpToRel
<1> HIDE DEF R
<1>3. PICK x \in S : \A y \in S : <<y, x>> \notin R
  BY <1>1, WFMin
<1>4. \A y \in S : x <= y
  <2> TAKE y \in S
  <2>1. x \in Nat /\ y \in Nat /\ ~(y < x)
    BY <1>2, <1>3
  <2> QED
    BY <2>1
<1> QED
  BY <1>4 DEF Min

LEMMA GreatestIs ==
    ASSUME NEW n \in Nat, NEW S \in SUBSET (0..n), S # {}
    PROVE  Max(S) \in S /\ \A y \in S : Max(S) >= y
<1> DEFINE T == {k \in Nat : \E x \in S : k = n - x}
<1>1. \A y \in S : y \in 0..n /\ n - y \in Nat /\ n - y \in T
  OBVIOUS
<1>2. T \in SUBSET Nat /\ T # {}
  BY <1>1
<1>3. \A k \in T : \E x \in S : k = n - x
  OBVIOUS
<1> HIDE DEF T
<1>4. Min(T) \in T /\ \A k \in T : Min(T) <= k
  BY <1>2, LeastIs
<1>5. PICK x \in S : Min(T) = n - x
  BY <1>3, <1>4
<1>6. ASSUME NEW y \in S PROVE x >= y
  <2>1. n - x <= n - y
    BY <1>1, <1>4, <1>5
  <2> QED
    BY <1>1, <2>1
<1> QED
  BY <1>6 DEF Max

LEMMA LaterIs ==
    ASSUME NEW a \in Nat, NEW b \in Nat
    PROVE  Later(a, b) \in {a, b} /\ a <= Later(a, b) /\ b <= Later(a, b)
BY DEF Later

\* With a number, the earliest of a set hold all that come before it.
LEMMA EarliestIs ==
    ASSUME NEW n \in Nat, NEW S \in SUBSET (1..n), NEW k \in Nat
    PROVE  /\ Earliest(S, k) \subseteq S
           /\ \A t \in Earliest(S, k) : \A s \in S : s <= t => s \in Earliest(S, k)
<1> SUFFICES ASSUME NEW t \in Earliest(S, k), NEW s \in S, s <= t
             PROVE  s \in Earliest(S, k)
  BY DEF Earliest
<1> DEFINE B(x) == {u \in S : u < x}
<1>1. t \in S /\ Cardinality(B(t)) < k
  BY DEF Earliest
<1>0. \A u \in S : u \in Nat
  OBVIOUS
<1>2. B(s) \subseteq B(t)
  <2> SUFFICES ASSUME NEW u \in S, u < s PROVE u < t
    OBVIOUS
  <2> QED
    BY <1>0, <1>1
<1>3. IsFiniteSet(S)
  <2>1. IsFiniteSet(1..n)
    BY FS_Interval
  <2> QED
    BY <2>1, FS_Subset
<1>4. IsFiniteSet(B(t)) /\ IsFiniteSet(B(s))
  BY <1>3, FS_Subset
<1>5. Cardinality(B(s)) <= Cardinality(B(t)) /\ Cardinality(B(s)) \in Nat /\ Cardinality(B(t)) \in Nat
  BY <1>2, <1>4, FS_Subset, FS_CardinalityType
<1>6. Cardinality(B(s)) < k
  BY <1>1, <1>5
<1> QED
  BY <1>6 DEF Earliest

\* The places of the members of a set are the numbers up to its size, each for one of them.
LEMMA PlaceIs ==
    ASSUME NEW n \in Nat, NEW S \in SUBSET (1..n)
    PROVE  /\ Cardinality(S) \in Nat
           /\ \A s \in S : Place(s, S) \in 1..Cardinality(S)
           /\ \A s, t \in S : Place(s, S) = Place(t, S) => s = t
           /\ \A c \in 1..Cardinality(S) : \E s \in S : Place(s, S) = c
<1> DEFINE B(x) == {u \in S : u <= x}
<1>0. \A u \in S : u \in Nat
  OBVIOUS
<1>1. IsFiniteSet(S) /\ Cardinality(S) \in Nat
  <2>1. IsFiniteSet(1..n)
    BY FS_Interval
  <2>2. IsFiniteSet(S)
    BY <2>1, FS_Subset
  <2> QED
    BY <2>2, FS_CardinalityType
<1>2. \A s \in S : IsFiniteSet(B(s)) /\ Cardinality(B(s)) \in Nat /\ Cardinality(B(s)) <= Cardinality(S)
  BY <1>1, FS_Subset, FS_CardinalityType
<1>3. ASSUME NEW s \in S PROVE Cardinality(B(s)) # 0
  <2>1. s \in B(s)
    OBVIOUS
  <2> QED
    BY <2>1, <1>2, FS_EmptySet
<1>4. \A s \in S : Place(s, S) = Cardinality(B(s))
  BY DEF Place
<1>5. ASSUME NEW s \in S PROVE Place(s, S) \in 1..Cardinality(S)
  <2> DEFINE b == Cardinality(B(s))
  <2>1. b \in Nat /\ b # 0 /\ b <= Cardinality(S)
    BY <1>2, <1>3
  <2>2. Place(s, S) = b
    BY <1>4
  <2> HIDE DEF b
  <2> QED
    BY <1>1, <2>1, <2>2
<1>6. ASSUME NEW s \in S, NEW t \in S, s < t PROVE Place(s, S) # Place(t, S)
  <2>0. s \in Nat /\ t \in Nat /\ t <= t /\ ~(t <= s)
    BY <1>0, <1>6
  <2>1. t \in B(t) /\ t \notin B(s)
    BY <2>0
  <2>2. \A u \in S : u <= s => u <= t
    BY <1>0, <2>0, <1>6
  <2>3. B(s) \in SUBSET B(t)
    BY <2>2
  <2> QED
    BY <2>1, <2>3, <1>2, <1>4, FS_Subset
<1>7. \A s, t \in S : Place(s, S) = Place(t, S) => s = t
  <2> SUFFICES ASSUME NEW s \in S, NEW t \in S, Place(s, S) = Place(t, S) PROVE s = t
    OBVIOUS
  <2>1. s < t \/ t < s \/ s = t
    OBVIOUS
  <2> QED
    BY <2>1, <1>6
<1>8. \A c \in 1..Cardinality(S) : \E s \in S : Place(s, S) = c
  <2> DEFINE f == [s \in S |-> Place(s, S)]
  <2>1. f \in Injection(S, 1..Cardinality(S))
    BY <1>5, <1>7 DEF Injection, IsInjective
  <2>2. IsFiniteSet(1..Cardinality(S)) /\ Cardinality(1..Cardinality(S)) = Cardinality(S)
    BY <1>1, FS_Interval
  <2>3. f \in Surjection(S, 1..Cardinality(S))
    BY <2>1, <2>2, FS_Injection
  <2> QED
    BY <2>3 DEF Surjection
<1> QED
  BY <1>1, <1>5, <1>7, <1>8
-----------------------------------------------------------------------------
(* Messages *)

\* What a step does to the messages there are: more of them, the same but for their notes.
Grown ==
    /\ Len(messages) <= Len(messages') /\ pruned <= pruned'
    /\ \A s \in 1..Len(messages) :
         /\ messages'[s].from = messages[s].from /\ messages'[s].to = messages[s].to
         /\ messages'[s].copyOf = messages[s].copyOf
         /\ messages[s].note => messages'[s].note

LEMMA TypesAre ==
    ASSUME RoomTypes
    PROVE  /\ Len(messages) \in Nat /\ DOMAIN messages = 1..Len(messages)
           /\ pruned \in Nat /\ Seqs \subseteq 1..Len(messages)
           /\ \A s \in 1..Len(messages) : /\ s \in Nat /\ messages[s] \in PostType
                                          /\ messages[s].from \in Member /\ messages[s].to \in Recipient
                                          /\ messages[s].note \in BOOLEAN /\ messages[s].copyOf \in Nat
<1>1. messages \in Seq(PostType) /\ pruned \in 0..Len(messages)
  BY DEF RoomTypes
<1>2. /\ Len(messages) \in Nat /\ DOMAIN messages = 1..Len(messages)
      /\ \A s \in 1..Len(messages) : messages[s] \in PostType
  BY <1>1
<1>3. pruned \in Nat /\ Seqs \subseteq 1..Len(messages)
  BY <1>1, <1>2 DEF Seqs
<1> QED
  BY <1>2, <1>3 DEF PostType

LEMMA TypesAfter ==
    ASSUME RoomTypes'
    PROVE  /\ Len(messages') \in Nat /\ DOMAIN messages' = 1..Len(messages')
           /\ pruned' \in Nat /\ Seqs' \subseteq 1..Len(messages')
<1>1. messages' \in Seq(PostType) /\ pruned' \in 0..Len(messages')
  BY DEF RoomTypes, PostType
<1>2. Len(messages') \in Nat /\ DOMAIN messages' = 1..Len(messages')
  BY <1>1
<1> QED
  BY <1>1, <1>2 DEF Seqs

LEMMA NamesAre ==
    /\ Lead \in Member /\ Agent \subseteq Member /\ Lead \notin Agent /\ Lead \notin Task
    /\ Agent \cap Task = {} /\ Member \cap Task = {} /\ Member \cup Task \subseteq Recipient
    /\ \A a \in Agent : TaskOf[a] \in Task
    /\ \A t \in Task : Dependents[t] \subseteq Task
BY RoomAssumption DEF Member, Recipient

LEMMA MarksAre == RoomTypes => member \in [Member -> MarksType]
BY DEF RoomTypes

LEMMA CopyIs ==
    ASSUME RoomTypes, NEW s \in 1..Len(messages), NEW to \in Recipient
    PROVE  /\ Copy(s, to) \in PostType /\ Copy(s, to).from = messages[s].from /\ Copy(s, to).to = to
           /\ Copy(s, to).note = FALSE /\ Copy(s, to).copyOf = s
BY TypesAre DEF Copy, PostType

LEMMA PostIs ==
    ASSUME NEW m \in Member, NEW to \in Recipient, NEW note \in BOOLEAN
    PROVE  /\ Post(m, to, note) \in PostType /\ Post(m, to, note).from = m /\ Post(m, to, note).to = to
           /\ Post(m, to, note).note = note /\ Post(m, to, note).copyOf = 0
BY DEF Post, PostType

LEMMA NotedIs ==
    ASSUME RoomTypes, NEW s \in 1..Len(messages), NEW S
    PROVE  /\ Noted(s, S) \in PostType
           /\ Noted(s, S).from = messages[s].from /\ Noted(s, S).to = messages[s].to
           /\ Noted(s, S).copyOf = messages[s].copyOf
           /\ Noted(s, S).note <=> messages[s].note \/ s \in S
<1>0. PICK p \in PostType : p = messages[s]
  BY TypesAre
<1>1. /\ p.from \in Member /\ p.to \in Recipient /\ p.copyOf \in Nat /\ p.note \in BOOLEAN
      /\ p = [from |-> p.from, to |-> p.to, note |-> p.note, copyOf |-> p.copyOf]
  BY DEF PostType
<1>2. PICK n \in BOOLEAN : n = (p.note \/ s \in S)
  <2>1. (p.note \/ s \in S) \in BOOLEAN
    BY Zenon
  <2> QED
    BY <2>1, Zenon
<1>3. Noted(s, S) = [p EXCEPT !.note = n]
  BY <1>0, <1>2, Zenon DEF Noted
<1>4. /\ Noted(s, S).note = n /\ Noted(s, S) \in PostType /\ Noted(s, S).from = p.from
      /\ Noted(s, S).to = p.to /\ Noted(s, S).copyOf = p.copyOf
  BY <1>1, <1>3 DEF PostType
<1>5. n <=> p.note \/ s \in S
  BY <1>2, Zenon
<1> QED
  BY <1>0, <1>4, <1>5

\* What passing on the messages of S, those of L to the lead, does to the room.
Passes(t, S, L) ==
    /\ t \in Seq(PostType) /\ Len(t) \in Nat /\ Len(messages) <= Len(t)
    /\ \A s \in 1..Len(messages) :
         /\ t[s].from = messages[s].from /\ t[s].to = messages[s].to
         /\ t[s].copyOf = messages[s].copyOf
         /\ t[s].note <=> messages[s].note \/ s \in S
    /\ \A c \in (Len(messages) + 1)..Len(t) :
         t[c].to = Lead /\ t[c].note = FALSE /\ t[c].copyOf \in L
    /\ \A s \in L : \E c \in (Len(messages) + 1)..Len(t) : t[c].copyOf = s
    /\ \A b, c \in (Len(messages) + 1)..Len(t) : t[b].copyOf = t[c].copyOf => b = c

LEMMA PassedOnIs ==
    ASSUME RoomTypes, NEW S \in SUBSET (1..Len(messages)), NEW L \in SUBSET (1..Len(messages))
    PROVE  Passes(PassedOn(S, L), S, L)
<1>0. PICK t : t = PassedOn(S, L)
  OBVIOUS
<1> DEFINE top == Len(messages)  k == Cardinality(L)
           Of(c) == CHOOSE s \in L : Place(s, L) = c - top
<1>1. top \in Nat /\ k \in Nat
  BY TypesAre, PlaceIs
<1>2. /\ \A s \in L : Place(s, L) \in 1..k
      /\ \A s, u \in L : Place(s, L) = Place(u, L) => s = u
      /\ \A c \in 1..k : \E s \in L : Place(s, L) = c
  BY <1>1, PlaceIs
<1>3. t = [c \in 1..(top + k) |-> IF c <= top THEN Noted(c, S) ELSE Copy(Of(c), Lead)]
  BY <1>0 DEF PassedOn
<1> HIDE DEF k
<1>4. \A c \in (top + 1)..(top + k) : Of(c) \in L /\ Place(Of(c), L) = c - top
  <2> TAKE c \in (top + 1)..(top + k)
  <2>1. c - top \in 1..k
    BY <1>1
  <2> QED
    BY <2>1, <1>2
<1>5. ASSUME NEW c \in 1..top
      PROVE  /\ t[c] \in PostType /\ t[c].from = messages[c].from /\ t[c].to = messages[c].to
             /\ t[c].copyOf = messages[c].copyOf
             /\ t[c].note <=> messages[c].note \/ c \in S
  <2>1. c \in 1..(top + k) /\ c <= top
    BY <1>1
  <2>2. t[c] = Noted(c, S)
    BY <2>1, <1>3
  <2> QED
    BY <2>2, NotedIs
<1> HIDE DEF Of
<1>6. ASSUME NEW c \in (top + 1)..(top + k)
      PROVE  t[c] \in PostType /\ t[c].to = Lead /\ t[c].note = FALSE /\ t[c].copyOf = Of(c)
  <2>1. c \in 1..(top + k) /\ ~(c <= top)
    BY <1>1
  <2>2. t[c] = Copy(Of(c), Lead)
    BY <2>1, <1>3
  <2>3. PICK s \in 1..Len(messages) : s = Of(c)
    BY <1>4
  <2>4. t[c] = Copy(s, Lead) /\ Lead \in Recipient
    BY <2>2, <2>3, NamesAre
  <2>5. Copy(s, Lead) \in PostType /\ Copy(s, Lead).to = Lead /\ Copy(s, Lead).note = FALSE
        /\ Copy(s, Lead).copyOf = s
    BY <2>4, CopyIs
  <2> QED
    BY <2>3, <2>4, <2>5
<1>7. t \in Seq(PostType) /\ Len(t) = top + k
  <2>1. \A c \in 1..(top + k) : t[c] \in PostType
    <3> HIDE DEF top
    <3> TAKE c \in 1..(top + k)
    <3>1. c \in 1..top \/ c \in (top + 1)..(top + k)
      BY <1>1
    <3> QED
      BY <3>1, <1>5, <1>6
  <2>2. t \in [1..(top + k) -> PostType] /\ top + k \in Nat
    BY <1>1, <1>3, <2>1
  <2> HIDE DEF top
  <2> QED
    BY <2>2
<1>8. \A s \in L : \E c \in (top + 1)..Len(t) : t[c].copyOf = s
  <2> TAKE s \in L
  <2>1. PICK c : c = top + Place(s, L)
    OBVIOUS
  <2>2. Place(s, L) \in 1..k
    BY <1>2
  <2>3. c \in (top + 1)..(top + k) /\ c - top = Place(s, L)
    BY <1>1, <2>1, <2>2
  <2>4. Of(c) = s
    BY <1>2, <1>4, <2>3
  <2> QED
    BY <1>6, <1>7, <2>3, <2>4
<1>9. ASSUME NEW b \in (top + 1)..Len(t), NEW c \in (top + 1)..Len(t), t[b].copyOf = t[c].copyOf
      PROVE  b = c
  <2>1. Of(b) = Of(c)
    BY <1>6, <1>7, <1>9
  <2>2. b - top = c - top
    BY <1>4, <1>7, <2>1
  <2> QED
    BY <1>1, <1>7, <2>2
<1>10. Len(t) \in Nat /\ Len(messages) <= Len(t)
  BY <1>1, <1>7
<1>11. \A c \in (Len(messages) + 1)..Len(t) : t[c].to = Lead /\ t[c].note = FALSE /\ t[c].copyOf \in L
  BY <1>4, <1>6, <1>7
<1> QED
  BY <1>0, <1>5, <1>7, <1>8, <1>9, <1>10, <1>11 DEF Passes
-----------------------------------------------------------------------------
(* What a step keeps *)

LEMMA MineIs ==
    ASSUME NEW s, messages'[s].to = messages[s].to
    PROVE  Mine(s)' = Mine(s)
BY DEF Mine

LEMMA SameMessages ==
    ASSUME RoomTypes, UNCHANGED <<messages, pruned>>
    PROVE  Grown
BY TypesAre DEF Grown

LEMMA WiderIs ==
    ASSUME RoomTypes, Grown, messages' \in Seq(PostType), NEW S \in SUBSET (1..Len(messages))
    PROVE  S \in SUBSET (1..Len(messages'))
<1>1. Len(messages) \in Nat /\ Len(messages') \in Nat /\ Len(messages) <= Len(messages')
  BY TypesAre DEF Grown
<1>2. 1..Len(messages) \subseteq 1..Len(messages')
  BY <1>1
<1> QED
  BY <1>2

LEMMA ShowsKept ==
    ASSUME RoomTypes, RoomTypes', Shows, Grown, UNCHANGED <<rows, opened, seen>>,
           \A m \in Member : /\ member'[m].delivered = member[m].delivered
                             /\ member'[m].read = member[m].read
                             /\ member[m].state # "none" => member'[m].state # "none",
           \A a \in Agent : spilt'[a].ever = spilt[a].ever /\ spilt'[a].now \subseteq spilt[a].now,
           \A p \in Pusher : batch'[p] = batch[p]
    PROVE  Shows'
<1>0. Pushes'
  <2>1. ClaimsApart'
    BY DEF Shows, Pushes, ClaimsApart
  <2>2. ASSUME NEW p \in Pusher PROVE Claims(p)'
    BY NamesAre DEF Shows, Pushes, Claims
  <2> QED
    BY <2>1, <2>2 DEF Pushes
<1> SUFFICES ASSUME NEW m \in Member PROVE Marked(m)' /\ ShownOnce(m)'
  BY <1>0 DEF Shows
<1>1. Marked(m) /\ ShownOnce(m)
  BY DEF Shows
<1>2. /\ Len(messages) \in Nat /\ Len(messages') \in Nat /\ Len(messages) <= Len(messages')
      /\ DOMAIN messages = 1..Len(messages) /\ DOMAIN messages' = 1..Len(messages')
      /\ pruned \in Nat /\ pruned' \in Nat /\ pruned <= pruned'
  BY TypesAre, TypesAfter DEF Grown
<1>3. member[m].delivered \in Nat /\ member[m].read \in Nat
  BY DEF RoomTypes, MarksType
<1>4. ASSUME NEW s \in Seqs', For(m, s)', s <= member[m].delivered \/ s <= member[m].read
      PROVE  s \in Seqs /\ For(m, s)
  <2>1. s \in 1..Len(messages') /\ s > pruned'
    BY <1>2 DEF Seqs
  <2>2. member[m].delivered <= Len(messages) /\ member[m].read <= Len(messages)
    BY <1>1 DEF Marked
  <2>3. s \in 1..Len(messages) /\ s > pruned
    BY <1>2, <1>3, <1>4, <2>1, <2>2
  <2>4. messages'[s].from = messages[s].from /\ messages'[s].to = messages[s].to
    BY <2>3 DEF Grown
  <2> QED
    BY <1>2, <1>4, <2>3, <2>4 DEF Seqs, For, TaskOfMember
<1>5. Marked(m)'
  <2>1. member'[m].delivered <= Len(messages') /\ member'[m].read <= Len(messages')
    BY <1>1, <1>2, <1>3 DEF Marked
  <2>2. opened'[m] \subseteq rows'[m]
    BY <1>1 DEF Marked
  <2>3. ASSUME NEW s \in Seqs', For(m, s)', s <= member'[m].delivered PROVE s \in rows'[m]
    BY <2>3, <1>1, <1>4 DEF Marked
  <2>4. ASSUME NEW s \in Seqs', For(m, s)', s <= member'[m].read PROVE s \in opened'[m]
    BY <2>4, <1>1, <1>4 DEF Marked
  <2> QED
    BY <2>1, <2>2, <2>3, <2>4 DEF Marked
<1>6. ShownOnce(m)'
  BY <1>1 DEF ShownOnce, Kept, Listed
<1> QED
  BY <1>5, <1>6

\* A step that shows messages to one member.
LEMMA OneShown ==
    ASSUME Shows, UNCHANGED <<messages, pruned>>, NEW m \in Member,
           \A n \in Member \ {m} : /\ member'[n] = member[n] /\ rows'[n] = rows[n]
                                   /\ opened'[n] = opened[n] /\ seen'[n] = seen[n]
                                   /\ n \in Agent => spilt'[n] = spilt[n],
           Marked(m)', ShownOnce(m)', Pushes'
    PROVE  Shows'
<1> SUFFICES ASSUME NEW n \in Member \ {m} PROVE Marked(n)' /\ ShownOnce(n)'
  BY DEF Shows
<1>1. Marked(n) /\ ShownOnce(n)
  BY DEF Shows
<1>2. Marked(n)'
  BY <1>1 DEF Marked, Seqs, For, TaskOfMember
<1>3. ShownOnce(n)'
  BY <1>1 DEF ShownOnce, Kept, Listed
<1> QED
  BY <1>2, <1>3

\* Pushes go on, or end, while those that go on keep their rows, and nothing of theirs is shown or listed.
LEMMA PushesKept ==
    ASSUME Pushes, \A p \in Pusher : batch'[p] \in {batch[p], NoPush},
           \A a \in Agent : member[a].state # "none" => member'[a].state # "none",
           \A p \in Pusher : batch'[p] # NoPush =>
              \A s \in batch[p].seqs :
                 LET a == batch[p].to
                 IN  /\ s \in rows'[a]
                     /\ s \in seen'[a].once => s \in seen[a].once \/ s \in spilt[a].now \/ s \in spilt[a].ever
                     /\ s \in spilt'[a].now => s \in spilt[a].now \/ s \in spilt[a].ever
                     /\ s \in spilt[a].ever => s \in spilt'[a].ever
    PROVE  Pushes'
<1>1. ClaimsApart'
  <2> SUFFICES ASSUME NEW p \in Pusher, NEW q \in Pusher, p # q, batch'[p].to = batch'[q].to
               PROVE  batch'[p].seqs \cap batch'[q].seqs = {}
    BY DEF ClaimsApart
  <2>1. NoPush.seqs = {}
    BY DEF NoPush
  <2>2. CASE batch'[p] = batch[p] /\ batch'[q] = batch[q]
    BY <2>2 DEF Pushes, ClaimsApart
  <2> QED
    BY <2>1, <2>2
<1>2. ASSUME NEW p \in Pusher, batch'[p] # NoPush PROVE Claims(p)'
  <2>1. batch'[p] = batch[p] /\ Claims(p)
    BY <1>2 DEF Pushes
  <2> QED
    BY <1>2, <2>1 DEF Claims
<1>3. ASSUME NEW p \in Pusher PROVE Claims(p)'
  BY <1>2, <1>3 DEF Claims
<1> QED
  BY <1>1, <1>3 DEF Pushes

LEMMA ReachedKept ==
    ASSUME RoomTypes, RoomTypes', Reached, Grown,
           \A a \in Agent : \/ member'[a].state = member[a].state
                            \/ member'[a].state \notin {"none", "left"},
           \A a \in Agent : member'[a].state \in {"none", "left"} =>
                              rows[a] \cup late[a] \subseteq rows'[a] \cup late'[a],
           \A a \in Agent, s \in (Len(messages) + 1)..Len(messages') :
              /\ member'[a].state = "left" /\ a \in Mine(s)' /\ messages'[s].copyOf = 0
              /\ \A b \in Mine(s)' : member'[b].state \in {"none", "left"}
              => messages'[s].note
    PROVE  Reached'
<1> SUFFICES ASSUME NEW a \in Agent, NEW s \in Seqs',
                    member'[a].state = "left", a \in Mine(s)', Original(s)',
                    messages'[s].from \notin Mine(s)',
                    \A b \in Mine(s)' : member'[b].state \in {"none", "left"}
             PROVE  messages'[s].note \/ \E b \in Mine(s)' : s \in rows'[b] \cup late'[b]
  BY DEF Reached
<1>1. /\ Len(messages) \in Nat /\ Len(messages') \in Nat /\ Len(messages) <= Len(messages')
      /\ DOMAIN messages = 1..Len(messages) /\ DOMAIN messages' = 1..Len(messages')
      /\ pruned \in Nat /\ pruned' \in Nat /\ pruned <= pruned'
  BY TypesAre, TypesAfter DEF Grown
<1>2. s \in 1..Len(messages') /\ s > pruned'
  BY <1>1 DEF Seqs
<1>3. CASE s > Len(messages)
  <2>1. s \in (Len(messages) + 1)..Len(messages')
    BY <1>1, <1>2, <1>3
  <2> QED
    BY <2>1 DEF Original
<1>4. CASE s <= Len(messages)
  <2>1. s \in 1..Len(messages) /\ s > pruned
    BY <1>1, <1>2, <1>4
  <2>2. s \in Seqs
    BY <1>1, <2>1 DEF Seqs
  <2>3. /\ messages'[s].from = messages[s].from /\ messages'[s].to = messages[s].to
        /\ messages'[s].copyOf = messages[s].copyOf
        /\ messages[s].note => messages'[s].note
    BY <2>1 DEF Grown
  <2>4. Mine(s)' = Mine(s)
    BY <2>3, MineIs
  <2>5. \A b \in Mine(s) : b \in Agent /\ member[b].state = member'[b].state
    BY <2>4 DEF Mine
  <2>6. messages[s].note \/ \E b \in Mine(s) : s \in rows[b] \cup late[b]
    BY <2>2, <2>3, <2>4, <2>5 DEF Reached, Original
  <2> QED
    BY <2>3, <2>4, <2>5, <2>6
<1> QED
  BY <1>1, <1>2, <1>3, <1>4

LEMMA CopiesKept ==
    ASSUME Copies, messages' = messages, due' \subseteq due
    PROVE  Copies'
BY DEF Copies, Copied, ToLead, OwedOnce, IsCopy

\* When only marks, rows and the like change.
LEMMA QuietReached ==
    ASSUME RoomTypes, RoomTypes', Reached, UNCHANGED <<messages, pruned>>,
           \A a \in Agent : \/ member'[a].state = member[a].state
                            \/ member'[a].state \notin {"none", "left"},
           \A a \in Agent : member'[a].state \in {"none", "left"} =>
                              rows[a] \cup late[a] \subseteq rows'[a] \cup late'[a]
    PROVE  Reached'
<1>1. Grown /\ Len(messages) \in Nat /\ Len(messages') = Len(messages)
  BY SameMessages, TypesAre
<1>2. \A s \in (Len(messages) + 1)..Len(messages') : FALSE
  BY <1>1
<1> QED
  BY <1>1, <1>2, ReachedKept
-----------------------------------------------------------------------------
(* Showing *)

LEMMA MembersAre ==
    ASSUME RoomTypes, NEW m \in Member
    PROVE  /\ member[m] \in MarksType /\ member[m].delivered \in Nat /\ member[m].read \in Nat
           /\ member[m].state \in {"none", "in", "left", "quit"}
           /\ rows[m] \in SUBSET (1..Len(messages)) /\ opened[m] \in SUBSET (1..Len(messages))
           /\ seen[m].once \in SUBSET Nat /\ seen[m].again \in SUBSET Nat
           /\ m \in Agent => /\ spilt[m].now \in SUBSET Nat /\ spilt[m].ever \in SUBSET Nat
                             /\ late[m] \in SUBSET Nat
BY DEF RoomTypes, MarksType

\* A claim takes the first of what was not shown.
LEMMA ClaimIs ==
    ASSUME RoomTypes, NEW m \in Member, Claimed(m) # {}
    PROVE  /\ Claimed(m) \in SUBSET (1..Len(messages)) /\ Claimed(m) \cap rows[m] = {}
           /\ Max(Claimed(m)) \in Claimed(m) /\ Max(Claimed(m)) \in Nat
           /\ Max(Claimed(m)) <= Len(messages)
           /\ \A s \in Unshown(m) : s <= Max(Claimed(m)) => s \in Claimed(m)
<1>1. Len(messages) \in Nat /\ Unshown(m) \in SUBSET (1..Len(messages)) /\ ClaimLimit \in Nat
  BY TypesAre, RoomAssumption DEF Unshown
<1>2. /\ Claimed(m) \subseteq Unshown(m)
      /\ \A t \in Claimed(m) : \A s \in Unshown(m) : s <= t => s \in Claimed(m)
  BY <1>1, EarliestIs DEF Claimed
<1>3. Claimed(m) \in SUBSET (1..Len(messages)) /\ Claimed(m) \in SUBSET (0..Len(messages))
  BY <1>1, <1>2
<1>4. Max(Claimed(m)) \in Claimed(m)
  BY <1>1, <1>3, GreatestIs
<1>5. Claimed(m) \cap rows[m] = {}
  BY <1>2 DEF Unshown
<1>6. Max(Claimed(m)) \in 1..Len(messages)
  BY <1>3, <1>4
<1> QED
  BY <1>1, <1>2, <1>3, <1>4, <1>5, <1>6

LEMMA MarkShownIs ==
    ASSUME RoomTypes, NEW m \in Member, NEW S \in SUBSET (1..Len(messages)), Max(S) \in Nat,
           MarkShown(m, S)
    PROVE  /\ member' \in [Member -> MarksType] /\ rows' \in [Member -> SUBSET (1..Len(messages))]
           /\ rows'[m] = rows[m] \cup S
           /\ member'[m].delivered = Later(member[m].delivered, Max(S))
           /\ member'[m].read = member[m].read /\ member'[m].state = member[m].state
           /\ \A n \in Member \ {m} : member'[n] = member[n] /\ rows'[n] = rows[n]
<1>1. PICK d : d = Later(member[m].delivered, Max(S))
  OBVIOUS
<1>2. d \in Nat
  BY <1>1, MembersAre, LaterIs
<1>3. member' = [member EXCEPT ![m].delivered = d]
  BY <1>1 DEF MarkShown
<1>4. /\ member' \in [Member -> MarksType] /\ member'[m].delivered = d
      /\ member'[m].read = member[m].read /\ member'[m].state = member[m].state
      /\ \A n \in Member \ {m} : member'[n] = member[n]
  BY <1>2, <1>3 DEF RoomTypes, MarksType
<1>5. /\ rows' \in [Member -> SUBSET (1..Len(messages))] /\ rows'[m] = rows[m] \cup S
      /\ \A n \in Member \ {m} : rows'[n] = rows[n]
  BY DEF RoomTypes, MarkShown
<1> QED
  BY <1>1, <1>4, <1>5

\* After a claim what lies below the mark was shown.
LEMMA ClaimMarks ==
    ASSUME RoomTypes, NEW m \in Member, Marked(m), MarkShown(m, Claimed(m)),
           UNCHANGED <<messages, pruned, opened>>
    PROVE  Marked(m)'
<1>1. Claimed(m) # {}
  BY DEF MarkShown
<1>2. /\ Claimed(m) \in SUBSET (1..Len(messages)) /\ Max(Claimed(m)) \in Nat
      /\ Max(Claimed(m)) <= Len(messages)
      /\ \A s \in Unshown(m) : s <= Max(Claimed(m)) => s \in Claimed(m)
  BY <1>1, ClaimIs
<1>3. /\ rows'[m] = rows[m] \cup Claimed(m)
      /\ member'[m].delivered = Later(member[m].delivered, Max(Claimed(m)))
      /\ member'[m].read = member[m].read
  BY <1>2, MarkShownIs
<1>4. member[m].delivered \in Nat /\ Len(messages) \in Nat /\ Seqs \subseteq Nat
  BY MembersAre, TypesAre
<1>5. member'[m].delivered \in {member[m].delivered, Max(Claimed(m))}
  BY <1>2, <1>3, <1>4, LaterIs
<1>6. Seqs' = Seqs /\ \A s : For(m, s)' <=> For(m, s)
  BY DEF Seqs, For, TaskOfMember
<1>7. ASSUME NEW s \in Seqs, For(m, s), s <= member'[m].delivered PROVE s \in rows'[m]
  <2>1. CASE s <= member[m].delivered
    BY <1>3, <1>7, <2>1 DEF Marked
  <2>2. CASE ~(s <= member[m].delivered) /\ s \notin rows[m]
    <3>1. s > member[m].delivered /\ s <= Max(Claimed(m))
      BY <1>4, <1>5, <1>7, <2>2
    <3>2. s \in Unshown(m)
      BY <1>7, <2>2, <3>1 DEF Unshown
    <3> QED
      BY <1>2, <1>3, <3>1, <3>2
  <2> QED
    BY <1>3, <2>1, <2>2
<1>8. member'[m].delivered <= Len(messages) /\ opened[m] \subseteq rows'[m]
  BY <1>2, <1>3, <1>5 DEF Marked
<1> QED
  BY <1>3, <1>6, <1>7, <1>8 DEF Marked

LEMMA SawIs ==
    ASSUME RoomTypes, NEW m \in Member, NEW S \in SUBSET (1..Len(messages)), Saw(m, S)
    PROVE  /\ seen' \in [Member -> [once : SUBSET Nat, again : SUBSET Nat]]
           /\ seen'[m].once = seen[m].once \cup S
           /\ seen'[m].again = seen[m].again \cup (S \cap seen[m].once)
           /\ \A n \in Member \ {m} : seen'[n] = seen[n]
<1>1. S \in SUBSET Nat
  BY TypesAre
<1>2. seen \in [Member -> [once : SUBSET Nat, again : SUBSET Nat]]
  BY DEF RoomTypes
<1>3. [once |-> seen[m].once \cup S, again |-> seen[m].again \cup (S \cap seen[m].once)]
        \in [once : SUBSET Nat, again : SUBSET Nat]
  BY <1>1, <1>2
<1> QED
  BY <1>2, <1>3 DEF Saw

LEMMA ShowStep == ASSUME RoomInv, NEW m \in Member, Show(m) PROVE RoomInv'
<1>1. RoomTypes /\ Shows /\ Copies /\ Reached
  BY DEF RoomInv
<1>2. /\ MarkShown(m, Claimed(m)) /\ Saw(m, Claimed(m)) /\ Claimed(m) # {}
      /\ UNCHANGED <<messages, pruned, opened, batch, spilt, due, work, attempts, late, upsets>>
  BY DEF Show, MarkShown
<1>3. /\ Claimed(m) \in SUBSET (1..Len(messages)) /\ Claimed(m) \cap rows[m] = {}
      /\ Max(Claimed(m)) \in Nat
  BY <1>1, <1>2, ClaimIs
<1>4. /\ member' \in [Member -> MarksType] /\ rows' \in [Member -> SUBSET (1..Len(messages))]
      /\ rows'[m] = rows[m] \cup Claimed(m) /\ member'[m].state = member[m].state
      /\ \A n \in Member \ {m} : member'[n] = member[n] /\ rows'[n] = rows[n]
  BY <1>1, <1>2, <1>3, MarkShownIs
<1>5. /\ seen' \in [Member -> [once : SUBSET Nat, again : SUBSET Nat]]
      /\ seen'[m].once = seen[m].once \cup Claimed(m)
      /\ seen'[m].again = seen[m].again \cup (Claimed(m) \cap seen[m].once)
      /\ \A n \in Member \ {m} : seen'[n] = seen[n]
  BY <1>1, <1>2, <1>3, SawIs
<1>6. RoomTypes'
  BY <1>1, <1>2, <1>4, <1>5 DEF RoomTypes, PostType, MarksType
<1>7. Marked(m) /\ ShownOnce(m)
  BY <1>1 DEF Shows
<1>8. Marked(m)'
  BY <1>1, <1>2, <1>7, ClaimMarks
<1>9. ShownOnce(m)'
  BY <1>2, <1>3, <1>4, <1>5, <1>7 DEF ShownOnce, Kept, Listed
<1>p. Pushes'
  <2>1. \A a \in Agent : member'[a].state = member[a].state
    BY <1>4, NamesAre
  <2>2. ASSUME NEW p \in Pusher, batch[p] # NoPush, NEW s \in batch[p].seqs
        PROVE  s \in rows'[batch[p].to] /\ (s \in seen'[batch[p].to].once => s \in seen[batch[p].to].once)
    <3>1. batch[p].to \in Member /\ s \in rows[batch[p].to]
      BY <1>1, <2>2, NamesAre DEF Shows, Pushes, Claims
    <3> QED
      BY <1>3, <1>4, <1>5, <3>1
  <2> QED
    BY <1>1, <1>2, <2>1, <2>2, PushesKept DEF Shows
<1>10. Shows'
  BY <1>1, <1>2, <1>4, <1>5, <1>8, <1>9, <1>p, OneShown
<1>11. Copies'
  BY <1>1, <1>2, CopiesKept
<1>12. Reached'
  <2>1. \A a \in Agent : member'[a].state = member[a].state /\ rows[a] \subseteq rows'[a]
    BY <1>4, NamesAre
  <2> QED
    BY <1>1, <1>2, <1>6, <2>1, QuietReached
<1> QED
  BY <1>6, <1>10, <1>11, <1>12 DEF RoomInv

\* A push under way has claimed messages of an agent.
LEMMA ClaimsAre ==
    ASSUME RoomTypes, Shows, NEW p \in Pusher, batch[p] # NoPush
    PROVE  /\ batch[p].to \in Agent /\ batch[p].to \in Member /\ batch[p].seqs # {}
           /\ batch[p].seqs \subseteq rows[batch[p].to] /\ member[batch[p].to].state # "none"
           /\ batch[p].seqs \in SUBSET (1..Len(messages)) /\ batch[p].seqs \in SUBSET Nat
           /\ \A s \in batch[p].seqs : s \in seen[batch[p].to].once \cup spilt[batch[p].to].now
                                          => s \in spilt[batch[p].to].ever
<1>1. /\ batch[p].to \in Agent /\ batch[p].to \in Member /\ batch[p].seqs # {}
      /\ batch[p].seqs \subseteq rows[batch[p].to] /\ member[batch[p].to].state # "none"
      /\ \A s \in batch[p].seqs : s \in seen[batch[p].to].once \cup spilt[batch[p].to].now
                                          => s \in spilt[batch[p].to].ever
  BY NamesAre DEF Shows, Pushes, Claims
<1>2. batch[p].seqs \in SUBSET (1..Len(messages))
  BY <1>1, MembersAre
<1> QED
  BY <1>1, <1>2, TypesAre

\* The claims of other pushes of the same agent are apart from this one's.
LEMMA OthersApart ==
    ASSUME Shows, NEW p \in Pusher, NEW q \in Pusher, q # p, batch[q].to = batch[p].to
    PROVE  batch[q].seqs \cap batch[p].seqs = {}
BY DEF Shows, Pushes, ClaimsApart

LEMMA OverIs ==
    ASSUME RoomTypes, NEW p \in Pusher, Over(p)
    PROVE  /\ batch[p] # NoPush /\ batch'[p] = NoPush
           /\ batch' \in [Pusher -> [to : Member, seqs : SUBSET Nat]]
           /\ \A q \in Pusher : batch'[q] \in {batch[q], NoPush}
           /\ \A q \in Pusher : batch'[q] # NoPush => q # p /\ batch[q] # NoPush /\ batch'[q] = batch[q]
<1>1. NoPush \in [to : Member, seqs : SUBSET Nat]
  BY NamesAre DEF NoPush, Member
<1>2. batch' = [batch EXCEPT ![p] = NoPush] /\ batch[p] # NoPush
  BY DEF Over
<1> QED
  BY <1>1, <1>2 DEF RoomTypes

LEMMA PushStep == ASSUME RoomInv, NEW p \in Pusher, NEW a \in Agent, Push(p, a) PROVE RoomInv'
<1>0. a \in Member
  BY NamesAre
<1>1. RoomTypes /\ Shows /\ Copies /\ Reached
  BY DEF RoomInv
<1>2. /\ MarkShown(a, Claimed(a)) /\ batch' = [batch EXCEPT ![p] = [to |-> a, seqs |-> Claimed(a)]]
      /\ Claimed(a) # {} /\ member[a].state = "in"
      /\ UNCHANGED <<messages, pruned, opened, spilt, due, work, attempts, seen, late, upsets>>
  BY DEF Push, MarkShown, In
<1>3. /\ Claimed(a) \in SUBSET (1..Len(messages)) /\ Claimed(a) \cap rows[a] = {}
      /\ Max(Claimed(a)) \in Nat /\ Claimed(a) \in SUBSET Nat
  BY <1>0, <1>1, <1>2, ClaimIs, TypesAre
<1>4. /\ member' \in [Member -> MarksType] /\ rows' \in [Member -> SUBSET (1..Len(messages))]
      /\ rows'[a] = rows[a] \cup Claimed(a) /\ member'[a].state = member[a].state
      /\ \A n \in Member \ {a} : member'[n] = member[n] /\ rows'[n] = rows[n]
  BY <1>0, <1>1, <1>2, <1>3, MarkShownIs
<1>5. /\ batch' \in [Pusher -> [to : Member, seqs : SUBSET Nat]]
      /\ batch'[p].to = a /\ batch'[p].seqs = Claimed(a)
      /\ \A q \in Pusher \ {p} : batch'[q] = batch[q]
  <2>1. [to |-> a, seqs |-> Claimed(a)] \in [to : Member, seqs : SUBSET Nat]
    BY <1>0, <1>3
  <2> QED
    BY <1>1, <1>2, <2>1 DEF RoomTypes
<1>6. RoomTypes'
  BY <1>1, <1>2, <1>4, <1>5 DEF RoomTypes, PostType, MarksType
<1>7. Marked(a) /\ ShownOnce(a)
  BY <1>0, <1>1 DEF Shows
<1>8. Marked(a)'
  BY <1>0, <1>1, <1>2, <1>7, ClaimMarks
<1>9. ShownOnce(a)'
  BY <1>2, <1>4, <1>7 DEF ShownOnce, Kept, Listed
<1>p. Pushes'
  <2>1. ASSUME NEW q \in Pusher \ {p}, batch[q] # NoPush
        PROVE  /\ Claims(q)'
               /\ batch[q].to = a => batch[q].seqs \cap Claimed(a) = {}
    <3>1. /\ batch[q].to \in Agent /\ batch[q].to \in Member /\ batch[q].seqs # {}
          /\ batch[q].seqs \subseteq rows[batch[q].to] /\ member[batch[q].to].state # "none"
          /\ \A s \in batch[q].seqs : s \in seen[batch[q].to].once \cup spilt[batch[q].to].now
                                          => s \in spilt[batch[q].to].ever
      BY <1>1, <2>1, ClaimsAre
    <3>2. batch[q].seqs \subseteq rows'[batch[q].to] /\ member'[batch[q].to].state # "none"
      BY <1>4, <3>1
    <3> QED
      BY <1>2, <1>3, <1>5, <2>1, <3>1, <3>2 DEF Claims
  <2>2. ASSUME NEW q \in Pusher \ {p}, batch[q] = NoPush PROVE Claims(q)' /\ batch[q].seqs = {}
    BY <1>5, <2>2 DEF Claims, NoPush
  <2>3. Claims(p)'
    <3>1. ASSUME NEW s \in Claimed(a), s \in seen[a].once \cup spilt[a].now PROVE s \in spilt[a].ever
      BY <1>3, <1>7, <3>1 DEF ShownOnce, Kept, Listed
    <3> QED
      BY <1>2, <1>4, <1>5, <3>1 DEF Claims
  <2>4. ClaimsApart'
    <3> SUFFICES ASSUME NEW q \in Pusher, NEW r \in Pusher, q # r, batch'[q].to = batch'[r].to
                 PROVE  batch'[q].seqs \cap batch'[r].seqs = {}
      BY DEF ClaimsApart
    <3>1. CASE q # p /\ r # p
      BY <1>1, <1>5, <3>1, OthersApart
    <3> QED
      BY <1>5, <2>1, <2>2, <3>1
  <2> QED
    BY <2>1, <2>2, <2>3, <2>4 DEF Pushes
<1>10. Shows'
  BY <1>0, <1>1, <1>2, <1>4, <1>8, <1>9, <1>p, OneShown
<1>11. Copies'
  BY <1>1, <1>2, CopiesKept
<1>12. Reached'
  <2>1. \A b \in Agent : member'[b].state = member[b].state /\ rows[b] \subseteq rows'[b]
    BY <1>4, NamesAre
  <2> QED
    BY <1>1, <1>2, <1>6, <2>1, QuietReached
<1> QED
  BY <1>6, <1>10, <1>11, <1>12 DEF RoomInv

LEMMA PushWrittenStep == ASSUME RoomInv, NEW p \in Pusher, PushWritten(p) PROVE RoomInv'
<1>1. RoomTypes /\ Shows /\ Copies /\ Reached
  BY DEF RoomInv
<1>o. /\ batch[p] # NoPush /\ batch' \in [Pusher -> [to : Member, seqs : SUBSET Nat]]
      /\ \A q \in Pusher : batch'[q] \in {batch[q], NoPush}
      /\ \A q \in Pusher : batch'[q] # NoPush => q # p /\ batch[q] # NoPush /\ batch'[q] = batch[q]
  BY <1>1, OverIs DEF PushWritten
<1>a. PICK a, S : a = batch[p].to /\ S = batch[p].seqs
  OBVIOUS
<1>0. /\ a \in Agent /\ a \in Member /\ S \subseteq rows[a] /\ S \in SUBSET Nat
      /\ \A s \in S : s \in seen[a].once \cup spilt[a].now => s \in spilt[a].ever
  BY <1>1, <1>o, <1>a, ClaimsAre
<1>2. PICK L \in {{}, spilt[a].now}, left \in {{}, spilt[a].now} :
         /\ L \cap left = {}
         /\ seen' = [seen EXCEPT ![a] = [once |-> @.once \cup S \cup L,
                                     again |-> @.again \cup ((S \cup L) \cap @.once) \cup (S \cap L)]]
         /\ spilt' = [spilt EXCEPT ![a].now = left]
  BY <1>a DEF PushWritten
<1>3. UNCHANGED <<messages, pruned, member, rows, opened, due, work, attempts, late, upsets>>
  BY DEF PushWritten
<1>t. /\ spilt[a].now \in SUBSET Nat /\ spilt[a].ever \in SUBSET Nat
      /\ seen[a].once \in SUBSET Nat /\ seen[a].again \in SUBSET Nat
  BY <1>0, <1>1, MembersAre
<1>4. /\ seen' \in [Member -> [once : SUBSET Nat, again : SUBSET Nat]]
      /\ seen'[a].once = seen[a].once \cup S \cup L
      /\ seen'[a].again = seen[a].again \cup ((S \cup L) \cap seen[a].once) \cup (S \cap L)
      /\ \A n \in Member \ {a} : seen'[n] = seen[n]
  <2>1. [once |-> seen[a].once \cup S \cup L,
         again |-> seen[a].again \cup ((S \cup L) \cap seen[a].once) \cup (S \cap L)]
           \in [once : SUBSET Nat, again : SUBSET Nat]
    BY <1>0, <1>2, <1>t
  <2> QED
    BY <1>0, <1>1, <1>2, <2>1 DEF RoomTypes
<1>5. /\ spilt' \in [Agent -> [now : SUBSET Nat, ever : SUBSET Nat]]
      /\ spilt'[a].now = left /\ spilt'[a].ever = spilt[a].ever
      /\ \A n \in Agent \ {a} : spilt'[n] = spilt[n]
  BY <1>0, <1>1, <1>2, <1>t DEF RoomTypes
<1>6. RoomTypes'
  BY <1>1, <1>3, <1>4, <1>5, <1>o DEF RoomTypes, PostType, MarksType
<1>7. Marked(a) /\ ShownOnce(a)
  BY <1>0, <1>1 DEF Shows
<1>8. Marked(a)'
  BY <1>3, <1>7 DEF Marked, Seqs, For, TaskOfMember
<1>9. ShownOnce(a)'
  <2>1. \A s \in L \cup left : s \in spilt[a].now
    BY <1>2
  <2>2. /\ Kept(a) = spilt[a].ever /\ Kept(a)' = spilt[a].ever
        /\ Listed(a) = spilt[a].now /\ Listed(a)' = left
    BY <1>0, <1>5 DEF Kept, Listed
  <2>3. ASSUME NEW s \in seen'[a].again PROVE s \in spilt[a].ever
    BY <1>0, <1>4, <1>7, <2>1, <2>2 DEF ShownOnce
  <2>4. ASSUME NEW s \in seen'[a].once \cup left PROVE s \in rows'[a] \/ s \in spilt[a].ever
    BY <1>0, <1>3, <1>4, <1>7, <2>1, <2>2 DEF ShownOnce
  <2>5. ASSUME NEW s \in seen'[a].once, s \in left PROVE s \in spilt[a].ever
    BY <1>0, <1>2, <1>4, <1>7, <2>1, <2>2, <2>5 DEF ShownOnce
  <2> QED
    BY <2>2, <2>3, <2>4, <2>5 DEF ShownOnce
<1>p. Pushes'
  <2>1. ASSUME NEW q \in Pusher, batch'[q] # NoPush, NEW s \in batch[q].seqs, NEW b \in Agent, b = batch[q].to
        PROVE  /\ s \in rows'[b]
               /\ s \in seen'[b].once => s \in seen[b].once \/ s \in spilt[b].now \/ s \in spilt[b].ever
               /\ s \in spilt'[b].now => s \in spilt[b].now \/ s \in spilt[b].ever
               /\ s \in spilt[b].ever => s \in spilt'[b].ever
    <3>1. q # p /\ batch[q] # NoPush
      BY <1>o, <2>1
    <3>2. s \in rows[b] /\ b \in Member
      BY <1>1, <2>1, <3>1, ClaimsAre
    <3>3. b = a => s \notin S
      BY <1>1, <1>a, <2>1, <3>1, OthersApart
    <3> QED
      BY <1>2, <1>3, <1>4, <1>5, <3>2, <3>3
  <2>2. \A q \in Pusher : batch'[q] # NoPush => batch[q].to \in Agent
    BY <1>1, <1>o, ClaimsAre
  <2> QED
    BY <1>1, <1>3, <1>o, <2>1, <2>2, PushesKept DEF Shows
<1>10. Shows'
  BY <1>0, <1>1, <1>3, <1>4, <1>5, <1>8, <1>9, <1>p, OneShown
<1>11. Copies'
  BY <1>1, <1>3, CopiesKept
<1>12. Reached'
  BY <1>1, <1>3, <1>6, QuietReached
<1> QED
  BY <1>6, <1>10, <1>11, <1>12 DEF RoomInv

LEMMA PushLostStep == ASSUME RoomInv, NEW p \in Pusher, PushLost(p) PROVE RoomInv'
<1>1. RoomTypes /\ Shows /\ Copies /\ Reached
  BY DEF RoomInv
<1>o. /\ batch[p] # NoPush /\ batch' \in [Pusher -> [to : Member, seqs : SUBSET Nat]]
      /\ \A q \in Pusher : batch'[q] \in {batch[q], NoPush}
      /\ \A q \in Pusher : batch'[q] # NoPush => q # p /\ batch[q] # NoPush /\ batch'[q] = batch[q]
  BY <1>1, OverIs DEF PushLost
<1>a. PICK a, S : a = batch[p].to /\ S = batch[p].seqs
  OBVIOUS
<1>0. /\ a \in Agent /\ a \in Member /\ S \subseteq rows[a] /\ S \in SUBSET Nat
      /\ \A s \in S : s \in seen[a].once \cup spilt[a].now => s \in spilt[a].ever
  BY <1>1, <1>o, <1>a, ClaimsAre
<1>2. PICK listed \in {{}, S} : spilt' = [spilt EXCEPT ![a].now = @ \cup listed]
  BY <1>a DEF PushLost
<1>3. UNCHANGED <<messages, pruned, member, rows, opened, due, work, attempts, seen, late>>
  BY DEF PushLost
<1>t. spilt[a].now \in SUBSET Nat /\ spilt[a].ever \in SUBSET Nat
  BY <1>0, <1>1, MembersAre
<1>5. /\ spilt' \in [Agent -> [now : SUBSET Nat, ever : SUBSET Nat]]
      /\ spilt'[a].now = spilt[a].now \cup listed /\ spilt'[a].ever = spilt[a].ever
      /\ \A n \in Agent \ {a} : spilt'[n] = spilt[n]
  BY <1>0, <1>1, <1>2, <1>t DEF RoomTypes
<1>6. RoomTypes'
  BY <1>1, <1>3, <1>5, <1>o DEF RoomTypes, PostType, MarksType
<1>7. Marked(a) /\ ShownOnce(a)
  BY <1>0, <1>1 DEF Shows
<1>8. Marked(a)'
  BY <1>3, <1>7 DEF Marked, Seqs, For, TaskOfMember
<1>9. ShownOnce(a)'
  <2>2. /\ Kept(a) = spilt[a].ever /\ Kept(a)' = spilt[a].ever
        /\ Listed(a) = spilt[a].now /\ Listed(a)' = spilt[a].now \cup listed
    BY <1>0, <1>5 DEF Kept, Listed
  <2>3. \A s \in listed : s \in S
    BY <1>2
  <2> QED
    BY <1>0, <1>3, <1>7, <2>2, <2>3 DEF ShownOnce
<1>p. Pushes'
  <2>1. ASSUME NEW q \in Pusher, batch'[q] # NoPush, NEW s \in batch[q].seqs, NEW b \in Agent, b = batch[q].to
        PROVE  /\ s \in rows'[b]
               /\ s \in spilt'[b].now => s \in spilt[b].now \/ s \in spilt[b].ever
               /\ s \in spilt[b].ever => s \in spilt'[b].ever
    <3>1. q # p /\ batch[q] # NoPush
      BY <1>o, <2>1
    <3>2. s \in rows[b] /\ b \in Member
      BY <1>1, <2>1, <3>1, ClaimsAre
    <3>3. b = a => s \notin S
      BY <1>1, <1>a, <2>1, <3>1, OthersApart
    <3> QED
      BY <1>2, <1>3, <1>5, <3>2, <3>3
  <2>2. \A q \in Pusher : batch'[q] # NoPush => batch[q].to \in Agent
    BY <1>1, <1>o, ClaimsAre
  <2> QED
    BY <1>1, <1>3, <1>o, <2>1, <2>2, PushesKept DEF Shows
<1>10. Shows'
  BY <1>0, <1>1, <1>3, <1>5, <1>8, <1>9, <1>p, OneShown
<1>11. Copies'
  BY <1>1, <1>3, CopiesKept
<1>12. Reached'
  BY <1>1, <1>3, <1>6, QuietReached
<1> QED
  BY <1>6, <1>10, <1>11, <1>12 DEF RoomInv

\* A failed push gives its messages back, and the mark goes below the first of them.
LEMMA UnclaimIs ==
    ASSUME RoomTypes, NEW a \in Agent, NEW S \in SUBSET (1..Len(messages)), S # {}, Unclaim(a, S)
    PROVE  /\ member' \in [Member -> MarksType] /\ rows' \in [Member -> SUBSET (1..Len(messages))]
           /\ rows'[a] = rows[a] \ (S \ opened[a])
           /\ member'[a].delivered \in Nat /\ member'[a].delivered <= member[a].delivered
           /\ \A s \in S : ~(s <= member'[a].delivered)
           /\ member'[a].read = member[a].read /\ member'[a].state = member[a].state
           /\ \A n \in Member \ {a} : member'[n] = member[n] /\ rows'[n] = rows[n]
<1>0. a \in Member
  BY NamesAre
<1>1. S \in SUBSET Nat /\ Len(messages) \in Nat /\ member[a].delivered \in Nat
  BY <1>0, MembersAre, TypesAre
<1>2. Min(S) \in S /\ Min(S) \in 1..Len(messages) /\ \A s \in S : Min(S) <= s
  BY <1>1, LeastIs
<1>3. PICK d : d = IF Min(S) <= member[a].delivered THEN Min(S) - 1 ELSE member[a].delivered
  OBVIOUS
<1>4. d \in Nat /\ d <= member[a].delivered /\ \A s \in S : ~(s <= d)
  BY <1>1, <1>2, <1>3
<1>5. member' = [member EXCEPT ![a].delivered = d]
  BY <1>3 DEF Unclaim
<1>6. /\ member' \in [Member -> MarksType] /\ member'[a].delivered = d
      /\ member'[a].read = member[a].read /\ member'[a].state = member[a].state
      /\ \A n \in Member \ {a} : member'[n] = member[n]
  BY <1>0, <1>4, <1>5 DEF RoomTypes, MarksType
<1>7. /\ rows' \in [Member -> SUBSET (1..Len(messages))]
      /\ rows'[a] = rows[a] \ (S \ opened[a])
      /\ \A n \in Member \ {a} : rows'[n] = rows[n]
  BY <1>0 DEF RoomTypes, Unclaim
<1> QED
  BY <1>4, <1>6, <1>7

LEMMA PushFailsStep == ASSUME RoomInv, NEW p \in Pusher, PushFails(p) PROVE RoomInv'
<1>1. RoomTypes /\ Shows /\ Copies /\ Reached
  BY DEF RoomInv
<1>o. /\ batch[p] # NoPush /\ batch' \in [Pusher -> [to : Member, seqs : SUBSET Nat]]
      /\ \A q \in Pusher : batch'[q] \in {batch[q], NoPush}
      /\ \A q \in Pusher : batch'[q] # NoPush => q # p /\ batch[q] # NoPush /\ batch'[q] = batch[q]
  BY <1>1, OverIs DEF PushFails
<1>a. PICK a, S : a = batch[p].to /\ S = batch[p].seqs
  OBVIOUS
<1>0. /\ a \in Agent /\ a \in Member /\ S \subseteq rows[a] /\ S \in SUBSET (1..Len(messages))
      /\ S # {} /\ S \in SUBSET Nat /\ member[a].state # "none"
      /\ \A s \in S : s \in seen[a].once \cup spilt[a].now => s \in spilt[a].ever
  BY <1>1, <1>o, <1>a, ClaimsAre
<1>2. /\ Unclaim(a, S)
      /\ late' = IF HasLeft(a) THEN [late EXCEPT ![a] = @ \cup S] ELSE late
      /\ UNCHANGED <<messages, pruned, opened, due, work, attempts, seen>>
  BY <1>a DEF PushFails
<1>s. PICK listed \in {{}, S} :
        spilt' = [spilt EXCEPT ![a] = [now |-> @.now \cup listed, ever |-> @.ever \cup listed]]
  BY <1>a DEF PushFails
<1>3. /\ member' \in [Member -> MarksType] /\ rows' \in [Member -> SUBSET (1..Len(messages))]
      /\ rows'[a] = rows[a] \ (S \ opened[a])
      /\ member'[a].delivered \in Nat /\ member'[a].delivered <= member[a].delivered
      /\ \A s \in S : ~(s <= member'[a].delivered)
      /\ member'[a].read = member[a].read /\ member'[a].state = member[a].state
      /\ \A n \in Member \ {a} : member'[n] = member[n] /\ rows'[n] = rows[n]
  BY <1>0, <1>1, <1>2, UnclaimIs
<1>t. spilt[a].now \in SUBSET Nat /\ spilt[a].ever \in SUBSET Nat
  BY <1>0, <1>1, MembersAre
<1>4. /\ spilt' \in [Agent -> [now : SUBSET Nat, ever : SUBSET Nat]]
      /\ spilt'[a].now = spilt[a].now \cup listed /\ spilt'[a].ever = spilt[a].ever \cup listed
      /\ \A n \in Agent \ {a} : spilt'[n] = spilt[n]
  <2>1. [now |-> spilt[a].now \cup listed, ever |-> spilt[a].ever \cup listed]
          \in [now : SUBSET Nat, ever : SUBSET Nat]
    BY <1>0, <1>s, <1>t
  <2> QED
    BY <1>0, <1>1, <1>s, <2>1 DEF RoomTypes
<1>5. member[a].delivered \in Nat /\ Seqs \subseteq Nat /\ Len(messages) \in Nat
  BY <1>0, <1>1, MembersAre, TypesAre
<1>6. /\ late' \in [Agent -> SUBSET Nat]
      /\ \A b \in Agent : late[b] \subseteq late'[b]
      /\ HasLeft(a) => S \subseteq late'[a]
  BY <1>0, <1>1, <1>2 DEF RoomTypes
<1>7. RoomTypes'
  BY <1>1, <1>2, <1>3, <1>4, <1>6, <1>o DEF RoomTypes, PostType, MarksType
<1>8. Marked(a) /\ ShownOnce(a)
  BY <1>0, <1>1 DEF Shows
<1>9. Marked(a)'
  <2>1. Seqs' = Seqs /\ \A s : For(a, s)' <=> For(a, s)
    BY <1>2 DEF Seqs, For, TaskOfMember
  <2>2. ASSUME NEW s \in Seqs, For(a, s), s <= member'[a].delivered PROVE s \in rows'[a]
    <3>1. s <= member[a].delivered /\ s \notin S
      BY <1>3, <1>5, <2>2
    <3>2. s \in rows[a]
      BY <1>8, <2>2, <3>1 DEF Marked
    <3> QED
      BY <1>3, <3>1, <3>2
  <2>3. member'[a].delivered <= Len(messages)
    BY <1>3, <1>5, <1>8 DEF Marked
  <2>4. opened[a] \subseteq rows'[a]
    BY <1>3, <1>8 DEF Marked
  <2> QED
    BY <1>2, <1>3, <1>8, <2>1, <2>2, <2>3, <2>4 DEF Marked
<1>10. ShownOnce(a)'
  <2>2. /\ Kept(a) = spilt[a].ever /\ Kept(a)' = spilt[a].ever \cup listed
        /\ Listed(a) = spilt[a].now /\ Listed(a)' = spilt[a].now \cup listed
    BY <1>0, <1>4 DEF Kept, Listed
  <2>3. \A s : s \in rows[a] => s \in rows'[a] \/ s \in S
    BY <1>3
  <2> QED
    BY <1>0, <1>2, <1>8, <2>2, <2>3 DEF ShownOnce
<1>p. Pushes'
  <2>1. ASSUME NEW q \in Pusher, batch'[q] # NoPush, NEW s \in batch[q].seqs, NEW b \in Agent, b = batch[q].to
        PROVE  /\ s \in rows'[b]
               /\ s \in spilt'[b].now => s \in spilt[b].now \/ s \in spilt[b].ever
               /\ s \in spilt[b].ever => s \in spilt'[b].ever
    <3>1. q # p /\ batch[q] # NoPush
      BY <1>o, <2>1
    <3>2. s \in rows[b] /\ b \in Member
      BY <1>1, <2>1, <3>1, ClaimsAre
    <3>3. b = a => s \notin S
      BY <1>1, <1>a, <2>1, <3>1, OthersApart
    <3> QED
      BY <1>s, <1>3, <1>4, <3>2, <3>3
  <2>2. \A q \in Pusher : batch'[q] # NoPush => batch[q].to \in Agent
    BY <1>1, <1>o, ClaimsAre
  <2>3. \A b \in Agent : member'[b].state = member[b].state
    BY <1>3, NamesAre
  <2> QED
    BY <1>1, <1>2, <1>o, <2>1, <2>2, <2>3, PushesKept DEF Shows
<1>11. Shows'
  BY <1>0, <1>1, <1>2, <1>3, <1>4, <1>9, <1>10, <1>p, OneShown
<1>12. Copies'
  BY <1>1, <1>2, CopiesKept
<1>13. Reached'
  <2>2. \A b \in Agent : member'[b].state = member[b].state
    BY <1>3, NamesAre
  <2>3. \A b \in Agent : member'[b].state \in {"none", "left"} =>
                          rows[b] \cup late[b] \subseteq rows'[b] \cup late'[b]
    <3> TAKE b \in Agent
    <3>1. CASE b = a
      BY <1>0, <1>3, <1>6, <3>1 DEF HasLeft
    <3>2. CASE b # a
      BY <1>3, <1>6, <3>2, NamesAre
    <3> QED
      BY <3>1, <3>2
  <2> QED
    BY <1>1, <1>2, <1>7, <2>2, <2>3, QuietReached
<1> QED
  BY <1>7, <1>11, <1>12, <1>13 DEF RoomInv

\* An inbox moves the marks up to the first unread message that it does not hold.
LEMMA ReadIs ==
    ASSUME RoomTypes, NEW m \in Member, member[m].read <= Len(messages), NEW page
    PROVE  /\ ReadUpTo(m, page) \in 0..Len(messages) /\ member[m].read <= ReadUpTo(m, page)
           /\ \A s \in Unread(m) : s <= ReadUpTo(m, page) => s \in page
<1> DEFINE S == {s \in Unread(m) : \A t \in Unread(m) : t <= s => t \in page}
           top == ReadUpTo(m, page)
<1>1. Len(messages) \in Nat /\ Unread(m) \subseteq 1..Len(messages) /\ member[m].read \in 0..Len(messages)
  BY TypesAre, MembersAre DEF Unread
<1>2. {member[m].read} \cup S \in SUBSET (0..Len(messages))
  BY <1>1
<1>3. top = Max({member[m].read} \cup S)
  BY DEF ReadUpTo
<1>4. top \in {member[m].read} \cup S /\ \A y \in {member[m].read} \cup S : top >= y
  <2>1. PICK U : U = {member[m].read} \cup S
    OBVIOUS
  <2>2. U \in SUBSET (0..Len(messages)) /\ U # {} /\ top = Max(U)
    BY <1>2, <1>3, <2>1
  <2>3. Max(U) \in U /\ \A y \in U : Max(U) >= y
    BY <1>1, <2>2, GreatestIs
  <2> QED
    BY <2>1, <2>2, <2>3
<1>5. top \in 0..Len(messages) /\ member[m].read <= top
  BY <1>1, <1>2, <1>4
<1>6. ASSUME NEW s \in Unread(m), s <= top PROVE s \in page
  <2>1. s > member[m].read /\ s \in Nat
    BY <1>1 DEF Unread
  <2>2. top # member[m].read
    BY <1>1, <1>6, <2>1
  <2>3. top \in S
    BY <1>4, <2>2
  <2> QED
    BY <1>6, <2>3
<1> QED
  BY <1>5, <1>6

LEMMA InboxStep == ASSUME RoomInv, NEW m \in Member, Inbox(m) PROVE RoomInv'
<1>1. RoomTypes /\ Shows /\ Copies /\ Reached
  BY DEF RoomInv
<1>2. Marked(m) /\ ShownOnce(m)
  BY <1>1 DEF Shows
<1>3. Len(messages) \in Nat /\ Seqs \subseteq 1..Len(messages) /\ member[m].read <= Len(messages)
  BY <1>1, <1>2, TypesAre DEF Marked
<1>4. PICK page \in {Earliest(Unread(m), ClaimLimit),
                     Latest({s \in Seqs : For(m, s) \/ messages[s].from = m}, ClaimLimit)} :
         /\ member' = [member EXCEPT ![m].read = Later(@, ReadUpTo(m, page)),
                                     ![m].delivered = Later(@, ReadUpTo(m, page))]
         /\ rows' = [rows EXCEPT ![m] = @ \cup {s \in page : messages[s].from # m}]
         /\ opened' = [opened EXCEPT ![m] = @ \cup {s \in page : messages[s].from # m}]
  BY DEF Inbox
<1>5. UNCHANGED <<messages, pruned, batch, spilt, due, work, attempts, seen, late, upsets>>
  BY DEF Inbox
<1>6. page \subseteq 1..Len(messages)
  BY <1>3 DEF Earliest, Latest, Unread
<1>7. PICK theirs : theirs = {s \in page : messages[s].from # m}
  OBVIOUS
<1>8. theirs \in SUBSET (1..Len(messages))
  BY <1>6, <1>7
<1>9. PICK top : top = ReadUpTo(m, page)
  OBVIOUS
<1>10. /\ top \in 0..Len(messages) /\ member[m].read <= top
       /\ \A s \in Unread(m) : s <= top => s \in page
  BY <1>1, <1>3, <1>9, ReadIs
<1>11. PICK r, d : r = Later(member[m].read, top) /\ d = Later(member[m].delivered, top)
  OBVIOUS
<1>12. /\ member[m].read \in Nat /\ member[m].delivered \in Nat /\ top \in Nat
       /\ member[m].delivered <= Len(messages)
  BY <1>1, <1>2, <1>10, MembersAre DEF Marked
<1>13. r = top /\ d \in {member[m].delivered, top} /\ d \in Nat
  BY <1>10, <1>11, <1>12, LaterIs DEF Later
<1>14. member' = [member EXCEPT ![m].read = r, ![m].delivered = d]
  BY <1>4, <1>9, <1>11
<1>15. /\ member' \in [Member -> MarksType] /\ member'[m].read = top /\ member'[m].delivered = d
       /\ member'[m].state = member[m].state
       /\ \A n \in Member \ {m} : member'[n] = member[n]
  BY <1>1, <1>12, <1>13, <1>14, MarksAre DEF MarksType
<1>16. /\ rows' \in [Member -> SUBSET (1..Len(messages))] /\ rows'[m] = rows[m] \cup theirs
       /\ opened' \in [Member -> SUBSET (1..Len(messages))] /\ opened'[m] = opened[m] \cup theirs
       /\ \A n \in Member \ {m} : rows'[n] = rows[n] /\ opened'[n] = opened[n]
  BY <1>1, <1>4, <1>7, <1>8 DEF RoomTypes
<1>17. RoomTypes'
  BY <1>1, <1>5, <1>15, <1>16 DEF RoomTypes, PostType, MarksType
<1>18. Marked(m)'
  <2>1. Seqs' = Seqs /\ \A s : For(m, s)' <=> For(m, s)
    BY <1>5 DEF Seqs, For, TaskOfMember
  <2>2. ASSUME NEW s \in Seqs, For(m, s), s <= top PROVE s \in opened'[m]
    <3>1. CASE s <= member[m].read
      BY <1>2, <1>16, <2>2, <3>1 DEF Marked
    <3>2. CASE ~(s <= member[m].read) /\ s \notin opened[m]
      <4>1. s > member[m].read
        BY <1>3, <1>12, <3>2
      <4>2. s \in Unread(m)
        BY <2>2, <3>2, <4>1 DEF Unread
      <4>3. s \in page /\ messages[s].from # m
        BY <1>10, <2>2, <4>2 DEF For
      <4> QED
        BY <1>7, <1>16, <4>3
    <3> QED
      BY <1>16, <3>1, <3>2
  <2>3. opened'[m] \subseteq rows'[m]
    BY <1>2, <1>16 DEF Marked
  <2>4. ASSUME NEW s \in Seqs, For(m, s), s <= d PROVE s \in rows'[m]
    <3>1. CASE s <= top
      BY <2>2, <2>3, <2>4, <3>1
    <3>2. CASE s <= member[m].delivered
      BY <1>2, <1>16, <2>4, <3>2 DEF Marked
    <3> QED
      BY <1>13, <2>4, <3>1, <3>2
  <2>5. d <= Len(messages) /\ top <= Len(messages)
    BY <1>10, <1>12, <1>13
  <2> QED
    BY <1>5, <1>15, <2>1, <2>2, <2>3, <2>4, <2>5 DEF Marked
<1>19. ShownOnce(m)'
  BY <1>2, <1>5, <1>15, <1>16 DEF ShownOnce, Kept, Listed
<1>p. Pushes'
  <2>1. \A a \in Agent : member'[a].state = member[a].state /\ rows[a] \subseteq rows'[a]
    BY <1>15, <1>16, NamesAre
  <2>2. ASSUME NEW p \in Pusher, batch[p] # NoPush, NEW s \in batch[p].seqs PROVE s \in rows'[batch[p].to]
    BY <1>1, <2>1, <2>2 DEF Shows, Pushes, Claims
  <2> QED
    BY <1>1, <1>5, <2>1, <2>2, PushesKept DEF Shows
<1>20. Shows'
  BY <1>1, <1>5, <1>15, <1>16, <1>18, <1>19, <1>p, OneShown
<1>21. Copies'
  BY <1>1, <1>5, CopiesKept
<1>22. Reached'
  <2>1. \A a \in Agent : member'[a].state = member[a].state /\ rows[a] \subseteq rows'[a]
    BY <1>15, <1>16, NamesAre
  <2> QED
    BY <1>1, <1>5, <1>17, <2>1, QuietReached
<1> QED
  BY <1>17, <1>20, <1>21, <1>22 DEF RoomInv
-----------------------------------------------------------------------------
(* Members *)

LEMMA JoinStep == ASSUME RoomInv, NEW a \in Agent, Join(a) PROVE RoomInv'
<1>1. RoomTypes /\ Shows /\ Copies /\ Reached /\ a \in Member
  BY NamesAre DEF RoomInv
<1>2. /\ work' = [work EXCEPT ![a] = "runs"] /\ member' = [member EXCEPT ![a].state = "in"]
      /\ UNCHANGED <<messages, pruned, rows, opened, batch, spilt, due, seen, late, upsets>>
  BY DEF Join
<1>3. /\ member' \in [Member -> MarksType] /\ member'[a].state = "in"
      /\ \A n \in Member : member'[n].delivered = member[n].delivered /\ member'[n].read = member[n].read
      /\ \A n \in Member \ {a} : member'[n].state = member[n].state
  BY <1>1, <1>2, MarksAre DEF MarksType
<1>4. work' \in [Agent -> {"new", "runs", "idle", "ended"}]
  BY <1>1, <1>2 DEF RoomTypes
<1>5. RoomTypes'
  BY <1>1, <1>2, <1>3, <1>4 DEF RoomTypes, PostType, MarksType
<1>6. Shows'
  BY <1>1, <1>2, <1>3, <1>5, SameMessages, ShowsKept
<1>7. Reached'
  BY <1>1, <1>2, <1>3, <1>5, NamesAre, QuietReached
<1> QED
  BY <1>1, <1>2, <1>5, <1>6, <1>7, CopiesKept DEF RoomInv

LEMMA LeaveStep == ASSUME RoomInv, NEW m \in Member, Leave(m) PROVE RoomInv'
<1>1. RoomTypes /\ Shows /\ Copies /\ Reached
  BY DEF RoomInv
<1>2. /\ member' = [member EXCEPT ![m].state = "quit"]
      /\ UNCHANGED <<messages, pruned, rows, opened, batch, spilt, due, work, seen, late>>
  BY DEF Leave
<1>3. /\ member' \in [Member -> MarksType] /\ member'[m].state = "quit"
      /\ \A n \in Member : member'[n].delivered = member[n].delivered /\ member'[n].read = member[n].read
      /\ \A n \in Member \ {m} : member'[n].state = member[n].state
  BY <1>1, <1>2, MarksAre DEF MarksType
<1>5. RoomTypes'
  BY <1>1, <1>2, <1>3 DEF RoomTypes, PostType, MarksType
<1>6. Shows'
  BY <1>1, <1>2, <1>3, <1>5, SameMessages, ShowsKept
<1>7. Reached'
  BY <1>1, <1>2, <1>3, <1>5, NamesAre, QuietReached
<1> QED
  BY <1>1, <1>2, <1>5, <1>6, <1>7, CopiesKept DEF RoomInv

\* Steps that change neither messages nor marks.
LEMMA AsideStep ==
    ASSUME RoomInv, UNCHANGED <<messages, pruned, member, rows, opened, batch, seen, late>>,
           work' \in [Agent -> {"new", "runs", "idle", "ended"}],
           spilt' \in [Agent -> [now : SUBSET Nat, ever : SUBSET Nat]],
           \A a \in Agent : spilt'[a].ever = spilt[a].ever /\ spilt'[a].now \subseteq spilt[a].now,
           due' \subseteq due
    PROVE  RoomInv'
<1>1. RoomTypes /\ Shows /\ Copies /\ Reached
  BY DEF RoomInv
<1>2. due' \in SUBSET [seq : Nat, to : Task]
  BY <1>1 DEF RoomTypes
<1>3. RoomTypes'
  BY <1>1, <1>2 DEF RoomTypes, PostType, MarksType
<1>4. Shows'
  BY <1>1, <1>3, SameMessages, ShowsKept
<1>5. Reached'
  BY <1>1, <1>3, QuietReached
<1> QED
  BY <1>1, <1>3, <1>4, <1>5, CopiesKept DEF RoomInv

LEMMA WorkerKilledStep == ASSUME RoomInv, NEW a \in Agent, WorkerKilled(a) PROVE RoomInv'
BY AsideStep DEF RoomInv, RoomTypes, WorkerKilled
LEMMA ForwardLostStep == ASSUME RoomInv, ForwardLost PROVE RoomInv'
BY AsideStep DEF RoomInv, RoomTypes, ForwardLost
-----------------------------------------------------------------------------
(* More messages *)

LEMMA CopiesGrown ==
    ASSUME RoomTypes, Copies, Grown, messages' \in Seq(PostType),
           \A c \in (Len(messages) + 1)..Len(messages') : messages'[c].copyOf # 0 =>
              /\ messages'[c].copyOf \in 1..(c - 1) /\ messages'[messages'[c].copyOf].note
              /\ \A b \in 1..Len(messages) : ~IsCopy(b, messages'[c].copyOf, messages'[c].to)
              /\ \A b \in (Len(messages) + 1)..Len(messages') :
                   IsCopy(b, messages[c].copyOf, messages[c].to)' => b = c,
           \A s \in 1..Len(messages') : messages'[s].note /\ messages'[s].from # Lead =>
              \/ s \in 1..Len(messages) /\ messages[s].note
              \/ \E c \in (Len(messages) + 1)..Len(messages') : IsCopy(c, s, Lead)',
           \A d \in due' : /\ d.seq \in 1..Len(messages') /\ messages'[d.seq].note
                           /\ \A c \in 1..Len(messages') : ~IsCopy(c, d.seq, d.to)'
    PROVE  Copies'
<1>1. /\ Len(messages) \in Nat /\ Len(messages') \in Nat /\ Len(messages) <= Len(messages')
      /\ DOMAIN messages = 1..Len(messages) /\ DOMAIN messages' = 1..Len(messages')
      /\ \A c \in 1..Len(messages) : messages[c].copyOf \in Nat
  BY TypesAre DEF Grown
<1>2. /\ \A c \in 1..Len(messages) : /\ messages'[c].from = messages[c].from
                                     /\ messages'[c].to = messages[c].to
                                     /\ messages'[c].copyOf = messages[c].copyOf
                                     /\ messages[c].note => messages'[c].note
      /\ \A s, to : \A c \in 1..Len(messages) : IsCopy(c, s, to)' <=> IsCopy(c, s, to)
  BY DEF Grown, IsCopy
<1>3. \A c \in 1..Len(messages') :
         c \in 1..Len(messages) \/ c \in (Len(messages) + 1)..Len(messages')
  BY <1>1
<1>4. \A c \in 1..Len(messages) : c \in 1..Len(messages')
  BY <1>1
<1>5. Copied'
  <2> SUFFICES ASSUME NEW c \in 1..Len(messages'), messages'[c].copyOf # 0
               PROVE  /\ messages'[c].copyOf < c /\ messages'[messages'[c].copyOf].note
                      /\ \A b \in 1..Len(messages') :
                           IsCopy(b, messages[c].copyOf, messages[c].to)' => b = c
    BY <1>1 DEF Copied
  <2>1. CASE c \in 1..Len(messages)
    <3>1. PICK s : s = messages[c].copyOf
      OBVIOUS
    <3>2. s = messages'[c].copyOf /\ s # 0 /\ s \in Nat
      BY <1>1, <1>2, <2>1, <3>1
    <3>3. /\ s < c /\ messages[s].note
          /\ \A b \in 1..Len(messages) : IsCopy(b, s, messages[c].to) => b = c
      BY <1>1, <2>1, <3>1, <3>2 DEF Copies, Copied
    <3>4. s \in 1..Len(messages)
      BY <1>1, <2>1, <3>2, <3>3
    <3>5. messages'[s].note
      BY <1>2, <3>3, <3>4
    <3>6. ASSUME NEW b \in (Len(messages) + 1)..Len(messages'), IsCopy(b, s, messages[c].to)'
          PROVE  FALSE
      <4>1. messages'[b].copyOf = s /\ messages'[b].to = messages[c].to
        BY <1>2, <2>1, <3>6 DEF IsCopy
      <4>2. ~IsCopy(c, s, messages[c].to)
        BY <2>1, <3>2, <4>1
      <4> QED
        BY <3>1, <4>2 DEF IsCopy
    <3> QED
      BY <1>2, <1>3, <2>1, <3>2, <3>3, <3>5, <3>6
  <2>2. CASE c \in (Len(messages) + 1)..Len(messages')
    <3>1. messages'[c].copyOf < c
      BY <1>1, <2>2
    <3> QED
      BY <1>2, <1>3, <2>2, <3>1
  <2> QED
    BY <1>3, <2>1, <2>2
<1>6. ToLead'
  <2> SUFFICES ASSUME NEW s \in 1..Len(messages'), messages'[s].note, messages'[s].from # Lead
               PROVE  \E c \in 1..Len(messages') : IsCopy(c, s, Lead)'
    BY <1>1 DEF ToLead
  <2>1. CASE s \in 1..Len(messages) /\ messages[s].note
    <3>1. messages[s].from # Lead
      BY <1>2, <2>1
    <3>2. \E c \in 1..Len(messages) : IsCopy(c, s, Lead)
      BY <1>1, <2>1, <3>1 DEF Copies, ToLead
    <3> QED
      BY <1>2, <1>4, <3>2
  <2>2. CASE \E c \in (Len(messages) + 1)..Len(messages') : IsCopy(c, s, Lead)'
    <3>1. \A c \in (Len(messages) + 1)..Len(messages') : c \in 1..Len(messages')
      BY <1>1
    <3> QED
      BY <2>2, <3>1
  <2> QED
    BY <2>1, <2>2
<1>7. OwedOnce'
  BY <1>1 DEF OwedOnce
<1> QED
  BY <1>5, <1>6, <1>7 DEF Copies

\* What grows with the messages keeps its type.
LEMMA GrownTypes ==
    ASSUME RoomTypes, Grown, messages' \in Seq(PostType), pruned' \in 0..Len(messages'),
           member' \in [Member -> MarksType], due' \in SUBSET [seq : Nat, to : Task],
           work' \in [Agent -> {"new", "runs", "idle", "ended"}],
           spilt' \in [Agent -> [now : SUBSET Nat, ever : SUBSET Nat]],
           UNCHANGED <<rows, opened, batch, seen, late>>
    PROVE  RoomTypes'
<1>1. /\ \A m \in Member : rows[m] \in SUBSET (1..Len(messages')) /\ opened[m] \in SUBSET (1..Len(messages'))
  BY WiderIs DEF RoomTypes
<1>2. /\ rows' \in [Member -> SUBSET (1..Len(messages'))]
      /\ opened' \in [Member -> SUBSET (1..Len(messages'))]
      /\ batch' \in [Pusher -> [to : Member, seqs : SUBSET Nat]]
      /\ late' \in [Agent -> SUBSET Nat]
      /\ seen' \in [Member -> [once : SUBSET Nat, again : SUBSET Nat]]
  BY <1>1 DEF RoomTypes
<1> QED
  BY <1>2 DEF RoomTypes, PostType, MarksType

\* Dependents are owed copies of a message.
LEMMA OwedIs ==
    ASSUME NEW s \in Nat, NEW t \in Task
    PROVE  /\ Owed(s, t) \in SUBSET [seq : Nat, to : Task]
           /\ \A d \in Owed(s, t) : d.seq = s /\ d.to \in Task
BY NamesAre DEF Owed

LEMMA FinishMemberStep == ASSUME RoomInv, NEW a \in Agent, FinishMember(a) PROVE RoomInv'
<1>1. RoomTypes /\ Shows /\ Copies /\ Reached /\ a \in Member
  BY NamesAre DEF RoomInv
<1>2. /\ work' \in [Agent -> {"new", "runs", "idle", "ended"}]
      /\ UNCHANGED <<pruned, rows, opened, batch, attempts, seen, late, upsets>>
      /\ spilt' \in [Agent -> [now : SUBSET Nat, ever : SUBSET Nat]]
      /\ \A b \in Agent : spilt'[b].ever = spilt[b].ever /\ spilt'[b].now \subseteq spilt[b].now
  BY <1>1 DEF FinishMember, RoomTypes
<1>3. CASE ~In(a)
  <2>1. UNCHANGED <<messages, member, due>>
    BY <1>3 DEF FinishMember
  <2> QED
    BY <1>2, <2>1, AsideStep
<1>4. CASE In(a)
  <2>1. PICK L : L = {s \in Missed(a) : messages[s].from # Lead}
    OBVIOUS
  <2>2. /\ messages' = PassedOn(Missed(a), L)
        /\ member' = [member EXCEPT ![a].state = "left"]
        /\ due' = due \cup UNION {Owed(s, TaskOf[a]) : s \in Missed(a)}
    BY <1>4, <2>1 DEF FinishMember
  <2>3. /\ Len(messages) \in Nat /\ DOMAIN messages = 1..Len(messages)
        /\ Missed(a) \in SUBSET (1..Len(messages)) /\ L \in SUBSET (1..Len(messages))
        /\ pruned \in 0..Len(messages)
    BY <1>1, <2>1, TypesAre DEF Missed, RoomTypes
  <2>4. \A s \in Missed(a) : s \in Seqs /\ ~messages[s].note
    BY DEF Missed
  <2>5. /\ messages' \in Seq(PostType) /\ Len(messages') \in Nat /\ Len(messages) <= Len(messages')
        /\ \A s \in 1..Len(messages) :
             /\ messages'[s].from = messages[s].from /\ messages'[s].to = messages[s].to
             /\ messages'[s].copyOf = messages[s].copyOf
             /\ messages'[s].note <=> messages[s].note \/ s \in Missed(a)
        /\ \A c \in (Len(messages) + 1)..Len(messages') :
             messages'[c].to = Lead /\ messages'[c].note = FALSE /\ messages'[c].copyOf \in L
        /\ \A s \in L : \E c \in (Len(messages) + 1)..Len(messages') : messages'[c].copyOf = s
        /\ \A b, c \in (Len(messages) + 1)..Len(messages') :
             messages'[b].copyOf = messages'[c].copyOf => b = c
    <3>1. Passes(messages', Missed(a), L)
      BY <1>1, <2>2, <2>3, PassedOnIs
    <3> QED
      BY <3>1 DEF Passes
  <2>6. Grown
    BY <1>2, <2>3, <2>5 DEF Grown
  <2>7. /\ member' \in [Member -> MarksType] /\ member'[a].state = "left"
        /\ \A n \in Member : /\ member'[n].delivered = member[n].delivered
                             /\ member'[n].read = member[n].read
        /\ \A n \in Member \ {a} : member'[n].state = member[n].state
    BY <1>1, <2>2, MarksAre DEF MarksType
  <2>8. /\ TaskOf[a] \in Task /\ Missed(a) \in SUBSET Nat
        /\ \A d \in due' : \/ d \in due
                           \/ d.seq \in Missed(a) /\ d.to \in Task /\ d \in [seq : Nat, to : Task]
    <3>1. TaskOf[a] \in Task /\ \A s \in Missed(a) : s \in Nat
      BY <2>3, NamesAre
    <3> QED
      BY <2>2, <3>1, OwedIs
  <2>9. due' \in SUBSET [seq : Nat, to : Task]
    BY <1>1, <2>8 DEF RoomTypes
  <2>10. pruned' \in 0..Len(messages')
    BY <1>2, <2>3, <2>5
  <2>11. RoomTypes'
    BY <1>1, <1>2, <2>5, <2>6, <2>7, <2>9, <2>10, GrownTypes
  <2>12. Shows'
    BY <1>1, <1>2, <2>6, <2>7, <2>11, ShowsKept
  <2>13. \A s \in Missed(a) : \A to : \A b \in 1..Len(messages) : ~IsCopy(b, s, to)
    <3> SUFFICES ASSUME NEW s \in Missed(a), NEW b \in 1..Len(messages), messages[b].copyOf = s
                 PROVE  FALSE
      BY DEF IsCopy
    <3>1. s # 0
      BY <2>3
    <3> QED
      BY <1>1, <2>3, <2>4, <3>1 DEF Copies, Copied
  <2>14. Copies'
    <3>1. ASSUME NEW c \in (Len(messages) + 1)..Len(messages')
          PROVE  /\ messages'[c].copyOf \in 1..(c - 1) /\ messages'[messages'[c].copyOf].note
                 /\ \A b \in 1..Len(messages) : ~IsCopy(b, messages'[c].copyOf, messages'[c].to)
                 /\ \A b \in (Len(messages) + 1)..Len(messages') :
                      IsCopy(b, messages[c].copyOf, messages[c].to)' => b = c
      <4>1. PICK s : s = messages'[c].copyOf
        OBVIOUS
      <4>2. s \in L /\ s \in Missed(a) /\ s \in 1..Len(messages)
        BY <2>1, <2>3, <2>5, <4>1
      <4>3. s \in 1..(c - 1)
        BY <2>3, <2>5, <4>2
      <4>4. \A b \in (Len(messages) + 1)..Len(messages') : IsCopy(b, s, messages[c].to)' => b = c
        BY <2>5, <4>1 DEF IsCopy
      <4> QED
        BY <2>5, <2>13, <4>1, <4>2, <4>3, <4>4
    <3>2. ASSUME NEW s \in 1..Len(messages'), messages'[s].note, messages'[s].from # Lead
          PROVE  \/ s \in 1..Len(messages) /\ messages[s].note
                 \/ \E c \in (Len(messages) + 1)..Len(messages') : IsCopy(c, s, Lead)'
      <4>1. CASE s \in 1..Len(messages) /\ ~messages[s].note
        <5>1. s \in L
          BY <2>1, <2>5, <3>2, <4>1
        <5> QED
          BY <2>5, <5>1 DEF IsCopy
      <4>2. CASE s \in (Len(messages) + 1)..Len(messages')
        BY <2>5, <3>2, <4>2
      <4>3. s \in 1..Len(messages) \/ s \in (Len(messages) + 1)..Len(messages')
        BY <2>3, <2>5
      <4> QED
        BY <4>1, <4>2, <4>3
    <3>3. ASSUME NEW d \in due'
          PROVE  /\ d.seq \in 1..Len(messages') /\ messages'[d.seq].note
                 /\ \A c \in 1..Len(messages') : ~IsCopy(c, d.seq, d.to)'
      <4>1. /\ d.seq \in 1..Len(messages) /\ messages'[d.seq].note /\ d.to \in Task
            /\ \A c \in 1..Len(messages) : ~IsCopy(c, d.seq, d.to)
        <5>1. CASE d \in due
          BY <1>1, <2>3, <2>5, <5>1 DEF Copies, OwedOnce, RoomTypes
        <5>2. CASE d.seq \in Missed(a) /\ d.to \in Task
          BY <2>3, <2>5, <2>13, <5>2
        <5> QED
          BY <2>8, <5>1, <5>2
      <4>2. ASSUME NEW c \in 1..Len(messages') PROVE ~IsCopy(c, d.seq, d.to)'
        <5>1. CASE c \in 1..Len(messages)
          BY <2>5, <4>1, <5>1 DEF IsCopy
        <5>2. CASE c \in (Len(messages) + 1)..Len(messages')
          BY <2>5, <4>1, <5>2, NamesAre DEF IsCopy
        <5>3. c \in 1..Len(messages) \/ c \in (Len(messages) + 1)..Len(messages')
          BY <2>3, <2>5
        <5> QED
          BY <5>1, <5>2, <5>3
      <4>3. d.seq \in 1..Len(messages')
        BY <2>3, <2>5, <4>1
      <4> QED
        BY <4>1, <4>2, <4>3
    <3> QED
      BY <1>1, <2>5, <2>6, <3>1, <3>2, <3>3, CopiesGrown
  <2>15. Reached'
    <3> SUFFICES ASSUME NEW b \in Agent, NEW s \in Seqs',
                        member'[b].state = "left", b \in Mine(s)', Original(s)',
                        messages'[s].from \notin Mine(s)',
                        \A n \in Mine(s)' : member'[n].state \in {"none", "left"}
                 PROVE  messages'[s].note \/ \E n \in Mine(s)' : s \in rows'[n] \cup late'[n]
      BY DEF Reached
    <3>1. s \in 1..Len(messages') /\ s > pruned
      BY <1>2, <2>11, TypesAfter DEF Seqs
    <3>2. CASE s \in (Len(messages) + 1)..Len(messages')
      <4>1. messages'[s].copyOf \in 1..Len(messages)
        BY <2>3, <2>5, <3>2
      <4> QED
        BY <4>1 DEF Original
    <3>3. CASE s \in 1..Len(messages)
      <4>1. s \in Seqs /\ messages'[s].to = messages[s].to /\ messages'[s].from = messages[s].from
            /\ messages'[s].copyOf = messages[s].copyOf
        BY <2>3, <2>5, <3>1, <3>3 DEF Seqs
      <4>2. Mine(s)' = Mine(s) /\ Mine(s) \subseteq Agent /\ Agent \subseteq Member
        BY <4>1, MineIs, NamesAre DEF Mine
      <4>3. CASE a \notin Mine(s)
        <5>1. \A n \in Mine(s) : member'[n].state = member[n].state
          BY <2>7, <4>2, <4>3
        <5>2. messages[s].note \/ \E n \in Mine(s) : s \in rows[n] \cup late[n]
          BY <1>1, <4>1, <4>2, <5>1 DEF Reached, Original
        <5> QED
          BY <1>2, <2>5, <3>3, <4>2, <5>2
      <4>4. CASE a \in Mine(s) /\ s \notin rows[a] /\ ~messages[s].note
        <5>1. messages[s].from # a /\ Original(s)
          BY <4>1, <4>2, <4>4 DEF Original
        <5>2. messages[s].to \in {a, TaskOf[a]}
          BY <4>4 DEF Mine
        <5>3. messages[s].to = TaskOf[a] => ~Others(a)
          <6> SUFFICES ASSUME messages[s].to = TaskOf[a], NEW n \in Agent \ {a},
                              TaskOf[n] = TaskOf[a], In(n)
                       PROVE  FALSE
            BY DEF Others
          <6>1. n \in Mine(s) /\ member'[n].state = member[n].state
            BY <2>7, <4>2 DEF Mine
          <6> QED
            BY <4>2, <6>1 DEF In
        <5>4. s \in Missed(a)
          BY <4>1, <4>4, <5>1, <5>2, <5>3 DEF Missed
        <5> QED
          BY <2>5, <3>3, <5>4
      <4>5. CASE a \in Mine(s) /\ (s \in rows[a] \/ messages[s].note)
        BY <1>2, <2>5, <3>3, <4>2, <4>5
      <4> QED
        BY <4>3, <4>4, <4>5
    <3>4. s \in 1..Len(messages) \/ s \in (Len(messages) + 1)..Len(messages')
      BY <2>3, <2>5, <3>1
    <3> QED
      BY <3>2, <3>3, <3>4
  <2> QED
    BY <2>11, <2>12, <2>14, <2>15 DEF RoomInv
<1> QED
  BY <1>3, <1>4
LEMMA PruneIs ==
    ASSUME RoomTypes, Len(messages') \in Nat, Len(messages) <= Len(messages'), PruneRoom
    PROVE  pruned' \in 0..Len(messages') /\ pruned <= pruned'
<1>1. pruned \in 0..Len(messages) /\ Len(messages) \in Nat
  BY TypesAre DEF RoomTypes
<1>2. History \in Nat
  BY RoomAssumption
<1>3. CASE Len(messages') > History
  <2>1. pruned' = Later(pruned, Len(messages') - History)
    BY <1>3 DEF PruneRoom
  <2> QED
    BY <1>1, <1>2, <1>3, <2>1 DEF Later
<1>4. CASE ~(Len(messages') > History)
  BY <1>1, <1>4 DEF PruneRoom
<1> QED
  BY <1>3, <1>4

\* Who has finished: a member that left, or a task whose agents have all left.
LEMMA FinishedIs ==
    ASSUME NEW to, NEW a \in Agent, member[a].state = "left", to \in {a, TaskOf[a]},
           \A b \in Agent : to \in {b, TaskOf[b]} => member[b].state \in {"none", "left"}
    PROVE  Finished(to)
<1>1. CASE to \in Task
  <2>1. a \in Agent /\ to = TaskOf[a] /\ HasLeft(a)
    BY <1>1, NamesAre DEF HasLeft
  <2>2. ~\E b \in Agent : TaskOf[b] = to /\ In(b)
    BY DEF In
  <2> QED
    BY <1>1, <2>1, <2>2 DEF Finished
<1>2. CASE to \notin Task
  <2>1. to = a /\ to \in Member /\ HasLeft(to)
    BY <1>2, NamesAre DEF HasLeft
  <2> QED
    BY <1>2, <2>1 DEF Finished
<1> QED
  BY <1>1, <1>2

LEMMA SendStep == ASSUME RoomInv, NEW m \in Member, NEW to \in Targets, Send(m, to) PROVE RoomInv'
<1>1. RoomTypes /\ Shows /\ Copies /\ Reached
  BY DEF RoomInv
<1>2. to \in Recipient /\ Finished(to) \in BOOLEAN
  BY RoomAssumption DEF Recipient, Member, Finished
<1>3. PICK note : note = Finished(to)
  OBVIOUS
<1>4. note \in BOOLEAN
  BY <1>2, <1>3
<1>5. PICK s : s = Len(messages) + 1
  OBVIOUS
<1>6. Len(messages) \in Nat /\ s \in Nat \ {0} /\ DOMAIN messages = 1..Len(messages)
  BY <1>1, <1>5, TypesAre
<1>7. PICK p : p = Post(m, to, note)
  OBVIOUS
<1>8. p \in PostType /\ p.from = m /\ p.to = to /\ p.note = note /\ p.copyOf = 0
  BY <1>2, <1>4, <1>7, PostIs
<1>9. PICK c : c = [from |-> m, to |-> Lead, note |-> FALSE, copyOf |-> s]
  OBVIOUS
<1>10. c \in PostType /\ c.from = m /\ c.to = Lead /\ c.note = FALSE /\ c.copyOf = s
  BY <1>6, <1>9, NamesAre DEF PostType
<1>11. PICK t : t = Append(messages, p)
  OBVIOUS
<1>12. /\ t \in Seq(PostType) /\ Len(t) = s /\ t[s] = p /\ \A i \in 1..Len(messages) : t[i] = messages[i]
  BY <1>1, <1>5, <1>6, <1>8, <1>11 DEF RoomTypes, PostType
<1>13. PICK job : job = IF to \in Task THEN to ELSE TaskOfMember(to)
  OBVIOUS
<1>14. /\ messages' = IF note /\ m # Lead THEN Append(t, c) ELSE t
       /\ due' = IF note /\ job \in Task THEN due \cup Owed(s, job) ELSE due
       /\ UNCHANGED <<member, rows, opened, batch, spilt, work, attempts, seen, late, upsets>>
       /\ PruneRoom
  <2>1. /\ messages' = IF Finished(to) /\ m # Lead
                        THEN Append(Append(messages, Post(m, to, Finished(to))),
                                    [from |-> m, to |-> Lead, note |-> FALSE, copyOf |-> s])
                        ELSE Append(messages, Post(m, to, Finished(to)))
        /\ due' = IF Finished(to) /\ job \in Task THEN due \cup Owed(s, job) ELSE due
        /\ UNCHANGED <<member, rows, opened, batch, spilt, work, attempts, seen, late, upsets>>
        /\ PruneRoom
    <3>1. UNCHANGED <<member, rows, opened, batch, spilt, work, attempts, seen, late, upsets>> /\ PruneRoom
      BY DEF Send
    <3>2. due' = IF Finished(to) /\ job \in Task THEN due \cup Owed(s, job) ELSE due
      BY <1>5, <1>13 DEF Send
    <3>3. messages' = IF Finished(to) /\ m # Lead
                      THEN Append(Append(messages, Post(m, to, Finished(to))),
                                  [from |-> m, to |-> Lead, note |-> FALSE, copyOf |-> s])
                      ELSE Append(messages, Post(m, to, Finished(to)))
      BY <1>5, Zenon DEF Send
    <3> QED
      BY <3>1, <3>2, <3>3
  <2>2. t = Append(messages, Post(m, to, Finished(to)))
    BY <1>3, <1>7, <1>11, Zenon
  <2>3. Finished(to) <=> note
    BY <1>3, Zenon
  <2> QED
    BY <1>9, <2>1, <2>2, <2>3
<1>15. /\ messages' \in Seq(PostType) /\ messages'[s] = p
       /\ \A i \in 1..Len(messages) : messages'[i] = messages[i]
       /\ \/ Len(messages') = s /\ ~(note /\ m # Lead)
          \/ Len(messages') = s + 1 /\ messages'[s + 1] = c /\ note /\ m # Lead
  <2>1. CASE note /\ m # Lead
    <3>1. messages' = Append(t, c)
      BY <1>14, <2>1
    <3>2. /\ messages' \in Seq(PostType) /\ Len(messages') = s + 1 /\ messages'[s + 1] = c
          /\ \A i \in 1..s : messages'[i] = t[i]
      BY <1>6, <1>10, <1>12, <3>1
    <3>3. s \in 1..s /\ \A i \in 1..Len(messages) : i \in 1..s
      BY <1>5, <1>6
    <3> QED
      BY <1>12, <2>1, <3>2, <3>3
  <2>2. CASE ~(note /\ m # Lead)
    BY <1>12, <1>14, <2>2
  <2> QED
    BY <2>1, <2>2
<1>16. /\ Len(messages') \in Nat /\ Len(messages) <= Len(messages')
       /\ s \in 1..Len(messages')
       /\ \A i \in (Len(messages) + 1)..Len(messages') :
            i = s \/ (i = s + 1 /\ messages'[i] = c /\ note /\ m # Lead)
  <2>1. Len(messages') \in {s, s + 1}
    BY <1>15
  <2>2. /\ Len(messages') \in Nat /\ Len(messages) <= Len(messages') /\ s \in 1..Len(messages')
        /\ \A i \in (Len(messages) + 1)..Len(messages') :
             i = s \/ (i = s + 1 /\ Len(messages') = s + 1)
    BY <1>5, <1>6, <2>1
  <2>3. Len(messages') = s + 1 => messages'[s + 1] = c /\ note /\ m # Lead
    BY <1>6, <1>15
  <2>4. ASSUME NEW i \in (Len(messages) + 1)..Len(messages')
        PROVE  i = s \/ (i = s + 1 /\ messages'[i] = c /\ note /\ m # Lead)
    <3>1. CASE i = s + 1 /\ Len(messages') = s + 1
      BY <2>3, <3>1, Zenon
    <3>2. i = s \/ (i = s + 1 /\ Len(messages') = s + 1)
      BY <2>2
    <3> QED
      BY <3>1, <3>2
  <2> QED
    BY <2>2, <2>4
<1>17. pruned' \in 0..Len(messages') /\ pruned <= pruned'
  BY <1>1, <1>14, <1>16, PruneIs
<1>18. Grown
  BY <1>15, <1>16, <1>17 DEF Grown
<1>19. \A d \in due' : \/ d \in due
                       \/ /\ d \in [seq : Nat, to : Task] /\ d.seq = s /\ d.to \in Task /\ note
  BY <1>6, <1>14, OwedIs
<1>20. due' \in SUBSET [seq : Nat, to : Task]
  BY <1>1, <1>19 DEF RoomTypes
<1>21. RoomTypes'
  <2>1. /\ member' \in [Member -> MarksType] /\ work' \in [Agent -> {"new", "runs", "idle", "ended"}]
        /\ spilt' \in [Agent -> [now : SUBSET Nat, ever : SUBSET Nat]]
    BY <1>1, <1>14 DEF RoomTypes
  <2> QED
    BY <1>1, <1>14, <1>15, <1>17, <1>18, <1>20, <2>1, GrownTypes
<1>22. Shows'
  BY <1>1, <1>14, <1>18, <1>21, ShowsKept
<1>23. \A b \in 1..Len(messages) : \A x : ~IsCopy(b, s, x)
  <2> SUFFICES ASSUME NEW b \in 1..Len(messages), messages[b].copyOf = s PROVE FALSE
    BY DEF IsCopy
  <2>1. s < b
    BY <1>1, <1>6 DEF Copies, Copied
  <2> QED
    BY <1>5, <1>6, <2>1
<1>24. Copies'
  <2>1. ASSUME NEW i \in (Len(messages) + 1)..Len(messages'), messages'[i].copyOf # 0
        PROVE  /\ messages'[i].copyOf \in 1..(i - 1) /\ messages'[messages'[i].copyOf].note
               /\ \A b \in 1..Len(messages) : ~IsCopy(b, messages'[i].copyOf, messages'[i].to)
               /\ \A b \in (Len(messages) + 1)..Len(messages') :
                    IsCopy(b, messages[i].copyOf, messages[i].to)' => b = i
    <3>1. i = s + 1 /\ messages'[i] = c /\ note
      BY <1>8, <1>15, <1>16, <2>1
    <3>2. messages'[i].copyOf = s /\ s \in 1..(i - 1) /\ messages'[s].note
      <4>1. messages'[i].copyOf = s /\ messages'[s].note
        BY <1>8, <1>10, <1>15, <3>1
      <4>2. s \in 1..(i - 1)
        BY <1>6, <3>1
      <4> QED
        BY <4>1, <4>2
    <3>3. ASSUME NEW b \in (Len(messages) + 1)..Len(messages'), messages'[b].copyOf = s PROVE b = i
      <4>1. b # s
        BY <1>6, <1>8, <1>15, <3>3
      <4> QED
        BY <1>16, <3>1, <4>1
    <3> QED
      BY <1>23, <3>2, <3>3 DEF IsCopy
  <2>2. ASSUME NEW i \in 1..Len(messages'), messages'[i].note, messages'[i].from # Lead
        PROVE  \/ i \in 1..Len(messages) /\ messages[i].note
               \/ \E b \in (Len(messages) + 1)..Len(messages') : IsCopy(b, i, Lead)'
    <3>1. CASE i \in 1..Len(messages)
      BY <1>15, <2>2, <3>1
    <3>2. CASE i = s
      <4>1. note /\ m # Lead
        BY <1>8, <1>15, <2>2, <3>2
      <4>2. Len(messages') = s + 1 /\ messages'[s + 1] = c
        BY <1>15, <4>1
      <4>3. s + 1 \in (Len(messages) + 1)..Len(messages')
        BY <1>5, <1>6, <4>2
      <4> QED
        BY <1>10, <3>2, <4>2, <4>3 DEF IsCopy
    <3>3. CASE i = s + 1 /\ messages'[i] = c
      BY <1>10, <2>2, <3>3
    <3>4. i \in 1..Len(messages) \/ i \in (Len(messages) + 1)..Len(messages')
      BY <1>6, <1>16
    <3> QED
      BY <1>16, <3>1, <3>2, <3>3, <3>4
  <2>3. ASSUME NEW d \in due'
        PROVE  /\ d.seq \in 1..Len(messages') /\ messages'[d.seq].note
               /\ \A i \in 1..Len(messages') : ~IsCopy(i, d.seq, d.to)'
    <3>1. /\ d.seq \in 1..Len(messages') /\ messages'[d.seq].note /\ d.to \in Task
          /\ \A i \in 1..Len(messages) : ~IsCopy(i, d.seq, d.to)
      <4>1. CASE d \in due
        <5>1. /\ d.seq \in 1..Len(messages) /\ messages[d.seq].note /\ d.to \in Task
              /\ \A i \in 1..Len(messages) : ~IsCopy(i, d.seq, d.to)
          BY <1>1, <1>6, <4>1 DEF Copies, OwedOnce, RoomTypes
        <5>2. d.seq \in 1..Len(messages')
          BY <1>6, <1>16, <5>1
        <5> QED
          BY <1>15, <5>1, <5>2
      <4>2. CASE d.seq = s /\ d.to \in Task /\ note
        BY <1>8, <1>15, <1>16, <1>23, <4>2
      <4> QED
        BY <1>19, <4>1, <4>2
    <3>2. ASSUME NEW i \in 1..Len(messages') PROVE ~IsCopy(i, d.seq, d.to)'
      <4>1. CASE i \in 1..Len(messages)
        BY <1>15, <3>1, <4>1 DEF IsCopy
      <4>2. CASE i = s
        <5>1. messages'[i].copyOf = 0 /\ d.seq # 0
          BY <1>8, <1>15, <1>16, <3>1, <4>2
        <5> QED
          BY <5>1 DEF IsCopy
      <4>3. CASE messages'[i] = c
        BY <1>10, <3>1, <4>3, NamesAre DEF IsCopy
      <4>4. i \in 1..Len(messages) \/ i \in (Len(messages) + 1)..Len(messages')
        BY <1>6, <1>16
      <4> QED
        BY <1>16, <4>1, <4>2, <4>3, <4>4
    <3> QED
      BY <3>1, <3>2
  <2> QED
    BY <1>1, <1>15, <1>18, <2>1, <2>2, <2>3, CopiesGrown
<1>25. Reached'
  <2>1. ASSUME NEW a \in Agent, NEW i \in (Len(messages) + 1)..Len(messages'),
               member'[a].state = "left", a \in Mine(i)', messages'[i].copyOf = 0,
               \A b \in Mine(i)' : member'[b].state \in {"none", "left"}
        PROVE  messages'[i].note
    <3>1. i = s /\ messages'[i] = p
      BY <1>6, <1>10, <1>15, <1>16, <2>1
    <3>2. Mine(i)' = {b \in Agent : to \in {b, TaskOf[b]}}
      BY <1>8, <3>1 DEF Mine
    <3>3. Finished(to)
      BY <1>14, <2>1, <3>2, FinishedIs
    <3> QED
      BY <1>3, <1>8, <3>1, <3>3
  <2> QED
    BY <1>1, <1>14, <1>18, <1>21, <2>1, ReachedKept
<1> QED
  BY <1>21, <1>22, <1>24, <1>25 DEF RoomInv

LEMMA ForwardStep == ASSUME RoomInv, NEW d \in due, Forward(d) PROVE RoomInv'
<1>1. RoomTypes /\ Shows /\ Copies /\ Reached
  BY DEF RoomInv
<1>2. /\ due' = due \ {d}
      /\ UNCHANGED <<pruned, member, rows, opened, batch, spilt, work, attempts, seen, late, upsets>>
  BY DEF Forward
<1>3. /\ work' \in [Agent -> {"new", "runs", "idle", "ended"}]
      /\ member' \in [Member -> MarksType]
      /\ spilt' \in [Agent -> [now : SUBSET Nat, ever : SUBSET Nat]]
  BY <1>1, <1>2 DEF RoomTypes
<1>4. CASE messages' = messages
  BY <1>2, <1>3, <1>4, AsideStep
<1>5. CASE messages' = Append(messages, Copy(d.seq, d.to))
  <2>1. /\ d \in [seq : Nat, to : Task] /\ d.seq \in 1..Len(messages) /\ messages[d.seq].note
        /\ \A i \in 1..Len(messages) : ~IsCopy(i, d.seq, d.to)
        /\ Len(messages) \in Nat /\ DOMAIN messages = 1..Len(messages)
    BY <1>1, TypesAre DEF RoomTypes, Copies, OwedOnce
  <2>2. d.to \in Task /\ d.to \in Recipient
    BY <2>1, NamesAre
  <2>3. PICK s \in 1..Len(messages), to \in Recipient : s = d.seq /\ to = d.to
    BY <2>1, <2>2
  <2>4. PICK c : c = Copy(s, to)
    OBVIOUS
  <2>5. c \in PostType /\ c.from = messages[s].from /\ c.to = to /\ c.note = FALSE /\ c.copyOf = s
    BY <1>1, <2>4, CopyIs
  <2>6. messages' = Append(messages, c)
    BY <1>5, <2>3, <2>4
  <2>7. PICK k : k = Len(messages) + 1
    OBVIOUS
  <2>8. /\ messages' \in Seq(PostType) /\ Len(messages') = k /\ messages'[k] = c
        /\ \A i \in 1..Len(messages) : messages'[i] = messages[i]
    BY <1>1, <2>1, <2>5, <2>6, <2>7 DEF RoomTypes, PostType
  <2>9. /\ k \in Nat /\ Len(messages) <= k /\ s \in 1..(k - 1) /\ s # 0
        /\ \A i \in (Len(messages) + 1)..k : i = k
        /\ \A i \in 1..k : i \in 1..Len(messages) \/ i = k
        /\ \A i \in 1..Len(messages) : i \in 1..k
        /\ k \in 1..k
    BY <2>1, <2>7
  <2>10. pruned' \in 0..Len(messages') /\ pruned <= pruned'
    <3>1. pruned \in 0..Len(messages)
      BY <1>1 DEF RoomTypes
    <3> QED
      BY <1>2, <2>1, <2>8, <2>9, <3>1
  <2>11. Grown
    BY <2>8, <2>9, <2>10 DEF Grown
  <2>12. due' \in SUBSET [seq : Nat, to : Task]
    BY <1>1, <1>2 DEF RoomTypes
  <2>13. RoomTypes'
    BY <1>1, <1>2, <1>3, <2>8, <2>10, <2>11, <2>12, GrownTypes
  <2>14. Shows'
    BY <1>1, <1>2, <2>11, <2>13, ShowsKept
  <2>15. Copies'
    <3>1. ASSUME NEW i \in (Len(messages) + 1)..Len(messages'), messages'[i].copyOf # 0
          PROVE  /\ messages'[i].copyOf \in 1..(i - 1) /\ messages'[messages'[i].copyOf].note
                 /\ \A b \in 1..Len(messages) : ~IsCopy(b, messages'[i].copyOf, messages'[i].to)
                 /\ \A b \in (Len(messages) + 1)..Len(messages') :
                      IsCopy(b, messages[i].copyOf, messages[i].to)' => b = i
      <4>1. i = k /\ messages'[i] = c /\ messages'[s].note
        BY <2>1, <2>3, <2>8, <2>9
      <4>2. \A b \in (Len(messages) + 1)..Len(messages') : b = i
        BY <2>8, <2>9, <4>1
      <4> QED
        BY <2>1, <2>3, <2>5, <2>9, <4>1, <4>2
    <3>2. ASSUME NEW i \in 1..Len(messages'), messages'[i].note, messages'[i].from # Lead
          PROVE  i \in 1..Len(messages) /\ messages[i].note
      BY <2>5, <2>8, <2>9, <3>2
    <3>3. ASSUME NEW e \in due'
          PROVE  /\ e.seq \in 1..Len(messages') /\ messages'[e.seq].note
                 /\ \A i \in 1..Len(messages') : ~IsCopy(i, e.seq, e.to)'
      <4>1. e \in due /\ e # d /\ e \in [seq : Nat, to : Task]
        BY <1>1, <1>2 DEF RoomTypes
      <4>2. ~(e.seq = d.seq /\ e.to = d.to)
        BY <2>1, <4>1
      <4>3. /\ e.seq \in 1..Len(messages) /\ messages[e.seq].note
            /\ \A i \in 1..Len(messages) : ~IsCopy(i, e.seq, e.to)
        BY <1>1, <2>1, <4>1 DEF Copies, OwedOnce
      <4>4. \A i \in 1..Len(messages) : ~IsCopy(i, e.seq, e.to)'
        BY <2>8, <4>3 DEF IsCopy
      <4>5. ~IsCopy(k, e.seq, e.to)'
        BY <2>3, <2>5, <2>8, <4>2 DEF IsCopy
      <4> QED
        BY <2>8, <2>9, <4>3, <4>4, <4>5
    <3> QED
      BY <1>1, <2>8, <2>11, <3>1, <3>2, <3>3, CopiesGrown
  <2>16. Reached'
    <3>1. ASSUME NEW i \in (Len(messages) + 1)..Len(messages') PROVE messages'[i].copyOf # 0
      BY <2>5, <2>8, <2>9
    <3> QED
      BY <1>1, <1>2, <2>11, <2>13, <3>1, ReachedKept
  <2> QED
    BY <2>13, <2>14, <2>15, <2>16 DEF RoomInv
<1> QED
  BY <1>4, <1>5 DEF Forward
-----------------------------------------------------------------------------
(* Theorems *)

LEMMA RoomBegins == RoomInit => RoomInv
<1> SUFFICES ASSUME RoomInit PROVE RoomInv
  OBVIOUS
<1>1. messages = <<>> /\ messages \in Seq(PostType) /\ Len(messages) = 0 /\ DOMAIN messages = {} /\ Seqs = {}
  BY DEF RoomInit, Seqs
<1>2. RoomTypes
  <2>1. /\ batch \in [Pusher -> [to : Member, seqs : SUBSET Nat]]
        /\ spilt \in [Agent -> [now : SUBSET Nat, ever : SUBSET Nat]]
        /\ seen \in [Member -> [once : SUBSET Nat, again : SUBSET Nat]]
    BY NamesAre DEF RoomInit, NoPush
  <2>2. member \in [Member -> MarksType]
    BY DEF RoomInit, MarksType
  <2>3. /\ pruned \in 0..Len(messages) /\ due \in SUBSET [seq : Nat, to : Task]
        /\ rows \in [Member -> SUBSET (1..Len(messages))]
        /\ opened \in [Member -> SUBSET (1..Len(messages))]
        /\ late \in [Agent -> SUBSET Nat]
        /\ work \in [Agent -> {"new", "runs", "idle", "ended"}]
    BY <1>1 DEF RoomInit
  <2> QED
    BY <1>1, <2>1, <2>2, <2>3 DEF RoomTypes
<1>3. Shows
  <2>1. Pushes
    BY DEF RoomInit, Pushes, ClaimsApart, Claims, NoPush
  <2> QED
    BY <1>1, <2>1, NamesAre DEF RoomInit, Shows, Marked, ShownOnce, Kept, Listed
<1>4. Copies
  BY <1>1 DEF RoomInit, Copies, Copied, ToLead, OwedOnce
<1>5. Reached
  BY <1>1 DEF Reached
<1> QED
  BY <1>2, <1>3, <1>4, <1>5 DEF RoomInv

LEMMA RoomStep == RoomInv /\ [RoomNext]_roomVars => RoomInv'
<1> SUFFICES ASSUME RoomInv, [RoomNext]_roomVars PROVE RoomInv'
  OBVIOUS
<1>1. Readers \subseteq Member
  BY RoomAssumption DEF Member
<1>2. ASSUME NEW a \in Agent, Join(a) \/ FinishMember(a) \/ WorkerKilled(a) PROVE RoomInv'
  BY <1>2, JoinStep, FinishMemberStep, WorkerKilledStep
<1>3. ASSUME NEW m \in Member, Leave(m) PROVE RoomInv'
  BY <1>3, LeaveStep
<1>4. ASSUME NEW m \in Readers, Show(m) \/ Inbox(m) PROVE RoomInv'
  BY <1>1, <1>4, ShowStep, InboxStep
<1>5. ASSUME NEW m \in Member, NEW to \in Targets, Send(m, to) PROVE RoomInv'
  BY <1>5, SendStep
<1>6. ASSUME NEW d \in due, Forward(d) PROVE RoomInv'
  BY <1>6, ForwardStep
<1>7. CASE ForwardLost
  BY <1>7, ForwardLostStep
<1>8. ASSUME NEW p \in Pusher, (\E a \in Agent : Push(p, a)) \/ PushWritten(p) \/ PushFails(p) \/ PushLost(p)
      PROVE  RoomInv'
  BY <1>8, PushStep, PushWrittenStep, PushFailsStep, PushLostStep
<1>9. CASE UNCHANGED roomVars
  <2>1. /\ UNCHANGED <<messages, pruned, member, rows, opened, seen, late>>
        /\ due' = due /\ batch' = batch /\ spilt' = spilt /\ work' = work
    BY <1>9 DEF roomVars
  <2> QED
    BY <2>1, AsideStep DEF RoomInv, RoomTypes
<1> QED
  BY <1>2, <1>3, <1>4, <1>5, <1>6, <1>7, <1>8, <1>9 DEF RoomNext

LEMMA AlwaysRoom == RoomSpec => []RoomInv
BY RoomBegins, RoomStep, PTL DEF RoomSpec

\* Marks and rows speak of messages that exist, and only what was shown was opened
\* (team_messages.py:524-624).
THEOREM RoomTypeCorrect == RoomSpec => []RoomTypeOK
<1>1. ASSUME RoomInv PROVE RoomTypeOK
  <2>1. RoomTypes /\ Shows /\ Copies
    BY <1>1 DEF RoomInv
  <2>2. ASSUME NEW s \in DOMAIN messages
        PROVE  /\ messages[s].from \in Member /\ messages[s].to \in Recipient
               /\ messages[s].copyOf \in 0..(s - 1)
    <3>1. s \in 1..Len(messages) /\ s \in Nat \ {0} /\ messages[s].copyOf \in Nat
      BY <2>1, TypesAre
    <3>2. messages[s].copyOf # 0 => messages[s].copyOf < s
      BY <2>1 DEF Copies, Copied
    <3> QED
      BY <2>1, <3>1, <3>2, TypesAre
  <2>3. ASSUME NEW m \in Member
        PROVE  /\ member[m].state \in {"none", "in", "left", "quit"}
               /\ {member[m].delivered, member[m].read} \subseteq 0..Len(messages)
               /\ opened[m] \subseteq rows[m] /\ rows[m] \subseteq DOMAIN messages
    <3>1. Marked(m)
      BY <2>1 DEF Shows
    <3>2. member[m].delivered \in 0..Len(messages) /\ member[m].read \in 0..Len(messages)
      BY <2>1, <3>1, MembersAre, TypesAre DEF Marked
    <3> QED
      BY <2>1, <3>1, <3>2, MembersAre, TypesAre DEF Marked
  <2>4. \A d \in due : d.seq \in DOMAIN messages /\ d.to \in Task
    BY <2>1 DEF Copies, OwedOnce, RoomTypes
  <2>5. pruned \in 0..Len(messages)
    BY <2>1 DEF RoomTypes
  <2> QED
    BY <2>2, <2>3, <2>4, <2>5 DEF RoomTypeOK
<1> QED
  BY <1>1, AlwaysRoom, PTL

\* However claims, failed pushes and inboxes of any number of processes move the mark, what lies below it is
\* recorded as shown, and no message is shown to a member twice but for those that a push gave back with
\* a copy in its list (team_messages.py:524-624, agent_message_bridge.py:272-278).
THEOREM ShownOnceInOrderHolds == RoomSpec => []ShownOnceInOrder
<1>1. ASSUME RoomInv PROVE ShownOnceInOrder
  BY <1>1, NamesAre DEF RoomInv, Shows, Marked, ShownOnce, Kept, ShownOnceInOrder
<1> QED
  BY <1>1, AlwaysRoom, PTL

\* In every team, once all agents a message was meant for have finished or never came, it is recorded as
\* shown to one of them, or noted, or was given back too late; and what is noted reaches the lead as one
\* copy and a dependent task as one at most (team_messages.py:294-303, :377-412, :550-564).
THEOREM UnseenReachesLeadHolds == RoomSpec => []UnseenReachesLead
<1>1. ASSUME RoomInv PROVE UnseenReachesLead
  <2>1. RoomTypes /\ Copies /\ Reached
    BY <1>1 DEF RoomInv
  <2>2. /\ DOMAIN messages = 1..Len(messages) /\ Len(messages) \in Nat
    BY <2>1, TypesAre
  <2> DEFINE C(s, to) == {c \in DOMAIN messages : messages[c].copyOf = s /\ messages[c].to = to}
  <2>3. ASSUME NEW s \in DOMAIN messages, NEW to, NEW c \in C(s, to) PROVE C(s, to) = {c}
    <3>1. s # 0 /\ messages[c].copyOf = s /\ messages[c].to = to /\ c \in DOMAIN messages
      BY <2>2
    <3>2. \A b \in DOMAIN messages : IsCopy(b, s, to) => b = c
      BY <2>1, <3>1 DEF Copies, Copied
    <3> QED
      BY <3>2 DEF IsCopy
  <2>4. ASSUME NEW s \in DOMAIN messages, messages[s].note, messages[s].from # Lead
        PROVE  Cardinality(C(s, Lead)) = 1
    <3>1. PICK c \in DOMAIN messages : IsCopy(c, s, Lead)
      BY <2>1, <2>4 DEF Copies, ToLead
    <3>2. c \in C(s, Lead)
      BY <3>1 DEF IsCopy
    <3>3. C(s, Lead) = {c}
      BY <2>3, <3>2
    <3> QED
      BY <3>3, FS_Singleton
  <2>5. ASSUME NEW s \in DOMAIN messages, NEW d \in Task PROVE Cardinality(C(s, d)) <= 1
    <3>1. CASE C(s, d) = {}
      <4>1. Cardinality(C(s, d)) = 0
        BY <3>1, FS_EmptySet
      <4> QED
        BY <4>1
    <3>2. CASE \E c : c \in C(s, d)
      <4>1. PICK c \in C(s, d) : C(s, d) = {c}
        BY <2>3, <3>2
      <4>2. Cardinality(C(s, d)) = 1
        BY <4>1, FS_Singleton
      <4> QED
        BY <4>2
    <3> QED
      BY <3>1, <3>2
  <2>6. \A a \in Agent : member[a].state = "left" =>
          \A s \in Seqs :
            /\ a \in Mine(s) /\ Original(s) /\ messages[s].from \notin Mine(s)
            /\ \A b \in Mine(s) : member[b].state \in {"none", "left"}
            => messages[s].note \/ \E b \in Mine(s) : s \in rows[b] \cup late[b]
    BY <2>1 DEF Reached
  <2> HIDE DEF C
  <2> QED
    BY <2>4, <2>5, <2>6 DEF UnseenReachesLead, Mine, C
<1> QED
  BY <1>1, AlwaysRoom, PTL
-----------------------------------------------------------------------------
(* The chat.  The records of its state, field by field. *)

Chats == [known : BOOLEAN, queue : Seq(ChatMessage), said : SUBSET ChatMessage,
          turn : {None} \cup ChatMessage, stopped : BOOLEAN, conn : Nat, session : BOOLEAN,
          idle : BOOLEAN, timer : BOOLEAN]
Disks == [said : SUBSET ChatMessage, record : [there : BOOLEAN, queue : Seq(ChatMessage)]]
Tasks == [pc : {"none", "new", "waiting", "replacing", "starting", "opening", "choosing",
                "asked", "failing", "done", "dead", "raised"}, proc : Nat, hit : BOOLEAN]
Handlers == [pc : {"none", "begin", "cancelling", "ending", "after", "closing"},
             op : {"none", "send_now", "stop", "delete", "restart"}, msg : {None} \cup ChatMessage,
             on : {None} \cup ChatMessage, proc : Nat]
-----------------------------------------------------------------------------
ChatRecord(known, queue, said, turn, stopped, conn, inSession, idle, timer) ==
    [known |-> known, queue |-> queue, said |-> said, turn |-> turn, stopped |-> stopped,
     conn |-> conn, session |-> inSession, idle |-> idle, timer |-> timer]

LEMMA ChatIs ==
  ASSUME NEW c \in Chats
  PROVE  c = ChatRecord(c.known, c.queue, c.said, c.turn, c.stopped, c.conn, c.session, c.idle, c.timer)
BY DEF Chats, ChatRecord

\* A chat with one field changed.
LEMMA ChatExcept ==
  ASSUME NEW c, NEW v,
         c = ChatRecord(c.known, c.queue, c.said, c.turn, c.stopped, c.conn, c.session, c.idle, c.timer)
  PROVE  /\ [c EXCEPT !.known = v] =
              ChatRecord(v, c.queue, c.said, c.turn, c.stopped, c.conn, c.session, c.idle, c.timer)
         /\ [c EXCEPT !.queue = v] =
              ChatRecord(c.known, v, c.said, c.turn, c.stopped, c.conn, c.session, c.idle, c.timer)
         /\ [c EXCEPT !.said = v] =
              ChatRecord(c.known, c.queue, v, c.turn, c.stopped, c.conn, c.session, c.idle, c.timer)
         /\ [c EXCEPT !.turn = v] =
              ChatRecord(c.known, c.queue, c.said, v, c.stopped, c.conn, c.session, c.idle, c.timer)
         /\ [c EXCEPT !.stopped = v] =
              ChatRecord(c.known, c.queue, c.said, c.turn, v, c.conn, c.session, c.idle, c.timer)
         /\ [c EXCEPT !.conn = v] =
              ChatRecord(c.known, c.queue, c.said, c.turn, c.stopped, v, c.session, c.idle, c.timer)
         /\ [c EXCEPT !.session = v] =
              ChatRecord(c.known, c.queue, c.said, c.turn, c.stopped, c.conn, v, c.idle, c.timer)
         /\ [c EXCEPT !.idle = v] =
              ChatRecord(c.known, c.queue, c.said, c.turn, c.stopped, c.conn, c.session, v, c.timer)
         /\ [c EXCEPT !.timer = v] =
              ChatRecord(c.known, c.queue, c.said, c.turn, c.stopped, c.conn, c.session, c.idle, v)
<1>1. [c EXCEPT !.known = v] =
          ChatRecord(v, c.queue, c.said, c.turn, c.stopped, c.conn, c.session, c.idle, c.timer)
  BY DEF ChatRecord
<1>2. [c EXCEPT !.queue = v] =
          ChatRecord(c.known, v, c.said, c.turn, c.stopped, c.conn, c.session, c.idle, c.timer)
  BY DEF ChatRecord
<1>3. [c EXCEPT !.said = v] =
          ChatRecord(c.known, c.queue, v, c.turn, c.stopped, c.conn, c.session, c.idle, c.timer)
  BY DEF ChatRecord
<1>4. [c EXCEPT !.turn = v] =
          ChatRecord(c.known, c.queue, c.said, v, c.stopped, c.conn, c.session, c.idle, c.timer)
  BY DEF ChatRecord
<1>5. [c EXCEPT !.stopped = v] =
          ChatRecord(c.known, c.queue, c.said, c.turn, v, c.conn, c.session, c.idle, c.timer)
  BY DEF ChatRecord
<1>6. [c EXCEPT !.conn = v] =
          ChatRecord(c.known, c.queue, c.said, c.turn, c.stopped, v, c.session, c.idle, c.timer)
  BY DEF ChatRecord
<1>7. [c EXCEPT !.session = v] =
          ChatRecord(c.known, c.queue, c.said, c.turn, c.stopped, c.conn, v, c.idle, c.timer)
  BY DEF ChatRecord
<1>8. [c EXCEPT !.idle = v] =
          ChatRecord(c.known, c.queue, c.said, c.turn, c.stopped, c.conn, c.session, v, c.timer)
  BY DEF ChatRecord
<1>9. [c EXCEPT !.timer = v] =
          ChatRecord(c.known, c.queue, c.said, c.turn, c.stopped, c.conn, c.session, c.idle, v)
  BY DEF ChatRecord
<1> QED
  BY <1>1, <1>2, <1>3, <1>4, <1>5, <1>6, <1>7, <1>8, <1>9

LEMMA StartedIs ==
  ASSUME NEW c \in Chats, NEW m
  PROVE  Started(c, m) =
             ChatRecord(c.known, c.queue, c.said \cup {m}, m, FALSE, c.conn, c.session, FALSE, c.timer)
<1>1. c = ChatRecord(c.known, c.queue, c.said, c.turn, c.stopped, c.conn, c.session, c.idle, c.timer)
  BY ChatIs
<1>2. PICK a : a = [c EXCEPT !.stopped = FALSE]
  OBVIOUS
<1>3. PICK v0 : v0 = FALSE
  OBVIOUS
<1>4. a = ChatRecord(c.known, c.queue, c.said, c.turn, FALSE, c.conn, c.session, c.idle, c.timer)
  BY <1>1, <1>2, <1>3, ChatExcept
<1>5. PICK b : b = [a EXCEPT !.idle = FALSE]
  OBVIOUS
<1>6. PICK v1 : v1 = FALSE
  OBVIOUS
<1>7. b = ChatRecord(c.known, c.queue, c.said, c.turn, FALSE, c.conn, c.session, FALSE, c.timer)
  <2>1. a.known = c.known /\ a.queue = c.queue /\ a.said = c.said /\ a.turn = c.turn
            /\ a.stopped = FALSE /\ a.conn = c.conn /\ a.session = c.session /\ a.idle = c.idle
                   /\ a.timer = c.timer
    BY <1>4 DEF ChatRecord
  <2>2. a = ChatRecord(a.known, a.queue, a.said, a.turn, a.stopped, a.conn, a.session, a.idle, a.timer)
    BY <1>4, <2>1
  <2>3. [a EXCEPT !.idle = v1] =
            ChatRecord(a.known, a.queue, a.said, a.turn, a.stopped, a.conn, a.session, v1, a.timer)
    BY <2>2, ChatExcept
  <2> QED
    BY <1>5, <1>6, <2>1, <2>3
<1>8. PICK d : d = [b EXCEPT !.said = @ \cup {m}]
  OBVIOUS
<1>9. PICK v2 : v2 = c.said \cup {m}
  OBVIOUS
<1>10. d = ChatRecord(c.known, c.queue, c.said \cup {m}, c.turn, FALSE, c.conn, c.session, FALSE, c.timer)
  <2>1. b.known = c.known /\ b.queue = c.queue /\ b.said = c.said /\ b.turn = c.turn
            /\ b.stopped = FALSE /\ b.conn = c.conn /\ b.session = c.session /\ b.idle = FALSE
                   /\ b.timer = c.timer
    BY <1>7 DEF ChatRecord
  <2>2. b = ChatRecord(b.known, b.queue, b.said, b.turn, b.stopped, b.conn, b.session, b.idle, b.timer)
    BY <1>7, <2>1
  <2>3. [b EXCEPT !.said = v2] =
            ChatRecord(b.known, b.queue, v2, b.turn, b.stopped, b.conn, b.session, b.idle, b.timer)
    BY <2>2, ChatExcept
  <2> QED
    BY <1>8, <1>9, <2>1, <2>3
<1>11. PICK e : e = [d EXCEPT !.turn = m]
  OBVIOUS
<1>12. PICK v3 : v3 = m
  OBVIOUS
<1>13. e = ChatRecord(c.known, c.queue, c.said \cup {m}, m, FALSE, c.conn, c.session, FALSE, c.timer)
  <2>1. d.known = c.known /\ d.queue = c.queue /\ d.said = c.said \cup {m} /\ d.turn = c.turn
            /\ d.stopped = FALSE /\ d.conn = c.conn /\ d.session = c.session /\ d.idle = FALSE
                   /\ d.timer = c.timer
    BY <1>10 DEF ChatRecord
  <2>2. d = ChatRecord(d.known, d.queue, d.said, d.turn, d.stopped, d.conn, d.session, d.idle, d.timer)
    BY <1>10, <2>1
  <2>3. [d EXCEPT !.turn = v3] =
            ChatRecord(d.known, d.queue, d.said, v3, d.stopped, d.conn, d.session, d.idle, d.timer)
    BY <2>2, ChatExcept
  <2> QED
    BY <1>11, <1>12, <2>1, <2>3
<1>14. Started(c, m) = e
  BY <1>2, <1>5, <1>8, <1>11 DEF Started
<1> QED
  BY <1>13, <1>14

LEMMA UnhookedIs ==
  ASSUME NEW c \in Chats
  PROVE  Unhooked(c) = ChatRecord(c.known, c.queue, c.said, c.turn, c.stopped, None, FALSE, FALSE, c.timer)
<1>1. c = ChatRecord(c.known, c.queue, c.said, c.turn, c.stopped, c.conn, c.session, c.idle, c.timer)
  BY ChatIs
<1>2. PICK a : a = [c EXCEPT !.conn = None]
  OBVIOUS
<1>3. PICK v0 : v0 = None
  OBVIOUS
<1>4. a = ChatRecord(c.known, c.queue, c.said, c.turn, c.stopped, None, c.session, c.idle, c.timer)
  BY <1>1, <1>2, <1>3, ChatExcept
<1>5. PICK b : b = [a EXCEPT !.session = FALSE]
  OBVIOUS
<1>6. PICK v1 : v1 = FALSE
  OBVIOUS
<1>7. b = ChatRecord(c.known, c.queue, c.said, c.turn, c.stopped, None, FALSE, c.idle, c.timer)
  <2>1. a.known = c.known /\ a.queue = c.queue /\ a.said = c.said /\ a.turn = c.turn
            /\ a.stopped = c.stopped /\ a.conn = None /\ a.session = c.session /\ a.idle = c.idle
                   /\ a.timer = c.timer
    BY <1>4 DEF ChatRecord
  <2>2. a = ChatRecord(a.known, a.queue, a.said, a.turn, a.stopped, a.conn, a.session, a.idle, a.timer)
    BY <1>4, <2>1
  <2>3. [a EXCEPT !.session = v1] =
            ChatRecord(a.known, a.queue, a.said, a.turn, a.stopped, a.conn, v1, a.idle, a.timer)
    BY <2>2, ChatExcept
  <2> QED
    BY <1>5, <1>6, <2>1, <2>3
<1>8. PICK d : d = [b EXCEPT !.idle = FALSE]
  OBVIOUS
<1>9. PICK v2 : v2 = FALSE
  OBVIOUS
<1>10. d = ChatRecord(c.known, c.queue, c.said, c.turn, c.stopped, None, FALSE, FALSE, c.timer)
  <2>1. b.known = c.known /\ b.queue = c.queue /\ b.said = c.said /\ b.turn = c.turn
            /\ b.stopped = c.stopped /\ b.conn = None /\ b.session = FALSE /\ b.idle = c.idle
                   /\ b.timer = c.timer
    BY <1>7 DEF ChatRecord
  <2>2. b = ChatRecord(b.known, b.queue, b.said, b.turn, b.stopped, b.conn, b.session, b.idle, b.timer)
    BY <1>7, <2>1
  <2>3. [b EXCEPT !.idle = v2] =
            ChatRecord(b.known, b.queue, b.said, b.turn, b.stopped, b.conn, b.session, v2, b.timer)
    BY <2>2, ChatExcept
  <2> QED
    BY <1>8, <1>9, <2>1, <2>3
<1>11. Unhooked(c) = d
  BY <1>2, <1>5, <1>8 DEF Unhooked
<1> QED
  BY <1>10, <1>11

LEMMA ArmedIs ==
  ASSUME NEW c \in Chats
  PROVE  Armed(c) =
             ChatRecord(c.known, c.queue, c.said, c.turn, c.stopped, c.conn, c.session, c.conn \in alive,
                 c.timer)
<1>1. PICK b : b = (c.conn \in alive)
  OBVIOUS
<1>2. Armed(c) = [c EXCEPT !.idle = b]
  BY <1>1 DEF Armed
<1> QED
  BY <1>1, <1>2, ChatIs, ChatExcept

LEMMA ChatOpens ==
  ASSUME NEW c \in Chats
  PROVE  [c EXCEPT !.session = TRUE] =
             ChatRecord(c.known, c.queue, c.said, c.turn, c.stopped, c.conn, TRUE, c.idle, c.timer)
<1>1. PICK b : b = TRUE
  OBVIOUS
<1>2. c = ChatRecord(c.known, c.queue, c.said, c.turn, c.stopped, c.conn, c.session, c.idle, c.timer)
  BY ChatIs
<1>3. [c EXCEPT !.session = b] =
          ChatRecord(c.known, c.queue, c.said, c.turn, c.stopped, c.conn, b, c.idle, c.timer)
  BY <1>2, ChatExcept
<1> QED
  BY <1>1, <1>3

LEMMA ChatStops ==
  ASSUME NEW c \in Chats
  PROVE  [c EXCEPT !.stopped = TRUE] =
             ChatRecord(c.known, c.queue, c.said, c.turn, TRUE, c.conn, c.session, c.idle, c.timer)
<1>1. PICK b : b = TRUE
  OBVIOUS
<1>2. c = ChatRecord(c.known, c.queue, c.said, c.turn, c.stopped, c.conn, c.session, c.idle, c.timer)
  BY ChatIs
<1>3. [c EXCEPT !.stopped = b] =
          ChatRecord(c.known, c.queue, c.said, c.turn, b, c.conn, c.session, c.idle, c.timer)
  BY <1>2, ChatExcept
<1> QED
  BY <1>1, <1>3

LEMMA ChatGoes ==
  ASSUME NEW c \in Chats
  PROVE  [c EXCEPT !.known = FALSE] =
             ChatRecord(FALSE, c.queue, c.said, c.turn, c.stopped, c.conn, c.session, c.idle, c.timer)
<1>1. PICK b : b = FALSE
  OBVIOUS
<1>2. c = ChatRecord(c.known, c.queue, c.said, c.turn, c.stopped, c.conn, c.session, c.idle, c.timer)
  BY ChatIs
<1>3. [c EXCEPT !.known = b] =
          ChatRecord(b, c.queue, c.said, c.turn, c.stopped, c.conn, c.session, c.idle, c.timer)
  BY <1>2, ChatExcept
<1> QED
  BY <1>1, <1>3

LEMMA ChatTimes ==
  ASSUME NEW c \in Chats
  PROVE  [c EXCEPT !.timer = TRUE] =
             ChatRecord(c.known, c.queue, c.said, c.turn, c.stopped, c.conn, c.session, c.idle, TRUE)
<1>1. PICK b : b = TRUE
  OBVIOUS
<1>2. c = ChatRecord(c.known, c.queue, c.said, c.turn, c.stopped, c.conn, c.session, c.idle, c.timer)
  BY ChatIs
<1>3. [c EXCEPT !.timer = b] =
          ChatRecord(c.known, c.queue, c.said, c.turn, c.stopped, c.conn, c.session, c.idle, b)
  BY <1>2, ChatExcept
<1> QED
  BY <1>1, <1>3

LEMMA ChatTimed ==
  ASSUME NEW c \in Chats
  PROVE  [c EXCEPT !.timer = FALSE] =
             ChatRecord(c.known, c.queue, c.said, c.turn, c.stopped, c.conn, c.session, c.idle, FALSE)
<1>1. PICK b : b = FALSE
  OBVIOUS
<1>2. c = ChatRecord(c.known, c.queue, c.said, c.turn, c.stopped, c.conn, c.session, c.idle, c.timer)
  BY ChatIs
<1>3. [c EXCEPT !.timer = b] =
          ChatRecord(c.known, c.queue, c.said, c.turn, c.stopped, c.conn, c.session, c.idle, b)
  BY <1>2, ChatExcept
<1> QED
  BY <1>1, <1>3
-----------------------------------------------------------------------------
(* What a state of a chat holds of its messages *)

\* A turn that has not given its message to an agent.
Before == {"new", "waiting", "replacing", "starting", "opening", "choosing"}
\* No message twice in a queue; what a queue holds.
Single(q) == \A i, j \in DOMAIN q : q[i] = q[j] => i = j
InOrder(q) == q \in Seq(ChatMessage) /\ Single(q) /\ Len(q) <= MaxQueue /\ Elements(q) \subseteq 1..written

\* The values of the variables.
ChatPlain ==
    /\ chat \in Chats /\ disk \in Disks /\ half \in BOOLEAN /\ removed \in BOOLEAN
    /\ task \in [Turn -> Tasks] /\ handler \in [Caller -> Handlers]
    /\ asked \in [ChatMessage -> Nat] /\ written \in 0..MaxChatMessages /\ made \in Nat
    /\ alive \subseteq 1..made

\* The disk has what the chat has, but for the second half of a save, until the chat is removed.
OnDisk ==
    /\ half \/ disk.record = [there |-> TRUE, queue |-> chat.queue] \/ (removed /\ disk.record = NoRecord)
    /\ disk.record.there \/ (removed /\ disk.record = NoRecord)
    /\ InOrder(disk.record.queue)
    /\ \A m \in Elements(disk.record.queue) : asked[m] = 0
    /\ disk.said \subseteq chat.said /\ (~removed => disk.said = chat.said)

\* A message that waits, is in the hand of a call or was not sent yet has no turn; one that is in a turn
\* stands in the transcript, and is given to an agent by that turn alone.
Unstarted(m) == task[m] = NoTask /\ asked[m] = 0
PlaceOf(m) ==
    /\ m > written \/ Queued(m) \/ m \in InHand => Unstarted(m)
    /\ Queued(m) => m \notin InHand
    /\ task[m].pc \in Before => asked[m] = 0
    /\ Active(m) => m \in chat.said
    /\ asked[m] \in {0, 1}
    /\ asked[m] = 1 => removed \/ m \in chat.said

\* What a call has in its hand, which no other call has.
Errand(c) ==
    /\ handler[c].op = "send_now" <=> handler[c].msg # None
    /\ handler[c].msg # None => handler[c].pc \in {"begin", "cancelling", "ending", "after"}
    /\ handler[c].msg \in 0..written /\ handler[c].on \in 0..written
    /\ handler[c].pc = "cancelling" => handler[c].on # None
OneHand == \A c, d \in Caller : handler[c].msg = handler[d].msg /\ handler[c].msg # None => c = d

\* The lists of messages, and where each of them is.
Lists == /\ InOrder(chat.queue) /\ chat.said \cup dropped \cup lost \subseteq 1..written
         /\ chat.turn \in {None} \cup chat.said
Places  == \A m \in ChatMessage : PlaceOf(m)
Errands == OneHand /\ \A c \in Caller : Errand(c)
Somewhere(m) == Queued(m) \/ m \in chat.said \cup dropped \cup InHand \cup lost
Accounts == removed \/ \A m \in 1..written : Somewhere(m)

\* With the types, inductive.
MessagesInv == Lists /\ OnDisk /\ Places /\ Errands /\ Accounts
-----------------------------------------------------------------------------
LEMMA QueueTail ==
  ASSUME NEW q \in Seq(ChatMessage), q # <<>>, Single(q)
  PROVE  /\ Tail(q) \in Seq(ChatMessage) /\ Single(Tail(q)) /\ Len(Tail(q)) = Len(q) - 1
         /\ Elements(Tail(q)) = Elements(q) \ {Head(q)}
         /\ Head(q) \in Elements(q) /\ Head(q) \in ChatMessage
<1>1. /\ Tail(q) \in Seq(ChatMessage) /\ Len(Tail(q)) = Len(q) - 1 /\ Len(q) \in Nat \ {0}
      /\ \A i \in 1..(Len(q) - 1) : Tail(q)[i] = q[i + 1]
      /\ DOMAIN Tail(q) = 1..(Len(q) - 1) /\ DOMAIN q = 1..Len(q) /\ Head(q) = q[1]
  OBVIOUS
<1>2. Single(Tail(q))
  BY <1>1 DEF Single
<1>3. Elements(Tail(q)) \subseteq Elements(q) \ {Head(q)}
  BY <1>1 DEF Single, Elements
<1>4. ASSUME NEW m \in Elements(q) \ {Head(q)} PROVE m \in Elements(Tail(q))
  <2>1. PICK i \in DOMAIN q : q[i] = m
    BY DEF Elements
  <2>2. i - 1 \in DOMAIN Tail(q) /\ Tail(q)[i - 1] = m
    BY <1>1, <2>1
  <2> QED
    BY <2>2 DEF Elements
<1>5. Head(q) \in Elements(q) /\ Head(q) \in ChatMessage
  BY <1>1 DEF Elements
<1>6. Elements(Tail(q)) = Elements(q) \ {Head(q)}
  BY <1>3, <1>4
<1> QED
  BY <1>1, <1>2, <1>5, <1>6

LEMMA QueueAppends ==
  ASSUME NEW q \in Seq(ChatMessage), Single(q), NEW m \in ChatMessage, m \notin Elements(q)
  PROVE  /\ Append(q, m) \in Seq(ChatMessage) /\ Single(Append(q, m)) /\ Len(Append(q, m)) = Len(q) + 1
         /\ Elements(Append(q, m)) = Elements(q) \cup {m}
<1>1. /\ Append(q, m) \in Seq(ChatMessage) /\ Len(Append(q, m)) = Len(q) + 1 /\ Len(q) \in Nat
      /\ \A i \in 1..Len(q) : Append(q, m)[i] = q[i]
      /\ Append(q, m)[Len(q) + 1] = m
      /\ DOMAIN Append(q, m) = 1..(Len(q) + 1) /\ DOMAIN q = 1..Len(q)
  OBVIOUS
<1>2. \A i \in DOMAIN q : q[i] # m
  BY DEF Elements
<1>3. Single(Append(q, m))
  BY <1>1, <1>2 DEF Single
<1>4. Elements(Append(q, m)) \subseteq Elements(q) \cup {m}
  BY <1>1 DEF Elements
<1>5. Elements(q) \subseteq Elements(Append(q, m))
  BY <1>1 DEF Elements
<1>6. m \in Elements(Append(q, m))
  <2>1. Len(q) + 1 \in DOMAIN Append(q, m)
    BY <1>1
  <2> QED
    BY <1>1, <2>1 DEF Elements
<1> QED
  BY <1>1, <1>3, <1>4, <1>5, <1>6

\* The queue without a message.
LEMMA WithoutIs ==
  ASSUME NEW q \in Seq(ChatMessage), NEW i \in 1..Len(q)
  PROVE  LET r == SubSeq(q, 1, i - 1) \o SubSeq(q, i + 1, Len(q))
         IN  /\ r \in Seq(ChatMessage) /\ Len(r) = Len(q) - 1
             /\ \A j \in 1..(i - 1) : r[j] = q[j]
             /\ \A j \in i..(Len(q) - 1) : r[j] = q[j + 1]
<1>1. Len(q) \in Nat
  OBVIOUS
<1>2. PICK a : a = SubSeq(q, 1, i - 1)
  OBVIOUS
<1>3. PICK b : b = SubSeq(q, i + 1, Len(q))
  OBVIOUS
<1>4. a \in Seq(ChatMessage) /\ Len(a) = i - 1 /\ \A j \in 1..(i - 1) : a[j] = q[j]
  BY <1>1, <1>2
<1>5. b \in Seq(ChatMessage) /\ Len(b) = Len(q) - i /\ \A j \in 1..(Len(q) - i) : b[j] = q[i + j]
  BY <1>1, <1>3
<1>6. PICK r : r = a \o b
  OBVIOUS
<1>7. r \in Seq(ChatMessage) /\ Len(r) = Len(q) - 1
  BY <1>1, <1>4, <1>5, <1>6
<1>8. \A j \in 1..(i - 1) : r[j] = q[j]
  BY <1>1, <1>4, <1>5, <1>6
<1>9. ASSUME NEW j \in i..(Len(q) - 1) PROVE r[j] = q[j + 1]
  <2>1. r[j] = b[j - (i - 1)]
    BY <1>1, <1>4, <1>5, <1>6
  <2>2. j - (i - 1) \in 1..(Len(q) - i) /\ i + (j - (i - 1)) = j + 1
    BY <1>1
  <2> QED
    BY <1>5, <2>1, <2>2
<1> QED
  BY <1>2, <1>3, <1>6, <1>7, <1>8, <1>9

LEMMA UnqueuedIs ==
  ASSUME chat \in Chats, Single(chat.queue), NEW m, Queued(m)
  PROVE  \E r \in Seq(ChatMessage) :
           /\ Unqueued(m) = [chat EXCEPT !.queue = r]
           /\ Single(r) /\ Len(r) = Len(chat.queue) - 1 /\ Elements(r) = Elements(chat.queue) \ {m}
<1>0. PICK q \in Seq(ChatMessage) : q = chat.queue
  BY DEF Chats
<1>1. Len(q) \in Nat /\ DOMAIN q = 1..Len(q) /\ Single(q)
  BY <1>0
<1>2. PICK i : i = CHOOSE k \in DOMAIN chat.queue : chat.queue[k] = m
  OBVIOUS
<1>3. i \in 1..Len(q) /\ q[i] = m
  BY <1>0, <1>1, <1>2 DEF Queued, Elements
<1>4. PICK r : r = SubSeq(q, 1, i - 1) \o SubSeq(q, i + 1, Len(q))
  OBVIOUS
<1>5. Unqueued(m) = [chat EXCEPT !.queue = r]
  BY <1>0, <1>2, <1>4 DEF Unqueued
<1>6. /\ r \in Seq(ChatMessage) /\ Len(r) = Len(q) - 1
      /\ \A j \in 1..(i - 1) : r[j] = q[j]
      /\ \A j \in i..(Len(q) - 1) : r[j] = q[j + 1]
  BY <1>3, <1>4, WithoutIs
<1>7. DOMAIN r = 1..(Len(q) - 1)
  BY <1>1, <1>6
<1>8. \A j \in DOMAIN r : \/ j \in 1..(i - 1) /\ j \in 1..Len(q) /\ r[j] = q[j]
                          \/ j \in i..(Len(q) - 1) /\ j + 1 \in 1..Len(q) /\ r[j] = q[j + 1]
  BY <1>1, <1>3, <1>6, <1>7
<1>9. Single(r)
  BY <1>1, <1>3, <1>7, <1>8 DEF Single
<1>10. Elements(r) \subseteq Elements(q)
  BY <1>1, <1>8 DEF Elements
<1>11. m \notin Elements(r)
  BY <1>1, <1>3, <1>7, <1>8 DEF Elements, Single
<1>12. ASSUME NEW n \in Elements(q), n # m PROVE n \in Elements(r)
  <2>1. PICK k \in 1..Len(q) : q[k] = n
    BY <1>1 DEF Elements
  <2>2. CASE k < i
    <3>1. k \in 1..(i - 1) /\ k \in DOMAIN r
      BY <1>1, <1>3, <1>7, <2>1, <2>2
    <3> QED
      BY <1>6, <2>1, <3>1 DEF Elements
  <2>3. CASE k > i
    <3>1. k - 1 \in i..(Len(q) - 1) /\ k - 1 \in DOMAIN r /\ (k - 1) + 1 = k
      BY <1>1, <1>3, <1>7, <2>1, <2>3
    <3>2. r[k - 1] = n
      BY <1>6, <2>1, <3>1
    <3> QED
      BY <3>1, <3>2 DEF Elements
  <2>4. k # i
    BY <1>3, <1>12, <2>1
  <2> QED
    BY <1>1, <1>3, <2>1, <2>2, <2>3, <2>4
<1>13. Elements(r) = Elements(q) \ {m}
  BY <1>10, <1>11, <1>12
<1> QED
  BY <1>0, <1>5, <1>6, <1>9, <1>13
-----------------------------------------------------------------------------
\* A message that a step does not start, queue, ask or take into a hand.
Goes(m) == task'[m] = task[m] \/ (Active(m) /\ (task'[m].pc \in Before => task[m].pc \in Before))
LEMMA PlaceStays ==
  ASSUME ChatPlain, NEW m \in ChatMessage, PlaceOf(m), Goes(m),
         Queued(m)' => Queued(m), m \in InHand' => m \in InHand,
         asked'[m] = asked[m], chat.said \subseteq chat'.said, written' \in Nat, written <= written',
         removed => removed'
  PROVE  PlaceOf(m)'
<1> USE DEF ChatMessage
<1>1. m > written' => m > written
  BY DEF ChatPlain
<1>2. Unstarted(m) => Unstarted(m)'
  BY DEF Unstarted, Goes, Active, NoTask
<1>3. task'[m].pc \in Before => task[m].pc \in Before
  BY DEF Goes
<1>4. Active(m)' => Active(m)
  BY DEF Goes, Active
<1> QED
  BY <1>1, <1>2, <1>3, <1>4 DEF PlaceOf

\* A message whose turn begins.
LEMMA PlaceStarts ==
  ASSUME NEW m \in ChatMessage, Unstarted(m), task'[m] = New, asked'[m] = asked[m],
         m \in chat'.said, ~Queued(m)', m \notin InHand', written' \in Nat, m <= written'
  PROVE  PlaceOf(m)'
<1>1. task'[m].pc = "new" /\ asked'[m] = 0
  BY DEF New, NoTask, Unstarted
<1>2. ~(m > written')
  BY DEF ChatMessage
<1> QED
  BY <1>1, <1>2 DEF PlaceOf

\* What waits, or is in a hand, for the first time.
LEMMA PlaceWaits ==
  ASSUME NEW m \in ChatMessage, Unstarted(m), task'[m] = task[m], asked'[m] = asked[m],
         ~(Queued(m)' /\ m \in InHand')
  PROVE  PlaceOf(m)'
<1>1. Unstarted(m)' /\ ~Active(m)' /\ asked'[m] = 0 /\ task'[m].pc = "none"
  BY DEF Unstarted, Active, NoTask
<1> QED
  BY <1>1 DEF PlaceOf, Before

\* A save puts on the disk what the chat has become.
LEMMA SavedKeeps ==
  ASSUME ChatPlain, OnDisk, Lists, Places, ~half, Saved, written' \in Nat, written <= written',
         chat' \in Chats, chat.said \subseteq chat'.said, UNCHANGED removed,
         \A m \in Elements(chat.queue) : asked'[m] = asked[m]
  PROVE  OnDisk' /\ disk' \in Disks /\ half' \in BOOLEAN
<1>1. disk'.said = chat'.said /\ disk'.record = disk.record /\ disk' \in Disks
  <2>1. disk = [said |-> disk.said, record |-> disk.record]
    BY DEF ChatPlain, Disks
  <2>2. disk' = [said |-> chat'.said, record |-> disk.record]
    BY <2>1 DEF Saved
  <2> QED
    BY <2>2 DEF ChatPlain, Chats, Disks
<1>2. half' = (disk.record # [there |-> TRUE, queue |-> chat'.queue])
  BY DEF Saved
<1>3. half' \in BOOLEAN /\ (half' \/ disk'.record = [there |-> TRUE, queue |-> chat'.queue])
  BY <1>1, <1>2
<1>4. Elements(disk.record.queue) \subseteq Elements(chat.queue)
  BY DEF OnDisk, NoRecord, Elements
<1>5. \A m \in Elements(disk.record.queue) : asked'[m] = 0
  BY <1>4 DEF OnDisk
<1>6. InOrder(disk.record.queue)'
  <2>1. InOrder(disk.record.queue)
    BY DEF OnDisk
  <2>2. 1..written \subseteq 1..written'
    BY DEF ChatPlain
  <2> QED
    BY <1>1, <2>1, <2>2 DEF InOrder
<1> QED
  BY <1>1, <1>3, <1>5, <1>6 DEF OnDisk

\* What is not saved.
LEMMA DiskStays ==
  ASSUME OnDisk, UNCHANGED <<disk, half, removed, asked, written>>,
         chat'.queue = chat.queue, chat'.said = chat.said
  PROVE  OnDisk'
<1>1. InOrder(disk.record.queue)'
  BY DEF OnDisk, InOrder
<1> QED
  BY <1>1 DEF OnDisk

\* A call whose part in the step changes nothing it has in its hand.
LEMMA ErrandStays ==
  ASSUME NEW c \in Caller, Errand(c), handler'[c] = handler[c], written' \in Nat, made' \in Nat,
         written \in Nat, made \in Nat, written <= written', made <= made'
  PROVE  Errand(c)'
BY DEF Errand

HandsOnly == \A c \in Caller : handler'[c].msg \in {handler[c].msg, None} /\ Errand(c)'
LEMMA ErrandsKept ==
  ASSUME ChatPlain, Errands, HandsOnly
  PROVE  Errands' /\ InHand' \subseteq InHand
<1>1. OneHand'
  BY DEF Errands, OneHand, HandsOnly
<1>2. InHand' \subseteq InHand
  BY DEF InHand, HandsOnly
<1> QED
  BY <1>1, <1>2 DEF Errands, HandsOnly

\* What is somewhere stays there when it leaves neither queue nor hand.
LEMMA AccountsKept ==
  ASSUME Accounts, UNCHANGED written, removed => removed',
         \A m \in 1..written : Queued(m) => Somewhere(m)',
         \A m \in 1..written : m \in InHand => Somewhere(m)',
         chat.said \subseteq chat'.said, dropped \subseteq dropped', lost \subseteq lost'
  PROVE  Accounts'
<1>1. ASSUME ~removed', NEW m \in 1..written PROVE Somewhere(m)'
  <2>1. Somewhere(m)
    BY <1>1 DEF Accounts
  <2> QED
    BY <2>1 DEF Somewhere
<1> QED
  BY <1>1 DEF Accounts

\* A step in which turns go on and calls keep what they have in hand.
LEMMA QuietKeeps ==
  ASSUME ChatPlain, MessagesInv,
         chat'.queue = chat.queue, chat'.said = chat.said, chat'.turn = chat.turn,
         UNCHANGED <<disk, half, asked, written, dropped, lost, removed>>,
         \A m \in ChatMessage : Goes(m),
         \A c \in Caller : handler'[c].msg = handler[c].msg /\ Errand(c)'
  PROVE  MessagesInv'
<1>1. Lists'
  BY DEF MessagesInv, Lists, InOrder
<1>2. OnDisk'
  BY DiskStays DEF MessagesInv
<1>3. InHand' = InHand
  BY DEF InHand
<1>4. Errands'
  BY ErrandsKept DEF MessagesInv, HandsOnly
<1>5. Places'
  <2> SUFFICES ASSUME NEW m \in ChatMessage PROVE PlaceOf(m)'
    BY DEF Places
  <2>1. Queued(m)' = Queued(m)
    BY DEF Queued
  <2>2. PlaceOf(m) /\ Goes(m)
    BY DEF MessagesInv, Places
  <2>3. written' \in Nat /\ written <= written'
    BY DEF ChatPlain
  <2> QED
    BY <1>3, <2>1, <2>2, <2>3, PlaceStays
<1>6. Accounts'
  BY <1>3 DEF MessagesInv, Accounts, Somewhere, Queued
<1> QED
  BY <1>1, <1>2, <1>4, <1>5, <1>6 DEF MessagesInv

\* A save of what the chat was, or of a flag of it.
LEMMA SavesKeep ==
  ASSUME ChatPlain, MessagesInv, ~half, Saved, chat' \in Chats,
         chat'.queue = chat.queue, chat'.said = chat.said, chat'.turn = chat.turn,
         UNCHANGED <<asked, written, dropped, lost, removed>>,
         \A m \in ChatMessage : Goes(m),
         \A c \in Caller : handler'[c].msg = handler[c].msg /\ Errand(c)'
  PROVE  MessagesInv' /\ disk' \in Disks /\ half' \in BOOLEAN
<1>0. written' \in Nat /\ written <= written'
  BY DEF ChatPlain
<1>1. Lists'
  BY DEF MessagesInv, Lists, InOrder
<1>2. OnDisk' /\ disk' \in Disks /\ half' \in BOOLEAN
  BY <1>0, SavedKeeps DEF MessagesInv
<1>3. InHand' = InHand
  BY DEF InHand
<1>4. Errands'
  BY ErrandsKept DEF MessagesInv, HandsOnly
<1>5. Places'
  <2> SUFFICES ASSUME NEW m \in ChatMessage PROVE PlaceOf(m)'
    BY DEF Places
  <2>1. Queued(m)' = Queued(m)
    BY DEF Queued
  <2>2. PlaceOf(m) /\ Goes(m)
    BY DEF MessagesInv, Places
  <2> QED
    BY <1>0, <1>3, <2>1, <2>2, PlaceStays
<1>6. Accounts'
  BY <1>3 DEF MessagesInv, Accounts, Somewhere, Queued
<1> QED
  BY <1>1, <1>2, <1>4, <1>5, <1>6 DEF MessagesInv

\* A turn or a warm-up that ends, and the message n that may be sent next.
Ending(t, c, pc, n) ==
    /\ chat' \in Chats /\ chat'.conn = c.conn /\ Saved
    /\ task' \in [Turn -> Tasks] /\ task'[t] = [pc |-> pc, proc |-> None, hit |-> FALSE]
    /\ \A s \in Turn : s # t /\ (n = None \/ s # n) => task'[s] = task[s]
    /\ n = None => /\ chat'.queue = chat.queue /\ chat'.said = chat.said /\ chat'.turn = c.turn
                   /\ chat'.idle = IF t = Warm THEN c.idle ELSE c.conn \in alive
    /\ n # None => /\ n \in ChatMessage /\ n # t /\ t # Warm /\ Queued(n) /\ task'[n] = New
                   /\ chat'.said = chat.said \cup {n} /\ chat'.turn = n /\ chat'.idle = FALSE
                   /\ InOrder(chat'.queue) /\ Elements(chat'.queue) = Elements(chat.queue) \ {n}

LEMMA NewIsTask ==
  ASSUME NEW pc \in {"none", "new", "done", "dead", "raised"}
  PROVE  /\ [NoTask EXCEPT !.pc = pc] = [pc |-> pc, proc |-> None, hit |-> FALSE]
         /\ [pc |-> pc, proc |-> None, hit |-> FALSE] \in Tasks
         /\ New = [pc |-> "new", proc |-> None, hit |-> FALSE] /\ New \in Tasks /\ NoTask \in Tasks
<1>1. PICK f : f = FALSE
  OBVIOUS
<1>2. NoTask = [pc |-> "none", proc |-> None, hit |-> f] /\ f \in BOOLEAN
  BY <1>1 DEF NoTask
<1>3. [NoTask EXCEPT !.pc = pc] = [pc |-> pc, proc |-> None, hit |-> f]
  BY <1>2
<1>4. [pc |-> pc, proc |-> None, hit |-> f] \in Tasks
  BY <1>2 DEF Tasks, None
<1>5. New = [pc |-> "new", proc |-> None, hit |-> f]
  BY <1>2 DEF New
<1>6. New \in Tasks /\ NoTask \in Tasks
  BY <1>2, <1>5 DEF Tasks, None
<1> QED
  BY <1>1, <1>3, <1>4, <1>5, <1>6

LEMMA EndsIs ==
  ASSUME ChatPlain, Lists, Places, NEW t \in Turn, NEW c \in Chats, c.queue = chat.queue,
         c.said = chat.said, NEW stop, NEW pc \in {"done", "dead", "raised"}, Ends(t, c, stop, pc),
         t = Warm \/ Active(t)
  PROVE  \E n \in {None} \cup ChatMessage : Ending(t, c, pc, n)
<1>1. /\ [NoTask EXCEPT !.pc = pc] = [pc |-> pc, proc |-> None, hit |-> FALSE]
      /\ [pc |-> pc, proc |-> None, hit |-> FALSE] \in Tasks /\ New \in Tasks
  BY NewIsTask
<1>2. task \in [Turn -> Tasks] /\ chat \in Chats /\ Saved
  BY DEF ChatPlain, Ends
<1>3. CASE t # Warm /\ SendsNext(c, stop)
  <2> DEFINE h == Head(c.queue)
             d == [c EXCEPT !.queue = Tail(c.queue)]
  <2>1. /\ chat' = Started(d, h)
        /\ task' = [s \in Turn |-> IF s = t THEN [NoTask EXCEPT !.pc = pc]
                                   ELSE IF s = h THEN New ELSE task[s]]
    BY <1>3 DEF Ends
  <2>2. c.queue \in Seq(ChatMessage) /\ c.queue # <<>> /\ Single(c.queue) /\ InOrder(c.queue)
    BY <1>3 DEF SendsNext, Chats, Lists, InOrder
  <2>3. /\ Tail(c.queue) \in Seq(ChatMessage) /\ Single(Tail(c.queue))
        /\ Len(Tail(c.queue)) = Len(c.queue) - 1
        /\ Elements(Tail(c.queue)) = Elements(c.queue) \ {h}
        /\ h \in Elements(c.queue) /\ h \in ChatMessage
    BY <2>2, QueueTail
  <2>4. InOrder(Tail(c.queue))
    BY <2>2, <2>3, ChatAssumption DEF InOrder
  <2>5. Queued(h) /\ h # None /\ h # t
    <3>1. Queued(h)
      BY <2>3 DEF Queued
    <3>2. task[h] = NoTask
      BY <2>3, <3>1 DEF Places, PlaceOf, Unstarted
    <3> QED
      BY <1>3, <2>3, <3>1, <3>2 DEF Active, NoTask, ChatMessage, None
  <2>6. PICK q : q = Tail(c.queue)
    OBVIOUS
  <2>7. d = ChatRecord(c.known, q, c.said, c.turn, c.stopped, c.conn, c.session, c.idle, c.timer)
    BY <2>6, ChatIs, ChatExcept
  <2>8. d \in Chats /\ d.queue = q /\ d.said = c.said /\ d.conn = c.conn
    BY <2>3, <2>6, <2>7 DEF Chats, ChatRecord
  <2>9. PICK x : x = h
    OBVIOUS
  <2>10. chat' = ChatRecord(d.known, d.queue, d.said \cup {x}, x, FALSE, d.conn, d.session, FALSE, d.timer)
    BY <2>1, <2>8, <2>9, StartedIs
  <2>11. /\ chat'.queue = q /\ chat'.said = chat.said \cup {h} /\ chat'.turn = h /\ chat'.conn = c.conn
         /\ chat'.idle = FALSE
    <3>1. /\ chat'.queue = d.queue /\ chat'.said = d.said \cup {x} /\ chat'.turn = x
          /\ chat'.conn = d.conn /\ chat'.idle = FALSE
      BY <2>10 DEF ChatRecord
    <3> QED
      BY <2>8, <2>9, <3>1
  <2>12. chat' \in Chats
    BY <2>3, <2>8, <2>9, <2>10 DEF Chats, ChatRecord
  <2>13. h \in Turn /\ task' \in [Turn -> Tasks]
    BY <1>1, <1>2, <2>1, <2>3 DEF Turn
  <2>14. Ending(t, c, pc, h)
    BY <1>1, <1>2, <1>3, <2>1, <2>3, <2>4, <2>5, <2>6, <2>11, <2>12, <2>13 DEF Ending
  <2> QED
    BY <2>3, <2>14
<1>4. CASE ~(t # Warm /\ SendsNext(c, stop))
  <2>1. /\ chat' = IF t = Warm THEN c ELSE Armed(c)
        /\ task' = [s \in Turn |-> IF s = t THEN [NoTask EXCEPT !.pc = pc] ELSE task[s]]
    BY <1>4 DEF Ends
  <2>a. PICK b : b = (c.conn \in alive)
    OBVIOUS
  <2>b. (c.conn \in alive) \in BOOLEAN
    OBVIOUS
  <2>2. b = (c.conn \in alive) /\ b \in BOOLEAN
    BY <2>a, <2>b
  <2>3. Armed(c) = ChatRecord(c.known, c.queue, c.said, c.turn, c.stopped, c.conn, c.session, b, c.timer)
    BY <2>2, ArmedIs
  <2>4. /\ Armed(c) \in Chats /\ Armed(c).queue = chat.queue /\ Armed(c).said = chat.said
        /\ Armed(c).turn = c.turn /\ Armed(c).conn = c.conn /\ Armed(c).idle = b
    BY <2>2, <2>3 DEF Chats, ChatRecord
  <2>5. task' \in [Turn -> Tasks]
    BY <1>1, <1>2, <2>1
  <2>6. /\ chat' \in Chats /\ chat'.conn = c.conn /\ chat'.queue = chat.queue /\ chat'.said = chat.said
        /\ chat'.turn = c.turn
    BY <2>1, <2>4
  <2>7. chat'.idle = IF t = Warm THEN c.idle ELSE c.conn \in alive
    BY <2>1, <2>2, <2>4
  <2>8. /\ task'[t] = [pc |-> pc, proc |-> None, hit |-> FALSE]
        /\ \A s \in Turn : s # t => task'[s] = task[s]
    BY <1>1, <2>1
  <2>9. Ending(t, c, pc, None)
    BY <1>2, <2>5, <2>6, <2>7, <2>8 DEF Ending
  <2> QED
    BY <2>9
<1> QED
  BY <1>3, <1>4

LEMMA EndingKeeps ==
  ASSUME ChatPlain, MessagesInv, NEW t \in Turn, NEW c \in Chats, c.queue = chat.queue,
         c.said = chat.said, c.turn = chat.turn, NEW pc \in {"done", "dead", "raised"},
         NEW n \in {None} \cup ChatMessage, Ending(t, c, pc, n),
         t = Warm \/ Active(t), ~half, UNCHANGED <<handler, asked, written, dropped, lost, removed, made>>
  PROVE  MessagesInv' /\ disk' \in Disks /\ half' \in BOOLEAN
<1>0. /\ written \in Nat /\ written' \in Nat /\ written <= written' /\ made \in Nat
             /\ 1..written \subseteq ChatMessage
             /\ 1..written' = 1..written
  BY ChatAssumption DEF ChatPlain, ChatMessage
<1>1. \A e \in Caller : handler'[e].msg = handler[e].msg /\ Errand(e)'
  BY <1>0, ErrandStays DEF MessagesInv, Errands, ChatPlain
<1>2. t # Warm => t \in ChatMessage
  BY DEF Turn
<1>3. CASE n = None
  <2>1. \A m \in ChatMessage : Goes(m)
    BY <1>2, <1>3 DEF Ending, Goes, Before, Turn, Warm, ChatMessage
  <2> QED
    BY <1>1, <1>3, <2>1, SavesKeep DEF Ending
<1>4. CASE n # None
  <2>1. /\ n \in ChatMessage /\ n # t /\ t # Warm /\ Queued(n) /\ task'[n] = New
        /\ chat'.said = chat.said \cup {n} /\ chat'.turn = n
        /\ InOrder(chat'.queue) /\ Elements(chat'.queue) = Elements(chat.queue) \ {n}
        /\ Saved /\ chat' \in Chats /\ n \in Turn
    BY <1>4 DEF Ending, Turn
  <2>2. /\ Unstarted(n) /\ n \notin InHand /\ n \in 1..written
    BY <2>1 DEF MessagesInv, Places, PlaceOf, Lists, InOrder, Queued
  <2>3. Lists'
    BY <2>1, <2>2 DEF MessagesInv, Lists, InOrder
  <2>4. OnDisk' /\ disk' \in Disks /\ half' \in BOOLEAN
    BY <1>0, <2>1, SavedKeeps DEF MessagesInv
  <2>5. InHand' = InHand
    BY DEF InHand
  <2>6. Errands'
    BY <1>1, ErrandsKept DEF MessagesInv, HandsOnly
  <2>7. Places'
    <3> SUFFICES ASSUME NEW m \in ChatMessage PROVE PlaceOf(m)'
      BY DEF Places
    <3>1. CASE m = n
      <4>1. ~Queued(m)' /\ m \notin InHand' /\ m \in chat'.said /\ m <= written'
        BY <2>1, <2>2, <2>5, <3>1 DEF Queued
      <4> QED
        BY <1>0, <2>1, <2>2, <3>1, <4>1, PlaceStarts
    <3>2. CASE m # n
      <4>1. Goes(m)
        BY <1>2, <1>4, <2>1, <3>2 DEF Ending, Goes, Before, Turn, Warm, ChatMessage
      <4>2. Queued(m)' => Queued(m)
        BY <2>1 DEF Queued
      <4>3. PlaceOf(m) /\ chat.said \subseteq chat'.said
        BY <2>1 DEF MessagesInv, Places
      <4> QED
        BY <1>0, <2>5, <4>1, <4>2, <4>3, PlaceStays
    <3> QED
      BY <3>1, <3>2
  <2>8. Accounts'
    <3>1. ASSUME NEW m \in 1..written, Queued(m) PROVE Somewhere(m)'
      BY <2>1, <3>1 DEF Queued, Somewhere
    <3>2. \A m \in 1..written : m \in InHand => Somewhere(m)'
      BY <2>5 DEF Somewhere
    <3> QED
      BY <2>1, <3>1, <3>2, AccountsKept DEF MessagesInv
  <2> QED
    BY <2>3, <2>4, <2>6, <2>7, <2>8 DEF MessagesInv
<1> QED
  BY <1>3, <1>4
-----------------------------------------------------------------------------
(* Steps, by what they leave alone *)

Base == ChatPlain /\ MessagesInv
\* The queue, the transcript and the turn of the chat stay; turns go on or end; calls keep what they hold.
SameTalk == /\ chat' \in Chats /\ chat'.queue = chat.queue /\ chat'.said = chat.said
            /\ chat'.turn = chat.turn
TurnsGo == task' \in [Turn -> Tasks] /\ \A m \in ChatMessage : Goes(m)
HandsKeep == handler' \in [Caller -> Handlers] /\ \A c \in Caller : handler'[c].msg = handler[c].msg
    /\ Errand(c)'

LEMMA QuietBase ==
  ASSUME Base, SameTalk, TurnsGo, HandsKeep, UNCHANGED <<disk, half, asked, written, dropped, lost, removed>>,
         made' \in Nat, alive' \subseteq 1..made'
  PROVE  Base'
<1>1. MessagesInv'
  BY QuietKeeps DEF Base, SameTalk, TurnsGo, HandsKeep
<1>2. ChatPlain'
  BY DEF Base, ChatPlain, SameTalk, TurnsGo, HandsKeep
<1> QED
  BY <1>1, <1>2 DEF Base

LEMMA SavesBase ==
  ASSUME Base, SameTalk, TurnsGo, HandsKeep, UNCHANGED <<asked, written, dropped, lost, removed>>,
         ~half, Saved, made' \in Nat, alive' \subseteq 1..made'
  PROVE  Base'
<1>1. MessagesInv' /\ disk' \in Disks /\ half' \in BOOLEAN
  BY SavesKeep DEF Base, SameTalk, TurnsGo, HandsKeep
<1>2. ChatPlain'
  BY <1>1 DEF Base, ChatPlain, SameTalk, TurnsGo, HandsKeep
<1> QED
  BY <1>1, <1>2 DEF Base

LEMMA EndsBase ==
  ASSUME Base, NEW t \in Turn, NEW c \in Chats, c.queue = chat.queue, c.said = chat.said,
         c.turn = chat.turn, NEW stop, NEW pc \in {"done", "dead", "raised"}, Ends(t, c, stop, pc),
         t = Warm \/ Active(t), ~half, UNCHANGED <<handler, asked, written, dropped, lost, removed>>,
         UNCHANGED made, alive' \subseteq 1..made'
  PROVE  Base'
<1>1. PICK n \in {None} \cup ChatMessage : Ending(t, c, pc, n)
  BY EndsIs DEF Base, MessagesInv
<1>2. MessagesInv' /\ disk' \in Disks /\ half' \in BOOLEAN
  BY <1>1, EndingKeeps DEF Base
<1>3. chat' \in Chats /\ task' \in [Turn -> Tasks]
  BY <1>1 DEF Ending
<1>4. ChatPlain'
  BY <1>2, <1>3 DEF Base, ChatPlain
<1> QED
  BY <1>2, <1>4 DEF Base

\* What a handler makes of the chat besides its queue, its transcript and its turn.
LEMMA TalkKept ==
  ASSUME chat \in Chats
  PROVE  /\ UNCHANGED chat => SameTalk
         /\ Unhooked(chat) \in Chats /\ Unhooked(chat).queue = chat.queue /\ Unhooked(chat).said = chat.said
         /\ Unhooked(chat).turn = chat.turn /\ Unhooked(chat).conn = None /\ Unhooked(chat).idle = FALSE
         /\ Armed(chat) \in Chats /\ Armed(chat).queue = chat.queue /\ Armed(chat).said = chat.said
         /\ Armed(chat).turn = chat.turn /\ Armed(chat).conn = chat.conn
         /\ Armed(chat).idle = (chat.conn \in alive)
<1>1. PICK f : f = FALSE
  OBVIOUS
<1>2. Unhooked(chat) =
          ChatRecord(chat.known, chat.queue, chat.said, chat.turn, chat.stopped, None, f, f, chat.timer)
  BY <1>1, UnhookedIs
<1>3. /\ Unhooked(chat) \in Chats /\ Unhooked(chat).queue = chat.queue /\ Unhooked(chat).said = chat.said
      /\ Unhooked(chat).turn = chat.turn /\ Unhooked(chat).conn = None /\ Unhooked(chat).idle = f
  <2>1. f \in BOOLEAN /\ None \in Nat
    BY <1>1 DEF None
  <2>2. PICK u : u = Unhooked(chat)
    OBVIOUS
  <2>3. u = ChatRecord(chat.known, chat.queue, chat.said, chat.turn, chat.stopped, None, f, f, chat.timer)
    BY <1>2, <2>2
  <2>4. u \in Chats
    BY <2>1, <2>3 DEF ChatRecord, Chats
  <2>5. /\ u.queue = chat.queue /\ u.said = chat.said /\ u.turn = chat.turn /\ u.conn = None /\ u.idle = f
    BY <2>3 DEF ChatRecord
  <2> QED
    BY <2>2, <2>4, <2>5
<1>4. PICK b : b = (chat.conn \in alive)
  OBVIOUS
<1>5. (chat.conn \in alive) \in BOOLEAN
  OBVIOUS
<1>6. Armed(chat) = ChatRecord(chat.known, chat.queue, chat.said, chat.turn, chat.stopped, chat.conn,
                               chat.session, b, chat.timer)
  BY <1>4, ArmedIs
<1>7. /\ Armed(chat) \in Chats /\ Armed(chat).queue = chat.queue /\ Armed(chat).said = chat.said
      /\ Armed(chat).turn = chat.turn /\ Armed(chat).conn = chat.conn /\ Armed(chat).idle = b
  BY <1>4, <1>5, <1>6 DEF ChatRecord, Chats
<1> QED
  BY <1>1, <1>3, <1>4, <1>7 DEF SameTalk

LEMMA TalkChanges ==
  ASSUME chat \in Chats,
         \/ chat' = chat \/ chat' = Unhooked(chat) \/ chat' = Armed(chat)
         \/ \E v \in Nat : chat' = [chat EXCEPT !.conn = v]
         \/ chat' = [chat EXCEPT !.session = TRUE] \/ chat' = [chat EXCEPT !.stopped = TRUE]
         \/ chat' = [chat EXCEPT !.timer = TRUE] \/ chat' = [chat EXCEPT !.timer = FALSE]
         \/ chat' = [chat EXCEPT !.known = FALSE]
  PROVE  SameTalk
<1>1. CASE chat' = chat \/ chat' = Unhooked(chat) \/ chat' = Armed(chat)
  BY <1>1, TalkKept DEF SameTalk
<1>2. CASE \E v \in Nat : chat' = [chat EXCEPT !.conn = v]
  <2>1. PICK v \in Nat : chat' = [chat EXCEPT !.conn = v]
    BY <1>2
  <2>2. chat' = ChatRecord(chat.known, chat.queue, chat.said, chat.turn, chat.stopped, v, chat.session,
                           chat.idle, chat.timer)
    BY <2>1, ChatIs, ChatExcept
  <2> QED
    BY <2>2 DEF SameTalk, Chats, ChatRecord
<1>3. PICK t : t = TRUE
  OBVIOUS
<1>4. PICK f : f = FALSE
  OBVIOUS
<1>5. CASE chat' = [chat EXCEPT !.session = TRUE]
  <2>1. chat' = ChatRecord(chat.known, chat.queue, chat.said, chat.turn, chat.stopped, chat.conn, t,
                           chat.idle, chat.timer)
    BY <1>3, <1>5, ChatOpens
  <2> QED
    BY <1>3, <2>1 DEF SameTalk, Chats, ChatRecord
<1>6. CASE chat' = [chat EXCEPT !.stopped = TRUE]
  <2>1. chat' = ChatRecord(chat.known, chat.queue, chat.said, chat.turn, t, chat.conn, chat.session,
                           chat.idle, chat.timer)
    BY <1>3, <1>6, ChatStops
  <2> QED
    BY <1>3, <2>1 DEF SameTalk, Chats, ChatRecord
<1>7. CASE chat' = [chat EXCEPT !.timer = TRUE]
  <2>1. chat' =
            ChatRecord(chat.known, chat.queue, chat.said, chat.turn, chat.stopped, chat.conn, chat.session,
                           chat.idle, t)
    BY <1>3, <1>7, ChatTimes
  <2> QED
    BY <1>3, <2>1 DEF SameTalk, Chats, ChatRecord
<1>8. CASE chat' = [chat EXCEPT !.timer = FALSE]
  <2>1. chat' =
            ChatRecord(chat.known, chat.queue, chat.said, chat.turn, chat.stopped, chat.conn, chat.session,
                           chat.idle, f)
    BY <1>4, <1>8, ChatTimed
  <2> QED
    BY <1>4, <2>1 DEF SameTalk, Chats, ChatRecord
<1>9. CASE chat' = [chat EXCEPT !.known = FALSE]
  <2>1. chat' = ChatRecord(f, chat.queue, chat.said, chat.turn, chat.stopped, chat.conn, chat.session,
                           chat.idle, chat.timer)
    BY <1>4, <1>9, ChatGoes
  <2> QED
    BY <1>4, <2>1 DEF SameTalk, Chats, ChatRecord
<1> QED
  BY <1>1, <1>2, <1>5, <1>6, <1>7, <1>8, <1>9

LEMMA TurnsStay ==
  ASSUME ChatPlain, UNCHANGED task
  PROVE  TurnsGo
BY DEF ChatPlain, TurnsGo, Goes

LEMMA HandsStay ==
  ASSUME Base, UNCHANGED <<handler, written>>, made' \in Nat, made <= made'
  PROVE  HandsKeep
<1>1. written \in Nat /\ made \in Nat
  BY ChatAssumption DEF Base, ChatPlain
<1>2. \A c \in Caller : Errand(c)'
  BY <1>1, ErrandStays DEF Base, MessagesInv, Errands
<1> QED
  BY <1>2 DEF Base, ChatPlain, HandsKeep

LEMMA NoHandlerIs ==
  /\ NoHandler.pc = "none" /\ NoHandler.op = "none" /\ NoHandler.msg = None /\ NoHandler.on = None
  /\ NoHandler.proc = None /\ NoHandler \in Handlers
BY DEF NoHandler, Handlers, None

\* A call that ends with nothing in its hand.
LEMMA HandEnds ==
  ASSUME Base, UNCHANGED <<written, made>>, NEW c \in Caller, handler[c].msg = None,
         handler' = [handler EXCEPT ![c] = NoHandler]
  PROVE  HandsKeep
<1>1. written \in Nat /\ made \in Nat
  BY ChatAssumption DEF Base, ChatPlain
<1>2. handler \in [Caller -> Handlers]
  BY DEF Base, ChatPlain
<1>3. handler' \in [Caller -> Handlers] /\ handler'[c] = NoHandler
  BY <1>2, NoHandlerIs
<1>4. Errand(c)'
  BY <1>1, <1>3, NoHandlerIs DEF Errand, None
<1>5. ASSUME NEW d \in Caller, d # c PROVE handler'[d] = handler[d] /\ Errand(d)'
  <2>1. handler'[d] = handler[d] /\ Errand(d)
    BY <1>2, <1>5 DEF Base, MessagesInv, Errands
  <2> QED
    BY <1>1, <2>1, ErrandStays
<1> QED
  BY <1>3, <1>4, <1>5, NoHandlerIs DEF HandsKeep

TaskPcs == {"none", "new", "waiting", "replacing", "starting", "opening", "choosing",
            "asked", "failing", "done", "dead", "raised"}
HandPcs == {"none", "begin", "cancelling", "ending", "after", "closing"}
\* A turn, and a call, that has moved on.
TurnMoves(t, pc, proc) ==
    /\ task' \in [Turn -> Tasks] /\ task'[t] = [pc |-> pc, proc |-> proc, hit |-> task[t].hit]
    /\ \A s \in Turn : s # t => task'[s] = task[s]
HandMoves(c, pc, on, proc) ==
    /\ handler' \in [Caller -> Handlers]
    /\ handler'[c] = [pc |-> pc, op |-> handler[c].op, msg |-> handler[c].msg, on |-> on, proc |-> proc]
    /\ \A d \in Caller : d # c => handler'[d] = handler[d]

LEMMA TaskMoves ==
  ASSUME Base, NEW t \in Turn, NEW pc, NEW proc, pc \in TaskPcs, proc \in Nat
  PROVE  /\ task' = [task EXCEPT ![t].pc = pc] => TurnMoves(t, pc, task[t].proc)
         /\ task' = [task EXCEPT ![t].pc = pc, ![t].proc = proc] => TurnMoves(t, pc, proc)
<1>1. task \in [Turn -> Tasks]
  BY DEF Base, ChatPlain
<1>2. task[t].proc \in Nat /\ task[t].hit \in BOOLEAN
  BY <1>1 DEF Tasks
<1>3. ASSUME NEW p \in Nat,
             task' = [s \in Turn |-> IF s = t THEN [pc |-> pc, proc |-> p, hit |-> task[t].hit] ELSE task[s]]
      PROVE  TurnMoves(t, pc, p)
  <2>1. PICK r : r = [pc |-> pc, proc |-> p, hit |-> task[t].hit]
    OBVIOUS
  <2>2. r \in Tasks
    BY <1>2, <2>1 DEF Tasks, TaskPcs
  <2>3. task' = [s \in Turn |-> IF s = t THEN r ELSE task[s]]
    BY <1>3, <2>1
  <2>4. task' \in [Turn -> Tasks] /\ task'[t] = r /\ \A s \in Turn : s # t => task'[s] = task[s]
    BY <1>1, <2>2, <2>3
  <2> QED
    BY <2>1, <2>4 DEF TurnMoves
<1>4. task[t] = [pc |-> task[t].pc, proc |-> task[t].proc, hit |-> task[t].hit]
  BY <1>1 DEF Tasks
<1>5. PICK r : r = [task[t] EXCEPT !.pc = pc]
  OBVIOUS
<1>6. r = [pc |-> pc, proc |-> task[t].proc, hit |-> task[t].hit]
  BY <1>4, <1>5
<1>7. PICK f : f = [task EXCEPT ![t] = r]
  OBVIOUS
<1>8. f = [s \in Turn |-> IF s = t THEN [pc |-> pc, proc |-> task[t].proc, hit |-> task[t].hit] ELSE task[s]]
  BY <1>1, <1>6, <1>7
<1>9. [task EXCEPT ![t].pc = pc] = f
  BY <1>5, <1>7
<1>10. [f EXCEPT ![t].proc = proc] =
          [s \in Turn |-> IF s = t THEN [pc |-> pc, proc |-> proc, hit |-> task[t].hit] ELSE task[s]]
  <2>1. f[t] = r
    BY <1>1, <1>7
  <2>2. [f[t] EXCEPT !.proc = proc] = [pc |-> pc, proc |-> proc, hit |-> task[t].hit]
    BY <1>6, <2>1
  <2> QED
    BY <1>8, <2>2
<1>11. [task EXCEPT ![t].pc = pc, ![t].proc = proc] = [f EXCEPT ![t].proc = proc]
  BY <1>9
<1>12. task' = [task EXCEPT ![t].pc = pc] => TurnMoves(t, pc, task[t].proc)
  <2> SUFFICES ASSUME task' = f PROVE TurnMoves(t, pc, task[t].proc)
    BY <1>9
  <2> QED
    BY <1>2, <1>3, <1>8
<1>13. task' = [task EXCEPT ![t].pc = pc, ![t].proc = proc] => TurnMoves(t, pc, proc)
  <2> SUFFICES ASSUME task' = [f EXCEPT ![t].proc = proc] PROVE TurnMoves(t, pc, proc)
    BY <1>11
  <2> QED
    BY <1>3, <1>10
<1> QED
  BY <1>12, <1>13

LEMMA TurnHits ==
  ASSUME Base, NEW t \in Turn, task' = [task EXCEPT ![t].hit = TRUE]
  PROVE  /\ task' \in [Turn -> Tasks] /\ task'[t].pc = task[t].pc /\ task'[t].proc = task[t].proc
         /\ task'[t].hit
         /\ \A s \in Turn : s # t => task'[s] = task[s]
<1>1. task \in [Turn -> Tasks]
  BY DEF Base, ChatPlain
<1>2. PICK f : f = TRUE
  OBVIOUS
<1>3. PICK r : r = [task[t] EXCEPT !.hit = f]
  OBVIOUS
<1>4. task[t] \in Tasks /\ f \in BOOLEAN
  BY <1>1, <1>2
<1>5. r \in Tasks /\ r.pc = task[t].pc /\ r.proc = task[t].proc /\ r.hit = f
  BY <1>3, <1>4 DEF Tasks
<1>6. task' = [task EXCEPT ![t] = r]
  BY <1>2, <1>3
<1>7. task' \in [Turn -> Tasks] /\ task'[t] = r /\ \A s \in Turn : s # t => task'[s] = task[s]
  BY <1>1, <1>5, <1>6
<1> QED
  BY <1>2, <1>5, <1>7

LEMMA CallMoves ==
  ASSUME Base, NEW c \in Caller, NEW pc, NEW p, pc \in HandPcs, p \in Nat
  PROVE  /\ handler' = [handler EXCEPT ![c].pc = pc] => HandMoves(c, pc, handler[c].on, handler[c].proc)
         /\ handler' = [handler EXCEPT ![c].pc = pc, ![c].proc = p] => HandMoves(c, pc, handler[c].on, p)
         /\ handler' = [handler EXCEPT ![c].pc = pc, ![c].on = p] /\ p \in {None} \cup ChatMessage
              => HandMoves(c, pc, p, handler[c].proc)
<1>1. handler \in [Caller -> Handlers]
  BY DEF Base, ChatPlain
<1>2. handler[c].op \in {"none", "send_now", "stop", "delete", "restart"}
          /\ handler[c].msg \in {None} \cup ChatMessage
      /\ handler[c].on \in {None} \cup ChatMessage /\ handler[c].proc \in Nat
  BY <1>1 DEF Handlers
<1>3. ASSUME NEW o \in {None} \cup ChatMessage, NEW q \in Nat,
             handler' = [d \in Caller |-> IF d = c THEN [pc |-> pc, op |-> handler[c].op,
             msg |-> handler[c].msg,
                                                         on |-> o, proc |-> q] ELSE handler[d]]
      PROVE  HandMoves(c, pc, o, q)
  <2>1. PICK r : r = [pc |-> pc, op |-> handler[c].op, msg |-> handler[c].msg, on |-> o, proc |-> q]
    OBVIOUS
  <2>2. r \in Handlers
    BY <1>2, <2>1 DEF Handlers, HandPcs
  <2>3. handler' = [d \in Caller |-> IF d = c THEN r ELSE handler[d]]
    BY <1>3, <2>1
  <2>4. handler' \in [Caller -> Handlers] /\ handler'[c] = r /\ \A d \in Caller : d # c
            => handler'[d] = handler[d]
    BY <1>1, <2>2, <2>3
  <2> QED
    BY <2>1, <2>4 DEF HandMoves
<1>4. handler[c] = [pc |-> handler[c].pc, op |-> handler[c].op, msg |-> handler[c].msg,
                    on |-> handler[c].on, proc |-> handler[c].proc]
  BY <1>1 DEF Handlers
<1>5. PICK r : r = [handler[c] EXCEPT !.pc = pc]
  OBVIOUS
<1>6. r = [pc |-> pc, op |-> handler[c].op, msg |-> handler[c].msg, on |-> handler[c].on,
           proc |-> handler[c].proc]
  BY <1>4, <1>5
<1>7. PICK f : f = [handler EXCEPT ![c] = r]
  OBVIOUS
<1>8. f = [d \in Caller |-> IF d = c THEN [pc |-> pc, op |-> handler[c].op, msg |-> handler[c].msg,
                                           on |-> handler[c].on, proc |-> handler[c].proc] ELSE handler[d]]
  BY <1>1, <1>6, <1>7
<1>9. [handler EXCEPT ![c].pc = pc] = f
  BY <1>5, <1>7
<1>10. f[c] = r
  BY <1>1, <1>7
<1>11. [f EXCEPT ![c].proc = p] =
          [d \in Caller |-> IF d = c THEN [pc |-> pc, op |-> handler[c].op, msg |-> handler[c].msg,
                                           on |-> handler[c].on, proc |-> p] ELSE handler[d]]
  <2>1. [f[c] EXCEPT !.proc = p] = [pc |-> pc, op |-> handler[c].op, msg |-> handler[c].msg,
                                    on |-> handler[c].on, proc |-> p]
    BY <1>6, <1>10
  <2> QED
    BY <1>8, <2>1
<1>12. [f EXCEPT ![c].on = p] =
          [d \in Caller |-> IF d = c THEN [pc |-> pc, op |-> handler[c].op, msg |-> handler[c].msg,
                                           on |-> p, proc |-> handler[c].proc] ELSE handler[d]]
  <2>1. [f[c] EXCEPT !.on = p] = [pc |-> pc, op |-> handler[c].op, msg |-> handler[c].msg,
                                  on |-> p, proc |-> handler[c].proc]
    BY <1>6, <1>10
  <2> QED
    BY <1>8, <2>1
<1>13. /\ [handler EXCEPT ![c].pc = pc, ![c].proc = p] = [f EXCEPT ![c].proc = p]
       /\ [handler EXCEPT ![c].pc = pc, ![c].on = p] = [f EXCEPT ![c].on = p]
  BY <1>9
<1>14. handler' = [handler EXCEPT ![c].pc = pc] => HandMoves(c, pc, handler[c].on, handler[c].proc)
  <2> SUFFICES ASSUME handler' = f PROVE HandMoves(c, pc, handler[c].on, handler[c].proc)
    BY <1>9
  <2> QED
    BY <1>2, <1>3, <1>8
<1>15. handler' = [handler EXCEPT ![c].pc = pc, ![c].proc = p] => HandMoves(c, pc, handler[c].on, p)
  <2> SUFFICES ASSUME handler' = [f EXCEPT ![c].proc = p] PROVE HandMoves(c, pc, handler[c].on, p)
    BY <1>13
  <2> QED
    BY <1>2, <1>3, <1>11
<1>16. handler' = [handler EXCEPT ![c].pc = pc, ![c].on = p] /\ p \in {None} \cup ChatMessage
         => HandMoves(c, pc, p, handler[c].proc)
  <2> SUFFICES ASSUME handler' = [f EXCEPT ![c].on = p], p \in {None} \cup ChatMessage
               PROVE  HandMoves(c, pc, p, handler[c].proc)
    BY <1>13
  <2> QED
    BY <1>2, <1>3, <1>12
<1> QED
  BY <1>14, <1>15, <1>16

\* A turn that goes on.
LEMMA TurnGoesOn ==
  ASSUME Base, NEW t \in Turn, t = Warm \/ Active(t), NEW pc, NEW proc, TurnMoves(t, pc, proc),
         pc \in Before => t = Warm \/ task[t].pc \in Before
  PROVE  TurnsGo
<1>1. ASSUME NEW m \in ChatMessage PROVE Goes(m)
  <2>1. m \in Turn /\ m # Warm
    BY DEF Turn, ChatMessage, Warm
  <2>2. CASE m = t
    BY <2>1, <2>2 DEF Goes, TurnMoves
  <2>3. CASE m # t
    BY <2>1, <2>3 DEF Goes, TurnMoves
  <2> QED
    BY <2>2, <2>3
<1> QED
  BY <1>1 DEF TurnsGo, TurnMoves

LEMMA HandGoesOn ==
  ASSUME Base, UNCHANGED <<written, made>>, NEW c \in Caller, NEW pc, NEW on, NEW proc,
         HandMoves(c, pc, on, proc), on \in 0..written,
         handler[c].msg # None => pc \in {"begin", "cancelling", "ending", "after"},
         pc = "cancelling" => on # None
  PROVE  HandsKeep
<1>1. written \in Nat /\ made \in Nat
  BY ChatAssumption DEF Base, ChatPlain
<1>2. /\ handler'[c].pc = pc /\ handler'[c].op = handler[c].op /\ handler'[c].msg = handler[c].msg
      /\ handler'[c].on = on /\ handler'[c].proc = proc
  BY DEF HandMoves
<1>3. Errand(c)
  BY DEF Base, MessagesInv, Errands
<1>4. Errand(c)'
  BY <1>2, <1>3 DEF Errand
<1>5. ASSUME NEW d \in Caller, d # c PROVE handler'[d] = handler[d] /\ Errand(d)'
  <2>1. handler'[d] = handler[d] /\ Errand(d)
    BY <1>5 DEF Base, MessagesInv, Errands, HandMoves
  <2> QED
    BY <1>1, <2>1, ErrandStays
<1> QED
  BY <1>2, <1>4, <1>5 DEF HandsKeep, HandMoves
-----------------------------------------------------------------------------
(* The messages, in the steps of a turn *)

\* What the proofs of the steps of a turn need of it.
LEMMA TurnFacts ==
  ASSUME Base, NEW t \in Turn
  PROVE  /\ task[t] \in Tasks /\ task[t].proc \in Nat /\ task[t].hit \in BOOLEAN
         /\ chat \in Chats /\ chat.conn \in Nat /\ made \in Nat /\ alive \subseteq 1..made
         /\ (t = Warm \/ t \in ChatMessage) /\ Warm \notin ChatMessage /\ Warm \in Turn /\ None \in Nat
         /\ task[t].pc \in Before \cup {"asked", "failing"} => Active(t)
         /\ written \in Nat
         /\ {"waiting", "replacing", "starting", "opening", "choosing", "asked", "failing"} \subseteq TaskPcs
BY ChatAssumption DEF Base, ChatPlain, Tasks, Chats, Turn, Warm, ChatMessage, Active, None, Before, TaskPcs

LEMMA WaitsForLockBase ==
  ASSUME Base, NEW t \in Turn, WaitsForLock(t)
  PROVE  Base'
<1>1. TurnMoves(t, "waiting", task[t].proc)
  BY TurnFacts, TaskMoves DEF WaitsForLock
<1>2. task[t].pc \in Before /\ Active(t)
  BY TurnFacts DEF WaitsForLock, Before
<1>3. TurnsGo
  BY <1>1, <1>2, TurnFacts, TurnGoesOn
<1>4. SameTalk
  BY TalkChanges, TurnFacts DEF WaitsForLock
<1>5. UNCHANGED <<disk, half, handler, agents, fates>>
  BY DEF WaitsForLock
<1>6. HandsKeep
  BY <1>5, TurnFacts, HandsStay DEF agents, fates
<1> QED
  BY <1>3, <1>4, <1>5, <1>6, TurnFacts, QuietBase DEF agents, fates

LEMMA TurnFailsBase ==
  ASSUME Base, NEW t \in Turn, TurnFails(t), t = Warm \/ Active(t), ~half,
         UNCHANGED <<handler, asked, written, dropped, lost, removed, made, alive>>
  PROVE  Base'
<1>1. CASE chat.conn = None
  <2>1. Ends(t, Unhooked(chat), "error", "done")
    BY <1>1 DEF TurnFails
  <2> QED
    BY <2>1, TalkKept, TurnFacts, EndsBase
<1>2. CASE chat.conn # None
  <2>1. /\ chat' = Unhooked(chat) /\ UNCHANGED <<disk, half>>
        /\ task' = [task EXCEPT ![t].pc = "failing", ![t].proc = chat.conn]
    BY <1>2 DEF TurnFails
  <2>2. TurnMoves(t, "failing", chat.conn)
    BY <2>1, TurnFacts, TaskMoves
  <2>3. TurnsGo
    BY <2>2, TurnFacts, TurnGoesOn DEF Before
  <2>4. SameTalk
    BY <2>1, TalkChanges, TurnFacts
  <2>5. HandsKeep
    BY TurnFacts, HandsStay
  <2> QED
    BY <2>1, <2>3, <2>4, <2>5, TurnFacts, QuietBase
<1> QED
  BY <1>1, <1>2

\* The agent is given the message: it was not before, and never will be again.
LEMMA AskedBase ==
  ASSUME Base, NEW t \in ChatMessage, task[t].pc \in Before, ~half,
         asked' = [asked EXCEPT ![t] = @ + 1],
         task' = [task EXCEPT ![t].pc = "asked", ![t].proc = chat.conn],
         chat' = chat, Saved, UNCHANGED <<handler, written, dropped, lost, removed, made, alive>>
  PROVE  Base'
<1>0. t \in Turn
  BY DEF Turn
<1>1. TurnMoves(t, "asked", chat.conn)
  BY <1>0, TurnFacts, TaskMoves
<1>2. Active(t)
  BY <1>0, TurnFacts
<1>3. TurnsGo
  BY <1>0, <1>1, <1>2, TurnFacts, TurnGoesOn DEF Before
<1>4. SameTalk
  BY <1>0, TalkChanges, TurnFacts
<1>5. HandsKeep
  BY <1>0, TurnFacts, HandsStay
<1>6. asked \in [ChatMessage -> Nat] /\ asked[t] = 0 /\ t \in chat.said
  BY <1>2 DEF Base, ChatPlain, MessagesInv, Places, PlaceOf
<1>7. /\ asked' \in [ChatMessage -> Nat] /\ asked'[t] = 1
      /\ \A m \in ChatMessage : m # t => asked'[m] = asked[m]
  BY <1>6
<1>8. ~Queued(t) /\ t \notin InHand /\ t <= written
  <2>1. ~Unstarted(t)
    BY <1>2 DEF Unstarted, Active, NoTask
  <2>2. PlaceOf(t)
    BY DEF Base, MessagesInv, Places
  <2>3. 1..written \subseteq ChatMessage /\ t \in chat.said /\ chat.said \subseteq 1..written
    BY <1>6, ChatAssumption DEF Base, MessagesInv, Lists, ChatPlain, ChatMessage
  <2>4. t <= written
    BY <2>3
  <2> QED
    BY <2>1, <2>2, <2>4 DEF PlaceOf
<1>9. OnDisk' /\ disk' \in Disks /\ half' \in BOOLEAN
  <2>1. \A m \in Elements(chat.queue) : asked'[m] = asked[m]
    <3>1. Elements(chat.queue) \subseteq ChatMessage
      BY DEF Base, ChatPlain, Chats, Elements
    <3> QED
      BY <1>7, <1>8, <3>1 DEF Queued
  <2>2. written' \in Nat /\ written <= written' /\ chat' \in Chats
    BY <1>0, TurnFacts
  <2> QED
    BY <2>1, <2>2, SavedKeeps DEF Base, MessagesInv
<1>10. Lists'
  BY DEF Base, MessagesInv, Lists, InOrder
<1>11. InHand' = InHand /\ \A m : Queued(m)' = Queued(m)
  BY DEF InHand, Queued
<1>12. Places'
  <2> SUFFICES ASSUME NEW m \in ChatMessage PROVE PlaceOf(m)'
    BY DEF Places
  <2>1. PlaceOf(m) /\ Goes(m)
    BY <1>3 DEF Base, MessagesInv, Places, TurnsGo
  <2>2. CASE m # t
    <3>1. written' \in Nat /\ written <= written'
      BY <1>0, TurnFacts
    <3> QED
      BY <1>7, <1>11, <2>1, <2>2, <3>1, PlaceStays DEF Base
  <2>3. CASE m = t
    <3>1. task'[t].pc = "asked"
      BY <1>1 DEF TurnMoves
    <3>2. written' = written /\ written \in Nat /\ ~(t > written')
      BY <1>0, <1>8, TurnFacts DEF ChatMessage
    <3> QED
      BY <1>6, <1>7, <1>8, <1>11, <2>3, <3>1, <3>2 DEF PlaceOf, Before
  <2> QED
    BY <2>2, <2>3
<1>13. Errands'
  BY <1>5, ErrandsKept DEF Base, MessagesInv, HandsOnly, HandsKeep
<1>14. Accounts'
  BY <1>11 DEF Base, MessagesInv, Accounts, Somewhere
<1>15. ChatPlain'
  BY <1>3, <1>4, <1>5, <1>7, <1>9 DEF Base, ChatPlain, TurnsGo, HandsKeep, SameTalk
<1> QED
  BY <1>9, <1>10, <1>12, <1>13, <1>14, <1>15 DEF Base, MessagesInv

LEMMA ReadyBase ==
  ASSUME Base, NEW t \in Turn, Ready(t), task[t].pc \in Before, ~half,
         UNCHANGED <<handler, written, dropped, lost, removed, made, alive>>
  PROVE  Base'
<1>1. CASE t = Warm
  <2>1. Ends(t, IF Working THEN chat ELSE Armed(chat), "end", "done") /\ UNCHANGED asked
    BY <1>1 DEF Ready
  <2>2. PICK c : c = IF Working THEN chat ELSE Armed(chat)
    OBVIOUS
  <2>3. c \in Chats /\ c.queue = chat.queue /\ c.said = chat.said /\ c.turn = chat.turn
    BY <2>2, TalkKept, TurnFacts
  <2> QED
    BY <1>1, <2>1, <2>2, <2>3, TurnFacts, EndsBase
<1>2. CASE t # Warm /\ chat.conn \in alive
  <2>1. t \in ChatMessage
    BY <1>2, TurnFacts
  <2> QED
    BY <1>2, <2>1, AskedBase DEF Ready
<1>3. CASE t # Warm /\ chat.conn \notin alive
  <2>1. /\ IF chat.conn = None THEN Ends(t, chat, "error", "raised") ELSE TurnFails(t)
        /\ UNCHANGED asked
    BY <1>3 DEF Ready
  <2>2. Active(t)
    BY TurnFacts
  <2>3. CASE chat.conn = None
    BY <2>1, <2>2, <2>3, TurnFacts, EndsBase
  <2>4. CASE chat.conn # None
    BY <2>1, <2>2, <2>4, TurnFailsBase
  <2> QED
    BY <2>3, <2>4
<1> QED
  BY <1>1, <1>2, <1>3

LEMMA EntersBase ==
  ASSUME Base, NEW t \in Turn, Enters(t)
  PROVE  Base'
<1>1. ~half /\ task[t].pc \in Before /\ UNCHANGED <<handler, written, dropped, lost, removed, made, alive>>
  BY DEF Enters, Runs, Before, agents
<1>2. CASE Ready(t)
  BY <1>1, <1>2, ReadyBase
<1>3. CASE Replaces(t)
  <2> DEFINE pc == IF chat.conn = None THEN "starting" ELSE "replacing"
  <2>1. /\ chat' = Unhooked(chat) /\ UNCHANGED <<disk, half, asked>>
        /\ task' = [task EXCEPT ![t].pc = pc, ![t].proc = chat.conn]
    BY <1>3 DEF Replaces
  <2>3. pc \in TaskPcs
    BY DEF TaskPcs
  <2> HIDE DEF pc
  <2>2. TurnMoves(t, pc, chat.conn)
    BY <2>1, <2>3, TurnFacts, TaskMoves
  <2>4. TurnsGo
    BY <1>1, <2>2, TurnFacts, TurnGoesOn
  <2>5. SameTalk
    BY <2>1, TalkChanges, TurnFacts
  <2>6. HandsKeep
    BY <1>1, TurnFacts, HandsStay
  <2> QED
    BY <1>1, <2>1, <2>4, <2>5, <2>6, TurnFacts, QuietBase
<1> QED
  BY <1>2, <1>3 DEF Enters

LEMMA ReplacedBase ==
  ASSUME Base, NEW t \in Turn, Replaced(t)
  PROVE  Base'
<1>1. /\ task[t].pc = "replacing" /\ task' = [task EXCEPT ![t].pc = "starting", ![t].proc = None]
      /\ UNCHANGED <<chat, disk, half, handler, agents, fates>>
  BY DEF Replaced
<1>2. TurnMoves(t, "starting", None)
  BY <1>1, TurnFacts, TaskMoves
<1>3. TurnsGo
  BY <1>1, <1>2, TurnFacts, TurnGoesOn DEF Before
<1>4. SameTalk
  BY <1>1, TalkChanges, TurnFacts
<1>5. HandsKeep
  BY <1>1, TurnFacts, HandsStay DEF agents, fates
<1> QED
  BY <1>1, <1>3, <1>4, <1>5, TurnFacts, QuietBase DEF agents, fates

LEMMA StartFailsBase ==
  ASSUME Base, NEW t \in Turn, StartFails(t)
  PROVE  Base'
<1>1. /\ task[t].pc = "starting" /\ ~half /\ Ends(t, Unhooked(chat), "error", "done")
      /\ UNCHANGED <<handler, agents, fates>>
  BY DEF StartFails, Runs
<1>2. Active(t)
  BY <1>1, TurnFacts DEF Before
<1> QED
  BY <1>1, <1>2, TalkKept, TurnFacts, EndsBase DEF agents, fates

LEMMA AgentStartsBase ==
  ASSUME Base, NEW t \in Turn, AgentStarts(t)
  PROVE  Base'
<1>1. /\ task[t].pc = "starting" /\ task' = [task EXCEPT ![t].pc = "opening", ![t].proc = made']
      /\ chat' = [chat EXCEPT !.conn = made'] /\ made' = made + 1 /\ alive' = alive \cup {made'}
      /\ UNCHANGED <<disk, half, handler, fates>>
  BY DEF AgentStarts
<1>2. made' \in Nat /\ alive' \subseteq 1..made' /\ made <= made'
  BY <1>1, TurnFacts
<1>3. PICK a \in Nat : a = made'
  BY <1>2
<1>4. TurnMoves(t, "opening", a)
  BY <1>1, <1>3, TurnFacts, TaskMoves
<1>5. TurnsGo
  BY <1>1, <1>4, TurnFacts, TurnGoesOn DEF Before
<1>6. SameTalk
  BY <1>1, <1>3, TalkChanges, TurnFacts
<1>7. HandsKeep
  BY <1>1, <1>2, TurnFacts, HandsStay DEF fates
<1> QED
  BY <1>1, <1>2, <1>5, <1>6, <1>7, QuietBase DEF fates

LEMMA OpenedBase ==
  ASSUME Base, NEW t \in Turn, Opened(t)
  PROVE  Base'
<1>1. /\ task[t].pc = "opening" /\ task' = [task EXCEPT ![t].pc = "choosing"]
      /\ chat' = [chat EXCEPT !.session = TRUE] /\ UNCHANGED <<disk, half, handler, agents, fates>>
  BY DEF Opened
<1>2. TurnMoves(t, "choosing", task[t].proc)
  BY <1>1, TurnFacts, TaskMoves
<1>3. TurnsGo
  BY <1>1, <1>2, TurnFacts, TurnGoesOn DEF Before
<1>4. SameTalk
  BY <1>1, TalkChanges, TurnFacts
<1>5. HandsKeep
  BY <1>1, TurnFacts, HandsStay DEF agents, fates
<1> QED
  BY <1>1, <1>3, <1>4, <1>5, TurnFacts, QuietBase DEF agents, fates

LEMMA NotSignedInBase ==
  ASSUME Base, NEW t \in Turn, NotSignedIn(t)
  PROVE  Base'
<1>1. /\ task[t].pc = "opening" /\ ~half /\ Ends(t, chat, "error", "done")
      /\ UNCHANGED <<handler, alive, made, fates>>
  BY DEF NotSignedIn, Runs
<1>2. Active(t)
  BY <1>1, TurnFacts DEF Before
<1> QED
  BY <1>1, <1>2, TurnFacts, EndsBase DEF fates

LEMMA OpenFailsBase ==
  ASSUME Base, NEW t \in Turn, OpenFails(t)
  PROVE  Base'
<1>1. /\ task[t].pc = "opening" /\ ~half /\ TurnFails(t) /\ UNCHANGED <<handler, agents, fates>>
  BY DEF OpenFails, Runs
<1>2. Active(t)
  BY <1>1, TurnFacts DEF Before
<1> QED
  BY <1>1, <1>2, TurnFailsBase DEF agents, fates

LEMMA ChosenBase ==
  ASSUME Base, NEW t \in Turn, Chosen(t)
  PROVE  Base'
<1>1. /\ task[t].pc \in Before /\ ~half /\ Ready(t)
      /\ UNCHANGED <<handler, written, dropped, lost, removed, made, alive>>
  BY DEF Chosen, Runs, Before, agents
<1> QED
  BY <1>1, ReadyBase

LEMMA AnswersBase ==
  ASSUME Base, NEW m \in ChatMessage, Answers(m)
  PROVE  Base'
<1>1. PICK stop : Ends(m, chat, stop, "done")
  BY DEF Answers
<1>2. /\ task[m].pc = "asked" /\ ~half /\ UNCHANGED <<handler, alive, made, fates>> /\ m \in Turn
  BY DEF Answers, Runs, Turn
<1>3. Active(m)
  BY <1>2, TurnFacts
<1> QED
  BY <1>1, <1>2, <1>3, TurnFacts, EndsBase DEF fates

LEMMA AnswerFailsBase ==
  ASSUME Base, NEW m \in ChatMessage, AnswerFails(m)
  PROVE  Base'
<1>1. /\ task[m].pc = "asked" /\ ~half /\ TurnFails(m) /\ UNCHANGED <<handler, agents, fates>> /\ m \in Turn
  BY DEF AnswerFails, Runs, Turn
<1>2. Active(m)
  BY <1>1, TurnFacts
<1> QED
  BY <1>1, <1>2, TurnFailsBase DEF agents, fates

LEMMA FailedBase ==
  ASSUME Base, NEW t \in Turn, Failed(t)
  PROVE  Base'
<1>1. /\ task[t].pc = "failing" /\ ~half /\ Ends(t, chat, "error", "done")
      /\ UNCHANGED <<handler, agents, fates>>
  BY DEF Failed, Runs
<1>2. Active(t)
  BY <1>1, TurnFacts
<1> QED
  BY <1>1, <1>2, TurnFacts, EndsBase DEF agents, fates

LEMMA CancelledBase ==
  ASSUME Base, NEW m \in ChatMessage, Cancelled(m)
  PROVE  Base'
<1>1. /\ Active(m) /\ ~half /\ m \in Turn /\ UNCHANGED <<handler, alive, made, fates>>
  BY DEF Cancelled, Runs, Turn
<1>2. CASE task[m].pc = "new"
  <2>1. task' = [task EXCEPT ![m] = [NoTask EXCEPT !.pc = "dead"]] /\ UNCHANGED <<chat, disk, half>>
    BY <1>2 DEF Cancelled
  <2>2. PICK f : f = FALSE
    OBVIOUS
  <2>3. [NoTask EXCEPT !.pc = "dead"] = [pc |-> "dead", proc |-> None, hit |-> f]
    BY <2>2, NewIsTask
  <2>4. /\ task' \in [Turn -> Tasks] /\ task'[m].pc = "dead"
        /\ \A s \in Turn : s # m => task'[s] = task[s]
    <3>1. PICK r : r = [NoTask EXCEPT !.pc = "dead"]
      OBVIOUS
    <3>2. r \in Tasks /\ r.pc = "dead"
      <4>1. r = [pc |-> "dead", proc |-> None, hit |-> f] /\ f \in BOOLEAN
        BY <2>2, <2>3, <3>1
      <4> QED
        BY <4>1 DEF Tasks, None
    <3>3. task \in [Turn -> Tasks] /\ task' = [task EXCEPT ![m] = r]
      BY <2>1, <3>1 DEF Base, ChatPlain
    <3> QED
      BY <1>1, <3>2, <3>3
  <2>5. TurnsGo
    <3>1. ASSUME NEW n \in ChatMessage PROVE Goes(n)
      <4>1. n \in Turn
        BY DEF Turn
      <4> QED
        BY <1>1, <2>4, <4>1 DEF Goes, Before
    <3> QED
      BY <2>4, <3>1 DEF TurnsGo
  <2>6. SameTalk
    BY <1>1, <2>1, TalkChanges, TurnFacts
  <2>7. HandsKeep
    BY <1>1, TurnFacts, HandsStay DEF fates
  <2> QED
    BY <1>1, <2>1, <2>5, <2>6, <2>7, TurnFacts, QuietBase DEF fates
<1>3. CASE task[m].pc # "new"
  <2>1. Ends(m, chat, "cancelled", "done") \/ Ends(m, chat, "error", "dead")
    BY <1>3 DEF Cancelled
  <2> QED
    BY <1>1, <2>1, TurnFacts, EndsBase DEF fates
<1> QED
  BY <1>2, <1>3
-----------------------------------------------------------------------------
(* and in those of the owner, *)

\* What the proofs of the owner's calls need of the messages.
LEMMA MessageFacts ==
  ASSUME Base
  PROVE  /\ chat \in Chats /\ task \in [Turn -> Tasks] /\ handler \in [Caller -> Handlers]
         /\ written \in Nat /\ made \in Nat /\ 1..written \subseteq ChatMessage /\ alive \subseteq 1..made
         /\ InOrder(chat.queue) /\ chat.queue \in Seq(ChatMessage) /\ Single(chat.queue)
         /\ Elements(chat.queue) \subseteq 1..written
         /\ \A m \in ChatMessage : PlaceOf(m)
         /\ \A c \in Caller : Errand(c) /\ handler[c].msg \in 0..written
         /\ InHand \subseteq 1..written
<1>1. /\ chat \in Chats /\ task \in [Turn -> Tasks] /\ handler \in [Caller -> Handlers]
      /\ written \in Nat /\ made \in Nat /\ written <= MaxChatMessages /\ alive \subseteq 1..made
  BY ChatAssumption DEF Base, ChatPlain
<1>2. 1..written \subseteq ChatMessage
  BY <1>1, ChatAssumption DEF ChatMessage
<1>3. InOrder(chat.queue) /\ (\A m \in ChatMessage : PlaceOf(m)) /\ \A c \in Caller : Errand(c)
  BY DEF Base, MessagesInv, Lists, Places, Errands
<1>4. \A c \in Caller : handler[c].msg \in 0..written
  BY <1>3 DEF Errand
<1>5. InHand \subseteq 1..written
  BY <1>1, <1>4 DEF InHand, None
<1> QED
  BY <1>1, <1>2, <1>3, <1>4, <1>5 DEF InOrder

\* A step that saves, and changes what waits, what is said or what calls have in hand.
LEMMA SavedBase ==
  ASSUME Base, ~half, Saved, chat' \in Chats, chat.said \subseteq chat'.said,
         UNCHANGED <<asked, removed, made, alive>>, written' \in 0..MaxChatMessages, written <= written',
         task' \in [Turn -> Tasks], handler' \in [Caller -> Handlers], Lists', Places', Errands', Accounts'
  PROVE  Base'
<1>0. written' \in Nat
  BY ChatAssumption
<1>1. OnDisk' /\ disk' \in Disks /\ half' \in BOOLEAN
  BY <1>0, SavedKeeps DEF Base, MessagesInv
<1>2. ChatPlain'
  BY <1>1 DEF Base, ChatPlain
<1> QED
  BY <1>1, <1>2 DEF Base, MessagesInv

LEMMA SaveRecordBase ==
  ASSUME Base, SaveRecord
  PROVE  Base'
<1>1. /\ half' = FALSE /\ disk' = [disk EXCEPT !.record = [there |-> TRUE, queue |-> chat.queue]]
      /\ UNCHANGED <<chat, task, lock, handler, alive, made, asked, written, dropped, lost, removed>>
  BY DEF SaveRecord, agents, fates
<1>2. PICK b : b = TRUE
  OBVIOUS
<1>3. PICK r : r = [there |-> b, queue |-> chat.queue]
  OBVIOUS
<1>4. disk = [said |-> disk.said, record |-> disk.record] /\ disk.said \in SUBSET ChatMessage
  BY DEF Base, ChatPlain, Disks
<1>5. disk' = [said |-> disk.said, record |-> r]
  BY <1>1, <1>2, <1>3, <1>4
<1>6. r \in [there : BOOLEAN, queue : Seq(ChatMessage)] /\ r.queue = chat.queue /\ r.there
  BY <1>2, <1>3, MessageFacts
<1>7. disk' \in Disks /\ disk'.said = disk.said /\ disk'.record = r
  BY <1>4, <1>5, <1>6 DEF Disks
<1>8. OnDisk'
  <2>1. disk'.record = [there |-> TRUE, queue |-> chat'.queue]
    BY <1>1, <1>2, <1>3, <1>7
  <2>2. InOrder(disk.record.queue)'
    BY <1>1, <1>6, <1>7, MessageFacts DEF InOrder
  <2>3. \A m \in Elements(disk'.record.queue) : asked'[m] = 0
    <3>1. Elements(chat.queue) \subseteq ChatMessage
      BY MessageFacts
    <3>2. \A m \in Elements(chat.queue) : asked[m] = 0
      BY <3>1, MessageFacts DEF PlaceOf, Queued, Unstarted
    <3> QED
      BY <1>1, <1>6, <1>7, <3>2
  <2>4. disk'.said \subseteq chat'.said /\ (~removed' => disk'.said = chat'.said)
    BY <1>1, <1>7 DEF Base, MessagesInv, OnDisk
  <2> QED
    BY <1>6, <1>7, <2>1, <2>2, <2>3, <2>4 DEF OnDisk
<1>9. Lists'
  BY <1>1 DEF Base, MessagesInv, Lists, InOrder
<1>10. Places' /\ Errands' /\ Accounts'
  <2>1. \A m \in ChatMessage : PlaceOf(m)'
    BY <1>1, MessageFacts DEF PlaceOf, Queued, InHand, Unstarted, Active
  <2>2. \A c \in Caller : Errand(c)'
    BY <1>1, MessageFacts DEF Errand
  <2>3. OneHand' /\ Accounts'
    BY <1>1 DEF Base, MessagesInv, Errands, OneHand, Accounts, Somewhere, Queued, InHand
  <2> QED
    BY <2>1, <2>2, <2>3 DEF Places, Errands
<1>11. ChatPlain'
  BY <1>1, <1>7 DEF Base, ChatPlain
<1> QED
  BY <1>8, <1>9, <1>10, <1>11 DEF Base, MessagesInv

LEMMA PromptBase ==
  ASSUME Base, Prompt
  PROVE  Base'
<1>1. PICK w : w = written'
  OBVIOUS
<1>2. /\ w = written + 1 /\ w \in ChatMessage /\ w \in Turn /\ w \in 0..MaxChatMessages /\ ~half /\ Saved
      /\ written <= written'
      /\ UNCHANGED <<handler, made, alive, asked, dropped, lost, removed>>
  BY <1>1, MessageFacts, ChatAssumption DEF Prompt, Runs, agents, ChatMessage, Turn
<1>3. ~Queued(w) /\ w \notin InHand /\ Unstarted(w)
  <2>1. w \notin 1..written /\ w > written
    BY <1>2, MessageFacts
  <2> QED
    BY <1>2, <2>1, MessageFacts DEF Queued, PlaceOf
<1>4. InHand' = InHand /\ Errands' /\ handler' \in [Caller -> Handlers]
  <2>1. InHand' = InHand /\ OneHand'
    BY <1>2 DEF InHand, OneHand, Base, MessagesInv, Errands
  <2>2. \A c \in Caller : Errand(c)'
    BY <1>1, <1>2, MessageFacts, ErrandStays
  <2> QED
    BY <1>2, <2>1, <2>2, MessageFacts DEF Errands
<1>5. ASSUME NEW m \in ChatMessage, m # w, Goes(m), Queued(m)' => Queued(m), chat.said \subseteq chat'.said
      PROVE  PlaceOf(m)'
  BY <1>1, <1>2, <1>4, <1>5, MessageFacts, PlaceStays DEF Base
<1>6. 1..written' = 1..written \cup {w} /\ chat.said \cup dropped \cup lost \subseteq 1..written
  BY <1>1, <1>2, MessageFacts DEF Base, MessagesInv, Lists
<1>7. CASE Working
  <2>1. PICK q : q = Append(chat.queue, w)
    OBVIOUS
  <2>2. chat' = [chat EXCEPT !.queue = q] /\ UNCHANGED task /\ Len(chat.queue) < MaxQueue
    BY <1>1, <1>7, <2>1 DEF Prompt
  <2>3. /\ q \in Seq(ChatMessage) /\ Single(q) /\ Len(q) = Len(chat.queue) + 1
        /\ Elements(q) = Elements(chat.queue) \cup {w}
    BY <1>2, <1>3, <2>1, MessageFacts, QueueAppends DEF Queued
  <2>4. chat' = ChatRecord(chat.known, q, chat.said, chat.turn, chat.stopped, chat.conn, chat.session,
                           chat.idle, chat.timer)
    BY <2>2, MessageFacts, ChatIs, ChatExcept
  <2>5. chat' \in Chats /\ chat'.queue = q /\ chat'.said = chat.said /\ chat'.turn = chat.turn
    BY <2>3, <2>4, MessageFacts DEF Chats, ChatRecord
  <2>6. Len(q) <= MaxQueue
    BY <2>2, <2>3, MessageFacts, ChatAssumption
  <2>7. Lists'
    <3>1. InOrder(chat.queue)'
      BY <1>6, <2>3, <2>5, <2>6, MessageFacts DEF InOrder
    <3> QED
      BY <1>2, <1>6, <2>5, <3>1 DEF Base, MessagesInv, Lists
  <2>8. \A m : Queued(m)' <=> (Queued(m) \/ m = w)
    BY <2>3, <2>5 DEF Queued
  <2>9. Places'
    <3>1. \A m \in ChatMessage : Goes(m)
      BY <2>2 DEF Goes
    <3>2. PlaceOf(w)'
      BY <1>2, <1>3, <1>4, <2>2, PlaceWaits
    <3> QED
      BY <1>5, <2>5, <2>8, <3>1, <3>2 DEF Places
  <2>10. Accounts'
    BY <1>2, <1>4, <1>6, <2>5, <2>8 DEF Base, MessagesInv, Accounts, Somewhere
  <2> QED
    BY <1>1, <1>2, <1>4, <2>2, <2>5, <2>7, <2>9, <2>10, MessageFacts, SavedBase
<1>8. CASE ~Working
  <2>1. chat' = Started(chat, w) /\ task' = [task EXCEPT ![w] = New]
    BY <1>1, <1>8 DEF Prompt
  <2>2. PICK f : f = FALSE
    OBVIOUS
  <2>3. chat' =
            ChatRecord(chat.known, chat.queue, chat.said \cup {w}, w, f, chat.conn, chat.session, f,
                chat.timer)
    BY <2>1, <2>2, MessageFacts, StartedIs
  <2>4. chat' \in Chats /\ chat'.queue = chat.queue /\ chat'.said = chat.said \cup {w} /\ chat'.turn = w
    BY <1>2, <2>2, <2>3, MessageFacts DEF Chats, ChatRecord
  <2>5. /\ task' \in [Turn -> Tasks] /\ task'[w] = New /\ \A s \in Turn : s # w => task'[s] = task[s]
    BY <1>2, <2>1, MessageFacts, NewIsTask
  <2>6. Lists'
    <3>1. InOrder(chat.queue)'
      BY <1>6, <2>4, MessageFacts DEF InOrder
    <3> QED
      BY <1>2, <1>6, <2>4, <3>1 DEF Lists
  <2>7. \A m : Queued(m)' <=> Queued(m)
    BY <2>4 DEF Queued
  <2>8. Places'
    <3>1. \A m \in ChatMessage : m # w => Goes(m)
      BY <2>5 DEF Goes, Turn
    <3>2. PlaceOf(w)'
      <4>1. written' \in Nat /\ w <= written' /\ asked'[w] = asked[w]
        BY <1>1, <1>2, MessageFacts
      <4> QED
        BY <1>2, <1>3, <1>4, <2>4, <2>5, <2>7, <4>1, PlaceStarts
    <3> QED
      BY <1>5, <2>4, <2>7, <3>1, <3>2 DEF Places
  <2>9. Accounts'
    BY <1>2, <1>4, <1>6, <2>4, <2>7 DEF Base, MessagesInv, Accounts, Somewhere
  <2> QED
    BY <1>1, <1>2, <1>4, <2>4, <2>5, <2>6, <2>8, <2>9, MessageFacts, SavedBase
<1> QED
  BY <1>7, <1>8

LEMMA ConnectBase ==
  ASSUME Base, Connect
  PROVE  Base'
<1>1. task' = [task EXCEPT ![Warm] = New] /\ UNCHANGED <<chat, disk, half, handler, agents, fates>>
  BY DEF Connect
<1>2. task' \in [Turn -> Tasks] /\ \A s \in Turn : s # Warm => task'[s] = task[s]
  BY <1>1, MessageFacts, NewIsTask
<1>3. TurnsGo
  BY <1>2 DEF TurnsGo, Goes, Turn, Warm, ChatMessage
<1>4. SameTalk
  BY <1>1, MessageFacts, TalkChanges
<1>5. HandsKeep
  BY <1>1, MessageFacts, HandsStay DEF agents, fates
<1> QED
  BY <1>1, <1>3, <1>4, <1>5, MessageFacts, QuietBase DEF agents, fates

\* The queue without one of its messages.
LEMMA LeavesQueue ==
  ASSUME Base, NEW m, Queued(m), chat' = Unqueued(m), UNCHANGED written
  PROVE  /\ chat' \in Chats /\ chat'.said = chat.said /\ chat'.turn = chat.turn /\ InOrder(chat.queue)'
         /\ chat'.known = chat.known /\ chat'.stopped = chat.stopped /\ chat'.conn = chat.conn
         /\ chat'.session = chat.session /\ chat'.idle = chat.idle /\ chat'.timer = chat.timer
         /\ \A n : Queued(n)' <=> (Queued(n) /\ n # m)
         /\ m \in 1..written /\ m \in ChatMessage
<1>1. PICK r \in Seq(ChatMessage) :
           /\ Unqueued(m) = [chat EXCEPT !.queue = r]
           /\ Single(r) /\ Len(r) = Len(chat.queue) - 1 /\ Elements(r) = Elements(chat.queue) \ {m}
  BY MessageFacts, UnqueuedIs
<1>2. chat' = ChatRecord(chat.known, r, chat.said, chat.turn, chat.stopped, chat.conn, chat.session,
                         chat.idle, chat.timer)
  BY <1>1, MessageFacts, ChatIs, ChatExcept
<1>3. /\ chat' \in Chats /\ chat'.queue = r /\ chat'.said = chat.said /\ chat'.turn = chat.turn
      /\ chat'.known = chat.known /\ chat'.stopped = chat.stopped /\ chat'.conn = chat.conn
      /\ chat'.session = chat.session /\ chat'.idle = chat.idle /\ chat'.timer = chat.timer
  BY <1>2, MessageFacts DEF Chats, ChatRecord
<1>4. InOrder(chat.queue)'
  BY <1>1, <1>3, MessageFacts, ChatAssumption DEF InOrder
<1>5. \A n : Queued(n)' <=> (Queued(n) /\ n # m)
  BY <1>1, <1>3 DEF Queued
<1>6. m \in 1..written /\ m \in ChatMessage
  BY MessageFacts DEF Queued
<1> QED
  BY <1>3, <1>4, <1>5, <1>6

LEMMA TakeBackBase ==
  ASSUME Base, NEW m \in ChatMessage, TakeBack(m)
  PROVE  Base'
<1>1. /\ Queued(m) /\ chat' = Unqueued(m) /\ Saved /\ dropped' = dropped \cup {m} /\ ~half
      /\ UNCHANGED <<task, handler, made, alive, asked, written, lost, removed>>
  BY DEF TakeBack, OwnerCalls, Runs, agents
<1>4. /\ chat' \in Chats /\ chat'.said = chat.said /\ chat'.turn = chat.turn /\ InOrder(chat.queue)'
      /\ m \in 1..written
      /\ \A n : Queued(n)' <=> (Queued(n) /\ n # m)
  BY <1>1, LeavesQueue
<1>8. Lists'
  BY <1>1, <1>4 DEF Base, MessagesInv, Lists
<1>9. InHand' = InHand /\ Errands'
  <2>1. InHand' = InHand /\ OneHand'
    BY <1>1 DEF InHand, OneHand, Base, MessagesInv, Errands
  <2>2. \A c \in Caller : Errand(c)'
    BY <1>1, MessageFacts, ErrandStays
  <2> QED
    BY <2>1, <2>2 DEF Errands
<1>10. Places'
  <2>1. \A n \in ChatMessage : Goes(n)
    BY <1>1 DEF Goes
  <2> QED
    BY <1>1, <1>4, <1>9, <2>1, MessageFacts, PlaceStays DEF Base, Places
<1>11. Accounts'
  BY <1>1, <1>4, <1>9 DEF Base, MessagesInv, Accounts, Somewhere
<1> QED
  BY <1>1, <1>4, <1>8, <1>9, <1>10, <1>11, MessageFacts, SavedBase DEF Base, ChatPlain

LEMMA BegunIs ==
  ASSUME NEW op \in {"send_now", "stop", "delete", "restart"}, NEW m \in {None} \cup ChatMessage
  PROVE  Begun(op, m) = [pc |-> "begin", op |-> op, msg |-> m, on |-> None, proc |-> None]
         /\ Begun(op, m) \in Handlers
<1>1. Begun(op, m) = [pc |-> "begin", op |-> op, msg |-> m, on |-> None, proc |-> None]
  <2>1. PICK a : a = [NoHandler EXCEPT !.pc = "begin"]
    OBVIOUS
  <2>2. a = [pc |-> "begin", op |-> "none", msg |-> None, on |-> None, proc |-> None]
    BY <2>1 DEF NoHandler
  <2>3. PICK b : b = [a EXCEPT !.op = op]
    OBVIOUS
  <2>4. b = [pc |-> "begin", op |-> op, msg |-> None, on |-> None, proc |-> None]
    BY <2>2, <2>3
  <2>5. PICK d : d = [b EXCEPT !.msg = m]
    OBVIOUS
  <2>6. d = [pc |-> "begin", op |-> op, msg |-> m, on |-> None, proc |-> None]
    BY <2>4, <2>5
  <2>7. Begun(op, m) = d
    BY <2>1, <2>3, <2>5 DEF Begun
  <2> QED
    BY <2>6, <2>7
<1>2. [pc |-> "begin", op |-> op, msg |-> m, on |-> None, proc |-> None] \in Handlers
  BY DEF Handlers, None
<1> QED
  BY <1>1, <1>2

LEMMA SendNowBase ==
  ASSUME Base, NEW c \in Caller, NEW m \in ChatMessage, SendNow(c, m)
  PROVE  Base'
<1>1. /\ Queued(m) /\ chat' = Unqueued(m) /\ Saved /\ ~half /\ handler[c] = NoHandler
      /\ handler' = [handler EXCEPT ![c] = Begun("send_now", m)]
      /\ UNCHANGED <<task, made, alive, asked, written, dropped, lost, removed>>
  BY DEF SendNow, OwnerCalls, Runs, agents, fates
<1>2. /\ chat' \in Chats /\ chat'.said = chat.said /\ m \in 1..written
      /\ chat'.turn = chat.turn /\ InOrder(chat.queue)'
      /\ \A n : Queued(n)' <=> (Queued(n) /\ n # m)
  BY <1>1, LeavesQueue
<1>13. Lists'
  BY <1>1, <1>2 DEF Base, MessagesInv, Lists
<1>3. PICK h : h = Begun("send_now", m)
  OBVIOUS
<1>4. /\ h \in Handlers /\ h.pc = "begin" /\ h.op = "send_now" /\ h.msg = m /\ h.on = None /\ h.proc = None
  BY <1>3, BegunIs
<1>5. handler' \in [Caller -> Handlers] /\ handler'[c] = h /\ \A d \in Caller : d # c
          => handler'[d] = handler[d]
  BY <1>1, <1>3, <1>4, MessageFacts
<1>6. handler[c].msg = None /\ m # None
  BY <1>1, NoHandlerIs DEF ChatMessage, None
<1>7. InHand' = InHand \cup {m}
  BY <1>4, <1>5, <1>6 DEF InHand
<1>8. m \notin InHand /\ Unstarted(m)
  BY <1>1, MessageFacts DEF PlaceOf
<1>9. OneHand'
  <2>1. \A d \in Caller : d # c => handler[d].msg # m
    BY <1>6, <1>8 DEF InHand
  <2> QED
    BY <1>4, <1>5, <2>1 DEF Base, MessagesInv, Errands, OneHand
<1>10. Errands'
  <2>1. Errand(c)'
    BY <1>1, <1>2, <1>4, <1>5, <1>6, MessageFacts DEF Errand, None
  <2>2. \A d \in Caller : d # c => Errand(d)'
    BY <1>1, <1>5, MessageFacts DEF Errand
  <2> QED
    BY <1>9, <2>1, <2>2 DEF Errands
<1>11. Places'
  <2>1. \A n \in ChatMessage : Goes(n)
    BY <1>1 DEF Goes
  <2>2. PlaceOf(m)'
    BY <1>1, <1>2, <1>8, PlaceWaits
  <2>3. \A n \in ChatMessage : n # m => PlaceOf(n)'
    BY <1>1, <1>2, <1>7, <2>1, MessageFacts, PlaceStays DEF Base
  <2> QED
    BY <2>2, <2>3 DEF Places
<1>12. Accounts'
  BY <1>1, <1>2, <1>7 DEF Base, MessagesInv, Accounts, Somewhere
<1> QED
  BY <1>1, <1>2, <1>5, <1>10, <1>11, <1>12, <1>13, MessageFacts, SavedBase DEF Base, ChatPlain

LEMMA AsksBase ==
  ASSUME Base, NEW c \in Caller, NEW op \in {"stop", "delete", "restart"}, Asks(c, op)
  PROVE  Base'
<1>1. /\ handler[c] = NoHandler /\ handler' = [handler EXCEPT ![c] = Begun(op, None)]
      /\ UNCHANGED <<chat, disk, half, task, agents, fates>>
  BY DEF Asks
<1>2. PICK h : h = Begun(op, None)
  OBVIOUS
<1>3. /\ h \in Handlers /\ h.pc = "begin" /\ h.op = op /\ h.msg = None /\ h.on = None /\ h.proc = None
  BY <1>2, BegunIs
<1>4. handler' \in [Caller -> Handlers] /\ handler'[c] = h /\ \A d \in Caller : d # c
          => handler'[d] = handler[d]
  BY <1>1, <1>2, <1>3, MessageFacts
<1>5. HandsKeep
  <2>1. Errand(c)'
    BY <1>3, <1>4, MessageFacts, <1>1 DEF Errand, None, agents, fates
  <2>2. \A d \in Caller : d # c => Errand(d)'
    BY <1>1, <1>4, MessageFacts DEF Errand, agents, fates
  <2>3. handler'[c].msg = handler[c].msg
    BY <1>1, <1>3, <1>4, NoHandlerIs
  <2> QED
    BY <1>4, <2>1, <2>2, <2>3 DEF HandsKeep
<1>6. SameTalk /\ TurnsGo
  BY <1>1, MessageFacts, TalkChanges, TurnsStay DEF Base
<1> QED
  BY <1>1, <1>5, <1>6, MessageFacts, QuietBase DEF agents, fates

\* A chat that goes: what it was is on the disk no more, and nothing is accounted for any longer.
LEMMA GoneBase ==
  ASSUME Base, NEW c, c = chat \/ c = Unhooked(chat), Gone(c), HandsKeep,
         UNCHANGED <<task, asked, written, dropped, lost, made, alive>>
  PROVE  Base'
<1>1. c \in Chats /\ c.queue = chat.queue /\ c.said = chat.said /\ c.turn = chat.turn
  BY MessageFacts, TalkKept
<1>2. SameTalk
  <2>1. PICK f : f = FALSE
    OBVIOUS
  <2>2. chat' = [c EXCEPT !.known = f]
    BY <2>1 DEF Gone
  <2>3. chat' = ChatRecord(f, c.queue, c.said, c.turn, c.stopped, c.conn, c.session, c.idle, c.timer)
    BY <1>1, <2>2, ChatIs, ChatExcept
  <2> QED
    BY <1>1, <2>1, <2>3 DEF SameTalk, Chats, ChatRecord
<1>3. PICK f : f = FALSE
  OBVIOUS
<1>4. /\ disk' = [said |-> {}, record |-> [there |-> f, queue |-> <<>>]] /\ half' = f /\ removed' = TRUE
      /\ f \in BOOLEAN
  BY <1>3 DEF Gone, NoRecord
<1>5. /\ disk' \in Disks /\ half' \in BOOLEAN /\ disk'.said = {}
             /\ disk'.record = [there |-> f, queue |-> <<>>]
             /\ disk'.record.queue = <<>>
  BY <1>4 DEF Disks
<1>6. removed' /\ removed' \in BOOLEAN
  BY <1>4
<1>7. OnDisk'
  <2>1. Elements(<<>>) = {} /\ Single(<<>>) /\ <<>> \in Seq(ChatMessage) /\ Len(<<>>) <= MaxQueue
    BY ChatAssumption DEF Elements, Single
  <2>2. InOrder(disk.record.queue)'
    BY <1>5, <2>1 DEF InOrder
  <2>3. disk'.record = NoRecord
    BY <1>3, <1>5 DEF NoRecord
  <2> QED
    BY <1>5, <1>6, <2>1, <2>2, <2>3 DEF OnDisk
<1>8. Lists'
  BY <1>2 DEF Base, MessagesInv, Lists, InOrder, SameTalk
<1>9. Errands' /\ InHand' \subseteq InHand
  BY ErrandsKept DEF Base, MessagesInv, HandsOnly, HandsKeep
<1>10. Places'
  <2>1. \A n \in ChatMessage : Goes(n)
    BY DEF Goes
  <2>2. \A n : Queued(n)' => Queued(n)
    BY <1>2 DEF SameTalk, Queued
  <2> QED
    BY <1>2, <1>6, <1>9, <2>1, <2>2, MessageFacts, PlaceStays DEF Base, Places, SameTalk
<1>11. Accounts'
  BY <1>6 DEF Accounts
<1>12. ChatPlain'
  BY <1>2, <1>5, <1>6 DEF Base, ChatPlain, SameTalk, HandsKeep
<1> QED
  BY <1>7, <1>8, <1>9, <1>10, <1>11, <1>12 DEF Base, MessagesInv

LEMMA HandFacts ==
  ASSUME Base, NEW c \in Caller
  PROVE  /\ handler[c].msg \in 0..written /\ handler[c].on \in 0..written /\ handler[c].proc \in Nat
         /\ handler[c].op = "send_now" <=> handler[c].msg # None
         /\ handler[c].msg # None => handler[c].pc \in {"begin", "cancelling", "ending", "after"}
         /\ handler[c].pc = "cancelling" => handler[c].on # None
         /\ handler[c].on \in 1..written \cup {None} /\ chat.turn \in 0..written /\ chat.conn \in Nat
         /\ {"none", "begin", "cancelling", "ending", "after", "closing"} \subseteq HandPcs /\ None \in Nat
<1>1. Errand(c) /\ handler[c] \in Handlers /\ written \in Nat /\ chat \in Chats
  BY MessageFacts
<1>2. chat.turn \in 0..written
  BY <1>1 DEF Base, MessagesInv, Lists, None
<1> QED
  BY <1>1, <1>2 DEF Errand, Handlers, Chats, HandPcs, None

LEMMA StopsBase ==
  ASSUME Base, NEW c \in Caller, Stops(c), handler[c].msg = None,
         UNCHANGED <<task, asked, written, dropped, lost, made, alive>>
  PROVE  Base'
<1>1. TurnsGo
  BY TurnsStay DEF Base
<1>2. CASE chat.conn = None
  <2>1. Stopped(c)
    BY <1>2 DEF Stops
  <2>2. HandsKeep
    BY <2>1, HandEnds DEF Stopped
  <2>3. CASE handler[c].op = "delete"
    BY <2>1, <2>2, <2>3, GoneBase DEF Stopped
  <2>4. CASE handler[c].op # "delete"
    <3>1. chat' = Unhooked(chat) /\ UNCHANGED <<disk, half, removed>>
      BY <2>1, <2>4 DEF Stopped
    <3>2. SameTalk
      BY <3>1, MessageFacts, TalkChanges
    <3> QED
      BY <1>1, <2>2, <3>1, <3>2, MessageFacts, QuietBase
  <2> QED
    BY <2>3, <2>4
<1>3. CASE chat.conn # None
  <2>1. /\ chat' = Unhooked(chat) /\ UNCHANGED <<disk, half, removed>>
        /\ handler' = [handler EXCEPT ![c].pc = "closing", ![c].proc = chat.conn]
    BY <1>3 DEF Stops
  <2>2. HandMoves(c, "closing", handler[c].on, chat.conn)
    BY <2>1, HandFacts, CallMoves
  <2>3. HandsKeep
    BY <2>2, HandFacts, HandGoesOn
  <2>4. SameTalk
    BY <2>1, MessageFacts, TalkChanges
  <2> QED
    BY <1>1, <2>1, <2>3, <2>4, MessageFacts, QuietBase
<1> QED
  BY <1>2, <1>3

LEMMA BeginsBase ==
  ASSUME Base, NEW c \in Caller, Begins(c)
  PROVE  Base'
<1>1. /\ ~half /\ handler[c].pc = "begin"
      /\ UNCHANGED <<lock, alive, made, stray, asked, written, dropped, lost>>
  BY DEF Begins
<1>2. CASE handler[c].op = "restart"
  <2>1. Stops(c) /\ UNCHANGED task
    BY <1>2 DEF Begins
  <2>2. handler[c].msg = None
    BY <1>2, HandFacts
  <2> QED
    BY <1>1, <2>1, <2>2, StopsBase
<1>3. CASE handler[c].op # "restart" /\ ~Working
  <2>1. handler' = [handler EXCEPT ![c].pc = "after"] /\ UNCHANGED <<chat, disk, half, task, told, removed>>
    BY <1>3 DEF Begins
  <2>2. HandMoves(c, "after", handler[c].on, handler[c].proc)
    BY <2>1, HandFacts, CallMoves
  <2>3. HandsKeep
    BY <1>1, <2>2, HandFacts, HandGoesOn
  <2>4. SameTalk /\ TurnsGo
    BY <2>1, MessageFacts, TalkChanges, TurnsStay DEF Base
  <2> QED
    BY <1>1, <2>1, <2>3, <2>4, MessageFacts, QuietBase
<1>4. CASE handler[c].op # "restart" /\ Working
  <2>1. /\ handler' = [handler EXCEPT ![c].pc = "cancelling", ![c].on = chat.turn]
        /\ UNCHANGED <<disk, half, removed>>
        /\ \/ UNCHANGED <<chat, task>>
           \/ chat' = [chat EXCEPT !.stopped = TRUE] /\ task' = [task EXCEPT ![chat.turn].hit = TRUE]
    BY <1>4 DEF Begins
  <2>2. chat.turn \in ChatMessage /\ Active(chat.turn) /\ chat.turn \in Turn /\ chat.turn # None
    BY <1>4, MessageFacts DEF Working, Chats, Turn
  <2>3. HandMoves(c, "cancelling", chat.turn, handler[c].proc)
    <3>1. chat.turn \in {None} \cup ChatMessage /\ chat.turn \in Nat
      BY <2>2 DEF ChatMessage
    <3> QED
      BY <2>1, <3>1, HandFacts, CallMoves
  <2>4. HandsKeep
    BY <1>1, <2>2, <2>3, HandFacts, HandGoesOn
  <2>5. SameTalk
    BY <2>1, MessageFacts, TalkChanges
  <2>6. TurnsGo
    <3>1. CASE UNCHANGED task
      BY <3>1, TurnsStay DEF Base
    <3>2. CASE task' = [task EXCEPT ![chat.turn].hit = TRUE]
      <4>1. PICK t \in Turn : t = chat.turn
        BY <2>2
      <4>2. /\ task' \in [Turn -> Tasks] /\ task'[t].pc = task[t].pc
            /\ \A s \in Turn : s # t => task'[s] = task[s]
        BY <3>2, <4>1, TurnHits
      <4>3. ASSUME NEW n \in ChatMessage PROVE Goes(n)
        <5>1. n \in Turn
          BY DEF Turn
        <5> QED
          BY <2>2, <4>1, <4>2, <5>1 DEF Goes
      <4> QED
        BY <4>2, <4>3 DEF TurnsGo
    <3> QED
      BY <2>1, <3>1, <3>2
  <2> QED
    BY <1>1, <2>1, <2>4, <2>5, <2>6, MessageFacts, QuietBase
<1> QED
  BY <1>2, <1>3, <1>4

LEMMA TurnOverBase ==
  ASSUME Base, NEW c \in Caller, TurnOver(c)
  PROVE  Base'
<1>1. /\ ~half /\ handler[c].pc = "cancelling"
      /\ UNCHANGED <<task, alive, made, asked, written, dropped, removed>>
  BY DEF TurnOver, Runs, agents
<1>2. TurnsGo
  BY <1>1, TurnsStay DEF Base
<1>3. CASE handler' = [handler EXCEPT ![c].pc = "after"] /\ UNCHANGED lost
  <2>1. HandMoves(c, "after", handler[c].on, handler[c].proc)
    BY <1>3, HandFacts, CallMoves
  <2>2. HandsKeep
    BY <1>1, <2>1, HandFacts, HandGoesOn
  <2>3. (chat' = Armed(chat) /\ Saved) \/ UNCHANGED <<chat, disk, half>>
    BY DEF TurnOver
  <2>4. SameTalk
    BY <2>3, MessageFacts, TalkChanges
  <2>5. CASE chat' = Armed(chat) /\ Saved
    <3>1. chat' \in Chats
      BY <2>4 DEF SameTalk
    <3> QED
      BY <1>1, <1>2, <1>3, <2>2, <2>4, <2>5, MessageFacts, SavesBase
  <2>6. CASE UNCHANGED <<chat, disk, half>>
    BY <1>1, <1>2, <1>3, <2>2, <2>4, <2>6, MessageFacts, QuietBase
  <2> QED
    BY <2>3, <2>5, <2>6
<1>4. CASE /\ handler' = [handler EXCEPT ![c] = NoHandler] /\ lost' = lost \cup ({handler[c].msg} \ {None})
           /\ UNCHANGED <<chat, disk, half>>
  <2>1. handler' \in [Caller -> Handlers] /\ handler'[c] = NoHandler /\ \A d \in Caller : d # c
            => handler'[d] = handler[d]
    BY <1>4, MessageFacts, NoHandlerIs
  <2>2. HandsOnly
    <3>1. Errand(c)'
      BY <1>1, <2>1, NoHandlerIs, MessageFacts DEF Errand, None
    <3>2. \A d \in Caller : d # c => Errand(d)'
      BY <1>1, <2>1, MessageFacts DEF Errand
    <3> QED
      BY <2>1, <3>1, <3>2, NoHandlerIs DEF HandsOnly
  <2>3. Errands' /\ InHand' \subseteq InHand
    BY <2>2, ErrandsKept DEF Base, MessagesInv
  <2>4. \A m : Queued(m)' <=> Queued(m)
    BY <1>4 DEF Queued
  <2>5. Lists'
    <3>1. lost' \subseteq 1..written
      BY <1>4, MessageFacts DEF Base, MessagesInv, Lists, None
    <3>2. InOrder(chat.queue)'
      BY <1>1, <1>4, MessageFacts DEF InOrder
    <3> QED
      BY <1>1, <1>4, <3>1, <3>2 DEF Base, MessagesInv, Lists
  <2>6. OnDisk'
    BY <1>1, <1>4, DiskStays DEF Base, MessagesInv
  <2>7. Places'
    <3>1. \A m \in ChatMessage : Goes(m)
      BY <1>1 DEF Goes
    <3> QED
      BY <1>1, <1>4, <2>3, <2>4, <3>1, MessageFacts, PlaceStays DEF Base, Places
  <2>8. Accounts'
    <3>1. \A m \in InHand : m \in lost' \/ m \in InHand'
      BY <1>4, <2>1 DEF InHand
    <3>2. \A m \in 1..written : m \in InHand => Somewhere(m)'
      BY <3>1 DEF Somewhere
    <3>3. \A m \in 1..written : Queued(m) => Somewhere(m)'
      BY <2>4 DEF Somewhere
    <3> QED
      BY <1>1, <1>4, <3>2, <3>3, AccountsKept DEF Base, MessagesInv
  <2>9. ChatPlain'
    BY <1>1, <1>4, <2>1 DEF Base, ChatPlain
  <2> QED
    BY <2>3, <2>5, <2>6, <2>7, <2>8, <2>9 DEF Base, MessagesInv
<1> QED
  BY <1>3, <1>4 DEF TurnOver

LEMMA TimesOutBase ==
  ASSUME Base, NEW c \in Caller, TimesOut(c)
  PROVE  Base'
<1>1. PICK pc \in {"after", "ending"} : pc = IF chat.conn = None THEN "after" ELSE "ending"
  OBVIOUS
<1>2. /\ handler[c].pc = "cancelling" /\ chat' = Unhooked(chat)
      /\ handler' = [handler EXCEPT ![c].pc = pc, ![c].proc = chat.conn]
      /\ UNCHANGED <<disk, half, task, agents, fates>>
  BY <1>1 DEF TimesOut
<1>3. pc \in HandPcs
  BY DEF HandPcs
<1>4. HandMoves(c, pc, handler[c].on, chat.conn)
  BY <1>2, <1>3, HandFacts, CallMoves
<1>5. HandsKeep
  BY <1>1, <1>2, <1>4, HandFacts, HandGoesOn DEF agents, fates
<1>6. SameTalk /\ TurnsGo
  BY <1>2, MessageFacts, TalkChanges, TurnsStay DEF Base
<1> QED
  BY <1>2, <1>5, <1>6, MessageFacts, QuietBase DEF agents, fates

LEMMA AgentEndedBase ==
  ASSUME Base, NEW c \in Caller, AgentEnded(c)
  PROVE  Base'
<1>1. /\ handler[c].pc = "ending" /\ handler' = [handler EXCEPT ![c].pc = "after", ![c].proc = None]
      /\ UNCHANGED <<chat, disk, half, task, agents, fates>>
  BY DEF AgentEnded
<1>2. HandMoves(c, "after", handler[c].on, None)
  BY <1>1, HandFacts, CallMoves
<1>3. HandsKeep
  BY <1>1, <1>2, HandFacts, HandGoesOn DEF agents, fates
<1>4. SameTalk /\ TurnsGo
  BY <1>1, MessageFacts, TalkChanges, TurnsStay DEF Base
<1> QED
  BY <1>1, <1>3, <1>4, MessageFacts, QuietBase DEF agents, fates

LEMMA FollowsBase ==
  ASSUME Base, NEW c \in Caller, Follows(c)
  PROVE  Base'
<1>1. /\ ~half /\ handler[c].pc = "after"
      /\ UNCHANGED <<alive, made, stray, asked, written, dropped, lost>>
  BY DEF Follows, agents
<1>2. CASE handler[c].op = "send_now"
  <2>1. PICK m : m = handler[c].msg
    OBVIOUS
  <2>2. /\ chat' = Started(chat, m) /\ Saved /\ task' = [task EXCEPT ![m] = New]
        /\ handler' = [handler EXCEPT ![c] = NoHandler] /\ UNCHANGED removed
    BY <1>2, <2>1 DEF Follows
  <2>3. m # None /\ m \in 1..written /\ m \in ChatMessage /\ m \in Turn /\ m \in InHand
    <3>1. m # None /\ m \in 0..written
      BY <1>2, <2>1, HandFacts
    <3>2. m \in 1..written
      BY <3>1, MessageFacts DEF None
    <3> QED
      BY <2>1, <3>1, <3>2, MessageFacts DEF InHand, Turn
  <2>4. Unstarted(m) /\ ~Queued(m)
    BY <2>3, MessageFacts DEF PlaceOf
  <2>5. PICK f : f = FALSE
    OBVIOUS
  <2>6. chat' =
            ChatRecord(chat.known, chat.queue, chat.said \cup {m}, m, f, chat.conn, chat.session, f,
                chat.timer)
    BY <2>2, <2>5, MessageFacts, StartedIs
  <2>7. chat' \in Chats /\ chat'.queue = chat.queue /\ chat'.said = chat.said \cup {m} /\ chat'.turn = m
    BY <2>3, <2>5, <2>6, MessageFacts DEF Chats, ChatRecord
  <2>8. /\ task' \in [Turn -> Tasks] /\ task'[m] = New /\ \A s \in Turn : s # m => task'[s] = task[s]
    BY <2>2, <2>3, MessageFacts, NewIsTask
  <2>9. handler' \in [Caller -> Handlers] /\ handler'[c] = NoHandler /\ \A d \in Caller : d # c
            => handler'[d] = handler[d]
    BY <2>2, MessageFacts, NoHandlerIs
  <2>10. Errands' /\ InHand' \subseteq InHand
    <3>1. Errand(c)'
      BY <1>1, <2>9, NoHandlerIs, MessageFacts DEF Errand, None
    <3>2. \A d \in Caller : d # c => Errand(d)'
      BY <1>1, <2>9, MessageFacts DEF Errand
    <3>3. HandsOnly
      BY <2>9, <3>1, <3>2, NoHandlerIs DEF HandsOnly
    <3> QED
      BY <3>3, ErrandsKept DEF Base, MessagesInv
  <2>11. m \notin InHand' /\ InHand \subseteq InHand' \cup {m}
    <3>1. \A d \in Caller : d # c => handler[d].msg # m
      BY <2>1, <2>3 DEF Base, MessagesInv, Errands, OneHand
    <3> QED
      BY <2>1, <2>3, <2>9, <3>1, NoHandlerIs DEF InHand
  <2>12. \A n : Queued(n)' <=> Queued(n)
    BY <2>7 DEF Queued
  <2>13. Lists'
    <3>1. InOrder(chat.queue)'
      BY <1>1, <2>7, MessageFacts DEF InOrder
    <3> QED
      BY <1>1, <2>3, <2>7, <3>1 DEF Base, MessagesInv, Lists
  <2>14. Places'
    <3>1. \A n \in ChatMessage : n # m => Goes(n)
      BY <2>8 DEF Goes, Turn
    <3>2. PlaceOf(m)'
      <4>1. written' \in Nat /\ m <= written' /\ asked'[m] = asked[m]
        BY <1>1, <2>3, MessageFacts
      <4> QED
        BY <2>3, <2>4, <2>7, <2>8, <2>11, <2>12, <4>1, PlaceStarts
    <3>3. \A n \in ChatMessage : n # m => PlaceOf(n)'
      BY <1>1, <2>2, <2>7, <2>10, <2>12, <3>1, MessageFacts, PlaceStays DEF Base
    <3> QED
      BY <3>2, <3>3 DEF Places
  <2>15. Accounts'
    <3>1. \A n \in 1..written : n \in InHand => Somewhere(n)'
      BY <2>7, <2>11 DEF Somewhere
    <3>2. \A n \in 1..written : Queued(n) => Somewhere(n)'
      BY <2>12 DEF Somewhere
    <3> QED
      BY <1>1, <2>2, <2>7, <3>1, <3>2, AccountsKept DEF Base, MessagesInv
  <2> QED
    BY <1>1, <2>2, <2>7, <2>8, <2>9, <2>10, <2>13, <2>14, <2>15, MessageFacts, SavedBase DEF Base, ChatPlain
<1>3. CASE handler[c].op = "delete"
  <2>1. Stops(c) /\ UNCHANGED task
    BY <1>3 DEF Follows
  <2>2. handler[c].msg = None
    BY <1>3, HandFacts
  <2> QED
    BY <1>1, <2>1, <2>2, StopsBase
<1>4. CASE handler[c].op # "send_now" /\ handler[c].op # "delete"
  <2>1. handler' = [handler EXCEPT ![c] = NoHandler] /\ UNCHANGED <<chat, disk, half, task, removed>>
    BY <1>4 DEF Follows
  <2>2. handler[c].msg = None
    BY <1>4, HandFacts
  <2>3. HandsKeep
    BY <1>1, <2>1, <2>2, HandEnds
  <2>4. SameTalk /\ TurnsGo
    BY <2>1, MessageFacts, TalkChanges, TurnsStay DEF Base
  <2> QED
    BY <1>1, <2>1, <2>3, <2>4, MessageFacts, QuietBase
<1> QED
  BY <1>2, <1>3, <1>4

LEMMA ClosedBase ==
  ASSUME Base, NEW c \in Caller, Closed(c)
  PROVE  Base'
<1>1. /\ handler[c].pc = "closing" /\ handler' = [handler EXCEPT ![c] = NoHandler]
      /\ UNCHANGED <<task, alive, made, asked, written, dropped, lost>>
  BY DEF Closed, agents
<1>2. handler[c].msg = None
  BY <1>1, HandFacts
<1>3. HandsKeep
  BY <1>1, <1>2, HandEnds
<1>4. CASE Gone(chat)
  BY <1>1, <1>3, <1>4, GoneBase
<1>5. CASE UNCHANGED <<chat, disk, half, removed>>
  <2>1. SameTalk /\ TurnsGo
    BY <1>1, <1>5, MessageFacts, TalkChanges, TurnsStay DEF Base
  <2> QED
    BY <1>1, <1>3, <1>5, <2>1, MessageFacts, QuietBase
<1> QED
  BY <1>4, <1>5 DEF Closed

LEMMA IdleFiresBase ==
  ASSUME Base, NEW c \in Caller, IdleFires(c)
  PROVE  Base'
<1>1. PICK pc \in {"none", "closing"} : pc = IF chat.conn = None THEN "none" ELSE "closing"
  OBVIOUS
<1>2. /\ handler[c] = NoHandler /\ chat' = Unhooked(chat)
      /\ handler' = [handler EXCEPT ![c].pc = pc, ![c].proc = chat.conn]
      /\ UNCHANGED <<disk, half, task, agents, fates>>
  BY <1>1 DEF IdleFires
<1>3. pc \in HandPcs
  BY DEF HandPcs
<1>4. HandMoves(c, pc, handler[c].on, chat.conn)
  BY <1>2, <1>3, HandFacts, CallMoves
<1>5. HandsKeep
  BY <1>1, <1>2, <1>4, NoHandlerIs, HandFacts, HandGoesOn DEF agents, fates
<1>6. SameTalk /\ TurnsGo
  BY <1>2, MessageFacts, TalkChanges, TurnsStay DEF Base
<1> QED
  BY <1>2, <1>5, <1>6, MessageFacts, QuietBase DEF agents, fates

LEMMA ExpiresBase ==
  ASSUME Base, Expires
  PROVE  Base'
<1>1. /\ Gone(Unhooked(chat))
      /\ UNCHANGED <<task, handler, alive, made, asked, written, dropped, lost>>
  BY DEF Expires, agents
<1>2. HandsKeep
  BY <1>1, MessageFacts, HandsStay
<1> QED
  BY <1>1, <1>2, GoneBase

LEMMA UpdatesBase ==
  ASSUME Base, NEW p, Updates(p)
  PROVE  Base'
<1>1. chat' = [chat EXCEPT !.timer = TRUE] /\ UNCHANGED <<disk, half, task, handler, agents, fates>>
  BY DEF Updates
<1>2. SameTalk /\ TurnsGo
  BY <1>1, MessageFacts, TalkChanges, TurnsStay DEF Base
<1>3. HandsKeep
  BY <1>1, MessageFacts, HandsStay DEF agents, fates
<1> QED
  BY <1>1, <1>2, <1>3, MessageFacts, QuietBase DEF agents, fates

LEMMA TimerFiresBase ==
  ASSUME Base, TimerFires
  PROVE  Base'
<1>1. /\ ~half /\ chat' = [chat EXCEPT !.timer = FALSE] /\ Saved
      /\ UNCHANGED <<task, handler, agents, fates>>
  BY DEF TimerFires, Runs
<1>2. SameTalk /\ TurnsGo
  BY <1>1, MessageFacts, TalkChanges, TurnsStay DEF Base
<1>3. HandsKeep
  BY <1>1, MessageFacts, HandsStay DEF agents, fates
<1>4. chat' \in Chats
  BY <1>2 DEF SameTalk
<1> QED
  BY <1>1, <1>2, <1>3, <1>4, MessageFacts, SavesBase DEF agents, fates

LEMMA ExitsBase ==
  ASSUME Base, NEW p, Exits(p)
  PROVE  Base'
<1>1. alive' = alive \ {p} /\ UNCHANGED <<chat, disk, half, task, handler, made, fates>>
  BY DEF Exits
<1>2. SameTalk /\ TurnsGo
  BY <1>1, MessageFacts, TalkChanges, TurnsStay DEF Base
<1>3. HandsKeep
  BY <1>1, MessageFacts, HandsStay DEF fates
<1> QED
  BY <1>1, <1>2, <1>3, MessageFacts, QuietBase DEF fates
-----------------------------------------------------------------------------
(* and over all steps *)

\* What the server takes from the disk when it starts.
LEMMA LoadedIs ==
  ASSUME disk \in Disks
  PROVE  /\ Loaded \in Chats /\ Loaded.queue = disk.record.queue /\ Loaded.said = disk.said
         /\ Loaded.turn = None /\ Loaded.conn = None /\ Loaded.idle = FALSE
<1>1. PICK f : f = FALSE
  OBVIOUS
<1>2. PICK c : c = Loaded
  OBVIOUS
<1>3. c = ChatRecord(disk.record.there, disk.record.queue, disk.said, None, f, None, f, f, f)
  BY <1>1, <1>2 DEF Loaded, ChatRecord
<1>4. f \in BOOLEAN
  BY <1>1
<1>5. disk.record.there \in BOOLEAN /\ disk.record.queue \in Seq(ChatMessage)
          /\ disk.said \in SUBSET ChatMessage
  BY DEF Disks
<1>6. /\ c \in Chats /\ c.queue = disk.record.queue /\ c.said = disk.said
      /\ c.turn = None /\ c.conn = None /\ c.idle = f
  BY <1>3, <1>4, <1>5 DEF Chats, ChatRecord, None
<1> QED
  BY <1>1, <1>2, <1>6

LEMMA AllRest ==
  ASSUME written \in Nat, task' = [t \in Turn |-> NoTask], handler' = [c \in Caller |-> NoHandler],
         written' \in Nat
  PROVE  /\ task' \in [Turn -> Tasks] /\ handler' \in [Caller -> Handlers]
         /\ \A m \in ChatMessage : task'[m] = NoTask /\ ~Active(m)' /\ task'[m].pc \notin Before
         /\ InHand' = {} /\ Errands'
<1>1. NoTask \in Tasks /\ NoHandler \in Handlers /\ NoTask.pc = "none"
  BY NewIsTask, NoHandlerIs DEF NoTask
<1>2. task' \in [Turn -> Tasks] /\ handler' \in [Caller -> Handlers]
  BY <1>1
<1>3. \A m \in ChatMessage : task'[m] = NoTask
  BY DEF Turn
<1>4. \A m \in ChatMessage : ~Active(m)' /\ task'[m].pc \notin Before
  BY <1>1, <1>3 DEF Active, Before
<1>5. \A c \in Caller : handler'[c] = NoHandler
  OBVIOUS
<1>6. InHand' = {}
  BY <1>5, NoHandlerIs DEF InHand
<1>7. \A c \in Caller : Errand(c)'
  BY <1>5, NoHandlerIs DEF Errand, None
<1>8. OneHand'
  BY <1>5, NoHandlerIs DEF OneHand
<1> QED
  BY <1>2, <1>3, <1>4, <1>6, <1>7, <1>8 DEF Errands

LEMMA ChatRestartBase ==
  ASSUME Base, ChatRestart
  PROVE  Base'
<1>1. /\ chat' = Loaded /\ half' = FALSE
      /\ task' = [t \in Turn |-> NoTask] /\ handler' = [c \in Caller |-> NoHandler]
      /\ alive' \in SUBSET alive /\ lost' = lost \cup InHand \cup Unheard
      /\ UNCHANGED <<disk, made, asked, written, dropped, removed>>
  BY DEF ChatRestart
<1>2. disk \in Disks /\ half' \in BOOLEAN
  BY <1>1 DEF Base, ChatPlain
<1>3. /\ chat' \in Chats /\ chat'.queue = disk.record.queue /\ chat'.said = disk.said /\ chat'.turn = None
  BY <1>1, <1>2, LoadedIs
<1>4. /\ task' \in [Turn -> Tasks] /\ handler' \in [Caller -> Handlers]
      /\ \A m \in ChatMessage : task'[m] = NoTask /\ ~Active(m)' /\ task'[m].pc \notin Before
      /\ InHand' = {} /\ Errands'
  BY <1>1, MessageFacts, AllRest
<1>5. /\ disk.record.there \/ (removed /\ disk.record = NoRecord)
      /\ InOrder(disk.record.queue)
      /\ \A m \in Elements(disk.record.queue) : asked[m] = 0
      /\ disk.said \subseteq chat.said /\ (~removed => disk.said = chat.said)
  BY DEF Base, MessagesInv, OnDisk
<1>6. Lists'
  <2>1. lost' \subseteq 1..written
    BY <1>1, MessageFacts DEF Base, MessagesInv, Lists, Unheard
  <2>2. InOrder(chat.queue)'
    BY <1>1, <1>3, <1>5 DEF InOrder
  <2> QED
    BY <1>1, <1>3, <1>5, <2>1, <2>2 DEF Base, MessagesInv, Lists
<1>7. OnDisk'
  <2>1. InOrder(disk.record.queue)'
    BY <1>1, <1>5 DEF InOrder
  <2>2. disk'.record = [there |-> TRUE, queue |-> chat'.queue] \/ (removed' /\ disk'.record = NoRecord)
    <3>1. CASE disk.record.there
      <4>1. disk.record \in [there : BOOLEAN, queue : Seq(ChatMessage)]
        BY <1>2 DEF Disks
      <4>2. PICK b \in BOOLEAN : b = disk.record.there /\ b = TRUE
        BY <3>1, <4>1
      <4>3. disk.record = [there |-> b, queue |-> disk.record.queue]
        BY <4>1, <4>2
      <4> QED
        BY <1>1, <1>3, <4>2, <4>3
    <3> QED
      BY <1>1, <1>5, <3>1
  <2> QED
    BY <1>1, <1>3, <1>5, <2>1, <2>2 DEF OnDisk
<1>8. Places'
  <2> SUFFICES ASSUME NEW m \in ChatMessage PROVE PlaceOf(m)'
    BY DEF Places
  <2>1. PlaceOf(m)
    BY MessageFacts
  <2>2. m > written' => asked'[m] = 0
    BY <1>1, <2>1 DEF PlaceOf, Unstarted
  <2>3. Queued(m)' => asked'[m] = 0
    BY <1>1, <1>3, <1>5 DEF Queued
  <2>4. asked'[m] \in {0, 1} /\ (asked'[m] = 1 => removed' \/ m \in chat'.said)
    BY <1>1, <1>3, <1>5, <2>1 DEF PlaceOf
  <2> QED
    BY <1>4, <2>2, <2>3, <2>4 DEF PlaceOf, Unstarted
<1>9. Accounts'
  <2>1. ASSUME ~removed', NEW m \in 1..written PROVE Somewhere(m)'
    <3>1. Somewhere(m) /\ chat'.said = chat.said
      BY <1>1, <1>3, <1>5, <2>1 DEF Base, MessagesInv, Accounts
    <3>2. Queued(m) => Queued(m)' \/ m \in lost' \cup chat'.said
      BY <1>1, <1>3 DEF Queued, Unheard
    <3> QED
      BY <1>1, <3>1, <3>2 DEF Somewhere
  <2> QED
    BY <1>1, <2>1 DEF Accounts
<1>10. ChatPlain'
  BY <1>1, <1>2, <1>3, <1>4 DEF Base, ChatPlain
<1> QED
  BY <1>4, <1>6, <1>7, <1>8, <1>9, <1>10 DEF Base, MessagesInv

LEMMA ChatInitBase == ChatInit => Base
<1> SUFFICES ASSUME ChatInit PROVE Base
  OBVIOUS
<1>1. PICK b : b = TRUE
  OBVIOUS
<1>2. /\ disk = [said |-> {}, record |-> [there |-> b, queue |-> <<>>]] /\ half = FALSE /\ chat = Loaded
      /\ task = [t \in Turn |-> IF t = Warm THEN New ELSE NoTask] /\ handler = [c \in Caller |-> NoHandler]
      /\ alive = {} /\ made = 0 /\ asked = [m \in ChatMessage |-> 0] /\ written = 0 /\ dropped = {}
             /\ lost = {}
      /\ removed = FALSE
  BY <1>1 DEF ChatInit
<1>3. b \in BOOLEAN
  BY <1>1
<1>4. disk \in Disks /\ disk.record = [there |-> b, queue |-> <<>>] /\ disk.said = {}
          /\ disk.record.queue = <<>>
      /\ disk.record.there
  BY <1>1, <1>2, <1>3 DEF Disks
<1>5. /\ chat \in Chats /\ chat.queue = <<>> /\ chat.said = {} /\ chat.turn = None
  BY <1>2, <1>4, LoadedIs
<1>6. Elements(<<>>) = {} /\ Single(<<>>) /\ <<>> \in Seq(ChatMessage) /\ Len(<<>>) <= MaxQueue
  BY ChatAssumption DEF Elements, Single
<1>7. /\ task \in [Turn -> Tasks] /\ \A m \in ChatMessage : task[m] = NoTask
  <2>1. New \in Tasks /\ NoTask \in Tasks
    BY NewIsTask
  <2>2. task \in [Turn -> Tasks]
    BY <1>2, <2>1
  <2>3. \A m \in ChatMessage : m \in Turn /\ m # Warm
    BY DEF Turn, Warm, ChatMessage
  <2> QED
    BY <1>2, <2>2, <2>3
<1>8. handler \in [Caller -> Handlers] /\ \A c \in Caller : handler[c] = NoHandler
  BY <1>2, NoHandlerIs
<1>9. InHand = {}
  BY <1>8, NoHandlerIs DEF InHand
<1>10. ChatPlain
  <2>1. half \in BOOLEAN
    BY <1>2
  <2>2. removed \in BOOLEAN
    BY <1>2
  <2>3. asked \in [ChatMessage -> Nat]
    BY <1>2
  <2>4. written \in 0..MaxChatMessages /\ made \in Nat /\ alive \subseteq 1..made
    BY <1>2, ChatAssumption
  <2>5. chat \in Chats /\ disk \in Disks /\ task \in [Turn -> Tasks] /\ handler \in [Caller -> Handlers]
    BY <1>4, <1>5, <1>7, <1>8
  <2> QED
    BY <2>1, <2>2, <2>3, <2>4, <2>5 DEF ChatPlain
<1>11. InOrder(chat.queue) /\ InOrder(disk.record.queue)
  BY <1>2, <1>4, <1>5, <1>6 DEF InOrder
<1>12. Lists
  BY <1>2, <1>5, <1>11 DEF Lists
<1>13. OnDisk
  <2>1. disk.record = [there |-> TRUE, queue |-> chat.queue]
    BY <1>1, <1>4, <1>5
  <2> QED
    BY <1>2, <1>4, <1>5, <1>6, <1>11, <2>1 DEF OnDisk
<1>14. Places
  <2>1. \A m : ~Queued(m)
    BY <1>5, <1>6 DEF Queued
  <2>2. NoTask.pc = "none"
    BY DEF NoTask
  <2>3. \A m \in ChatMessage : asked[m] = 0
    BY <1>2
  <2>4. ASSUME NEW m \in ChatMessage PROVE PlaceOf(m)
    <3>1. task[m] = NoTask /\ task[m].pc = "none" /\ asked[m] = 0 /\ ~Queued(m) /\ m \notin InHand
      BY <1>7, <1>9, <2>1, <2>2, <2>3
    <3>2. ~Active(m) /\ task[m].pc \notin Before /\ Unstarted(m)
      BY <3>1 DEF Active, Before, Unstarted
    <3> QED
      BY <3>1, <3>2 DEF PlaceOf
  <2> QED
    BY <2>4 DEF Places
<1>15. Errands
  <2>1. ASSUME NEW c \in Caller PROVE Errand(c)
    <3>1. /\ handler[c].pc = "none" /\ handler[c].op = "none" /\ handler[c].msg = None
          /\ handler[c].on = None /\ written = 0
      BY <1>2, <1>8, NoHandlerIs
    <3> QED
      BY <3>1 DEF Errand, None
  <2>2. OneHand
    BY <1>8, NoHandlerIs DEF OneHand
  <2> QED
    BY <2>1, <2>2 DEF Errands
<1>16. Accounts
  BY <1>2 DEF Accounts
<1> QED
  BY <1>10, <1>12, <1>13, <1>14, <1>15, <1>16 DEF Base, MessagesInv

LEMMA ChatStutters ==
  ASSUME Base, UNCHANGED chatVars
  PROVE  Base'
<1>1. UNCHANGED <<chat, disk, half, task, handler, made, alive, asked, written, dropped, lost, removed>>
  BY DEF chatVars, agents, fates
<1>2. SameTalk /\ TurnsGo
  BY <1>1, MessageFacts, TalkChanges, TurnsStay DEF Base
<1>3. HandsKeep
  BY <1>1, MessageFacts, HandsStay
<1> QED
  BY <1>1, <1>2, <1>3, MessageFacts, QuietBase

LEMMA ChatNextBase ==
  ASSUME Base, [ChatNext]_chatVars
  PROVE  Base'
<1>1. CASE SaveRecord \/ Prompt \/ Connect \/ Expires \/ TimerFires \/ ChatRestart
  BY <1>1, SaveRecordBase, PromptBase, ConnectBase, ExpiresBase, TimerFiresBase, ChatRestartBase
<1>2. CASE \E t \in Turn : \/ WaitsForLock(t) \/ Enters(t) \/ Replaced(t) \/ StartFails(t)
                           \/ AgentStarts(t) \/ Opened(t) \/ NotSignedIn(t) \/ OpenFails(t)
                           \/ Chosen(t) \/ Failed(t)
  BY <1>2, WaitsForLockBase, EntersBase, ReplacedBase, StartFailsBase, AgentStartsBase, OpenedBase,
     NotSignedInBase, OpenFailsBase, ChosenBase, FailedBase
<1>3. CASE \E m \in ChatMessage : Answers(m) \/ AnswerFails(m) \/ Cancelled(m) \/ TakeBack(m)
  BY <1>3, AnswersBase, AnswerFailsBase, CancelledBase, TakeBackBase
<1>4. CASE \E c \in Caller : \/ \E m \in ChatMessage : SendNow(c, m)
                             \/ \E op \in {"stop", "delete", "restart"} : Asks(c, op)
  BY <1>4, SendNowBase, AsksBase
<1>5. CASE \E c \in Caller : \/ Begins(c) \/ TurnOver(c) \/ TimesOut(c) \/ AgentEnded(c) \/ Follows(c)
                             \/ Closed(c) \/ IdleFires(c)
  BY <1>5, BeginsBase, TurnOverBase, TimesOutBase, AgentEndedBase, FollowsBase, ClosedBase, IdleFiresBase
<1>6. CASE \E p \in 1..MaxAgents : Updates(p) \/ Exits(p)
  BY <1>6, UpdatesBase, ExitsBase
<1>7. CASE UNCHANGED chatVars
  BY <1>7, ChatStutters
<1> QED
  BY <1>1, <1>2, <1>3, <1>4, <1>5, <1>6, <1>7 DEF ChatNext

LEMMA BaseHolds == ChatSpec => []Base
<1>1. ChatInit => Base
  BY ChatInitBase
<1>2. Base /\ [ChatNext]_chatVars => Base'
  BY ChatNextBase
<1> QED
  BY <1>1, <1>2, PTL DEF ChatSpec

\* No message is given to an agent twice, and none goes missing (chat_sessions.py:972-1033).
THEOREM MessageAccountedHolds == ChatSpec => []MessageAccounted
<1>1. Base => MessageAccounted
  <2> SUFFICES ASSUME Base PROVE MessageAccounted
    OBVIOUS
  <2>1. \A m \in ChatMessage : PlaceOf(m)
    BY MessageFacts
  <2>2. \A m \in ChatMessage : asked[m] <= 1
    BY <2>1 DEF PlaceOf
  <2>3. ASSUME ~removed, NEW m \in 1..written
        PROVE  /\ asked[m] = 1 => m \in disk.said /\ ~Queued(m)
               /\ Queued(m) \/ m \in chat.said \cup dropped \cup InHand \cup lost
    <3>1. m \in ChatMessage /\ PlaceOf(m)
      BY <2>1, MessageFacts
    <3>2. disk.said = chat.said
      BY <2>3 DEF Base, MessagesInv, OnDisk
    <3>3. asked[m] = 1 => m \in disk.said /\ ~Queued(m)
      BY <2>3, <3>1, <3>2 DEF PlaceOf, Unstarted
    <3>4. Somewhere(m)
      BY <2>3 DEF Base, MessagesInv, Accounts
    <3> QED
      BY <3>3, <3>4 DEF Somewhere
  <2> QED
    BY <2>2, <2>3 DEF MessageAccounted
<1> QED
  BY <1>1, BaseHolds, PTL
-----------------------------------------------------------------------------
(* What a state of a chat holds of its agents *)

\* Who holds start_lock; until it has an agent the chat has none.
Locks == {"replacing", "starting", "opening", "choosing"}
Locking ==
    /\ \A t \in Turn : task[t].pc \in Locks <=> lock = t
    /\ \A t \in Turn : task[t].pc \in {"replacing", "starting"} => chat.conn = None
    /\ \A t \in Turn : task[t].pc \in {"opening", "choosing"} => chat.conn \in {None, task[t].proc}
Procs == /\ chat.conn \in 0..made /\ \A t \in Turn : task[t].proc \in 0..made
         /\ \A c \in Caller : handler[c].proc \in 0..made
\* A warm-up is never cancelled and asks nothing.
WarmUp == ~task[Warm].hit /\ task[Warm].pc \notin {"dead", "asked"}
\* A turn that was cancelled has a call that waits for it.
AwaitedBy(c, m) == handler[c].pc = "cancelling" /\ handler[c].on = m
Hits == \A m \in ChatMessage : Active(m) /\ task[m].hit => \E c \in Caller : AwaitedBy(c, m)
AgentsOwned == \A p \in alive \ stray : p = chat.conn \/ p \in Closing

\* A turn that was cancelled before its first line ends without a word; the call that waits for it then
\* closes it, if it is still the chat's.
Struck(m) == task[m].hit /\ task[m].pc = "new"
Unclosed == /\ chat.turn # None /\ (task[chat.turn].pc = "dead" \/ Struck(chat.turn))
            /\ \E c \in Caller : AwaitedBy(c, chat.turn)
\* Who will set the timer of an agent that runs without one.
WarmsUp == task[Warm].pc \in {"opening", "choosing"} /\ task[Warm].proc = chat.conn
Armer == (\E m \in ChatMessage : Active(m) /\ ~Struck(m)) \/ Unclosed \/ WarmsUp
WillArm == chat.conn \in alive \ stray /\ ~chat.idle => Armer

\* With what is known of the messages, inductive.
AgentsInv == Locking /\ Procs /\ WarmUp /\ Hits /\ AgentsOwned /\ WillArm
ChatInv == Base /\ AgentsInv
-----------------------------------------------------------------------------
LEMMA LockFacts ==
  ASSUME Base
  PROVE  /\ Free \notin Turn /\ Warm \in Turn /\ Warm \notin ChatMessage /\ ChatMessage \subseteq Turn
         /\ \A t \in Turn : t = Warm \/ t \in ChatMessage
         /\ None \notin alive /\ None \in Nat /\ None = Warm
         /\ \A t \in Turn : task[t].pc \in Locks \cup Before \cup {"asked", "failing"} => Active(t)
<1>1. MaxChatMessages \in Nat
  BY ChatAssumption
<1>2. None \notin alive
  BY MessageFacts DEF None
<1>3. \A t \in Turn : task[t].pc \in Locks \cup Before \cup {"asked", "failing"} => Active(t)
  BY DEF Active, Locks, Before
<1> QED
  BY <1>1, <1>2, <1>3 DEF Free, Turn, Warm, ChatMessage, None

LEMMA NewFacts == New.pc = "new" /\ New.proc = None /\ ~New.hit
<1>1. PICK f : f = FALSE
  OBVIOUS
<1>2. NoTask = [pc |-> "none", proc |-> None, hit |-> f]
  BY <1>1 DEF NoTask
<1>3. New = [pc |-> "new", proc |-> None, hit |-> f]
  BY <1>2 DEF New
<1>4. New.pc = "new" /\ New.proc = None /\ New.hit = f
  BY <1>3
<1>5. ~f
  BY <1>1
<1> QED
  BY <1>4, <1>5

\* A turn, or the warm-up, goes on.
LEMMA MovesAgents ==
  ASSUME ChatInv, NEW t \in Turn, NEW pc, NEW proc, TurnMoves(t, pc, proc),
         t = Warm \/ Active(t), pc \in Before \cup {"asked", "failing"}, pc # "new", t = Warm => pc # "asked",
         UNCHANGED <<handler, stray>>, made' \in Nat, made <= made', proc \in 0..made',
         chat'.conn \in 0..made',
         pc \in Locks <=> lock' = t,
         lock' = lock \/ (lock = Free /\ lock' = t) \/ (lock = t /\ lock' = Free),
         chat'.conn \in {chat.conn, None} \/ lock' = t,
         pc \in {"replacing", "starting"} => chat'.conn = None,
         pc \in {"opening", "choosing"} => chat'.conn \in {None, proc},
         None \notin alive',
         \A p \in alive' : p \in alive \/ p = chat'.conn,
         chat.conn \in alive => chat.conn = chat'.conn \/ (pc \in {"replacing",
         "failing"} /\ proc = chat.conn),
         task[t].pc \in {"replacing", "failing"} => task[t].proc \notin alive',
         \/ chat'.conn = None \/ t # Warm \/ (pc \in {"opening", "choosing"} /\ proc = chat'.conn)
         \/ /\ chat'.conn = chat.conn /\ chat'.idle = chat.idle /\ chat'.turn = chat.turn /\ alive' = alive
            /\ task[Warm].pc \notin {"opening", "choosing"}
  PROVE  AgentsInv'
<1>0. Base /\ Locking /\ Procs /\ WarmUp /\ Hits /\ AgentsOwned /\ WillArm
  BY DEF ChatInv, AgentsInv
<1>1. /\ task' \in [Turn -> Tasks] /\ task'[t].pc = pc /\ task'[t].proc = proc /\ task'[t].hit = task[t].hit
      /\ \A s \in Turn : s # t => task'[s] = task[s]
  BY DEF TurnMoves
<1>2. /\ Free \notin Turn /\ Warm \in Turn /\ Warm \notin ChatMessage /\ ChatMessage \subseteq Turn
      /\ \A s \in Turn : s = Warm \/ s \in ChatMessage
      /\ None \notin alive /\ None = Warm
  BY <1>0, LockFacts
<1>3. Active(t)'
  BY <1>1 DEF Active, Before
<1>4. Locking'
  <2>1. ASSUME NEW s \in Turn PROVE task'[s].pc \in Locks <=> lock' = s
    BY <1>0, <1>1, <1>2 DEF Locking
  <2>2. ASSUME NEW s \in Turn, s # t, task'[s].pc \in Locks PROVE chat'.conn \in {chat.conn, None}
    BY <1>0, <1>1, <2>1, <2>2 DEF Locking
  <2>3. ASSUME NEW s \in Turn, task'[s].pc \in {"replacing", "starting"} PROVE chat'.conn = None
    BY <1>0, <1>1, <2>2, <2>3 DEF Locking, Locks
  <2>4. ASSUME NEW s \in Turn, task'[s].pc \in {"opening", "choosing"}
                   PROVE chat'.conn \in {None, task'[s].proc}
    BY <1>0, <1>1, <2>2, <2>4 DEF Locking, Locks
  <2> QED
    BY <2>1, <2>3, <2>4 DEF Locking
<1>5. Procs'
  <2>1. made \in Nat
    BY <1>0, MessageFacts
  <2>2. \A s \in Turn : task'[s].proc \in 0..made'
    BY <1>0, <1>1, <2>1 DEF Procs
  <2>3. \A c \in Caller : handler'[c].proc \in 0..made'
    BY <1>0, <2>1 DEF Procs
  <2> QED
    BY <2>2, <2>3 DEF Procs
<1>6. WarmUp'
  BY <1>0, <1>1, <1>2 DEF WarmUp, Before
<1>7. Hits'
  <2> SUFFICES ASSUME NEW m \in ChatMessage, Active(m)', task'[m].hit PROVE \E c \in Caller : AwaitedBy(c, m)'
    BY DEF Hits
  <2>1. Active(m) /\ task[m].hit
    BY <1>1, <1>2 DEF Active
  <2> QED
    BY <1>0, <2>1 DEF Hits, AwaitedBy
<1>8. AgentsOwned'
  <2> SUFFICES ASSUME NEW p \in alive' \ stray', p # chat'.conn PROVE p \in Closing'
    BY DEF AgentsOwned
  <2>1. p = chat.conn \/ p \in Closing
    BY <1>0 DEF AgentsOwned
  <2>2. CASE p = chat.conn
    <3>1. pc \in {"replacing", "failing"} /\ proc = p
      BY <2>2
    <3> QED
      BY <1>1, <3>1 DEF Closing
  <2>3. CASE p \in {handler[c].proc : c \in {b \in Caller : handler[b].pc \in {"closing", "ending"}}}
    BY <2>3 DEF Closing
  <2>4. CASE p \in {task[s].proc : s \in {r \in Turn : task[r].pc \in {"replacing", "failing"}}}
    <3>1. PICK s \in Turn : task[s].pc \in {"replacing", "failing"} /\ task[s].proc = p
      BY <2>4
    <3>2. s # t
      BY <3>1
    <3>3. task'[s].pc \in {"replacing", "failing"} /\ task'[s].proc = p
      BY <1>1, <3>1, <3>2
    <3> QED
      BY <3>3 DEF Closing
  <2> QED
    BY <2>1, <2>2, <2>3, <2>4 DEF Closing
<1>9. WillArm'
  <2> SUFFICES ASSUME chat'.conn \in alive' \ stray', ~chat'.idle PROVE Armer'
    BY DEF WillArm
  <2>1. CASE t # Warm
    <3>1. t \in ChatMessage /\ ~Struck(t)'
      BY <1>1, <1>2, <2>1 DEF Struck
    <3> QED
      BY <1>3, <3>1 DEF Armer
  <2>2. CASE t = Warm /\ pc \in {"opening", "choosing"} /\ proc = chat'.conn
    BY <1>1, <2>2 DEF Armer, WarmsUp
  <2>3. CASE /\ t = Warm /\ chat'.conn = chat.conn /\ chat'.idle = chat.idle
                    /\ chat'.turn = chat.turn /\ alive' = alive
             /\ task[Warm].pc \notin {"opening", "choosing"}
    <3>1. Armer /\ ~WarmsUp
      BY <1>0, <2>3 DEF WillArm, WarmsUp
    <3>2. \A m \in ChatMessage : task'[m] = task[m]
      BY <1>1, <1>2, <2>3
    <3>3. CASE \E m \in ChatMessage : Active(m) /\ ~Struck(m)
      <4>1. PICK m \in ChatMessage : Active(m) /\ ~Struck(m)
        BY <3>3
      <4>2. Active(m)' /\ ~Struck(m)'
        BY <3>2, <4>1 DEF Active, Struck
      <4> QED
        BY <4>2 DEF Armer
    <3>4. CASE Unclosed
      <4>1. chat.turn \in ChatMessage
        BY <1>0, <3>4, MessageFacts DEF Unclosed, Chats
      <4>2. task'[chat.turn] = task[chat.turn]
        BY <3>2, <4>1
      <4>3. PICK c \in Caller : AwaitedBy(c, chat.turn)
        BY <3>4 DEF Unclosed
      <4>5. AwaitedBy(c, chat.turn)'
        BY <2>3, <4>3 DEF AwaitedBy
      <4>6. task'[chat'.turn].pc = "dead" \/ Struck(chat.turn)'
        BY <2>3, <3>4, <4>2 DEF Unclosed, Struck
      <4>4. Unclosed'
        BY <2>3, <3>4, <4>5, <4>6 DEF Unclosed
      <4> QED
        BY <4>4 DEF Armer
    <3> QED
      BY <3>1, <3>3, <3>4 DEF Armer
  <2> QED
    BY <2>1, <2>2, <2>3
<1> QED
  BY <1>4, <1>5, <1>6, <1>7, <1>8, <1>9 DEF AgentsInv

\* A turn that works will end, and its end sets the timer; one that a cancel struck down before its
\* first line is closed by the call that waits for it.
LEMMA WorkingArms ==
  ASSUME ChatInv, Working
  PROVE  (\E m \in ChatMessage : Active(m) /\ ~Struck(m)) \/ Unclosed
<1>1. chat.turn \in ChatMessage /\ chat.turn # None /\ Active(chat.turn)
  BY MessageFacts DEF ChatInv, Working, Chats
<1>2. CASE Struck(chat.turn)
  <2>1. \E c \in Caller : AwaitedBy(c, chat.turn)
    BY <1>1, <1>2 DEF ChatInv, AgentsInv, Hits, Struck
  <2> QED
    BY <1>1, <1>2, <2>1 DEF Unclosed
<1> QED
  BY <1>1, <1>2

\* A turn, or the warm-up, ends.
LEMMA EndsAgents ==
  ASSUME ChatInv, NEW t \in Turn, NEW c, NEW pc \in {"done", "dead", "raised"},
         NEW n \in {None} \cup ChatMessage,
         Ending(t, c, pc, n), t = Warm => pc = "done", t = Warm \/ Active(t),
         UNCHANGED <<handler, alive, made>>, stray \subseteq stray',
         c.conn = chat.conn, lock' = lock \/ lock' = Unlocked(t), task[t].pc \in Locks => lock' = Unlocked(t),
         task[t].pc \in {"replacing", "failing"} => task[t].proc \notin alive' \ stray',
         t = Warm => /\ c.turn = chat.turn
                     /\ \/ chat.conn \notin alive' \ stray' \/ (c.idle = (chat.conn \in alive))
                        \/ c.idle = chat.idle /\ (Working \/ task[Warm].pc \notin {"opening", "choosing"})
  PROVE  AgentsInv'
<1>0. Base /\ Locking /\ Procs /\ WarmUp /\ Hits /\ AgentsOwned /\ WillArm
  BY DEF ChatInv, AgentsInv
<1>1. /\ task' \in [Turn -> Tasks] /\ task'[t].pc = pc /\ task'[t].proc = None
      /\ \A s \in Turn : s # t /\ (n = None \/ s # n) => task'[s] = task[s]
      /\ chat'.conn = chat.conn
      /\ n = None => chat'.turn = c.turn /\ chat'.idle = IF t = Warm THEN c.idle ELSE c.conn \in alive
      /\ n # None => n \in ChatMessage /\ n # t /\ t # Warm /\ Queued(n) /\ task'[n] = New
             /\ chat'.idle = FALSE
  BY DEF Ending
<1>2. /\ Free \notin Turn /\ Warm \in Turn /\ Warm \notin ChatMessage /\ ChatMessage \subseteq Turn
      /\ \A s \in Turn : s = Warm \/ s \in ChatMessage
      /\ None \notin alive /\ None = Warm
  BY <1>0, LockFacts
<1>3. n # None => task[n].pc = "none" /\ task'[n].pc = "new" /\ task'[n].proc = None /\ ~task'[n].hit
  BY <1>0, <1>1, NewFacts, MessageFacts DEF PlaceOf, Unstarted, NoTask
<1>4. \A s \in Turn : s # t => task'[s] = task[s] \/ (s = n /\ n # None)
  BY <1>1
<1>14. ~task'[t].hit
  <2>1. PICK f : f = FALSE
    OBVIOUS
  <2>2. task'[t] = [pc |-> pc, proc |-> None, hit |-> f]
    BY <2>1 DEF Ending
  <2>3. task'[t].hit = f
    BY <2>2
  <2> QED
    BY <2>1, <2>3
<1>5. Locking'
  <2>0. task[t].pc \in Locks <=> lock = t
    BY <1>0 DEF Locking
  <2>1. lock' = IF lock = t THEN Free ELSE lock
    BY <2>0 DEF Unlocked
  <2>2. ASSUME NEW s \in Turn PROVE (task'[s].pc \in Locks <=> lock' = s) /\ (task'[s].pc \in Locks
                   => task'[s] = task[s])
    <3>1. task[s].pc \in Locks <=> lock = s
      BY <1>0 DEF Locking
    <3>2. CASE s = t
      BY <1>1, <1>2, <2>1, <3>2 DEF Locks
    <3>3. CASE s = n /\ n # None
      BY <1>2, <1>3, <2>1, <3>1, <3>3 DEF Locks
    <3>4. CASE s # t /\ task'[s] = task[s]
      BY <1>2, <2>1, <3>1, <3>4
    <3> QED
      BY <1>4, <3>2, <3>3, <3>4
  <2> QED
    BY <1>0, <1>1, <2>2 DEF Locking, Locks
<1>6. Procs'
  <2>1. \A s \in Turn : task'[s].proc \in 0..made'
    <3>1. made \in Nat /\ None \in 0..made
      BY <1>0, MessageFacts DEF None
    <3> QED
      BY <1>0, <1>1, <1>3, <1>4, <3>1 DEF Procs
  <2> QED
    BY <1>0, <1>1, <2>1 DEF Procs
<1>7. WarmUp'
  <2>1. Warm # n \/ n = None
    BY <1>2
  <2>2. CASE t = Warm
    BY <1>1, <1>14, <2>2 DEF WarmUp
  <2>3. CASE t # Warm
    BY <1>0, <1>2, <1>4, <2>1, <2>3 DEF WarmUp
  <2> QED
    BY <2>2, <2>3
<1>8. Hits'
  <2> SUFFICES ASSUME NEW m \in ChatMessage, Active(m)', task'[m].hit PROVE \E b \in Caller : AwaitedBy(b, m)'
    BY DEF Hits
  <2>1. m # t
    BY <1>14
  <2>2. ~(m = n /\ n # None)
    BY <1>3
  <2>3. Active(m) /\ task[m].hit
    BY <1>2, <1>4, <2>1, <2>2 DEF Active
  <2> QED
    BY <1>0, <2>3 DEF Hits, AwaitedBy
<1>9. AgentsOwned'
  <2> SUFFICES ASSUME NEW p \in alive' \ stray', p # chat'.conn PROVE p \in Closing'
    BY DEF AgentsOwned
  <2>1. p \in Closing
    BY <1>0, <1>1 DEF AgentsOwned
  <2>2. CASE p \in {handler[b].proc : b \in {d \in Caller : handler[d].pc \in {"closing", "ending"}}}
    BY <2>2 DEF Closing
  <2>3. CASE p \in {task[s].proc : s \in {r \in Turn : task[r].pc \in {"replacing", "failing"}}}
    <3>1. PICK s \in Turn : task[s].pc \in {"replacing", "failing"} /\ task[s].proc = p
      BY <2>3
    <3>2. s # t /\ ~(s = n /\ n # None)
      BY <1>3, <3>1
    <3>3. task'[s].pc \in {"replacing", "failing"} /\ task'[s].proc = p
      BY <1>4, <3>1, <3>2
    <3> QED
      BY <3>3 DEF Closing
  <2> QED
    BY <2>1, <2>2, <2>3 DEF Closing
<1>10. WillArm'
  <2> SUFFICES ASSUME chat'.conn \in alive' \ stray', ~chat'.idle PROVE Armer'
    BY DEF WillArm
  <2>1. CASE n # None
    <3>1. n \in ChatMessage /\ task'[n].pc = "new" /\ ~task'[n].hit
      BY <1>1, <1>3, <2>1
    <3>2. Active(n)' /\ ~Struck(n)'
      BY <3>1 DEF Active, Struck
    <3> QED
      BY <3>1, <3>2 DEF Armer
  <2>2. CASE n = None /\ t # Warm
    BY <1>1, <2>2
  <2>3. CASE n = None /\ t = Warm
    <3>1. c.idle = chat.idle /\ chat'.idle = chat.idle /\ c.turn = chat.turn /\ chat'.turn = chat.turn
      BY <1>1, <2>3
    <3>2. Working \/ task[Warm].pc \notin {"opening", "choosing"}
      BY <1>1, <2>3, <3>1
    <3>3. (\E m \in ChatMessage : Active(m) /\ ~Struck(m)) \/ Unclosed
      <4>1. CASE Working
        BY <4>1, WorkingArms
      <4>2. CASE task[Warm].pc \notin {"opening", "choosing"}
        <5>1. chat.conn \in alive \ stray /\ ~chat.idle
          BY <1>1, <3>1
        <5> QED
          BY <1>0, <4>2, <5>1 DEF WillArm, Armer, WarmsUp
      <4> QED
        BY <3>2, <4>1, <4>2
    <3>4. \A m \in ChatMessage : task'[m] = task[m]
      BY <1>2, <1>4, <2>3
    <3>5. CASE \E m \in ChatMessage : Active(m) /\ ~Struck(m)
      <4>1. PICK m \in ChatMessage : Active(m) /\ ~Struck(m)
        BY <3>5
      <4>2. Active(m)' /\ ~Struck(m)'
        BY <3>4, <4>1 DEF Active, Struck
      <4> QED
        BY <4>2 DEF Armer
    <3>6. CASE Unclosed
      <4>1. chat.turn \in ChatMessage
        BY <1>0, <3>6, MessageFacts DEF Unclosed, Chats
      <4>2. task'[chat.turn] = task[chat.turn]
        BY <3>4, <4>1
      <4>3. PICK b \in Caller : AwaitedBy(b, chat.turn)
        BY <3>6 DEF Unclosed
      <4>4. AwaitedBy(b, chat.turn)'
        BY <3>1, <4>3 DEF AwaitedBy
      <4>5. task'[chat'.turn].pc = "dead" \/ Struck(chat.turn)'
        BY <3>1, <3>6, <4>2 DEF Unclosed, Struck
      <4>6. Unclosed'
        BY <3>1, <3>6, <4>4, <4>5 DEF Unclosed
      <4> QED
        BY <4>6 DEF Armer
    <3> QED
      BY <3>3, <3>5, <3>6
  <2> QED
    BY <2>1, <2>2, <2>3
<1> QED
  BY <1>5, <1>6, <1>7, <1>8, <1>9, <1>10 DEF AgentsInv

\* The calls go on, and turns begin.
LEMMA HandsAgents ==
  ASSUME ChatInv, task' \in [Turn -> Tasks],
         \A t \in Turn : task'[t] = task[t] \/ (~Active(t) /\ task'[t] = New),
         UNCHANGED <<lock, stray, made>>, alive' \subseteq alive, chat'.conn \in {chat.conn, None},
         \A c \in Caller : handler'[c].proc \in 0..made,
         chat.conn \in alive' => chat'.conn = chat.conn \/ chat.conn \in Closing',
         \A c \in Caller : handler[c].pc \in {"closing", "ending"} =>
                              handler'[c] = handler[c] \/ handler[c].proc \notin alive',
         \A c \in Caller : handler[c].pc = "cancelling" =>
                              handler'[c] = handler[c] \/ ~(Active(handler[c].on) /\ task[handler[c].on].hit),
         \/ chat'.conn = None \/ (chat'.idle = (chat'.conn \in alive))
         \/ chat'.turn \in ChatMessage /\ task'[chat'.turn] = New
         \/ /\ chat'.idle = chat.idle /\ chat'.turn = chat.turn
            /\ \A m \in ChatMessage : task'[m] = task[m]
            /\ \A c \in Caller : AwaitedBy(c, chat.turn) /\ (task[chat.turn].pc = "dead" \/ Struck(chat.turn))
                                    => handler'[c] = handler[c]
  PROVE  AgentsInv'
<1>0. Base /\ Locking /\ Procs /\ WarmUp /\ Hits /\ AgentsOwned /\ WillArm
  BY DEF ChatInv, AgentsInv
<1>2. /\ Free \notin Turn /\ Warm \in Turn /\ Warm \notin ChatMessage /\ ChatMessage \subseteq Turn
      /\ None \notin alive /\ None = Warm
  BY <1>0, LockFacts
<1>3. New.pc = "new" /\ New.proc = None /\ ~New.hit
  BY NewFacts
<1>4. \A s \in Turn : ~Active(s) => task[s].pc \notin Locks \cup {"replacing", "failing"}
  BY DEF Active, Locks
<1>5. Locking'
  <2>1. ASSUME NEW s \in Turn PROVE (task'[s].pc \in Locks <=> lock' = s) /\ (task'[s].pc \in Locks
                   => task'[s] = task[s])
    <3>1. task[s].pc \in Locks <=> lock = s
      BY <1>0 DEF Locking
    <3>2. CASE task'[s] = task[s]
      BY <3>1, <3>2
    <3>3. CASE ~Active(s) /\ task'[s] = New
      BY <1>3, <1>4, <3>1, <3>3 DEF Locks
    <3> QED
      BY <3>2, <3>3
  <2> QED
    BY <1>0, <2>1 DEF Locking, Locks
<1>6. Procs'
  <2>1. made \in Nat /\ None \in 0..made
    BY <1>0, MessageFacts DEF None
  <2>2. \A s \in Turn : task'[s].proc \in 0..made'
    BY <1>0, <1>3, <2>1 DEF Procs
  <2> QED
    BY <1>0, <2>1, <2>2 DEF Procs
<1>7. WarmUp'
  BY <1>0, <1>2, <1>3 DEF WarmUp
<1>8. Hits'
  <2> SUFFICES ASSUME NEW m \in ChatMessage, Active(m)', task'[m].hit PROVE \E b \in Caller : AwaitedBy(b, m)'
    BY DEF Hits
  <2>1. task'[m] = task[m]
    BY <1>2, <1>3
  <2>2. Active(m) /\ task[m].hit
    BY <2>1 DEF Active
  <2>3. PICK b \in Caller : AwaitedBy(b, m)
    BY <1>0, <2>2 DEF Hits
  <2>4. handler'[b] = handler[b]
    BY <2>2, <2>3 DEF AwaitedBy
  <2> QED
    BY <2>3, <2>4 DEF AwaitedBy
<1>9. AgentsOwned'
  <2> SUFFICES ASSUME NEW p \in alive' \ stray', p # chat'.conn PROVE p \in Closing'
    BY DEF AgentsOwned
  <2>1. p = chat.conn \/ p \in Closing
    BY <1>0 DEF AgentsOwned
  <2>2. CASE p \in {handler[b].proc : b \in {d \in Caller : handler[d].pc \in {"closing", "ending"}}}
    <3>1. PICK b \in Caller : handler[b].pc \in {"closing", "ending"} /\ handler[b].proc = p
      BY <2>2
    <3>2. handler'[b] = handler[b]
      BY <3>1
    <3> QED
      BY <3>1, <3>2 DEF Closing
  <2>3. CASE p \in {task[s].proc : s \in {r \in Turn : task[r].pc \in {"replacing", "failing"}}}
    <3>1. PICK s \in Turn : task[s].pc \in {"replacing", "failing"} /\ task[s].proc = p
      BY <2>3
    <3>2. task'[s] = task[s]
      BY <1>4, <3>1
    <3> QED
      BY <3>1, <3>2 DEF Closing
  <2> QED
    BY <2>1, <2>2, <2>3 DEF Closing
<1>10. WillArm'
  <2> SUFFICES ASSUME chat'.conn \in alive' \ stray', ~chat'.idle PROVE Armer'
    BY DEF WillArm
  <2>1. chat'.conn # None /\ chat'.conn = chat.conn
    BY <1>2
  <2>2. CASE chat'.turn \in ChatMessage /\ task'[chat'.turn] = New
    <3>1. PICK n \in ChatMessage : n = chat'.turn
      BY <2>2
    <3>2. Active(n)' /\ ~Struck(n)'
      BY <1>3, <2>2, <3>1 DEF Active, Struck
    <3> QED
      BY <3>2 DEF Armer
  <2>3. CASE /\ chat'.idle = chat.idle /\ chat'.turn = chat.turn
             /\ \A m \in ChatMessage : task'[m] = task[m]
             /\ \A c \in Caller : AwaitedBy(c, chat.turn)
                    /\ (task[chat.turn].pc = "dead" \/ Struck(chat.turn))
                                    => handler'[c] = handler[c]
    <3>1. Armer
      <4>1. chat.conn \in alive \ stray /\ ~chat.idle
        BY <2>1, <2>3
      <4> QED
        BY <1>0, <4>1 DEF WillArm
    <3>2. CASE WarmsUp
      <4>1. Active(Warm)
        BY <3>2 DEF WarmsUp, Active
      <4>2. task'[Warm] = task[Warm]
        BY <1>2, <4>1
      <4>3. WarmsUp'
        BY <2>1, <3>2, <4>2 DEF WarmsUp
      <4> QED
        BY <4>3 DEF Armer
    <3>5. CASE \E m \in ChatMessage : Active(m) /\ ~Struck(m)
      <4>1. PICK m \in ChatMessage : Active(m) /\ ~Struck(m)
        BY <3>5
      <4>2. Active(m)' /\ ~Struck(m)'
        BY <2>3, <4>1 DEF Active, Struck
      <4> QED
        BY <4>2 DEF Armer
    <3>6. CASE Unclosed
      <4>1. chat.turn \in ChatMessage
        BY <1>0, <3>6, MessageFacts DEF Unclosed, Chats
      <4>2. task'[chat.turn] = task[chat.turn]
        BY <2>3, <4>1
      <4>3. PICK b \in Caller : AwaitedBy(b, chat.turn)
        BY <3>6 DEF Unclosed
      <4>4. handler'[b] = handler[b]
        BY <2>3, <3>6, <4>3 DEF Unclosed
      <4>7. AwaitedBy(b, chat.turn)'
        BY <2>3, <4>3, <4>4 DEF AwaitedBy
      <4>5. task'[chat'.turn].pc = "dead" \/ Struck(chat.turn)'
        BY <2>3, <3>6, <4>2 DEF Unclosed, Struck
      <4>6. Unclosed'
        BY <2>3, <3>6, <4>5, <4>7 DEF Unclosed
      <4> QED
        BY <4>6 DEF Armer
    <3> QED
      BY <3>1, <3>2, <3>5, <3>6 DEF Armer
  <2> QED
    BY <2>1, <2>2, <2>3
<1> QED
  BY <1>5, <1>6, <1>7, <1>8, <1>9, <1>10 DEF AgentsInv
-----------------------------------------------------------------------------
(* The agents, in the steps of a turn, *)

\* What a step leaves of the chat's agent, timer and turn.
LEMMA ChatEdits ==
  ASSUME chat \in Chats
  PROVE  /\ chat' = [chat EXCEPT !.session = TRUE] =>
              chat'.conn = chat.conn /\ chat'.idle = chat.idle /\ chat'.turn = chat.turn
         /\ chat' = [chat EXCEPT !.stopped = TRUE] =>
              chat'.conn = chat.conn /\ chat'.idle = chat.idle /\ chat'.turn = chat.turn
         /\ chat' = [chat EXCEPT !.timer = TRUE] =>
              chat'.conn = chat.conn /\ chat'.idle = chat.idle /\ chat'.turn = chat.turn
         /\ chat' = [chat EXCEPT !.timer = FALSE] =>
              chat'.conn = chat.conn /\ chat'.idle = chat.idle /\ chat'.turn = chat.turn
         /\ \A v : chat' = [chat EXCEPT !.conn = v] =>
              chat'.conn = v /\ chat'.idle = chat.idle /\ chat'.turn = chat.turn
BY DEF Chats

\* Who does not hold the lock, and what it is after its release.
LEMMA LockIs ==
  ASSUME ChatInv, NEW t \in Turn
  PROVE  /\ task[t].pc \in Locks <=> lock = t
         /\ Unlocked(t) # t /\ t # Free
         /\ Unlocked(t) = lock \/ (lock = t /\ Unlocked(t) = Free)
         /\ task[t].pc \in Locks => Unlocked(t) = Free
BY LockFacts DEF ChatInv, AgentsInv, Locking, Unlocked

LEMMA WaitsForLockAgents ==
  ASSUME ChatInv, NEW t \in Turn, WaitsForLock(t)
  PROVE  AgentsInv'
<1>1. /\ task[t].pc = "new" /\ task' = [task EXCEPT ![t].pc = "waiting"]
      /\ UNCHANGED <<chat, lock, handler, alive, made, stray>>
  BY DEF WaitsForLock, agents
<1>2. Base /\ Procs
  BY DEF ChatInv, AgentsInv
<1>3. TurnMoves(t, "waiting", task[t].proc)
  BY <1>1, <1>2, TurnFacts, TaskMoves
<1>4. Active(t) /\ made \in Nat /\ None \notin alive /\ task[t].pc \notin Locks
  BY <1>1, <1>2, TurnFacts, LockFacts DEF Before, Locks
<1>5. task[t].proc \in 0..made' /\ chat'.conn \in 0..made' /\ made' \in Nat /\ made <= made'
  BY <1>1, <1>2, <1>4 DEF Procs
<1>6. "waiting" \in Before /\ "waiting" \notin Locks
  BY DEF Before, Locks
<1>7. "waiting" \in Locks <=> lock' = t
  BY <1>1, <1>4, <1>6, LockIs
<1>8. \A p \in alive' : p \in alive
  BY <1>1
<1>9. task[t].pc \in {"replacing", "failing"} => task[t].proc \notin alive'
  BY <1>1
<1>10. t = Warm => task[Warm].pc \notin {"opening", "choosing"}
  BY <1>1
<1> QED
  BY <1>1, <1>3, <1>4, <1>5, <1>6, <1>7, <1>8, <1>9, <1>10, MovesAgents

LEMMA TurnFailsAgents ==
  ASSUME ChatInv, NEW t \in Turn, TurnFails(t), task[t].pc \in {"new", "waiting", "opening", "choosing",
         "asked"},
         lock' = Unlocked(t) \/ (lock' = lock /\ task[t].pc \notin Locks),
         UNCHANGED <<handler, alive, made, stray>>
  PROVE  AgentsInv'
<1>0. Base /\ Procs /\ Active(t) /\ chat \in Chats /\ made \in Nat /\ None \notin alive /\ None \in Nat
  BY TurnFacts, LockFacts DEF ChatInv, AgentsInv, Active
<1>1. CASE chat.conn = None
  <2>1. Ends(t, Unhooked(chat), "error", "done")
    BY <1>1 DEF TurnFails
  <2>2. PICK c : c = Unhooked(chat)
    OBVIOUS
  <2>3. /\ c \in Chats /\ c.queue = chat.queue /\ c.said = chat.said /\ c.turn = chat.turn
        /\ c.conn = chat.conn
    BY <1>0, <1>1, <2>2, TalkKept
  <2>4. chat.conn \notin alive' \ stray'
    BY <1>0, <1>1
  <2>5. PICK n \in {None} \cup ChatMessage : Ending(t, c, "done", n)
    BY <1>0, <2>1, <2>2, <2>3, EndsIs DEF Base, MessagesInv
  <2>6. task[t].pc \in {"replacing", "failing"} => task[t].proc \notin alive' \ stray'
    OBVIOUS
  <2>7. (lock' = lock \/ lock' = Unlocked(t)) /\ (task[t].pc \in Locks => lock' = Unlocked(t))
            /\ stray \subseteq stray'
    OBVIOUS
  <2> QED
    BY <1>0, <2>3, <2>4, <2>5, <2>6, <2>7, EndsAgents
<1>2. CASE chat.conn # None
  <2>1. chat' = Unhooked(chat) /\ task' = [task EXCEPT ![t].pc = "failing", ![t].proc = chat.conn]
    BY <1>2 DEF TurnFails
  <2>2. TurnMoves(t, "failing", chat.conn)
    BY <1>0, <2>1, TurnFacts, TaskMoves
  <2>3. chat'.conn = None
    BY <1>0, <2>1, TalkKept
  <2>4. chat.conn \in 0..made' /\ chat'.conn \in 0..made' /\ made' \in Nat /\ made <= made'
    BY <1>0, <2>3 DEF Procs, None
  <2>5. "failing" \notin Locks
    BY DEF Locks
  <2>6. "failing" \in Locks <=> lock' = t
    BY <2>5, LockIs
  <2>7. lock' = lock \/ (lock = Free /\ lock' = t) \/ (lock = t /\ lock' = Free)
    BY LockIs
  <2>8. \A p \in alive' : p \in alive
    OBVIOUS
  <2>9. task[t].pc \in {"replacing", "failing"} => task[t].proc \notin alive'
    OBVIOUS
  <2> QED
    BY <1>0, <2>2, <2>3, <2>4, <2>6, <2>7, <2>8, <2>9, MovesAgents
<1> QED
  BY <1>1, <1>2

LEMMA ReadyAgents ==
  ASSUME ChatInv, NEW t \in Turn, Ready(t), task[t].pc \in {"new", "waiting", "choosing"},
         lock' = Unlocked(t) \/ (lock' = lock /\ task[t].pc \notin Locks),
         UNCHANGED <<handler, alive, made, stray>>
  PROVE  AgentsInv'
<1>0. Base /\ Procs /\ Active(t) /\ chat \in Chats /\ made \in Nat /\ None \notin alive /\ None \in Nat
  BY TurnFacts, LockFacts DEF ChatInv, AgentsInv, Active
<1>1. CASE t = Warm
  <2>1. Ends(t, IF Working THEN chat ELSE Armed(chat), "end", "done")
    BY <1>1 DEF Ready
  <2>2. PICK c : c = IF Working THEN chat ELSE Armed(chat)
    OBVIOUS
  <2>3. /\ c \in Chats /\ c.queue = chat.queue /\ c.said = chat.said /\ c.turn = chat.turn
               /\ c.conn = chat.conn
               BY <1>0, <2>2, TalkKept
  <2>4. c.idle = (chat.conn \in alive) \/ (c.idle = chat.idle /\ Working)
    BY <1>0, <2>2, TalkKept
  <2>5. PICK n \in {None} \cup ChatMessage : Ending(t, c, "done", n)
    BY <1>0, <1>1, <2>1, <2>2, <2>3, EndsIs DEF Base, MessagesInv
  <2>6. task[t].pc \in {"replacing", "failing"} => task[t].proc \notin alive' \ stray'
    OBVIOUS
  <2>7. (lock' = lock \/ lock' = Unlocked(t)) /\ (task[t].pc \in Locks => lock' = Unlocked(t))
            /\ stray \subseteq stray'
    OBVIOUS
  <2> QED
    BY <1>0, <2>3, <2>4, <2>5, <2>6, <2>7, EndsAgents
<1>2. CASE t # Warm /\ chat.conn \in alive
  <2>1. task' = [task EXCEPT ![t].pc = "asked", ![t].proc = chat.conn] /\ chat' = chat
    BY <1>2 DEF Ready
  <2>2. TurnMoves(t, "asked", chat.conn)
    BY <1>0, <2>1, TurnFacts, TaskMoves
  <2>4. chat.conn \in 0..made' /\ chat'.conn \in 0..made' /\ made' \in Nat /\ made <= made'
    BY <1>0, <2>1 DEF Procs, None
  <2>5. "asked" \notin Locks
    BY DEF Locks
  <2>6. "asked" \in Locks <=> lock' = t
    BY <2>5, LockIs
  <2>7. lock' = lock \/ (lock = Free /\ lock' = t) \/ (lock = t /\ lock' = Free)
    BY LockIs
  <2>8. \A p \in alive' : p \in alive
    OBVIOUS
  <2>9. task[t].pc \in {"replacing", "failing"} => task[t].proc \notin alive'
    OBVIOUS
  <2> QED
    BY <1>0, <1>2, <2>1, <2>2, <2>4, <2>6, <2>7, <2>8, <2>9, MovesAgents
<1>3. CASE t # Warm /\ chat.conn \notin alive
  <2>1. IF chat.conn = None THEN Ends(t, chat, "error", "raised") ELSE TurnFails(t)
    BY <1>3 DEF Ready
  <2>2. CASE chat.conn = None
    <3>1. Ends(t, chat, "error", "raised")
      BY <2>1, <2>2
    <3>2. PICK n \in {None} \cup ChatMessage : Ending(t, chat, "raised", n)
      BY <1>0, <3>1, EndsIs DEF Base, MessagesInv
    <3>3. task[t].pc \in {"replacing", "failing"} => task[t].proc \notin alive' \ stray'
      OBVIOUS
    <3>4. (lock' = lock \/ lock' = Unlocked(t)) /\ (task[t].pc \in Locks => lock' = Unlocked(t))
              /\ stray \subseteq stray'
      OBVIOUS
    <3> QED
      BY <1>0, <1>3, <3>2, <3>3, <3>4, EndsAgents
  <2>3. CASE chat.conn # None
    BY <2>1, <2>3, TurnFailsAgents
  <2> QED
    BY <2>2, <2>3
<1> QED
  BY <1>1, <1>2, <1>3

LEMMA EntersAgents ==
  ASSUME ChatInv, NEW t \in Turn, Enters(t)
  PROVE  AgentsInv'
<1>0. /\ task[t].pc \in {"new", "waiting"} /\ lock = Free /\ UNCHANGED <<handler, alive, made, stray>>
      /\ task[t].pc \notin Locks
  BY DEF Enters, agents, Locks
<1>1. CASE Ready(t) /\ UNCHANGED lock
  BY <1>0, <1>1, ReadyAgents
<1>2. CASE Replaces(t)
  <2>0. Base /\ Procs /\ Active(t) /\ chat \in Chats /\ made \in Nat /\ None \notin alive /\ None \in Nat
    BY <1>0, TurnFacts, LockFacts DEF ChatInv, AgentsInv, Active
  <2>1. PICK pc \in {"starting", "replacing"} : pc = IF chat.conn = None THEN "starting" ELSE "replacing"
    OBVIOUS
  <2>2. chat' = Unhooked(chat) /\ task' = [task EXCEPT ![t].pc = pc, ![t].proc = chat.conn] /\ lock' = t
    BY <1>2, <2>1 DEF Replaces
  <2>3. pc \in TaskPcs /\ pc \in Before /\ pc \in Locks /\ pc # "new" /\ pc # "asked"
    BY DEF TaskPcs, Before, Locks
  <2>4. TurnMoves(t, pc, chat.conn)
    BY <2>0, <2>2, <2>3, TurnFacts, TaskMoves
  <2>5. chat'.conn = None
    BY <2>0, <2>2, TalkKept
  <2>6. chat.conn \in 0..made' /\ chat'.conn \in 0..made' /\ made' \in Nat /\ made <= made'
    BY <1>0, <2>0, <2>5 DEF Procs, None
  <2>7. pc \in Locks <=> lock' = t
    BY <2>2, <2>3
  <2>8. \A p \in alive' : p \in alive
    BY <1>0
  <2>9. task[t].pc \in {"replacing", "failing"} => task[t].proc \notin alive'
    BY <1>0
  <2>10. chat.conn \in alive => pc \in {"replacing", "failing"}
    BY <2>0, <2>1
  <2>11. pc \notin {"opening", "choosing"}
    OBVIOUS
  <2>12. lock = Free /\ lock' = t
    BY <1>0, <2>2
  <2>13. None \notin alive'
    BY <1>0, <2>0
  <2> QED
    BY <1>0, <2>0, <2>3, <2>4, <2>5, <2>6, <2>7, <2>8, <2>9, <2>10, <2>11, <2>12, <2>13, MovesAgents
<1> QED
  BY <1>1, <1>2 DEF Enters

LEMMA ReplacedAgents ==
  ASSUME ChatInv, NEW t \in Turn, Replaced(t)
  PROVE  AgentsInv'
<1>1. /\ task[t].pc = "replacing" /\ task' = [task EXCEPT ![t].pc = "starting", ![t].proc = None]
      /\ task[t].proc \notin alive /\ UNCHANGED <<chat, lock, handler, alive, made, stray>>
  BY DEF Replaced, agents
<1>2. Base /\ Procs /\ Active(t) /\ chat \in Chats /\ made \in Nat /\ None \notin alive /\ None \in Nat
  BY <1>1, TurnFacts, LockFacts DEF ChatInv, AgentsInv, Active
<1>3. TurnMoves(t, "starting", None)
  BY <1>1, <1>2, TurnFacts, TaskMoves
<1>4. chat.conn = None
  BY <1>1 DEF ChatInv, AgentsInv, Locking
<1>5. None \in 0..made' /\ chat'.conn \in 0..made' /\ made' \in Nat /\ made <= made'
  BY <1>1, <1>2, <1>4 DEF None
<1>6. "starting" \in Before /\ "starting" \in Locks /\ task[t].pc \in Locks
  BY <1>1 DEF Before, Locks
<1>7. "starting" \in Locks <=> lock' = t
  BY <1>1, <1>6, LockIs
<1>8. \A p \in alive' : p \in alive
  BY <1>1
<1>9. task[t].pc \in {"replacing", "failing"} => task[t].proc \notin alive'
  BY <1>1
<1>10. chat'.conn = None /\ chat'.conn = chat.conn /\ lock' = lock /\ None \notin alive'
  BY <1>1, <1>2, <1>4
<1> QED
  BY <1>1, <1>2, <1>3, <1>4, <1>5, <1>6, <1>7, <1>8, <1>9, <1>10, MovesAgents

\* A turn that ends as it is, with chat c.
LEMMA EndsKeepAgents ==
  ASSUME ChatInv, NEW t \in Turn, NEW c \in Chats, c.queue = chat.queue, c.said = chat.said,
         c.turn = chat.turn,
         c.conn = chat.conn, NEW stop, NEW pc \in {"done", "dead", "raised"}, Ends(t, c, stop, pc),
         t = Warm => pc = "done", t = Warm \/ Active(t), UNCHANGED <<handler, alive, made>>,
         stray \subseteq stray',
         lock' = Unlocked(t) \/ (lock' = lock /\ task[t].pc \notin Locks),
         task[t].pc \in {"replacing", "failing"} => task[t].proc \notin alive' \ stray',
         t = Warm => \/ chat.conn \notin alive' \ stray' \/ (c.idle = (chat.conn \in alive))
                     \/ c.idle = chat.idle /\ task[Warm].pc \notin {"opening", "choosing"}
  PROVE  AgentsInv'
<1>1. PICK n \in {None} \cup ChatMessage : Ending(t, c, pc, n)
  BY EndsIs DEF ChatInv, Base, MessagesInv
<1>2. (lock' = lock \/ lock' = Unlocked(t)) /\ (task[t].pc \in Locks => lock' = Unlocked(t))
  OBVIOUS
<1> QED
  BY <1>1, <1>2, EndsAgents

LEMMA StartFailsAgents ==
  ASSUME ChatInv, NEW t \in Turn, StartFails(t)
  PROVE  AgentsInv'
<1>1. /\ task[t].pc = "starting" /\ Ends(t, Unhooked(chat), "error", "done") /\ lock' = Unlocked(t)
      /\ UNCHANGED <<handler, alive, made, stray>>
  BY DEF StartFails, agents
<1>2. Base /\ Active(t) /\ chat \in Chats /\ None \notin alive /\ chat.conn = None
  BY <1>1, TurnFacts, LockFacts DEF ChatInv, AgentsInv, Active, Locking
<1>3. PICK c : c = Unhooked(chat)
  OBVIOUS
<1>4. /\ c \in Chats /\ c.queue = chat.queue /\ c.said = chat.said /\ c.turn = chat.turn
      /\ c.conn = chat.conn
  BY <1>2, <1>3, TalkKept
<1>5. chat.conn \notin alive' \ stray'
  BY <1>1, <1>2
<1>6. task[t].pc \in {"replacing", "failing"} => task[t].proc \notin alive' \ stray'
  BY <1>1
<1>7. Ends(t, c, "error", "done") /\ stray \subseteq stray'
  BY <1>1, <1>3
<1> QED
  BY <1>1, <1>2, <1>4, <1>5, <1>6, <1>7, EndsKeepAgents

LEMMA AgentStartsAgents ==
  ASSUME ChatInv, NEW t \in Turn, AgentStarts(t)
  PROVE  AgentsInv'
<1>1. /\ task[t].pc = "starting" /\ task' = [task EXCEPT ![t].pc = "opening", ![t].proc = made']
      /\ chat' = [chat EXCEPT !.conn = made'] /\ made' = made + 1 /\ alive' = alive \cup {made'}
      /\ UNCHANGED <<lock, handler, stray>>
  BY DEF AgentStarts
<1>2. Base /\ Procs /\ Active(t) /\ chat \in Chats /\ made \in Nat /\ None \notin alive /\ None \in Nat
  BY <1>1, TurnFacts, LockFacts DEF ChatInv, AgentsInv, Active
<1>3. PICK a \in Nat : a = made' /\ a = made + 1 /\ a # None
  BY <1>1, <1>2 DEF None
<1>4. TurnMoves(t, "opening", a)
  BY <1>1, <1>2, <1>3, TurnFacts, TaskMoves
<1>5. chat.conn = None /\ chat'.conn = a
  BY <1>1, <1>2, <1>3, ChatEdits DEF ChatInv, AgentsInv, Locking
<1>6. a \in 0..made' /\ chat'.conn \in 0..made' /\ made' \in Nat /\ made <= made'
  BY <1>2, <1>3, <1>5
<1>7. "opening" \in Before /\ "opening" \in Locks /\ task[t].pc \in Locks
  BY <1>1 DEF Before, Locks
<1>8. lock' = t /\ lock' = lock
  BY <1>1, <1>7, LockIs
<1>9. None \notin alive' /\ \A p \in alive' : p \in alive \/ p = chat'.conn
  BY <1>1, <1>2, <1>3, <1>5
<1>10. task[t].pc \in {"replacing", "failing"} => task[t].proc \notin alive'
  BY <1>1
<1>11. chat.conn \notin alive
  BY <1>2, <1>5
<1>12. UNCHANGED <<handler, stray>>
  BY <1>1
<1> QED
  BY <1>2, <1>4, <1>5, <1>6, <1>7, <1>8, <1>9, <1>10, <1>11, <1>12, MovesAgents

LEMMA OpenedAgents ==
  ASSUME ChatInv, NEW t \in Turn, Opened(t)
  PROVE  AgentsInv'
<1>1. /\ task[t].pc = "opening" /\ task' = [task EXCEPT ![t].pc = "choosing"]
      /\ chat' = [chat EXCEPT !.session = TRUE] /\ UNCHANGED <<lock, handler, alive, made, stray>>
  BY DEF Opened, agents
<1>2. Base /\ Procs /\ Active(t) /\ chat \in Chats /\ made \in Nat /\ None \notin alive /\ None \in Nat
  BY <1>1, TurnFacts, LockFacts DEF ChatInv, AgentsInv, Active
<1>3. TurnMoves(t, "choosing", task[t].proc)
  BY <1>1, <1>2, TurnFacts, TaskMoves
<1>4. chat.conn \in {None, task[t].proc} /\ chat'.conn = chat.conn
  BY <1>1, <1>2, ChatEdits DEF ChatInv, AgentsInv, Locking
<1>5. task[t].proc \in 0..made' /\ chat'.conn \in 0..made' /\ made' \in Nat /\ made <= made'
  BY <1>1, <1>2, <1>4 DEF Procs
<1>6. "choosing" \in Before /\ "choosing" \in Locks /\ task[t].pc \in Locks
  BY <1>1 DEF Before, Locks
<1>7. lock' = t /\ lock' = lock
  BY <1>1, <1>6, LockIs
<1>8. None \notin alive' /\ \A p \in alive' : p \in alive
  BY <1>1, <1>2
<1>9. task[t].pc \in {"replacing", "failing"} => task[t].proc \notin alive'
  BY <1>1
<1>10. UNCHANGED <<handler, stray>>
  BY <1>1
<1> QED
  BY <1>2, <1>3, <1>4, <1>5, <1>6, <1>7, <1>8, <1>9, <1>10, MovesAgents

LEMMA NotSignedInAgents ==
  ASSUME ChatInv, NEW t \in Turn, NotSignedIn(t)
  PROVE  AgentsInv'
<1>1. /\ task[t].pc = "opening" /\ Ends(t, chat, "error", "done") /\ lock' = Unlocked(t)
      /\ UNCHANGED <<handler, alive, made>> /\ stray \subseteq stray'
      /\ t = Warm => task[t].proc \in stray'
  BY DEF NotSignedIn
<1>2. Base /\ Active(t) /\ chat \in Chats /\ None \notin alive /\ chat.conn \in {None, task[t].proc}
  BY <1>1, TurnFacts, LockFacts DEF ChatInv, AgentsInv, Active, Locking
<1>3. t = Warm => chat.conn \notin alive' \ stray'
  BY <1>1, <1>2
<1>4. task[t].pc \in {"replacing", "failing"} => task[t].proc \notin alive' \ stray'
  BY <1>1
<1> QED
  BY <1>1, <1>2, <1>3, <1>4, EndsKeepAgents

LEMMA OpenFailsAgents ==
  ASSUME ChatInv, NEW t \in Turn, OpenFails(t)
  PROVE  AgentsInv'
<1>1. task[t].pc = "opening" /\ TurnFails(t) /\ lock' = Unlocked(t)
          /\ UNCHANGED <<handler, alive, made, stray>>
  BY DEF OpenFails, agents
<1> QED
  BY <1>1, TurnFailsAgents

LEMMA ChosenAgents ==
  ASSUME ChatInv, NEW t \in Turn, Chosen(t)
  PROVE  AgentsInv'
<1>1. task[t].pc = "choosing" /\ Ready(t) /\ lock' = Unlocked(t) /\ UNCHANGED <<handler, alive, made, stray>>
  BY DEF Chosen, agents
<1> QED
  BY <1>1, ReadyAgents

LEMMA AnswersAgents ==
  ASSUME ChatInv, NEW m \in ChatMessage, Answers(m)
  PROVE  AgentsInv'
<1>1. PICK stop : Ends(m, chat, stop, "done")
  BY DEF Answers
<1>2. task[m].pc = "asked" /\ UNCHANGED <<lock, handler, alive, made, stray>>
  BY DEF Answers
<1>3. Base /\ m \in Turn /\ m # Warm /\ Active(m) /\ chat \in Chats /\ task[m].pc \notin Locks
  BY <1>2, TurnFacts, LockFacts DEF ChatInv, Active, Locks
<1>4. task[m].pc \in {"replacing", "failing"} => task[m].proc \notin alive' \ stray'
  BY <1>2
<1>5. stray \subseteq stray' /\ lock' = lock
  BY <1>2
<1> QED
  BY <1>1, <1>2, <1>3, <1>4, <1>5, EndsKeepAgents

LEMMA AnswerFailsAgents ==
  ASSUME ChatInv, NEW m \in ChatMessage, AnswerFails(m)
  PROVE  AgentsInv'
<1>1. task[m].pc = "asked" /\ TurnFails(m) /\ UNCHANGED <<lock, handler, alive, made, stray>>
  BY DEF AnswerFails, agents
<1>2. m \in Turn /\ task[m].pc \notin Locks
  BY <1>1 DEF Turn, Locks
<1> QED
  BY <1>1, <1>2, TurnFailsAgents

LEMMA FailedAgents ==
  ASSUME ChatInv, NEW t \in Turn, Failed(t)
  PROVE  AgentsInv'
<1>1. /\ task[t].pc = "failing" /\ task[t].proc \notin alive /\ Ends(t, chat, "error", "done")
      /\ UNCHANGED <<lock, handler, alive, made, stray>>
  BY DEF Failed, agents
<1>2. Base /\ Active(t) /\ chat \in Chats /\ task[t].pc \notin Locks
  BY <1>1, TurnFacts DEF ChatInv, Active, Locks
<1>3. task[t].proc \notin alive' \ stray' /\ stray \subseteq stray' /\ lock' = lock
  BY <1>1
<1>4. t = Warm => task[Warm].pc \notin {"opening", "choosing"}
  BY <1>1
<1> QED
  BY <1>1, <1>2, <1>3, <1>4, EndsKeepAgents
-----------------------------------------------------------------------------
(* in those of the owner, *)

LEMMA CancelledAgents ==
  ASSUME ChatInv, NEW m \in ChatMessage, Cancelled(m)
  PROVE  AgentsInv'
<1>0. /\ Base /\ Locking /\ Procs /\ WarmUp /\ Hits /\ AgentsOwned /\ WillArm
      /\ m \in Turn /\ m # Warm /\ Warm \in Turn /\ ChatMessage \subseteq Turn /\ chat \in Chats
             /\ made \in Nat
  BY TurnFacts, LockFacts DEF ChatInv, AgentsInv
<1>1. /\ Active(m) /\ task[m].hit /\ lock' = Unlocked(m) /\ UNCHANGED <<handler, alive, made>>
      /\ stray' = IF task[m].pc \in {"replacing", "failing"} THEN stray \cup {task[m].proc} ELSE stray
  BY DEF Cancelled
<1>2. CASE task[m].pc # "new"
  <2>1. Ends(m, chat, "cancelled", "done") \/ Ends(m, chat, "error", "dead")
    BY <1>2 DEF Cancelled
  <2>2. task[m].pc \in {"replacing", "failing"} => task[m].proc \notin alive' \ stray'
    BY <1>1
  <2>3. stray \subseteq stray'
    BY <1>1
  <2> QED
    BY <1>0, <1>1, <2>1, <2>2, <2>3, EndsKeepAgents
<1>3. CASE task[m].pc = "new"
  <2>1. task' = [task EXCEPT ![m] = [NoTask EXCEPT !.pc = "dead"]] /\ UNCHANGED chat
    BY <1>3 DEF Cancelled
  <2>2. /\ task'[m].pc = "dead" /\ task'[m].proc = None /\ \A s \in Turn : s # m => task'[s] = task[s]
    <3>1. PICK f : f = FALSE
      OBVIOUS
    <3>2. PICK r : r = [NoTask EXCEPT !.pc = "dead"]
      OBVIOUS
    <3>3. r = [pc |-> "dead", proc |-> None, hit |-> f]
      BY <3>1, <3>2, NewIsTask
    <3>4. r.pc = "dead" /\ r.proc = None
      BY <3>3
    <3>5. task' = [task EXCEPT ![m] = r] /\ task \in [Turn -> Tasks]
      BY <1>0, <2>1, <3>2, MessageFacts
    <3> QED
      BY <1>0, <3>4, <3>5
  <2>3. lock' = lock /\ stray' = stray /\ lock # m
    <3>1. task[m].pc \notin Locks
      BY <1>3 DEF Locks
    <3> QED
      BY <1>0, <1>1, <1>3, <3>1, LockIs DEF Unlocked
  <2>4. Locking'
    BY <1>0, <2>1, <2>2, <2>3 DEF Locking, Locks
  <2>5. Procs'
    BY <1>0, <1>1, <2>1, <2>2 DEF Procs, None
  <2>6. WarmUp'
    BY <1>0, <2>2 DEF WarmUp
  <2>7. Hits'
    <3> SUFFICES ASSUME NEW n \in ChatMessage, Active(n)', task'[n].hit
                            PROVE \E b \in Caller : AwaitedBy(b, n)'
      BY DEF Hits
    <3>1. n # m
      BY <2>2 DEF Active
    <3>2. Active(n) /\ task[n].hit
      BY <1>0, <2>2, <3>1 DEF Active
    <3> QED
      BY <1>0, <1>1, <3>2 DEF Hits, AwaitedBy
  <2>8. AgentsOwned'
    <3> SUFFICES ASSUME NEW p \in alive \ stray, p # chat.conn PROVE p \in Closing'
      BY <1>1, <2>1, <2>3 DEF AgentsOwned
    <3>1. p \in Closing
      BY <1>0 DEF AgentsOwned
    <3>2. CASE p \in {handler[b].proc : b \in {d \in Caller : handler[d].pc \in {"closing", "ending"}}}
      BY <1>1, <3>2 DEF Closing
    <3>3. CASE p \in {task[s].proc : s \in {r \in Turn : task[r].pc \in {"replacing", "failing"}}}
      <4>1. PICK s \in Turn : task[s].pc \in {"replacing", "failing"} /\ task[s].proc = p
        BY <3>3
      <4>2. task'[s] = task[s]
        BY <1>3, <2>2, <4>1
      <4> QED
        BY <4>1, <4>2 DEF Closing
    <3> QED
      BY <3>1, <3>2, <3>3 DEF Closing
  <2>9. WillArm'
    <3> SUFFICES ASSUME chat.conn \in alive \ stray, ~chat.idle PROVE Armer'
      BY <1>1, <2>1, <2>3 DEF WillArm
    <3>1. Armer
      BY <1>0 DEF WillArm
    <3>2. Struck(m)
      BY <1>1, <1>3 DEF Struck
    <3>3. CASE WarmsUp
      BY <1>0, <2>1, <2>2, <3>3 DEF WarmsUp, Armer
    <3>4. CASE \E n \in ChatMessage : Active(n) /\ ~Struck(n)
      <4>1. PICK n \in ChatMessage : Active(n) /\ ~Struck(n)
        BY <3>4
      <4>2. task'[n] = task[n]
        BY <1>0, <2>2, <3>2, <4>1
      <4>3. Active(n)' /\ ~Struck(n)'
        BY <4>1, <4>2 DEF Active, Struck
      <4> QED
        BY <4>3 DEF Armer
    <3>5. CASE Unclosed
      <4>1. chat.turn \in ChatMessage
        BY <1>0, <3>5 DEF Unclosed, Chats
      <4>2. PICK b \in Caller : AwaitedBy(b, chat.turn)
        BY <3>5 DEF Unclosed
      <4>3. AwaitedBy(b, chat.turn)'
        BY <1>1, <2>1, <4>2 DEF AwaitedBy
      <4>4. task'[chat'.turn].pc = "dead" \/ Struck(chat.turn)'
        <5>1. CASE chat.turn = m
          BY <2>1, <2>2, <5>1
        <5>2. CASE chat.turn # m
          <6>1. task'[chat.turn] = task[chat.turn]
            BY <1>0, <2>2, <4>1, <5>2
          <6> QED
            BY <2>1, <3>5, <6>1 DEF Unclosed, Struck
        <5> QED
          BY <5>1, <5>2
      <4>5. Unclosed'
        BY <2>1, <3>5, <4>3, <4>4 DEF Unclosed
      <4> QED
        BY <4>5 DEF Armer
    <3> QED
      BY <3>1, <3>3, <3>4, <3>5 DEF Armer
  <2> QED
    BY <2>4, <2>5, <2>6, <2>7, <2>8, <2>9 DEF AgentsInv
<1> QED
  BY <1>2, <1>3
-----------------------------------------------------------------------------
\* Steps of the owner's calls: one in which the chat keeps its agent, its timer and its turn,
LEMMA QuietAgents ==
  ASSUME ChatInv, UNCHANGED <<task, lock, stray, made>>, alive' \subseteq alive, chat'.conn = chat.conn,
         chat'.idle = chat.idle, chat'.turn = chat.turn, \A c \in Caller : handler'[c].proc \in 0..made,
         \A c \in Caller : handler[c].pc \in {"closing", "ending"} =>
                              handler'[c] = handler[c] \/ handler[c].proc \notin alive',
         \A c \in Caller : handler[c].pc = "cancelling" => handler'[c] = handler[c]
  PROVE  AgentsInv'
<1>1. task' \in [Turn -> Tasks]
  BY MessageFacts DEF ChatInv
<1>2. /\ \A t \in Turn : task'[t] = task[t]
      /\ \A m \in ChatMessage : task'[m] = task[m]
  OBVIOUS
<1>3. \A c \in Caller : AwaitedBy(c, chat.turn) => handler'[c] = handler[c]
  BY DEF AwaitedBy
<1> QED
  BY <1>1, <1>2, <1>3, HandsAgents

\* and one that takes the agent from it.
LEMMA UnhooksAgents ==
  ASSUME ChatInv, UNCHANGED <<task, lock, stray, made, alive>>, chat'.conn = None,
         \A c \in Caller : handler'[c].proc \in 0..made,
         chat.conn \in alive => chat.conn \in Closing',
         \A c \in Caller : handler[c].pc \in {"closing", "ending"} =>
                              handler'[c] = handler[c] \/ handler[c].proc \notin alive',
         \A c \in Caller : handler[c].pc = "cancelling" =>
                              handler'[c] = handler[c] \/ ~(Active(handler[c].on) /\ task[handler[c].on].hit)
  PROVE  AgentsInv'
<1>1. task' \in [Turn -> Tasks]
  BY MessageFacts DEF ChatInv
<1>2. \A t \in Turn : task'[t] = task[t]
  OBVIOUS
<1>3. alive' \subseteq alive /\ chat'.conn \in {chat.conn, None}
  OBVIOUS
<1>4. chat.conn \in alive' => chat'.conn = chat.conn \/ chat.conn \in Closing'
  OBVIOUS
<1>5. UNCHANGED <<lock, stray, made>>
  OBVIOUS
<1> QED
  BY <1>1, <1>2, <1>3, <1>4, <1>5, HandsAgents

\* A step of one call.
LEMMA OneCall ==
  ASSUME ChatInv, NEW c \in Caller, \A d \in Caller : d # c => handler'[d] = handler[d],
         handler'[c].proc \in 0..made, handler[c].pc \in {"closing", "ending"}
             => handler[c].proc \notin alive'
  PROVE  /\ \A d \in Caller : handler'[d].proc \in 0..made
         /\ \A d \in Caller : handler[d].pc \in {"closing", "ending"} =>
                                 handler'[d] = handler[d] \/ handler[d].proc \notin alive'
         /\ handler[c].pc # "cancelling" => \A d \in Caller : handler[d].pc = "cancelling"
                => handler'[d] = handler[d]
BY DEF ChatInv, AgentsInv, Procs

LEMMA SameCalls ==
  ASSUME ChatInv, UNCHANGED handler
  PROVE  /\ \A d \in Caller : handler'[d].proc \in 0..made
         /\ \A d \in Caller : handler[d].pc \in {"closing", "ending"} =>
                                 handler'[d] = handler[d] \/ handler[d].proc \notin alive'
         /\ \A d \in Caller : handler[d].pc = "cancelling" => handler'[d] = handler[d]
BY DEF ChatInv, AgentsInv, Procs

LEMMA CallFacts ==
  ASSUME ChatInv
  PROVE  /\ Base /\ chat \in Chats /\ handler \in [Caller -> Handlers] /\ task \in [Turn -> Tasks]
                /\ made \in Nat
         /\ None \in 0..made /\ chat.conn \in 0..made /\ chat.conn \in Nat
         /\ \A c \in Caller : handler[c].proc \in 0..made /\ handler[c].proc \in Nat
         /\ NoHandler.proc = None /\ NoHandler.pc = "none" /\ None \notin alive
<1>1. Base /\ Procs
  BY DEF ChatInv, AgentsInv
<1>2. chat \in Chats /\ handler \in [Caller -> Handlers] /\ task \in [Turn -> Tasks] /\ made \in Nat
  BY <1>1, MessageFacts
<1>3. None \in 0..made /\ None \notin alive
  BY <1>1, <1>2, LockFacts DEF None
<1> QED
  BY <1>1, <1>2, <1>3, NoHandlerIs DEF Procs

\* A call that has moved, or ended.
LEMMA MovedCall ==
  ASSUME ChatInv, NEW c \in Caller, NEW pc, NEW on, NEW proc, HandMoves(c, pc, on, proc), proc \in 0..made,
         handler[c].pc \in {"closing", "ending"} => handler[c].proc \notin alive'
  PROVE  /\ \A d \in Caller : handler'[d].proc \in 0..made
         /\ \A d \in Caller : handler[d].pc \in {"closing", "ending"} =>
                                 handler'[d] = handler[d] \/ handler[d].proc \notin alive'
         /\ handler[c].pc # "cancelling" => \A d \in Caller : handler[d].pc = "cancelling"
                => handler'[d] = handler[d]
         /\ \A d \in Caller : d # c => handler'[d] = handler[d]
         /\ handler'[c].pc = pc /\ handler'[c].on = on /\ handler'[c].proc = proc
         /\ pc \in {"closing", "ending"} => proc \in Closing'
<1>1. /\ \A d \in Caller : d # c => handler'[d] = handler[d]
      /\ handler'[c].pc = pc /\ handler'[c].on = on /\ handler'[c].proc = proc
  BY DEF HandMoves
<1>2. pc \in {"closing", "ending"} => proc \in Closing'
  BY <1>1 DEF Closing
<1> QED
  BY <1>1, <1>2, OneCall

LEMMA EndedCall ==
  ASSUME ChatInv, NEW c \in Caller, handler' = [handler EXCEPT ![c] = NoHandler],
         handler[c].pc \in {"closing", "ending"} => handler[c].proc \notin alive'
  PROVE  /\ \A d \in Caller : handler'[d].proc \in 0..made
         /\ \A d \in Caller : handler[d].pc \in {"closing", "ending"} =>
                                 handler'[d] = handler[d] \/ handler[d].proc \notin alive'
         /\ handler[c].pc # "cancelling" => \A d \in Caller : handler[d].pc = "cancelling"
                => handler'[d] = handler[d]
         /\ \A d \in Caller : d # c => handler'[d] = handler[d]
<1>1. handler'[c] = NoHandler /\ \A d \in Caller : d # c => handler'[d] = handler[d]
  BY CallFacts
<1>2. handler'[c].proc \in 0..made
  BY <1>1, CallFacts
<1> QED
  BY <1>1, <1>2, OneCall
-----------------------------------------------------------------------------
LEMMA SaveRecordAgents ==
  ASSUME ChatInv, SaveRecord
  PROVE  AgentsInv'
<1>1. UNCHANGED <<chat, task, lock, handler, alive, made, stray>>
  BY DEF SaveRecord, agents
<1>2. UNCHANGED handler
  BY <1>1
<1> QED
  BY <1>1, <1>2, SameCalls, QuietAgents

LEMMA StartedKeeps ==
  ASSUME chat \in Chats, NEW m
  PROVE  Started(chat, m).turn = m /\ Started(chat, m).conn = chat.conn
<1>1. PICK f : f = FALSE
  OBVIOUS
<1>2. PICK c : c = Started(chat, m)
  OBVIOUS
<1>3. c = ChatRecord(chat.known, chat.queue, chat.said \cup {m}, m, f, chat.conn, chat.session, f, chat.timer)
  BY <1>1, <1>2, StartedIs
<1>4. c.turn = m /\ c.conn = chat.conn
  BY <1>3 DEF ChatRecord
<1> QED
  BY <1>2, <1>4

\* A turn begins, of a message that had none.
LEMMA StartsAgents ==
  ASSUME ChatInv, NEW m \in ChatMessage, ~Active(m), chat' = Started(chat, m),
         task' = [task EXCEPT ![m] = New],
         UNCHANGED <<lock, stray, made, alive>>, \A d \in Caller : handler'[d].proc \in 0..made,
         \A d \in Caller : handler[d].pc \in {"closing", "ending"} =>
                              handler'[d] = handler[d] \/ handler[d].proc \notin alive',
         \A d \in Caller : handler[d].pc = "cancelling" => handler'[d] = handler[d]
  PROVE  AgentsInv'
<1>1. chat'.turn = m /\ chat'.conn = chat.conn
  BY CallFacts, StartedKeeps
<1>2. m \in Turn /\ New \in Tasks
  BY NewIsTask DEF Turn
<1>3. task' \in [Turn -> Tasks] /\ task'[m] = New /\ \A t \in Turn : t # m => task'[t] = task[t]
  BY <1>2, CallFacts
<1>4. \A t \in Turn : task'[t] = task[t] \/ (~Active(t) /\ task'[t] = New)
  BY <1>3
<1>5. chat'.turn \in ChatMessage /\ task'[chat'.turn] = New
  BY <1>1, <1>3
<1>6. UNCHANGED <<lock, stray, made>> /\ alive' \subseteq alive
  OBVIOUS
<1> QED
  BY <1>1, <1>3, <1>4, <1>5, <1>6, HandsAgents

LEMMA PromptAgents ==
  ASSUME ChatInv, Prompt
  PROVE  AgentsInv'
<1>1. PICK w : w = written'
  OBVIOUS
<1>2. /\ w = written + 1 /\ w \in ChatMessage /\ UNCHANGED <<lock, handler, made, alive, stray>>
  BY <1>1, CallFacts, MessageFacts, ChatAssumption DEF Prompt, agents, ChatMessage
<1>3. UNCHANGED handler
  BY <1>2
<1>4. CASE Working
  <2>1. PICK q : q = Append(chat.queue, w)
    OBVIOUS
  <2>2. chat' = [chat EXCEPT !.queue = q] /\ UNCHANGED task
    BY <1>1, <1>4, <2>1 DEF Prompt
  <2>3. chat'.conn = chat.conn /\ chat'.idle = chat.idle /\ chat'.turn = chat.turn
    BY <2>2, CallFacts DEF Chats
  <2> QED
    BY <1>2, <1>3, <2>2, <2>3, SameCalls, QuietAgents
<1>5. CASE ~Working
  <2>1. chat' = Started(chat, w) /\ task' = [task EXCEPT ![w] = New]
    BY <1>1, <1>5 DEF Prompt
  <2>2. ~Active(w)
    <3>1. PlaceOf(w) /\ w > written
      BY <1>2, CallFacts, MessageFacts
    <3> QED
      BY <3>1 DEF PlaceOf, Unstarted, Active, NoTask
  <2> QED
    BY <1>2, <1>3, <2>1, <2>2, SameCalls, StartsAgents
<1> QED
  BY <1>4, <1>5

LEMMA ConnectAgents ==
  ASSUME ChatInv, Connect
  PROVE  AgentsInv'
<1>1. /\ task' = [task EXCEPT ![Warm] = New]
             /\ UNCHANGED <<chat, lock, handler, alive, made, stray>> /\ ~Active(Warm)
             BY DEF Connect, agents
<1>2. task' \in [Turn -> Tasks] /\ task'[Warm] = New /\ \A s \in Turn : s # Warm => task'[s] = task[s]
  BY <1>1, CallFacts, LockFacts, NewIsTask
<1>3. \A t \in Turn : task'[t] = task[t] \/ (~Active(t) /\ task'[t] = New)
  BY <1>1, <1>2
<1>4. \A m \in ChatMessage : task'[m] = task[m]
  BY <1>2, CallFacts, LockFacts
<1>5. UNCHANGED handler /\ alive' \subseteq alive
  BY <1>1
<1> QED
  BY <1>1, <1>2, <1>3, <1>4, <1>5, SameCalls, HandsAgents

LEMMA TakeBackAgents ==
  ASSUME ChatInv, NEW m \in ChatMessage, TakeBack(m)
  PROVE  AgentsInv'
<1>1. Queued(m) /\ chat' = Unqueued(m) /\ UNCHANGED <<task, lock, handler, alive, made, stray, written>>
  BY DEF TakeBack, agents
<1>2. chat'.conn = chat.conn /\ chat'.idle = chat.idle /\ chat'.turn = chat.turn
  BY <1>1, CallFacts, LeavesQueue
<1>3. UNCHANGED handler
  BY <1>1
<1> QED
  BY <1>1, <1>2, <1>3, SameCalls, QuietAgents

\* A call begins.
LEMMA BegunCall ==
  ASSUME ChatInv, NEW c \in Caller, NEW op \in {"send_now", "stop", "delete", "restart"},
         NEW m \in {None} \cup ChatMessage,
         handler[c] = NoHandler, handler' = [handler EXCEPT ![c] = Begun(op, m)]
  PROVE  /\ \A d \in Caller : handler'[d].proc \in 0..made
         /\ \A d \in Caller : handler[d].pc \in {"closing", "ending"} =>
                                 handler'[d] = handler[d] \/ handler[d].proc \notin alive'
         /\ \A d \in Caller : handler[d].pc = "cancelling" => handler'[d] = handler[d]
<1>1. PICK h : h = Begun(op, m)
  OBVIOUS
<1>2. h.proc = None
  BY <1>1, BegunIs
<1>3. handler'[c] = h /\ \A d \in Caller : d # c => handler'[d] = handler[d]
  BY <1>1, CallFacts
<1>4. handler[c].pc = "none"
  BY CallFacts
<1>5. handler'[c].proc \in 0..made
  BY <1>2, <1>3, CallFacts
<1> QED
  BY <1>3, <1>4, <1>5, OneCall

LEMMA SendNowAgents ==
  ASSUME ChatInv, NEW c \in Caller, NEW m \in ChatMessage, SendNow(c, m)
  PROVE  AgentsInv'
<1>1. /\ Queued(m) /\ chat' = Unqueued(m) /\ UNCHANGED <<task, lock, alive, made, stray, written>>
      /\ handler[c] = NoHandler /\ handler' = [handler EXCEPT ![c] = Begun("send_now", m)]
  BY DEF SendNow, agents, fates
<1>2. chat'.conn = chat.conn /\ chat'.idle = chat.idle /\ chat'.turn = chat.turn
  BY <1>1, CallFacts, LeavesQueue
<1>3. "send_now" \in {"send_now", "stop", "delete", "restart"} /\ m \in {None} \cup ChatMessage
  OBVIOUS
<1>4. /\ \A d \in Caller : handler'[d].proc \in 0..made
      /\ \A d \in Caller : handler[d].pc \in {"closing", "ending"} =>
                              handler'[d] = handler[d] \/ handler[d].proc \notin alive'
      /\ \A d \in Caller : handler[d].pc = "cancelling" => handler'[d] = handler[d]
  BY <1>1, <1>3, BegunCall
<1> QED
  BY <1>1, <1>2, <1>4, QuietAgents

LEMMA AsksAgents ==
  ASSUME ChatInv, NEW c \in Caller, NEW op \in {"stop", "delete", "restart"}, Asks(c, op)
  PROVE  AgentsInv'
<1>1. /\ UNCHANGED <<chat, task, lock, alive, made, stray>>
      /\ handler[c] = NoHandler /\ handler' = [handler EXCEPT ![c] = Begun(op, None)]
  BY DEF Asks, agents
<1>2. op \in {"send_now", "stop", "delete", "restart"} /\ None \in {None} \cup ChatMessage
  OBVIOUS
<1>3. /\ \A d \in Caller : handler'[d].proc \in 0..made
      /\ \A d \in Caller : handler[d].pc \in {"closing", "ending"} =>
                              handler'[d] = handler[d] \/ handler[d].proc \notin alive'
      /\ \A d \in Caller : handler[d].pc = "cancelling" => handler'[d] = handler[d]
  BY <1>1, <1>2, BegunCall
<1> QED
  BY <1>1, <1>3, QuietAgents

\* A chat that is removed leaves its agent as it is.
LEMMA GoneKeeps ==
  ASSUME ChatInv, NEW c, c = chat \/ c = Unhooked(chat), Gone(c)
  PROVE  chat'.conn = c.conn /\ chat'.idle = c.idle /\ chat'.turn = c.turn
<1>1. c \in Chats
  BY CallFacts, TalkKept
<1>2. PICK f : f = FALSE
  OBVIOUS
<1>3. PICK d : d = chat'
  OBVIOUS
<1>4. d = ChatRecord(f, c.queue, c.said, c.turn, c.stopped, c.conn, c.session, c.idle, c.timer)
  BY <1>1, <1>2, <1>3, ChatGoes DEF Gone
<1>5. d.conn = c.conn /\ d.idle = c.idle /\ d.turn = c.turn
  BY <1>4 DEF ChatRecord
<1> QED
  BY <1>3, <1>5

LEMMA StopsAgents ==
  ASSUME ChatInv, NEW c \in Caller, Stops(c), handler[c].pc \in {"begin", "after"},
         UNCHANGED <<task, lock, stray, made, alive>>
  PROVE  AgentsInv'
<1>0. chat \in Chats /\ Unhooked(chat).conn = None
  BY CallFacts, TalkKept
<1>1. CASE chat.conn = None
  <2>1. Stopped(c)
    BY <1>1 DEF Stops
  <2>2. PICK u : u = Unhooked(chat)
    OBVIOUS
  <2>3. Gone(u) \/ chat' = u
    BY <2>1, <2>2 DEF Stopped
  <2>4. chat'.conn = None
    BY <1>0, <2>2, <2>3, GoneKeeps
  <2>5. handler' = [handler EXCEPT ![c] = NoHandler]
    BY <2>1 DEF Stopped
  <2>6. handler[c].pc \in {"closing", "ending"} => handler[c].proc \notin alive'
    OBVIOUS
  <2>7. /\ \A d \in Caller : handler'[d].proc \in 0..made
        /\ \A d \in Caller : handler[d].pc \in {"closing", "ending"} =>
                                handler'[d] = handler[d] \/ handler[d].proc \notin alive'
        /\ \A d \in Caller : handler[d].pc = "cancelling" => handler'[d] = handler[d]
    BY <2>5, <2>6, EndedCall
  <2>8. chat.conn \notin alive
    BY <1>1, CallFacts
  <2> QED
    BY <2>4, <2>7, <2>8, UnhooksAgents
<1>2. CASE chat.conn # None
  <2>1. chat' = Unhooked(chat) /\ handler' = [handler EXCEPT ![c].pc = "closing", ![c].proc = chat.conn]
    BY <1>2 DEF Stops
  <2>2. HandMoves(c, "closing", handler[c].on, chat.conn)
    BY <2>1, CallFacts, HandFacts, CallMoves
  <2>3. chat.conn \in 0..made
    BY CallFacts
  <2>4. handler[c].pc \in {"closing", "ending"} => handler[c].proc \notin alive'
    OBVIOUS
  <2>5. /\ \A d \in Caller : handler'[d].proc \in 0..made
        /\ \A d \in Caller : handler[d].pc \in {"closing", "ending"} =>
                                handler'[d] = handler[d] \/ handler[d].proc \notin alive'
        /\ \A d \in Caller : handler[d].pc = "cancelling" => handler'[d] = handler[d]
        /\ chat.conn \in Closing'
    BY <2>2, <2>3, <2>4, MovedCall
  <2>6. chat'.conn = None
    BY <1>0, <2>1
  <2> QED
    BY <2>5, <2>6, UnhooksAgents
<1> QED
  BY <1>1, <1>2

\* A cancel strikes down the turn that has not asked yet, and waits for it.
LEMMA StrikesAgents ==
  ASSUME ChatInv, NEW c \in Caller, Working, HandMoves(c, "cancelling", chat.turn, handler[c].proc),
         handler[c].pc = "begin", chat' = [chat EXCEPT !.stopped = TRUE],
         task' = [task EXCEPT ![chat.turn].hit = TRUE],
         UNCHANGED <<lock, stray, made, alive>>
  PROVE  AgentsInv'
<1>0. /\ Base /\ Locking /\ Procs /\ WarmUp /\ Hits /\ AgentsOwned /\ WillArm
      /\ Warm \in Turn /\ Warm \notin ChatMessage /\ ChatMessage \subseteq Turn
  BY LockFacts DEF ChatInv, AgentsInv
<1>1. PICK t \in ChatMessage : t = chat.turn
  BY MessageFacts DEF ChatInv, Working, Chats
<1>2. t \in Turn /\ t # Warm /\ Active(t) /\ t # None
  BY <1>0, <1>1 DEF Working
<1>3. /\ task'[t].pc = task[t].pc /\ task'[t].proc = task[t].proc /\ task'[t].hit
      /\ \A s \in Turn : s # t => task'[s] = task[s]
  BY <1>0, <1>1, <1>2, TurnHits
<1>4. \A s \in Turn : task'[s].pc = task[s].pc /\ task'[s].proc = task[s].proc
  BY <1>3
<1>5. chat'.conn = chat.conn /\ chat'.idle = chat.idle /\ chat'.turn = chat.turn
  BY CallFacts, ChatEdits
<1>6. /\ handler'[c].pc = "cancelling" /\ handler'[c].on = t /\ handler'[c].proc = handler[c].proc
      /\ \A d \in Caller : d # c => handler'[d] = handler[d]
  BY <1>1 DEF HandMoves
<1>7. AwaitedBy(c, t)'
  BY <1>6 DEF AwaitedBy
<1>8. Locking'
  BY <1>0, <1>4, <1>5 DEF Locking
<1>9. Procs'
  BY <1>0, <1>4, <1>5, <1>6 DEF Procs
<1>10. WarmUp'
  BY <1>0, <1>2, <1>3 DEF WarmUp
<1>11. \A d \in Caller, m \in ChatMessage : AwaitedBy(d, m) => AwaitedBy(d, m)'
  BY <1>6 DEF AwaitedBy
<1>12. Hits'
  <2> SUFFICES ASSUME NEW m \in ChatMessage, Active(m)', task'[m].hit PROVE \E b \in Caller : AwaitedBy(b, m)'
    BY DEF Hits
  <2>1. CASE m = t
    BY <1>7, <2>1
  <2>2. CASE m # t
    <3>1. Active(m) /\ task[m].hit
      BY <1>0, <1>3, <2>2 DEF Active
    <3>2. PICK b \in Caller : AwaitedBy(b, m)
      BY <1>0, <3>1 DEF Hits
    <3> QED
      BY <1>11, <3>2
  <2> QED
    BY <2>1, <2>2
<1>13. AgentsOwned'
  <2> SUFFICES ASSUME NEW p \in alive \ stray, p # chat.conn PROVE p \in Closing'
    BY <1>5 DEF AgentsOwned
  <2>1. p \in Closing
    BY <1>0 DEF AgentsOwned
  <2>2. CASE p \in {handler[b].proc : b \in {d \in Caller : handler[d].pc \in {"closing", "ending"}}}
    <3>1. PICK b \in Caller : handler[b].pc \in {"closing", "ending"} /\ handler[b].proc = p
      BY <2>2
    <3>2. handler'[b] = handler[b]
      BY <1>6, <3>1
    <3> QED
      BY <3>1, <3>2 DEF Closing
  <2>3. CASE p \in {task[s].proc : s \in {r \in Turn : task[r].pc \in {"replacing", "failing"}}}
    <3>1. PICK s \in Turn : task[s].pc \in {"replacing", "failing"} /\ task[s].proc = p
      BY <2>3
    <3>2. task'[s].pc \in {"replacing", "failing"} /\ task'[s].proc = p
      BY <1>4, <3>1
    <3> QED
      BY <3>2 DEF Closing
  <2> QED
    BY <2>1, <2>2, <2>3 DEF Closing
<1>14. Armer'
  <2>1. Active(t)'
    BY <1>2, <1>3 DEF Active
  <2>2. CASE Struck(t)'
    <3>1. task'[chat'.turn].pc = "dead" \/ Struck(chat.turn)'
      BY <1>1, <1>5, <2>2 DEF Struck
    <3>2. AwaitedBy(c, chat.turn)'
      BY <1>1, <1>5, <1>7 DEF AwaitedBy
    <3>3. Unclosed'
      BY <1>1, <1>2, <1>5, <3>1, <3>2 DEF Unclosed
    <3> QED
      BY <3>3 DEF Armer
  <2>3. CASE ~Struck(t)'
    BY <2>1, <2>3 DEF Armer
  <2> QED
    BY <2>2, <2>3
<1> QED
  BY <1>8, <1>9, <1>10, <1>12, <1>13, <1>14 DEF AgentsInv, WillArm

LEMMA BeginsAgents ==
  ASSUME ChatInv, NEW c \in Caller, Begins(c)
  PROVE  AgentsInv'
<1>1. handler[c].pc = "begin" /\ UNCHANGED <<lock, alive, made, stray>>
  BY DEF Begins
<1>2. Base /\ handler[c].proc \in 0..made
  BY CallFacts
<1>3. handler[c].pc \in {"closing", "ending"} => handler[c].proc \notin alive'
  BY <1>1
<1>4. CASE handler[c].op = "restart"
  BY <1>1, <1>4, StopsAgents DEF Begins
<1>5. CASE handler[c].op # "restart" /\ ~Working
  <2>1. handler' = [handler EXCEPT ![c].pc = "after"] /\ UNCHANGED <<chat, task>>
    BY <1>5 DEF Begins
  <2>2. HandMoves(c, "after", handler[c].on, handler[c].proc)
    BY <1>2, <2>1, HandFacts, CallMoves
  <2>3. /\ \A d \in Caller : handler'[d].proc \in 0..made
        /\ \A d \in Caller : handler[d].pc \in {"closing", "ending"} =>
                                handler'[d] = handler[d] \/ handler[d].proc \notin alive'
        /\ \A d \in Caller : handler[d].pc = "cancelling" => handler'[d] = handler[d]
    BY <1>1, <1>2, <1>3, <2>2, MovedCall
  <2> QED
    BY <1>1, <2>1, <2>3, QuietAgents
<1>6. CASE handler[c].op # "restart" /\ Working
  <2>1. /\ handler' = [handler EXCEPT ![c].pc = "cancelling", ![c].on = chat.turn]
        /\ \/ UNCHANGED <<chat, task>>
           \/ chat' = [chat EXCEPT !.stopped = TRUE] /\ task' = [task EXCEPT ![chat.turn].hit = TRUE]
    BY <1>6 DEF Begins
  <2>2. chat.turn \in {None} \cup ChatMessage /\ chat.turn \in Nat
    BY CallFacts DEF Chats, ChatMessage, None
  <2>3. HandMoves(c, "cancelling", chat.turn, handler[c].proc)
    BY <1>2, <2>1, <2>2, HandFacts, CallMoves
  <2>4. CASE UNCHANGED <<chat, task>>
    <3>1. /\ \A d \in Caller : handler'[d].proc \in 0..made
          /\ \A d \in Caller : handler[d].pc \in {"closing", "ending"} =>
                                  handler'[d] = handler[d] \/ handler[d].proc \notin alive'
          /\ \A d \in Caller : handler[d].pc = "cancelling" => handler'[d] = handler[d]
      BY <1>1, <1>2, <1>3, <2>3, MovedCall
    <3> QED
      BY <1>1, <2>4, <3>1, QuietAgents
  <2>5. CASE chat' = [chat EXCEPT !.stopped = TRUE] /\ task' = [task EXCEPT ![chat.turn].hit = TRUE]
    BY <1>1, <1>6, <2>3, <2>5, StrikesAgents
  <2> QED
    BY <2>1, <2>4, <2>5
<1> QED
  BY <1>4, <1>5, <1>6

LEMMA TurnOverAgents ==
  ASSUME ChatInv, NEW c \in Caller, TurnOver(c)
  PROVE  AgentsInv'
<1>1. /\ handler[c].pc = "cancelling" /\ ~Active(handler[c].on)
             /\ UNCHANGED <<task, lock, alive, made, stray>>
             BY DEF TurnOver, agents
<1>2. Base /\ handler[c].proc \in 0..made /\ chat \in Chats /\ task' \in [Turn -> Tasks]
  BY <1>1, CallFacts
<1>3. PICK on : on = handler[c].on
  OBVIOUS
<1>4. /\ \A d \in Caller : d # c => handler'[d] = handler[d]
      /\ handler'[c].proc \in 0..made
  <2>1. CASE handler' = [handler EXCEPT ![c].pc = "after"]
    <3>1. HandMoves(c, "after", handler[c].on, handler[c].proc)
      BY <1>2, <2>1, HandFacts, CallMoves
    <3> QED
      BY <1>2, <3>1 DEF HandMoves
  <2>2. CASE handler' = [handler EXCEPT ![c] = NoHandler]
    BY <2>2, CallFacts
  <2> QED
    BY <2>1, <2>2 DEF TurnOver
<1>5. handler[c].pc \in {"closing", "ending"} => handler[c].proc \notin alive'
  BY <1>1
<1>6. /\ \A d \in Caller : handler'[d].proc \in 0..made
      /\ \A d \in Caller : handler[d].pc \in {"closing", "ending"} =>
                              handler'[d] = handler[d] \/ handler[d].proc \notin alive'
  BY <1>4, <1>5, OneCall
<1>7. \A d \in Caller : handler[d].pc = "cancelling" =>
                           handler'[d] = handler[d] \/ ~(Active(handler[d].on) /\ task[handler[d].on].hit)
  BY <1>1, <1>4
<1>8. \A t \in Turn : task'[t] = task[t]
  BY <1>1
<1>9. UNCHANGED <<lock, stray, made>> /\ alive' \subseteq alive
  BY <1>1
<1>10. CASE chat' = Armed(chat)
  <2>1. chat'.conn = chat.conn /\ chat'.idle = (chat.conn \in alive)
    BY <1>2, <1>10, TalkKept
  <2>2. chat'.idle = (chat'.conn \in alive)
    BY <2>1
  <2> QED
    BY <1>2, <1>6, <1>7, <1>8, <1>9, <2>1, <2>2, HandsAgents
<1>11. CASE chat' = chat /\ ~(task[on].pc = "dead" /\ task[chat.turn].pc = "dead")
  <2>1. \A d \in Caller : AwaitedBy(d, chat.turn) /\ (task[chat.turn].pc = "dead" \/ Struck(chat.turn))
                            => handler'[d] = handler[d]
    <3> SUFFICES ASSUME AwaitedBy(c, chat.turn), task[chat.turn].pc = "dead" \/ Struck(chat.turn) PROVE FALSE
      BY <1>4
    <3>1. on = chat.turn
      BY <1>3 DEF AwaitedBy
    <3>2. ~Struck(on)
      BY <1>1, <1>3 DEF Struck, Active
    <3> QED
      BY <1>11, <3>1, <3>2
  <2>2. \A m \in ChatMessage : task'[m] = task[m]
    BY <1>1
  <2>3. chat'.conn = chat.conn /\ chat'.idle = chat.idle /\ chat'.turn = chat.turn
    BY <1>11
  <2> QED
    BY <1>2, <1>6, <1>7, <1>8, <1>9, <2>1, <2>2, <2>3, HandsAgents
<1> QED
  BY <1>3, <1>10, <1>11 DEF TurnOver

LEMMA TimesOutAgents ==
  ASSUME ChatInv, NEW c \in Caller, TimesOut(c)
  PROVE  AgentsInv'
<1>1. PICK pc \in {"after", "ending"} : pc = IF chat.conn = None THEN "after" ELSE "ending"
  OBVIOUS
<1>2. /\ handler[c].pc = "cancelling" /\ chat' = Unhooked(chat) /\ ~task[handler[c].on].hit
      /\ handler' = [handler EXCEPT ![c].pc = pc, ![c].proc = chat.conn]
      /\ UNCHANGED <<task, lock, alive, made, stray>>
  BY <1>1 DEF TimesOut, agents
<1>3. pc \in HandPcs
  BY DEF HandPcs
<1>4. HandMoves(c, pc, handler[c].on, chat.conn)
  BY <1>2, <1>3, CallFacts, HandFacts, CallMoves
<1>5. handler[c].pc \in {"closing", "ending"} => handler[c].proc \notin alive'
  BY <1>2
<1>6. chat.conn \in 0..made
  BY CallFacts
<1>7. /\ \A d \in Caller : handler'[d].proc \in 0..made
      /\ \A d \in Caller : handler[d].pc \in {"closing", "ending"} =>
                              handler'[d] = handler[d] \/ handler[d].proc \notin alive'
      /\ \A d \in Caller : d # c => handler'[d] = handler[d]
      /\ pc \in {"closing", "ending"} => chat.conn \in Closing'
  BY <1>4, <1>5, <1>6, MovedCall
<1>8. \A d \in Caller : handler[d].pc = "cancelling" =>
                           handler'[d] = handler[d] \/ ~(Active(handler[d].on) /\ task[handler[d].on].hit)
  BY <1>2, <1>7
<1>9. chat.conn \in alive => chat.conn \in Closing'
  BY <1>1, <1>7, CallFacts
<1>10. chat'.conn = None
  BY <1>2, CallFacts, TalkKept
<1> QED
  BY <1>2, <1>7, <1>8, <1>9, <1>10, UnhooksAgents

LEMMA AgentEndedAgents ==
  ASSUME ChatInv, NEW c \in Caller, AgentEnded(c)
  PROVE  AgentsInv'
<1>1. /\ handler[c].pc = "ending" /\ handler[c].proc \notin alive
      /\ handler' = [handler EXCEPT ![c].pc = "after", ![c].proc = None]
      /\ UNCHANGED <<chat, task, lock, alive, made, stray>>
  BY DEF AgentEnded, agents
<1>2. HandMoves(c, "after", handler[c].on, None)
  BY <1>1, CallFacts, HandFacts, CallMoves
<1>3. handler[c].pc \in {"closing", "ending"} => handler[c].proc \notin alive'
  BY <1>1
<1>4. None \in 0..made
  BY CallFacts
<1>5. /\ \A d \in Caller : handler'[d].proc \in 0..made
      /\ \A d \in Caller : handler[d].pc \in {"closing", "ending"} =>
                              handler'[d] = handler[d] \/ handler[d].proc \notin alive'
      /\ \A d \in Caller : handler[d].pc = "cancelling" => handler'[d] = handler[d]
  BY <1>1, <1>2, <1>3, <1>4, MovedCall
<1> QED
  BY <1>1, <1>5, QuietAgents

LEMMA FollowsAgents ==
  ASSUME ChatInv, NEW c \in Caller, Follows(c)
  PROVE  AgentsInv'
<1>1. handler[c].pc = "after" /\ UNCHANGED <<lock, alive, made, stray>>
  BY DEF Follows, agents
<1>2. handler[c].pc \in {"closing", "ending"} => handler[c].proc \notin alive'
  BY <1>1
<1>3. handler' = [handler EXCEPT ![c] = NoHandler] =>
         /\ \A d \in Caller : handler'[d].proc \in 0..made
         /\ \A d \in Caller : handler[d].pc \in {"closing", "ending"} =>
                                 handler'[d] = handler[d] \/ handler[d].proc \notin alive'
         /\ \A d \in Caller : handler[d].pc = "cancelling" => handler'[d] = handler[d]
  <2> SUFFICES ASSUME handler' = [handler EXCEPT ![c] = NoHandler]
               PROVE  /\ \A d \in Caller : handler'[d].proc \in 0..made
                      /\ \A d \in Caller : handler[d].pc \in {"closing", "ending"} =>
                                              handler'[d] = handler[d] \/ handler[d].proc \notin alive'
                      /\ \A d \in Caller : handler[d].pc = "cancelling" => handler'[d] = handler[d]
    OBVIOUS
  <2> QED
    BY <1>1, <1>2, EndedCall
<1>4. CASE handler[c].op = "send_now"
  <2>1. PICK m : m = handler[c].msg
    OBVIOUS
  <2>2. /\ chat' = Started(chat, m) /\ task' = [task EXCEPT ![m] = New]
               /\ handler' = [handler EXCEPT ![c] = NoHandler]
               BY <1>4, <2>1 DEF Follows
  <2>3. m \in ChatMessage /\ m \in InHand
    <3>1. m # None /\ m \in 0..written /\ written \in Nat
      BY <1>4, <2>1, CallFacts, HandFacts, MessageFacts
    <3>2. m \in 1..written
      BY <3>1 DEF None
    <3> QED
      BY <2>1, <3>1, <3>2, CallFacts, MessageFacts DEF InHand
  <2>4. ~Active(m)
    <3>1. Unstarted(m)
      BY <2>3, CallFacts, MessageFacts DEF PlaceOf
    <3> QED
      BY <3>1 DEF Unstarted, Active, NoTask
  <2> QED
    BY <1>1, <1>3, <2>2, <2>3, <2>4, StartsAgents
<1>5. CASE handler[c].op = "delete"
  BY <1>1, <1>5, StopsAgents DEF Follows
<1>6. CASE handler[c].op # "send_now" /\ handler[c].op # "delete"
  <2>1. handler' = [handler EXCEPT ![c] = NoHandler] /\ UNCHANGED <<chat, task>>
    BY <1>6 DEF Follows
  <2> QED
    BY <1>1, <1>3, <2>1, QuietAgents
<1> QED
  BY <1>4, <1>5, <1>6

LEMMA ClosedAgents ==
  ASSUME ChatInv, NEW c \in Caller, Closed(c)
  PROVE  AgentsInv'
<1>1. /\ handler[c].pc = "closing" /\ handler[c].proc \notin alive
             /\ handler' = [handler EXCEPT ![c] = NoHandler]
             /\ UNCHANGED <<task, lock, alive, made, stray>> /\ (Gone(chat) \/ UNCHANGED chat)
  BY DEF Closed, agents
<1>2. handler[c].pc \in {"closing", "ending"} => handler[c].proc \notin alive'
  BY <1>1
<1>3. /\ \A d \in Caller : handler'[d].proc \in 0..made
      /\ \A d \in Caller : handler[d].pc \in {"closing", "ending"} =>
                              handler'[d] = handler[d] \/ handler[d].proc \notin alive'
      /\ \A d \in Caller : handler[d].pc = "cancelling" => handler'[d] = handler[d]
  BY <1>1, <1>2, EndedCall
<1>4. chat'.conn = chat.conn /\ chat'.idle = chat.idle /\ chat'.turn = chat.turn
  BY <1>1, GoneKeeps
<1> QED
  BY <1>1, <1>3, <1>4, QuietAgents

LEMMA IdleFiresAgents ==
  ASSUME ChatInv, NEW c \in Caller, IdleFires(c)
  PROVE  AgentsInv'
<1>1. PICK pc \in {"none", "closing"} : pc = IF chat.conn = None THEN "none" ELSE "closing"
  OBVIOUS
<1>2. /\ handler[c] = NoHandler /\ chat' = Unhooked(chat)
      /\ handler' = [handler EXCEPT ![c].pc = pc, ![c].proc = chat.conn]
      /\ UNCHANGED <<task, lock, alive, made, stray>>
  BY <1>1 DEF IdleFires, agents
<1>3. pc \in HandPcs /\ handler[c].pc = "none"
  BY <1>2, CallFacts DEF HandPcs
<1>4. HandMoves(c, pc, handler[c].on, chat.conn)
  BY <1>2, <1>3, CallFacts, HandFacts, CallMoves
<1>5. handler[c].pc \in {"closing", "ending"} => handler[c].proc \notin alive'
  BY <1>3
<1>6. chat.conn \in 0..made
  BY CallFacts
<1>7. /\ \A d \in Caller : handler'[d].proc \in 0..made
      /\ \A d \in Caller : handler[d].pc \in {"closing", "ending"} =>
                              handler'[d] = handler[d] \/ handler[d].proc \notin alive'
      /\ \A d \in Caller : handler[d].pc = "cancelling" => handler'[d] = handler[d]
      /\ pc \in {"closing", "ending"} => chat.conn \in Closing'
  BY <1>3, <1>4, <1>5, <1>6, MovedCall
<1>8. chat.conn \in alive => chat.conn \in Closing'
  BY <1>1, <1>7, CallFacts
<1>9. chat'.conn = None
  BY <1>2, CallFacts, TalkKept
<1> QED
  BY <1>2, <1>7, <1>8, <1>9, UnhooksAgents

LEMMA ExpiresAgents ==
  ASSUME ChatInv, Expires
  PROVE  AgentsInv'
<1>1. Gone(Unhooked(chat)) /\ chat.conn = None /\ UNCHANGED <<task, lock, alive, made, stray>>
          /\ UNCHANGED handler
  BY DEF Expires, agents
<1>2. PICK u : u = Unhooked(chat)
  OBVIOUS
<1>3. chat'.conn = None
  BY <1>1, <1>2, CallFacts, TalkKept, GoneKeeps
<1>4. chat.conn \notin alive
  BY <1>1, CallFacts
<1>5. /\ \A d \in Caller : handler'[d].proc \in 0..made
      /\ \A d \in Caller : handler[d].pc \in {"closing", "ending"} =>
                              handler'[d] = handler[d] \/ handler[d].proc \notin alive'
      /\ \A d \in Caller : handler[d].pc = "cancelling" => handler'[d] = handler[d]
  BY <1>1, SameCalls
<1> QED
  BY <1>1, <1>3, <1>4, <1>5, UnhooksAgents

LEMMA UpdatesAgents ==
  ASSUME ChatInv, NEW p, Updates(p)
  PROVE  AgentsInv'
<1>1. chat' = [chat EXCEPT !.timer = TRUE] /\ UNCHANGED <<task, lock, alive, made, stray>>
          /\ UNCHANGED handler
  BY DEF Updates, agents
<1>2. chat'.conn = chat.conn /\ chat'.idle = chat.idle /\ chat'.turn = chat.turn
  BY <1>1, CallFacts, ChatEdits
<1> QED
  BY <1>1, <1>2, SameCalls, QuietAgents

LEMMA TimerFiresAgents ==
  ASSUME ChatInv, TimerFires
  PROVE  AgentsInv'
<1>1. chat' = [chat EXCEPT !.timer = FALSE] /\ UNCHANGED <<task, lock, alive, made, stray>>
          /\ UNCHANGED handler
  BY DEF TimerFires, agents
<1>2. chat'.conn = chat.conn /\ chat'.idle = chat.idle /\ chat'.turn = chat.turn
  BY <1>1, CallFacts, ChatEdits
<1> QED
  BY <1>1, <1>2, SameCalls, QuietAgents

LEMMA ExitsAgents ==
  ASSUME ChatInv, NEW p, Exits(p)
  PROVE  AgentsInv'
<1>1. alive' \subseteq alive /\ UNCHANGED <<chat, task, lock, made, stray>> /\ UNCHANGED handler
  BY DEF Exits
<1> QED
  BY <1>1, SameCalls, QuietAgents

LEMMA ChatRestartAgents ==
  ASSUME ChatInv, ChatRestart
  PROVE  AgentsInv'
<1>1. /\ chat' = Loaded /\ lock' = Free /\ task' = [t \in Turn |-> NoTask]
             /\ handler' = [c \in Caller |-> NoHandler]
             /\ stray' = alive' /\ made' = made
  BY DEF ChatRestart
<1>2. disk \in Disks
  BY CallFacts DEF Base, ChatPlain
<1>3. chat'.conn = None
  BY <1>1, <1>2, LoadedIs
<1>4. NoTask.pc = "none" /\ NoTask.proc = None /\ ~NoTask.hit
  BY DEF NoTask
<1>5. \A t \in Turn : task'[t].pc = "none" /\ task'[t].proc = None /\ ~task'[t].hit
  BY <1>1, <1>4
<1>6. Free \notin Turn /\ Warm \in Turn /\ ChatMessage \subseteq Turn
  BY CallFacts, LockFacts
<1>7. Locking'
  BY <1>1, <1>5, <1>6 DEF Locking, Locks
<1>8. Procs'
  BY <1>1, <1>3, <1>5, CallFacts DEF Procs
<1>9. WarmUp'
  BY <1>5, <1>6 DEF WarmUp
<1>10. Hits'
  BY <1>5, <1>6 DEF Hits
<1>11. AgentsOwned' /\ WillArm'
  BY <1>1 DEF AgentsOwned, WillArm
<1> QED
  BY <1>7, <1>8, <1>9, <1>10, <1>11 DEF AgentsInv

LEMMA ChatInitAgents ==
  ASSUME ChatInit, Base
  PROVE  AgentsInv
<1>1. /\ chat = Loaded /\ lock = Free /\ task = [t \in Turn |-> IF t = Warm THEN New ELSE NoTask]
      /\ handler = [c \in Caller |-> NoHandler] /\ alive = {} /\ made = 0
  BY DEF ChatInit
<1>2. chat.conn = None
  BY <1>1, LoadedIs DEF Base, ChatPlain
<1>3. NoTask.pc = "none" /\ NoTask.proc = None /\ ~NoTask.hit
  BY DEF NoTask
<1>4. \A t \in Turn : task[t].pc \in {"none", "new"} /\ task[t].proc = None /\ ~task[t].hit
  BY <1>1, <1>3, NewFacts
<1>5. Free \notin Turn /\ Warm \in Turn /\ ChatMessage \subseteq Turn
  BY LockFacts
<1>6. Locking
  BY <1>1, <1>4, <1>5 DEF Locking, Locks
<1>7. Procs
  BY <1>1, <1>2, <1>4, NoHandlerIs DEF Procs, None
<1>8. WarmUp
  BY <1>4, <1>5 DEF WarmUp
<1>9. Hits
  BY <1>4, <1>5 DEF Hits
<1>10. AgentsOwned /\ WillArm
  BY <1>1 DEF AgentsOwned, WillArm
<1> QED
  BY <1>6, <1>7, <1>8, <1>9, <1>10 DEF AgentsInv

LEMMA ChatNextAgents ==
  ASSUME ChatInv, [ChatNext]_chatVars
  PROVE  AgentsInv'
<1>1. CASE SaveRecord \/ Prompt \/ Connect \/ Expires \/ TimerFires \/ ChatRestart
  BY <1>1, SaveRecordAgents, PromptAgents, ConnectAgents, ExpiresAgents, TimerFiresAgents, ChatRestartAgents
<1>2. CASE \E t \in Turn : \/ WaitsForLock(t) \/ Enters(t) \/ Replaced(t) \/ StartFails(t)
                           \/ AgentStarts(t) \/ Opened(t) \/ NotSignedIn(t) \/ OpenFails(t)
                           \/ Chosen(t) \/ Failed(t)
  BY <1>2, WaitsForLockAgents, EntersAgents, ReplacedAgents, StartFailsAgents, AgentStartsAgents,
     OpenedAgents,
     NotSignedInAgents, OpenFailsAgents, ChosenAgents, FailedAgents
<1>3. CASE \E m \in ChatMessage : Answers(m) \/ AnswerFails(m) \/ Cancelled(m) \/ TakeBack(m)
  BY <1>3, AnswersAgents, AnswerFailsAgents, CancelledAgents, TakeBackAgents
<1>4. CASE \E c \in Caller : \/ \E m \in ChatMessage : SendNow(c, m)
                             \/ \E op \in {"stop", "delete", "restart"} : Asks(c, op)
  BY <1>4, SendNowAgents, AsksAgents
<1>5. CASE \E c \in Caller : \/ Begins(c) \/ TurnOver(c) \/ TimesOut(c) \/ AgentEnded(c) \/ Follows(c)
                             \/ Closed(c) \/ IdleFires(c)
  BY <1>5, BeginsAgents, TurnOverAgents, TimesOutAgents, AgentEndedAgents, FollowsAgents, ClosedAgents,
     IdleFiresAgents
<1>6. CASE \E p \in 1..MaxAgents : Updates(p) \/ Exits(p)
  BY <1>6, UpdatesAgents, ExitsAgents
<1>7. CASE UNCHANGED chatVars
  <2>1. UNCHANGED <<chat, task, lock, alive, made, stray>> /\ UNCHANGED handler
    BY <1>7 DEF chatVars, agents
  <2> QED
    BY <2>1, SameCalls, QuietAgents
<1> QED
  BY <1>1, <1>2, <1>3, <1>4, <1>5, <1>6, <1>7 DEF ChatNext

LEMMA ChatInvHolds == ChatSpec => []ChatInv
<1>1. ChatInit => ChatInv
  BY ChatInitBase, ChatInitAgents DEF ChatInv
<1>2. ChatInv /\ [ChatNext]_chatVars => ChatInv'
  <2> SUFFICES ASSUME ChatInv, [ChatNext]_chatVars PROVE ChatInv'
    OBVIOUS
  <2>1. Base'
    BY ChatNextBase DEF ChatInv
  <2>2. AgentsInv'
    BY ChatNextAgents
  <2> QED
    BY <2>1, <2>2 DEF ChatInv
<1> QED
  BY <1>1, <1>2, PTL DEF ChatSpec

\* A chat, its tasks, calls and files keep their types, and who starts an agent holds the lock
\* (chat_sessions.py:1193).
THEOREM ChatTypeCorrect == ChatSpec => []ChatTypes
<1>1. ChatInv => ChatTypes
  <2> SUFFICES ASSUME ChatInv PROVE ChatTypes
    OBVIOUS
  <2>1. Base /\ Locking /\ Procs
    BY DEF ChatInv, AgentsInv
  <2>2. chat.turn \in {None} \cup ChatMessage /\ chat.conn \in 0..made /\ written \in 0..MaxChatMessages
    BY <2>1, CallFacts DEF Chats, Base, ChatPlain
  <2>3. InOrder(chat.queue) /\ InOrder(disk.record.queue)
    BY <2>1 DEF Base, MessagesInv, Lists, OnDisk
  <2>4. chat.said \cup disk.said \cup dropped \cup lost \subseteq 1..written
    BY <2>1 DEF Base, MessagesInv, Lists, OnDisk
  <2>5. \A t \in Turn : /\ task[t].proc \in 0..made
                        /\ task[t].pc \in {"replacing", "starting", "opening", "choosing"} <=> lock = t
    BY <2>1 DEF Procs, Locking, Locks
  <2>6. \A c \in Caller : /\ handler[c].proc \in 0..made
                          /\ handler[c].msg \in 0..written /\ handler[c].on \in 0..written
    BY <2>1, HandFacts DEF Procs
  <2> QED
    BY <2>2, <2>3, <2>4, <2>5, <2>6 DEF ChatTypes, InOrder
<1> QED
  BY <1>1, ChatInvHolds, PTL

\* No agent process is left without one who will end it (chat_sessions.py:43, :1192-1255, :1318-1340,
\* :1387-1394).
THEOREM AgentsAccountedHolds == ChatSpec => []AgentsAccounted
<1>1. ChatInv => AgentsAccounted
  <2> SUFFICES ASSUME ChatInv, NEW p \in alive \ stray
               PROVE  /\ p = chat.conn \/ p \in Closing
                      /\ /\ p = chat.conn
                         /\ \A t \in Turn : ~Active(t)
                         /\ \A c \in Caller : handler[c] = NoHandler
                         => chat.idle
    BY DEF AgentsAccounted
  <2>1. p = chat.conn \/ p \in Closing
    BY DEF ChatInv, AgentsInv, AgentsOwned
  <2>2. ASSUME p = chat.conn, \A t \in Turn : ~Active(t), \A c \in Caller : handler[c] = NoHandler
        PROVE  chat.idle
    <3>1. ChatMessage \subseteq Turn /\ Warm \in Turn
      BY CallFacts, LockFacts
    <3>2. ~Unclosed
      BY <2>2, CallFacts DEF Unclosed, AwaitedBy
    <3>3. ~WarmsUp
      BY <2>2, <3>1 DEF WarmsUp, Active
    <3>4. ~Armer
      BY <2>2, <3>1, <3>2, <3>3 DEF Armer
    <3> QED
      BY <2>2, <3>4 DEF ChatInv, AgentsInv, WillArm
  <2> QED
    BY <2>1, <2>2
<1> QED
  BY <1>1, ChatInvHolds, PTL
==============================================================================
