--------------------------- MODULE MCConversations ---------------------------
(***************************************************************************)
(* What agents are told, by the owner and by each other, in one run;       *)
(* `part` picks one of three machines that share no state.                 *)
(*   "steering"  two conversations, one of them a transport that may go,   *)
(*               two calls at once, three presses of Send, every limit at  *)
(*               1, one restart of the server                              *)
(*   "room"      two agents of one task, one after the other, and a task   *)
(*               that waits for it; two messages, a page of one; the first *)
(*               agent reads and has messages pushed to it, the second     *)
(*               only comes and goes                                       *)
(*   "chat"      one chat: two messages, two other calls, two of them or   *)
(*               of the idle timers at once, two agent processes, one upset*)
(***************************************************************************)
EXTENDS Steering, TeamMessages, Chat, TLC

CONSTANTS k1, k2, c1, c2, a1, a2, t1, t2, lead, everyone, nobody, o1, o2, p1, p2

VARIABLE part

MCTaskOf     == [a \in Agent |-> t1]
MCDependents == [t \in Task |-> IF t = t1 THEN {t2} ELSE {}]

all == <<part, vars, roomVars, chatVars>>

ConversationsInit == /\ part \in {"steering", "room", "chat"}
                     /\ Init /\ RoomInit /\ ChatInit
ConversationsNext ==
    \/ part = "steering" /\ Next /\ UNCHANGED <<part, roomVars, chatVars>>
    \/ part = "room" /\ RoomNext /\ UNCHANGED <<part, vars, chatVars>>
    \/ part = "chat" /\ ChatNext /\ UNCHANGED <<part, vars, roomVars>>
ConversationsSpec == ConversationsInit /\ [][ConversationsNext]_all

\* Calls are alike, and so are those of a chat and the processes that push.
Symmetry == Permutations(Call) \cup Permutations(Caller) \cup Permutations(Pusher)
=============================================================================
