--------------------------- MODULE LeaseOwnership ---------------------------
(***************************************************************************)
(* What the admission service promises about resources, without queue,     *)
(* capacity or clocks: a holding is granted, or grows, only when it        *)
(* conflicts with nothing another owner holds; a holding disappears at any *)
(* time; and a holding is handed over, from whoever had it, only to an     *)
(* agent that has no other.                                                *)
(***************************************************************************)
CONSTANTS None,            \* the agent of a holding no agent is bound to
          Conflict(_, _)   \* two sets of claims conflict

VARIABLE held          \* a set of [id, agent, claims]

\* Two holdings have one owner when they are the same one, or one agent's.
SameOwner(h, k) == h.id = k.id \/ (h.agent = k.agent /\ h.agent # None)

Init == held = {}

\* Holding h appears, or replaces the one with its id; some others are dropped.
Grant(h, kept) ==
    /\ kept \subseteq held
    /\ \A k \in kept : k.id # h.id
    /\ \A k \in held : k.id = h.id => k.agent = h.agent /\ k.claims \subseteq h.claims
    /\ \A k \in kept : Conflict(h.claims, k.claims) => SameOwner(h, k)
    /\ held' = kept \cup {h}

\* A holding, an agent's or nobody's, becomes the property of agent h.agent, its
\* claims unchanged.
HandOver(h, kept) ==
    /\ kept \subseteq held
    /\ \A k \in kept : k.id # h.id
    /\ \E old \in held : old.id = h.id /\ old.claims = h.claims
    /\ \A k \in kept : k.agent # h.agent
    /\ held' = kept \cup {h}

Drop == held' \subseteq held

Next == \/ Drop
        \/ \E h \in held' : \/ Grant(h, held' \ {h})
                            \/ HandOver(h, held' \ {h})

Spec == Init /\ [][Next]_held

\* Two owners never hold conflicting claims.
Exclusive == \A h, k \in held : Conflict(h.claims, k.claims) => SameOwner(h, k)
=============================================================================
