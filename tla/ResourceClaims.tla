--------------------------- MODULE ResourceClaims ---------------------------
(***************************************************************************)
(* Resource claims and when two of them conflict (agent_admission.py,      *)
(* normalize_claims to resources_conflict).                                *)
(*                                                                         *)
(* A claim is a record [kind, id, mode].  An id is a tuple of names:       *)
(*   - a canonical path, one name per component, for the path kinds;       *)
(*   - <<app>> for a native application, <<app, window>> for a window      *)
(*     namespaced as "<app>:<window>", <<window>> for one that is not;     *)
(*   - <<name>> for a browser tab, a process or the clipboard.             *)
(* normalize_claims sorts a list and drops duplicates: a set of claims.    *)
(***************************************************************************)
EXTENDS Naturals, SequencesExt

PathKind  == {"workspace", "path", "file"}
ClaimKind == PathKind \cup
             {"browser_tab", "native_app", "native_window", "process", "clipboard"}
ClaimMode == {"read", "write"}

\* Path.relative_to succeeds in one direction: equal, or one an ancestor of the other.
PathOverlap(p, q) == IsPrefix(p, q) \/ IsPrefix(q, p)

\* The application `app` owns the window `win` ("<app>:" is a prefix of its id).
OwnsWindow(app, win) == /\ app.kind = "native_app"
                        /\ win.kind = "native_window"
                        /\ IsStrictPrefix(app.id, win.id)

ClaimsConflict(c, d) ==
    /\ ~(c.mode = "read" /\ d.mode = "read")
    /\ \/ c.kind \in PathKind /\ d.kind \in PathKind /\ PathOverlap(c.id, d.id)
       \/ c.kind = d.kind /\ c.kind \notin PathKind /\ c.id = d.id
       \/ OwnsWindow(c, d)
       \/ OwnsWindow(d, c)

ResourcesConflict(C, D) == \E c \in C, d \in D : ClaimsConflict(c, d)
=============================================================================
