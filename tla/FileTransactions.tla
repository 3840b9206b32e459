-------------------------- MODULE FileTransactions --------------------------
(***************************************************************************)
(* The journal of reversible file changes (file_transactions.py), the file *)
(* tools that write through it (tools_files.py) and the captures of shell  *)
(* commands that are kept in it (shell_transactions.py).                   *)
(*                                                                         *)
(*   disk     what lies at each path                                       *)
(*   journal  the transaction directories: manifest and preimages.  A      *)
(*            preimage in a snapshot is the content itself, and so is a    *)
(*            fingerprint: two contents have one fingerprint exactly if    *)
(*            they are the same                                            *)
(*   made     how many transactions were made; their number is their age   *)
(*   aged     transactions older than ACTIVE_GRACE_S                       *)
(*   expired  transactions whose undo window is over                       *)
(*   file     the call that holds _FILE_OPERATION_LOCK                     *)
(*   capture  the shell command under capture                              *)
(*   restore  the rollback or undo that holds the journal's lock           *)
(*                                                                         *)
(* The journal's lock is held over the many steps of a prepare and of a    *)
(* restore; every other journal operation is one step.  What is not a file *)
(* tool (the command, the owner) writes at any time.                       *)
(***************************************************************************)
EXTENDS Naturals, Sequences, FiniteSets

CONSTANTS
    Path, Content,
    Start,           \* what may lie on disk at first
    Absent,          \* the content of a path at which nothing lies
    Large,           \* what is over _max_snapshot_bytes
    Plan,            \* the calls of the file tools, as records [mode, actions]: `mode` is
                     \* "single" (write, edit, move, delete), "batch" (all or nothing) or
                     \* "loose" (write_files_batch with atomic=False)
    Coverage,        \* the sets of paths captures of commands may cover
    CommandWrite,    \* what a command under capture writes, as pairs <<path, content>>
    OwnerWrite,      \* what the owner or another program writes
    MaxTransactions, \* MAC_MCP_FILE_JOURNAL_MAX_TRANSACTIONS
    MaxMade,         \* bound: transactions made
    MaxUpsets        \* bound: errors, crashes, steps of the clock, and what the owner does
                     \* beside the file tools

Id == 1..MaxMade
NoId == 0            \* no transaction
Idle == [id |-> NoId, pc |-> "idle", by |-> "nobody"]

\* The actions of a plan: a write or a delete of a path, or a move between two.
Act == [type : {"write", "delete"}, path : Path, content : Content]
       \cup [type : {"move"}, path : Path, to : Path]

\* What the constants must be.
PlanAssumption ==
    \A p \in Plan : /\ p = [mode |-> p.mode, actions |-> p.actions]
                    /\ p.mode \in {"single", "batch", "loose"}
                    /\ p.actions \in Seq(Act)
ConstantAssumption == /\ "unknown" \notin Content \* a fingerprint that was not taken
                      /\ Absent \in Content /\ Large \subseteq Content \ {Absent}
                      /\ Start \subseteq [Path -> Content]
                      /\ Coverage \subseteq SUBSET Path
                      /\ CommandWrite \cup OwnerWrite \subseteq Path \X Content
                      /\ MaxTransactions \in Nat \ {0} /\ MaxMade \in Nat
                      /\ MaxUpsets \in Nat
ASSUME FilesAssumption == PlanAssumption /\ ConstantAssumption

VARIABLES disk, journal, made, aged, expired, file, capture, restore,
          upsets, \* how often the outside interfered so far
          owed    \* history: what calls changed that did not come to an end yet, with
                  \* preimages taken, as <<transaction, path, content before the change>>
filesVars == <<disk, journal, made, aged, expired, file, capture, restore, upsets, owed>>
-----------------------------------------------------------------------------
SnapshotEntry == [path : Path, before : Content, post : Content \cup {"unknown"}]
Manifest == [kind : {"file", "capture", "compound"},
             state : {"preparing", "prepared", "capturing", "committed", "undone",
                      "rolled_back", "rollback_failed", "aborted"},
             undoable : BOOLEAN, snaps : Seq(SnapshotEntry), children : Seq(Id)]

Open(kind, state) == [kind |-> kind, state |-> state, undoable |-> TRUE,
                      snaps |-> <<>>, children |-> <<>>]

\* Nothing reads the preimages of a transaction in one of its last states again.
Closed(m, state) == [m EXCEPT !.state = state, !.snaps = <<>>]
Aborted(m) == [Closed(m, "aborted") EXCEPT !.undoable = FALSE]

Made == DOMAIN journal
InState(i, S) == i \in Made /\ journal[i].state \in S
Upset == upsets < MaxUpsets /\ upsets' = upsets + 1
Elements(s) == {s[k] : k \in DOMAIN s}

Targets(a) == IF a.type = "move" THEN {a.path, a.to} ELSE {a.path}
AllTargets(plan) == UNION {Targets(a) : a \in Elements(plan.actions)}

\* What a path's content becomes by an action; a move or delete of nothing is an error.
Fails(a) == a.type # "write" /\ disk[a.path] = Absent
After(a) == CASE a.type = "write"  -> [disk EXCEPT ![a.path] = a.content]
              [] a.type = "delete" -> [disk EXCEPT ![a.path] = Absent]
              [] a.type = "move"   -> [disk EXCEPT ![a.to] = disk[a.path],
                                                   ![a.path] = IF a.to = a.path THEN @ ELSE Absent]

JournalFree == restore.id = NoId /\ file.pc # "preparing"
FileFree    == file.id = NoId /\ restore.by # "tool"

\* Writes by anyone but the call itself, remembered in what is under way (history).
Noted(op, P) == IF op.id = NoId THEN op ELSE [op EXCEPT !.alien = @ \cup P]
-----------------------------------------------------------------------------
\* _prune_locked: the expired go, then the oldest removable ones while there are more than
\* MaxTransactions.  The cap on bytes removes in the same way and is left out.
Protected(J) ==
    UNION {Elements(J[c].children) : c \in {c \in DOMAIN J : /\ J[c].kind = "compound"
                                                            /\ J[c].state = "committed"
                                                            /\ c \notin expired}}

\* Mutant: the compound that is being made does not protect its children.
PrunedByEntries(J, exclude) ==
    LET rest == {i \in DOMAIN J : i = exclude \/ i \notin expired}
        free == {i \in rest \ {exclude} :
                   /\ i \notin Protected([j \in rest \ {exclude} |-> J[j]])
                   /\ \/ J[i].state \in {"committed", "undone", "rolled_back",
                                         "rollback_failed", "aborted"}
                      \/ i \in aged}
        surplus == IF Cardinality(rest) > MaxTransactions THEN Cardinality(rest) - MaxTransactions ELSE 0
    IN  [i \in rest \ {i \in free : Cardinality({j \in free : j < i}) < surplus} |-> J[i]]

\* Mutant: an open transaction is as good as a closed one.
PrunedOpenToo(J, exclude) ==
    LET rest == {i \in DOMAIN J : i = exclude \/ i \notin expired}
        free == (rest \ {exclude}) \ Protected([j \in rest |-> J[j]])
        surplus == IF Cardinality(rest) > MaxTransactions THEN Cardinality(rest) - MaxTransactions ELSE 0
    IN  [i \in rest \ {i \in free : Cardinality({j \in free : j < i}) < surplus} |-> J[i]]

Pruned(J, exclude) ==
    LET rest == {i \in DOMAIN J : i = exclude \/ i \notin expired}
        free == {i \in rest \ {exclude} :
                   /\ i \notin Protected([j \in rest |-> J[j]])
                   /\ \/ J[i].state \in {"committed", "undone", "rolled_back",
                                         "rollback_failed", "aborted"}
                      \/ i \in aged}
        surplus == IF Cardinality(rest) > MaxTransactions THEN Cardinality(rest) - MaxTransactions ELSE 0
    IN  [i \in rest \ {i \in free : Cardinality({j \in free : j < i}) < surplus} |-> J[i]]

\* prune_transactions at the start of the server, and recent_transactions.
Prune == /\ JournalFree
         /\ journal' = Pruned(journal, NoId)
         /\ UNCHANGED <<disk, made, aged, expired, file, capture, restore, upsets, owed>>

New == made + 1
Add(J, m) == [i \in DOMAIN J \cup {New} |-> IF i = New THEN m ELSE J[i]]
-----------------------------------------------------------------------------
\* A file tool takes its lock; prepare_transaction takes the journal's, prunes and writes the
\* first manifest.  When the preimages are too large, an all-or-nothing batch is refused before
\* it changes anything and any other call goes on without preimages.
Begin(plan) ==
    LET id == New
        large == \E path \in AllTargets(plan) : disk[path] \in Large
        op == [id |-> id, plan |-> plan, pc |-> "preparing", done |-> 0,
               base |-> disk, alien |-> {}]
    IN  /\ made < MaxMade /\ FileFree /\ JournalFree
        /\ made' = id
        /\ LET J == Pruned(journal, NoId) IN
             CASE ~large -> journal' = Add(J, Open("file", "preparing")) /\ file' = op
               [] large /\ plan.mode = "batch" ->
                    /\ journal' = Add(J, Aborted(Open("file", "preparing")))
                    /\ UNCHANGED file
               [] large /\ plan.mode # "batch" ->
                    /\ journal' = Add(J, [Open("file", "prepared") EXCEPT !.undoable = FALSE])
                    /\ file' = [op EXCEPT !.pc = "acting"]
        /\ UNCHANGED <<disk, aged, expired, capture, restore, upsets, owed>>

\* Mutant: the transaction counts as prepared once its first target is saved.
AllSavedEarly == Len(journal[file.id].snaps) >= 1
AllSaved == {s.path : s \in Elements(journal[file.id].snaps)} = AllTargets(file.plan)

\* The target that comes first in the order of the actions among those not saved yet.
Saved == {s.path : s \in Elements(journal[file.id].snaps)}
ComesNext(path) ==
    LET A == file.plan.actions
    IN  /\ path \notin Saved
        /\ \E k \in DOMAIN A : /\ path \in Targets(A[k])
                              /\ A[k].path \in Saved \cup {path}
                              /\ \A l \in 1..(k - 1) : Targets(A[l]) \subseteq Saved

\* One turn of the loop of prepare_transaction: the preimage of a target, then the manifest.
SavePreimage ==
    /\ file.pc = "preparing" /\ ~AllSaved
    /\ \E path \in AllTargets(file.plan) :
         /\ ComesNext(path)
         /\ journal' = [journal EXCEPT ![file.id].snaps =
                          Append(@, [path |-> path, before |-> disk[path], post |-> "unknown"])]
    /\ UNCHANGED <<disk, made, aged, expired, file, capture, restore, upsets, owed>>

\* A preimage cannot be taken: the transaction is aborted and nothing was changed.
SaveFails ==
    /\ file.pc = "preparing"
    /\ journal' = [journal EXCEPT ![file.id] = Aborted(@)]
    /\ file' = Idle
    /\ Upset
    /\ UNCHANGED <<disk, made, aged, expired, capture, restore, owed>>

Prepared ==
    /\ file.pc = "preparing" /\ AllSaved
    /\ journal' = [journal EXCEPT ![file.id].state = "prepared"]
    /\ file' = [file EXCEPT !.pc = "acting"]
    /\ UNCHANGED <<disk, made, aged, expired, capture, restore, upsets, owed>>

\* The next action of the call.
Change ==
    /\ file.pc = "acting" /\ file.done < Len(file.plan.actions)
    /\ LET a == file.plan.actions[file.done + 1]
           first == {p \in Targets(a) \ file.alien : /\ file.id \in Made /\ journal[file.id].undoable
                                                     /\ \A o \in owed : o[1] # file.id \/ o[2] # p}
       IN  /\ ~Fails(a)
           /\ disk' = After(a)
           /\ owed' = owed \cup {<<file.id, p, disk[p]>> : p \in first}
    /\ file' = [file EXCEPT !.done = @ + 1]
    /\ UNCHANGED <<journal, made, aged, expired, capture, restore, upsets>>


\* The fingerprints a commit takes of what now lies at the targets.
Committed(m) ==
    [m EXCEPT !.state = "committed",
              !.snaps = IF m.undoable
                        THEN [k \in DOMAIN @ |-> [@[k] EXCEPT !.post = disk[m.snaps[k].path]]]
                        ELSE @]

Settle(id) == owed' = {o \in owed : o[1] # id}

\* commit_transaction, at the end of the call or, for a loose batch, after an error.
Commit ==
    /\ file.pc = "acting" /\ JournalFree
    /\ file.done = Len(file.plan.actions) \/ file.plan.mode = "loose"
    /\ InState(file.id, {"prepared"})
    /\ journal' = Pruned([journal EXCEPT ![file.id] = Committed(@)], file.id)
    /\ file' = Idle /\ Settle(file.id)
    /\ UNCHANGED <<disk, made, aged, expired, capture, restore, upsets>>

\* An action fails, or a commit does: rollback_transaction, if the journal still has what it needs.
FailedCallRollsBack ==
    /\ file.pc = "acting" /\ JournalFree
    /\ file.plan.mode # "loose" \/ file.done = Len(file.plan.actions)
    /\ InState(file.id, {"prepared"})
    /\ IF journal[file.id].undoable
       THEN /\ restore' = [id |-> file.id, queue |-> <<file.id>>,
                           n |-> Len(journal[file.id].snaps), cleared |-> FALSE,
                           end |-> "rolled_back", force |-> TRUE, by |-> "call", alien |-> {}]
            /\ file' = [file EXCEPT !.pc = "rolling_back"]
            /\ UNCHANGED journal
       ELSE /\ journal' = [journal EXCEPT ![file.id] = Closed(@, "rollback_failed")]
            /\ file' = Idle
            /\ UNCHANGED restore
    /\ UNCHANGED <<disk, made, aged, expired, capture, upsets, owed>>

\* The journal cannot be read or written: the call ends with its outcome unknown.
CallBreaksOff ==
    /\ file.pc = "acting"
    /\ file' = Idle
    /\ Upset
    /\ UNCHANGED <<disk, journal, made, aged, expired, capture, restore, owed>>
-----------------------------------------------------------------------------
\* Nothing was written since the commit to what the transaction changed.
Unchanged(m) == \A k \in DOMAIN m.snaps : m.snaps[k].post = disk[m.snaps[k].path]

\* Mutant: only the newest state of each path is compared, not the history of the children.
NewestOnly(m) ==
    LET chain == [k \in DOMAIN m.children |-> journal[m.children[k]].snaps]
    IN  \A k \in DOMAIN chain : \A s \in Elements(chain[k]) :
          (\A l \in DOMAIN chain : l > k => \A t \in Elements(chain[l]) : t.path # s.path)
            => s.post = disk[s.path]

\* _preflight_compound_locked: every child can be undone, the last state of each path is the one
\* on disk, and each child found what the child before it at that path had left.
Contiguous(m) ==
    LET C == m.children
        Of(k) == Elements(journal[C[k]].snaps)
        Later(k, p) == {l \in DOMAIN C : l > k /\ \E t \in Of(l) : t.path = p}
    IN  /\ \A k \in DOMAIN C : /\ InState(C[k], {"committed"}) /\ journal[C[k]].undoable
                               /\ journal[C[k]].kind # "compound"
        /\ \A k \in DOMAIN C : \A s \in Of(k) :
             /\ Later(k, s.path) = {} => s.post = disk[s.path]
             /\ \A l \in Later(k, s.path) : \A t \in Of(l) :
                  /\ t.path = s.path
                  /\ \A o \in Later(k, s.path) : l <= o
                  => s.post = t.before

Backwards(s) == [k \in 1..Len(s) |-> s[Len(s) + 1 - k]]

\* _rollback_locked begins: over the children of a compound, the last one first.
StartRestore(i, queue, force, by) ==
    restore' = [id |-> i, queue |-> queue, n |-> Len(journal[Head(queue)].snaps),
                cleared |-> FALSE, end |-> "undone", force |-> force, by |-> by, alien |-> {}]

\* undo_file_transaction waits for _FILE_OPERATION_LOCK; the dashboard's route does not, and
\* never forces.
MayUndo(force, by) == /\ JournalFree
                      /\ IF by = "tool" THEN FileFree ELSE ~force

\* undo_transaction of a transaction of its own.
Undo(i, force, by) ==
    /\ MayUndo(force, by) /\ i \in Made
    /\ journal[i].kind # "compound" /\ journal[i].undoable
    /\ \/ /\ journal[i].state = "capturing" /\ force /\ journal[i].snaps # <<>>
          /\ journal' = [journal EXCEPT ![i].state = "prepared"]
       \/ /\ journal[i].state = "prepared" /\ force
          /\ UNCHANGED journal
       \/ /\ journal[i].state = "committed" /\ i \notin expired
          /\ force \/ Unchanged(journal[i])
          /\ UNCHANGED journal
    /\ StartRestore(i, <<i>>, force, by)
    /\ IF by = "dashboard" THEN Upset ELSE UNCHANGED upsets
    /\ UNCHANGED <<disk, made, aged, expired, file, capture, owed>>

\* A forced undo of a call that went on without preimages.
UndoWithoutPreimages(i) ==
    /\ MayUndo(TRUE, "tool") /\ InState(i, {"prepared"}) /\ ~journal[i].undoable
    /\ journal' = [journal EXCEPT ![i] = Closed(@, "rollback_failed")]
    /\ UNCHANGED <<disk, made, aged, expired, file, capture, restore, upsets, owed>>

\* _undo_compound_locked
UndoCompound(i, force, by) ==
    /\ MayUndo(force, by) /\ InState(i, {"committed"})
    /\ journal[i].kind = "compound" /\ journal[i].undoable /\ i \notin expired
    /\ force \/ Contiguous(journal[i])
    /\ LET queue == Backwards(journal[i].children)
       IN  IF InState(Head(queue), {"committed"}) /\ journal[Head(queue)].undoable
           THEN StartRestore(i, queue, force, by) /\ UNCHANGED journal
           ELSE /\ journal' = [journal EXCEPT ![i] = Closed(@, "rollback_failed")]
                /\ UNCHANGED restore
    /\ IF by = "dashboard" THEN Upset ELSE UNCHANGED upsets
    /\ UNCHANGED <<disk, made, aged, expired, file, capture, owed>>

Restoring == restore.id # NoId
Child == Head(restore.queue)
Snap  == journal[Child].snaps[restore.n]

\* _restore_snapshot: what lies at the path is removed ...
Clear ==
    /\ Restoring /\ restore.n > 0 /\ ~restore.cleared
    /\ disk' = [disk EXCEPT ![Snap.path] = Absent]
    /\ restore' = IF Snap.before = Absent THEN [restore EXCEPT !.n = @ - 1]
                                          ELSE [restore EXCEPT !.cleared = TRUE]
    /\ file' = IF restore.by = "call" THEN file ELSE Noted(file, {Snap.path})
    /\ UNCHANGED <<journal, made, aged, expired, capture, upsets, owed>>

\* ... and the preimage moved to its place.
PutBack ==
    /\ Restoring /\ restore.n > 0 /\ restore.cleared
    /\ disk' = [disk EXCEPT ![Snap.path] = Snap.before]
    /\ restore' = [restore EXCEPT !.n = @ - 1, !.cleared = FALSE]
    /\ file' = IF restore.by = "call" THEN file ELSE Noted(file, {Snap.path})
    /\ UNCHANGED <<journal, made, aged, expired, capture, upsets, owed>>

Released == IF restore.by = "call" THEN Idle ELSE file

\* The manifest of a restored transaction, and of the compound after its last child.
Restored ==
    /\ Restoring /\ restore.n = 0
    /\ LET J == [journal EXCEPT ![Child] = Closed(@, restore.end)]
           rest == Tail(restore.queue)
       IN  IF rest = <<>>
           THEN /\ journal' = [J EXCEPT ![restore.id] = Closed(@, restore.end)]
                /\ restore' = Idle /\ file' = Released
           ELSE IF Head(rest) \in Made /\ J[Head(rest)].state = "committed" /\ J[Head(rest)].undoable
           THEN /\ journal' = J
                /\ restore' = [restore EXCEPT !.queue = rest, !.n = Len(J[Head(rest)].snaps)]
                /\ UNCHANGED file
           ELSE /\ journal' = [J EXCEPT ![restore.id] = Closed(@, "rollback_failed")]
                /\ restore' = Idle /\ UNCHANGED file
    /\ Settle(restore.id)
    /\ UNCHANGED <<disk, made, aged, expired, capture, upsets>>

\* A step of the restore raises.
RestoreFails ==
    /\ Restoring
    /\ journal' = [i \in Made |-> IF i \in {Child, restore.id}
                                THEN Closed(journal[i], "rollback_failed") ELSE journal[i]]
    /\ restore' = Idle /\ file' = Released /\ Settle(restore.id)
    /\ Upset
    /\ UNCHANGED <<disk, made, aged, expired, capture>>
-----------------------------------------------------------------------------
\* compose_transactions of a transaction and a capture: the children of a compound in its place,
\* each once.  A capture is no compound.
Flat(i, c) ==
    LET first == IF journal[i].kind = "compound" THEN journal[i].children ELSE <<i>>
    IN  IF c \in Elements(first) THEN first ELSE Append(first, c)

CanJoin(i, c) ==
    /\ {i, c} \subseteq Made
    /\ \A k \in Elements(Flat(i, c)) : InState(k, {"committed"}) /\ journal[k].undoable

\* finalize_shell_capture ends by joining the command's transaction to the ones the caller
\* names; the two take the journal's lock one after the other.
Join(i) ==
    LET m == [Open("compound", "committed") EXCEPT !.children = Flat(i, capture.id)]
    IN  /\ capture.pc = "joining" /\ JournalFree /\ made < MaxMade
        /\ CanJoin(i, capture.id)
        /\ journal' = Pruned(Add(journal, m), New)
        /\ made' = New
        /\ expired' = IF Elements(m.children) \cap expired = {} THEN expired ELSE expired \cup {New}
        /\ capture' = Idle
        /\ UNCHANGED <<disk, aged, file, restore, upsets, owed>>

\* begin_shell_capture: the transaction, then the baseline.  Paths outside `covered` are over
\* a limit or excluded.
BeginCapture(covered) ==
    /\ capture.id = NoId /\ JournalFree /\ made < MaxMade
    /\ journal' = Add(Pruned(journal, NoId), Open("capture", "capturing"))
    /\ capture' = [id |-> New, base |-> disk, left |-> covered, pc |-> "running"]
    /\ made' = New
    /\ UNCHANGED <<disk, aged, expired, file, restore, upsets, owed>>

\* A limit is hit where full coverage was required, or the command does not start.
CaptureRefused ==
    /\ capture.pc = "running" /\ JournalFree
    /\ IF InState(capture.id, {"capturing", "prepared"})
       THEN journal' = [journal EXCEPT ![capture.id] = Aborted(@)]
       ELSE UNCHANGED journal
    /\ capture' = Idle
    /\ Upset
    /\ UNCHANGED <<disk, made, aged, expired, file, restore, owed>>

CommandEnds ==
    /\ capture.pc = "running"
    /\ capture' = [capture EXCEPT !.pc = "scanning"]
    /\ UNCHANGED <<disk, journal, made, aged, expired, file, restore, upsets, owed>>

\* One path of the comparison with the baseline; capture_transaction_snapshot if it differs.
Compare ==
    /\ capture.pc = "scanning" /\ capture.left # {}
    /\ LET path == CHOOSE k \in capture.left : TRUE
       IN  /\ IF disk[path] = capture.base[path] THEN UNCHANGED journal
              ELSE /\ JournalFree /\ InState(capture.id, {"capturing"})
                   /\ journal' = [journal EXCEPT ![capture.id].snaps =
                        Append(@, [path |-> path, before |-> capture.base[path], post |-> "unknown"])]
           /\ capture' = [capture EXCEPT !.left = @ \ {path}]
    /\ UNCHANGED <<disk, made, aged, expired, file, restore, upsets, owed>>

\* finalize_capture_transaction; its only caller (shell_transactions.py:805) never says "none" for the
\* reversibility, so the record stays undoable.
FinalizeCapture ==
    /\ capture.pc = "scanning" /\ capture.left = {} /\ JournalFree
    /\ InState(capture.id, {"capturing"})
    /\ journal' = Pruned([journal EXCEPT ![capture.id] = Committed(@)], capture.id)
    /\ capture' = [capture EXCEPT !.pc = "joining"]
    /\ UNCHANGED <<disk, made, aged, expired, file, restore, upsets, owed>>

\* Nothing to join, the join is refused, or an error ends the scan: the capture stays as it is.
CaptureEnds ==
    /\ capture.pc \in {"scanning", "joining"}
    /\ capture' = Idle
    /\ UNCHANGED <<disk, journal, made, aged, expired, file, restore, upsets, owed>>
-----------------------------------------------------------------------------
Overwrite(w) == /\ disk' = [disk EXCEPT ![w[1]] = w[2]]
                /\ file' = Noted(file, {w[1]}) /\ restore' = Noted(restore, {w[1]})
                /\ UNCHANGED <<journal, made, aged, expired, capture, owed>>

CommandWrites(w) == capture.pc = "running" /\ Overwrite(w) /\ UNCHANGED upsets
OwnerWrites(w)   == Overwrite(w) /\ Upset

\* Time passes.  Only of an open transaction does it matter that it is aged; the older a
\* transaction, the sooner it expires, and a compound expires with the first of its children.
Ages(i) == /\ InState(i, {"preparing", "prepared", "capturing"}) /\ i \notin aged
           /\ aged' = aged \cup {i}
           /\ Upset
           /\ UNCHANGED <<disk, journal, made, expired, file, capture, restore, owed>>

Expires(i) ==
    /\ i \in Made \ expired
    /\ expired' = expired \cup {j \in Made : j <= i \/ \E c \in Elements(journal[j].children) : c <= i}
    /\ Upset
    /\ UNCHANGED <<disk, journal, made, aged, file, capture, restore, owed>>

\* The server dies: the locks are free, the disk stays as it is.
Crash == /\ file' = Idle /\ capture' = Idle /\ restore' = Idle
         /\ Upset
         /\ UNCHANGED <<disk, journal, made, aged, expired, owed>>

FilesInit ==
    /\ disk \in Start
    /\ journal = <<>> /\ made = 0 /\ aged = {} /\ expired = {}
    /\ file = Idle /\ capture = Idle /\ restore = Idle
    /\ upsets = 0 /\ owed = {}

FilesNext ==
    \/ Prune \/ SaveFails \/ Prepared \/ Change \/ Commit \/ FailedCallRollsBack \/ CallBreaksOff
    \/ \E plan \in Plan : Begin(plan)
    \/ SavePreimage \/ Compare
    \/ \E i \in Id, by \in {"tool", "dashboard"} :
         \/ \E force \in BOOLEAN : Undo(i, force, by) \/ UndoCompound(i, force, by)
         \/ UndoWithoutPreimages(i)
    \/ Clear \/ PutBack \/ Restored \/ RestoreFails
    \/ \E covered \in Coverage : BeginCapture(covered)
    \/ CaptureRefused \/ CommandEnds \/ FinalizeCapture \/ CaptureEnds
    \/ \E i \in Id : Join(i) \/ Ages(i) \/ Expires(i)
    \/ \E w \in CommandWrite : CommandWrites(w)
    \/ \E w \in OwnerWrite : OwnerWrites(w)
    \/ Crash

FilesSpec == FilesInit /\ [][FilesNext]_filesVars
-----------------------------------------------------------------------------
\* Every manifest is one the code writes: what is committed and can be undone has a fingerprint of
\* every path, without which no undo would accept it again (file_transactions.py:1034-1036), and
\* the children of compounds are no compounds themselves.
FilesTypes ==
    /\ disk \in [Path -> Content]
    /\ made \in 0..MaxMade /\ Made \subseteq 1..made
    /\ \A i \in Made :
         /\ journal[i] \in Manifest
         /\ journal[i].state = "committed" /\ journal[i].undoable
              => \A s \in Elements(journal[i].snaps) : s.post # "unknown"
         /\ \A c \in Elements(journal[i].children) \cap Made : journal[c].kind # "compound"
    /\ aged \subseteq 1..made /\ expired \subseteq 1..made

\* What a call changed before it was cut off (a crash, a failed commit) can be restored from
\* the journal: the content each path had before is in a preimage, unless the call went on
\* without preimages or the transaction has outlived the grace of an open one
\* (file_transactions.py:520-532).
ChangesCanBeRestored ==
    \A o \in owed : \/ o[1] \in aged \cup expired
                    \/ /\ o[1] \in Made
                       /\ \E s \in Elements(journal[o[1]].snaps) : s.path = o[2] /\ s.before = o[3]

\* The transactions a compound would undo are kept as long as it can be undone.
ChildrenKept ==
    \A i \in Made : journal[i].kind = "compound" /\ journal[i].state = "committed" /\ i \notin expired
        => Elements(journal[i].children) \subseteq Made

\* A call that fails and says it was rolled back left nothing behind: every target has the
\* content it had when the call began, but for what others wrote meanwhile.
FailedCallLeavesNothing ==
    [][Restored /\ restore.by = "call"
         => \A p \in AllTargets(file.plan) \ file.alien : disk[p] = file.base[p]]_filesVars

\* An undo through the file tool that is not forced removes nothing but what the transaction
\* itself had left there, however the children of a compound overlap; only what others than
\* the file tools write during the undo itself is not seen.
UndoSparesNewerWork ==
    [][Clear /\ restore.by = "tool" /\ ~restore.force /\ Snap.path \notin restore.alien
         => disk[Snap.path] = Snap.post]_filesVars
=============================================================================
