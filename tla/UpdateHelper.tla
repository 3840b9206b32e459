---------------------------- MODULE UpdateHelper ----------------------------
(***************************************************************************)
(* One update of Mac MCP after another (update_helper.py): the source      *)
(* checkout, the runtime's files, its Python environment and the record of *)
(* the deployed commit are moved to a verified release step by step, each  *)
(* step journaled; an error rolls them back, and an updater that was cut   *)
(* off is recovered by the next one from the journal.                      *)
(*                                                                         *)
(*   head     where the source checkout is: "old", "new" (the release), or *)
(*            "own", a commit or branch of the owner                       *)
(*   dirty    the checkout holds uncommitted changes of the owner          *)
(*   files    the runtime's files as the updater leaves them; "part" while *)
(*            they are copied.  What the owner commits or edits in a       *)
(*            checkout that is the runtime is in head and dirty            *)
(*   deployed the deployed-commit record                                   *)
(*   env      the trees at .venv (active) and in the staging folder; "cut" *)
(*            is a tree of which some is deleted, "own" one the owner made *)
(*   mark     the tree of this update bears its marker                     *)
(*   journal  state.json: status, what it notes, and what was there before *)
(*   pc, held the updater and what it holds in memory                      *)
(*   gap      a fault hit one of the steps the recovery does not cover     *)
(*   hurt     a fault hit a step of going back, or left the runtime's own  *)
(*            checkout half copied                                         *)
(*   risked   the kinds of the owner's work that were done in a window     *)
(*            between a look of the updater and its step                   *)
(*                                                                         *)
(* One updater runs at a time (the lock goes with its process).  The menu  *)
(* app, the choice of a release and its signature, and backups are left    *)
(* out, a step that fails stands for theirs.                               *)
(***************************************************************************)
EXTENDS Naturals

CONSTANTS
    Setups,       \* [same: is the runtime the checkout itself, deps: do dependencies change]
    MaxLaunches,  \* bound: updates started
    MaxFaults,    \* bound: crashes, failed steps, records that do not land
    MaxOwner      \* bound: what the owner does beside

ASSUME SetupsAssumption == Setups \subseteq [same : BOOLEAN, deps : BOOLEAN]

VARIABLES setup, head, dirty, files, deployed, env, mark, journal, pc, held, gap, hurt, risked,
          launches, faults, owner

repo    == <<head, dirty>>
runtime == <<files, deployed>>
trees   == <<env, mark>>
counts  == <<setup, gap, hurt, risked, launches, faults, owner>>
updateVars    == <<repo, runtime, trees, journal, pc, held, counts>>

\* INCOMPLETE_UPDATE_STATES
Incomplete == {"prepared", "repo_updating", "repo_updated", "runtime_syncing", "runtime_synced",
               "dependency_activating", "dependencies_activated", "restarting", "health_verified",
               "marker_committed", "dependency_commit_started", "dependency_committed", "rolling_back"}
Tree == {"none", "old", "new", "cut", "own"}

Part == {"repo", "files", "env"}

\* carried: edits of the own checkout that the merge has taken in; undone: parts that did not go back.
Nothing == [moved |-> FALSE, synced |-> FALSE, env |-> FALSE, swapped |-> FALSE, carried |-> FALSE, undone |-> {}]

Goes(p, q)     == pc = p /\ pc' = q
Journaled(status) == journal' = [journal EXCEPT !.status = status]
Whole          == env.active \in {"old", "new", "own"}
EnvMatches         == env.active = "new" /\ mark         \* _dependency_env_matches
Dirty          == dirty \/ (setup.same /\ files = "part")   \* what git status shows
StagingGone(e) == [e EXCEPT !.previous = "none", !.candidate = "none", !.failed = "none"]

\* checkpoint: what the journal says is on disk before the next step starts.
Checkpoint(p, status, q) ==
    Goes(p, q) /\ Journaled(status) /\ UNCHANGED <<repo, runtime, trees, held, counts>>
-----------------------------------------------------------------------------
(* The update *)

\* Launched from the app, the tool or the command line; the journal of a cut off update is kept.
LaunchUpdate ==
    /\ launches < MaxLaunches /\ launches' = launches + 1
    /\ held' = Nothing
    /\ IF journal.status \in Incomplete
       THEN Goes("idle", "rec_env") /\ UNCHANGED journal
       ELSE Goes("idle", "check") /\ Journaled("starting")
    /\ risked' = {}
    /\ UNCHANGED <<repo, runtime, trees, gap, hurt, setup, faults, owner>>

\* Staging of earlier updates that is old enough is removed; a dirty checkout and an installation
\* that is up to date end the update.
UpToDate ==
    /\ pc = "check" /\ (Dirty \/ deployed = "new") /\ pc' = "idle"
    /\ env' \in {env, StagingGone(env)}
    /\ UNCHANGED <<repo, runtime, mark, journal, held, counts>>

\* A new transaction notes what is there; its staging folder and marker are its own.
Check ==
    /\ Goes("check", "prepare") /\ ~Dirty /\ deployed # "new"
    /\ journal' = [status |-> journal.status, synced |-> FALSE, env |-> FALSE, undone |-> {},
                   before |-> [head |-> head, files |-> files, deployed |-> deployed, tree |-> env.active]]
    /\ env' = StagingGone(env) /\ mark' = FALSE /\ hurt' = FALSE
    /\ UNCHANGED <<repo, runtime, held, gap, risked, setup, launches, faults, owner>>

\* Merge check, which takes in the edits of the own checkout, and backup.
Prepare ==
    /\ Goes("prepare", "updating") /\ Journaled("prepared") /\ held' = [held EXCEPT !.carried = dirty]
    /\ UNCHANGED <<repo, runtime, trees, counts>>

\* git merge --ff-only; in the runtime's own checkout it brings the files too.  Another commit stops
\* it, changes may.
Merge ==
    /\ pc = "merge"
    /\ \/ /\ head # "own" /\ head' = "new" /\ pc' = "merged"
          /\ files' = IF setup.same THEN "new" ELSE files
          /\ held' = [held EXCEPT !.moved = (head = "old")]
       \/ (head = "own" \/ dirty) /\ pc' = "rollback" /\ UNCHANGED <<head, files, held>>
    /\ UNCHANGED <<dirty, deployed, trees, journal, counts>>

\* Mutant: the journal notes the copying once it is done.
SyncingNotedLate(was) == was
SyncingNoted(was)     == TRUE
BeginSync ==
    /\ Goes("syncing", "sync")
    /\ journal' = [journal EXCEPT !.status = "runtime_syncing", !.synced = SyncingNoted(@)]
    /\ held' = [held EXCEPT !.synced = TRUE]
    /\ UNCHANGED <<repo, runtime, trees, counts>>

\* In the own checkout an edit that the merge has not taken in may be overwritten.
SyncOver == dirty' \in IF setup.same /\ ~held.carried THEN {dirty, FALSE} ELSE {dirty}
SyncSome ==
    /\ Goes("sync", "sync_rest") /\ files' = "part" /\ SyncOver
    /\ UNCHANGED <<head, deployed, trees, journal, held, counts>>
SyncRest ==
    /\ Goes("sync_rest", "synced") /\ files' = "new" /\ SyncOver
    /\ UNCHANGED <<head, deployed, trees, journal, held, counts>>
Synced ==
    /\ Goes("synced", IF setup.deps THEN "stage" ELSE "restarting")
    /\ journal' = [journal EXCEPT !.status = "runtime_synced", !.synced = TRUE]
    /\ UNCHANGED <<repo, runtime, trees, held, counts>>

\* A copy of the environment with the release's packages.
Stage ==
    /\ pc = "stage" /\ pc' = IF Whole THEN "activating" ELSE "rollback"
    /\ env' = IF Whole THEN [env EXCEPT !.candidate = "new"] ELSE env
    /\ UNCHANGED <<repo, runtime, mark, journal, held, counts>>
Activating ==
    /\ Goes("activating", "swap_out")
    /\ journal' = [journal EXCEPT !.status = "dependency_activating", !.env = TRUE]
    /\ held' = [held EXCEPT !.env = TRUE]
    /\ UNCHANGED <<repo, runtime, trees, counts>>
SwapOut ==
    /\ Goes("swap_out", "swap_in") /\ mark' = TRUE
    /\ env' = [env EXCEPT !.previous = env.active, !.active = "none"]
    /\ UNCHANGED <<repo, runtime, journal, held, counts>>
SwapIn ==
    /\ env.active = "none" /\ Goes("swap_in", "activated")
    /\ env' = [env EXCEPT !.active = env.candidate, !.candidate = "none"]
    /\ held' = [held EXCEPT !.swapped = TRUE]
    /\ UNCHANGED <<repo, runtime, mark, journal, counts>>

\* Another tree has come into its place: it is deleted, and the previous one goes back.
SwapInFails ==
    /\ env.active # "none" /\ Goes("swap_in", "rollback") /\ mark' = FALSE
    /\ env' = StagingGone([env EXCEPT !.active = env.previous])
    /\ UNCHANGED <<repo, runtime, journal, held, counts>>

\* The service is restarted and asked, for two minutes, whether it is well.
Health ==
    /\ pc = "health" /\ pc' \in {"rollback"} \cup (IF Whole THEN {"verified"} ELSE {})
    /\ UNCHANGED <<repo, runtime, trees, journal, held, counts>>
WriteDeployed ==
    /\ Goes("deploy", "deployed") /\ deployed' = "new"
    /\ UNCHANGED <<repo, files, trees, journal, held, counts>>
Deployed == Checkpoint("deployed", "marker_committed", IF held.swapped THEN "commit" ELSE "finish")

\* _commit_dependency_environment: the marker goes, then the previous tree.
Unmark ==
    /\ pc = "unmark" /\ pc' = IF EnvMatches THEN "drop" ELSE "rollback"
    /\ mark' = (mark /\ ~EnvMatches)
    /\ UNCHANGED <<repo, runtime, env, journal, held, counts>>
DropSome ==
    /\ Goes("drop", "drop_rest") /\ env' = [env EXCEPT !.previous = "cut"]
    /\ UNCHANGED <<repo, runtime, mark, journal, held, counts>>
DropRest ==
    /\ Goes("drop_rest", "committed") /\ env' = StagingGone(env)
    /\ UNCHANGED <<repo, runtime, mark, journal, held, counts>>

\* The journal's step at each of these places.
Steps ==
    \/ Checkpoint("updating", "repo_updating", "merge")
    \/ Checkpoint("merged", "repo_updated", "syncing")
    \/ Checkpoint("activated", "dependencies_activated", "restarting")
    \/ Checkpoint("restarting", "restarting", "health")
    \/ Checkpoint("verified", "health_verified", "deploy")
    \/ Checkpoint("commit", "dependency_commit_started", "unmark")
    \/ Checkpoint("committed", "dependency_committed", "finish")
    \/ Checkpoint("finish", "completed", "idle")

Update == \/ UpToDate \/ Check \/ Prepare \/ Merge \/ BeginSync \/ SyncSome \/ SyncRest \/ Synced \/ Stage \/ Activating
          \/ SwapOut \/ SwapIn \/ SwapInFails \/ Health \/ WriteDeployed \/ Deployed \/ Unmark \/ DropSome \/ DropRest \/ Steps
-----------------------------------------------------------------------------
(* Going back: by the update itself, and by the next one from the journal *)

\* A part that did not go back: the rollback notes it and goes on, a recovery gives up and says it.
Notes(parts)   == held' = [held EXCEPT !.undone = @ \cup parts]
GivesUp(parts) == pc' = "idle" /\ journal' = [journal EXCEPT !.status = "recovery_failed", !.undone = parts]
EnvNotBack ==
    IF pc \in {"rb_out", "rb_in"} THEN pc' = "rb_repo" /\ Notes({"env"}) /\ UNCHANGED journal
                                  ELSE GivesUp(Part) /\ UNCHANGED held
RepoNotBack ==
    IF pc = "rb_reset" THEN pc' = "rb_files" /\ Notes({"repo"}) /\ UNCHANGED journal
                       ELSE GivesUp({"repo", "files"}) /\ UNCHANGED held

\* The tree of the update makes room for the previous one, unless another has come into its place.
TreeOut(p, q) ==
    /\ Goes(p, q) /\ env' = [env EXCEPT !.failed = env.active, !.active = "none"]
    /\ UNCHANGED <<repo, runtime, mark, journal, held, counts>>
TreeIn(p, q) ==
    /\ pc = p
    /\ \/ /\ env.active = "none" /\ pc' = q /\ mark' = FALSE
          /\ env' = StagingGone([env EXCEPT !.active = env.previous]) /\ UNCHANGED <<journal, held>>
       \/ env.active # "none" /\ EnvNotBack /\ UNCHANGED trees
    /\ UNCHANGED <<repo, runtime, counts>>

\* Mutant: a checkout that is clean is reset wherever it is.
MayResetAny == ~Dirty
\* _rollback_repo: is the checkout where the update left it?
MayReset    == head = "new" /\ ~Dirty
\* git reset --keep, whatever has been done since: it refuses or keeps changes, not commits.
GoesBack  == head' = journal.before.head /\ files' = IF setup.same THEN journal.before.files ELSE files
StaysHere == UNCHANGED <<head, files>>
Reset(p, q) ==
    /\ pc = p
    /\ \/ ~dirty /\ GoesBack /\ pc' = q /\ UNCHANGED <<journal, held>>
       \/ dirty /\ (GoesBack \/ StaysHere) /\ RepoNotBack
    /\ UNCHANGED <<dirty, deployed, trees, counts>>

\* _same_checkout_restore_guard
MayRestore == setup.same => head = journal.before.head /\ ~Dirty
\* _restore_runtime, then the record; it overwrites what has been edited in the own checkout since.
RestoreOver == dirty' \in IF setup.same THEN {dirty, FALSE} ELSE {dirty}
RestoreSome(p, q) ==
    /\ Goes(p, q) /\ files' = "part" /\ RestoreOver
    /\ UNCHANGED <<head, deployed, trees, journal, held, counts>>
Back      == files' = journal.before.files /\ deployed' = journal.before.deployed
RestoreRest(p, q) ==
    /\ Goes(p, q) /\ Back /\ RestoreOver
    /\ UNCHANGED <<head, trees, journal, held, counts>>

\* An environment that is not the update's any more is left alone.
RollbackEnv ==
    IF held.swapped /\ EnvMatches
    THEN pc' = "rb_out" /\ UNCHANGED held
    ELSE pc' = "rb_repo" /\ Notes(IF held.swapped THEN {"env"} ELSE {})
Rollback ==
    /\ pc = "rollback" /\ RollbackEnv
    /\ journal' = [journal EXCEPT !.status = "rolling_back", !.synced = held.synced, !.env = held.env]
    /\ UNCHANGED <<repo, runtime, trees, counts>>
RollbackRepo ==
    /\ pc = "rb_repo"
    /\ IF held.moved /\ MayReset
       THEN pc' = "rb_reset" /\ UNCHANGED held
       ELSE pc' = "rb_files" /\ Notes(IF held.moved THEN {"repo"} ELSE {})
    /\ UNCHANGED <<repo, runtime, trees, journal, counts>>
\* In the own checkout only what git has brought back is restored.
RollbackFiles ==
    /\ pc = "rb_files"
    /\ IF held.synced /\ MayRestore /\ (setup.same => "repo" \notin held.undone)
       THEN pc' = "rb_some" /\ UNCHANGED held
       ELSE pc' = "rb_end" /\ Notes(IF held.synced THEN {"files"} ELSE {})
    /\ UNCHANGED <<repo, runtime, trees, journal, counts>>
RollbackEnd ==
    /\ Goes("rb_end", "idle")
    /\ journal' = [journal EXCEPT !.status = "failed", !.undone = held.undone]
    /\ UNCHANGED <<repo, runtime, trees, held, counts>>
GoBack ==
    \/ Rollback
    \/ TreeOut("rb_out", "rb_in") \/ TreeIn("rb_in", "rb_repo")
    \/ RollbackRepo \/ Reset("rb_reset", "rb_files") \/ RollbackFiles
    \/ RestoreSome("rb_some", "rb_rest") \/ RestoreRest("rb_rest", "rb_end")
    \/ RollbackEnd

Committing == {"dependency_commit_started", "dependency_committed"}

\* Mutant: a tree without its predecessor is taken as committed.
EnvRecoveryByTrees ==
    CASE ~journal.env                                         -> "leave"
      [] journal.env /\ EnvMatches /\ env.previous # "none"       -> "swap"
      [] journal.env /\ env.active = "none" /\ env.previous # "none" -> "put_back"
      [] journal.env /\ env.active # "none" /\ env.previous # "none" /\ ~EnvMatches ->
            IF journal.status = "dependency_commit_started" THEN "swap" ELSE "fail"
      [] journal.env /\ env.active # "none" /\ env.previous = "none" -> "committed"
      [] journal.env /\ env.active = "none" /\ env.previous = "none" -> "fail"
\* _recover_dependency_from_journal
EnvRecovery ==
    CASE ~journal.env                                         -> "leave"
      [] journal.env /\ EnvMatches /\ env.previous # "none"       -> "swap"
      [] journal.env /\ env.active = "none" /\ env.previous # "none" -> "put_back"
      [] journal.env /\ env.active # "none" /\ env.previous # "none" /\ ~EnvMatches ->
            IF journal.status = "dependency_commit_started" THEN "swap" ELSE "fail"
      [] journal.env /\ env.active # "none" /\ env.previous = "none" ->
            IF journal.status \in Committing THEN "committed" ELSE "discard"
      [] journal.env /\ env.active = "none" /\ env.previous = "none" -> "fail"

RecoverEnv ==
    /\ pc = "rec_env"
    /\ IF EnvRecovery = "fail" THEN GivesUp(Part)
       ELSE /\ pc' = CASE EnvRecovery \in {"leave", "discard"} -> "rec_repo"
                      [] EnvRecovery = "swap"      -> "rec_out"
                      [] EnvRecovery = "put_back"  -> "rec_in"
                      [] EnvRecovery = "committed" -> "rec_final"
            /\ UNCHANGED journal
    /\ env' = IF EnvRecovery = "discard" THEN StagingGone(env) ELSE env
    /\ UNCHANGED <<repo, runtime, mark, held, counts>>

\* The environment was committed: the update is finished, if source and record agree.
RecoverFinal ==
    /\ pc = "rec_final"
    /\ \/ head = "new" /\ deployed = "new" /\ Whole /\ pc' = "check" /\ Journaled("completed")
       \/ pc' = "idle" /\ UNCHANGED journal
    /\ UNCHANGED <<repo, runtime, trees, held, counts>>

RecoverRepo ==
    /\ pc = "rec_repo"
    /\ IF head = journal.before.head THEN pc' = "rec_files" /\ UNCHANGED journal
       ELSE IF MayReset THEN pc' = "rec_reset" /\ UNCHANGED journal
       ELSE GivesUp({"repo", "files"})
    /\ UNCHANGED <<repo, runtime, trees, held, counts>>
RecoverFiles ==
    /\ pc = "rec_files"
    /\ IF journal.synced /\ ~MayRestore THEN GivesUp({"files"})
       ELSE pc' = (IF journal.synced THEN "rec_some" ELSE "rec_end") /\ UNCHANGED journal
    /\ UNCHANGED <<repo, runtime, trees, held, counts>>

\* Where files were copied the service is restarted and asked; then the update that was launched goes on.
RecoverEnd ==
    /\ pc = "rec_end"
    /\ \/ (journal.synced => Whole) /\ pc' = "check" /\ Journaled("recovered")
       \/ journal.synced /\ GivesUp({})
    /\ UNCHANGED <<repo, runtime, trees, held, counts>>

Recover ==
    \/ RecoverEnv \/ RecoverFinal
    \/ TreeOut("rec_out", "rec_in") \/ TreeIn("rec_in", "rec_repo")
    \/ RecoverRepo \/ Reset("rec_reset", "rec_files") \/ RecoverFiles
    \/ RestoreSome("rec_some", "rec_rest") \/ RestoreRest("rec_rest", "rec_end")
    \/ RecoverEnd
-----------------------------------------------------------------------------
(* Faults and the owner *)

Fault == faults < MaxFaults /\ faults' = faults + 1

\* What the recovery does not cover: an updater cut off in the commit of the environment when some of
\* the previous one is deleted, or when it is a recovery that has put that back; one cut off in a
\* rollback that found the environment committed; or (GapLost) a rollback whose record, of files the
\* journal does not know of or of an environment being committed, does not land.
PutBack == {"rec_repo", "rec_reset", "rec_files", "rec_some", "rec_rest", "rec_end"}
Gap == \/ journal.status = "dependency_commit_started" /\ (env.previous = "cut" \/ pc \in PutBack)
       \/ "env" \in held.undone /\ ~mark /\ env.failed = "none"
GapLost == \/ Gap
           \/ pc = "rollback" /\ (held.synced # journal.synced \/ journal.status = "dependency_commit_started")
HalfCopied == setup.same /\ files = "part"

UpdaterDies ==
    /\ Fault /\ pc # "idle" /\ pc' = "idle" /\ held' = Nothing
    /\ gap' = (gap \/ Gap) /\ hurt' = (hurt \/ HalfCopied)
    /\ UNCHANGED <<repo, runtime, trees, journal, risked, setup, launches, owner>>

\* A step of the update raises; a swap that is half done is turned back first.
StepFails ==
    /\ Fault /\ pc' = "rollback" /\ hurt' = (hurt \/ HalfCopied \/ pc = "committed")
    /\ pc \in {"prepare", "updating", "merge", "merged", "syncing", "sync", "sync_rest", "synced", "stage", "activating",
               "swap_out", "swap_in", "activated", "restarting", "verified", "deploy", "deployed", "commit", "committed"}
    /\ held' = [held EXCEPT !.synced = @ \/ pc = "syncing", !.env = @ \/ pc = "activating"]
    /\ env' = IF pc = "swap_in" THEN StagingGone([env EXCEPT !.active = env.previous])
              ELSE IF pc = "swap_out" THEN StagingGone(env) ELSE env
    /\ mark' = (mark /\ pc # "swap_in")
    /\ UNCHANGED <<repo, runtime, journal, gap, risked, setup, launches, owner>>

\* A step of going back raises.  A tree, the checkout or the files stay, or have gone back and what
\* comes after them fails; a recovery whose files cannot be restored is left to the next one.
TreeFails ==
    /\ pc \in {"rb_out", "rb_in", "rec_out", "rec_in"} /\ EnvNotBack
    /\ \/ UNCHANGED trees
       \/ /\ pc \in {"rb_in", "rec_in"} /\ env.active = "none" /\ mark' = FALSE
          /\ env' = [env EXCEPT !.active = env.previous, !.previous = "none"]
    /\ UNCHANGED <<repo, runtime>>
ResetFails ==
    /\ pc \in {"rb_reset", "rec_reset"} /\ RepoNotBack /\ (GoesBack \/ StaysHere)
    /\ UNCHANGED <<dirty, deployed, trees>>
RestoreFails ==
    /\ pc \in {"rb_some", "rb_rest", "rec_some", "rec_rest"} /\ RestoreOver
    /\ files' \in {files} \cup (IF pc \in {"rb_rest", "rec_rest"} THEN {journal.before.files} ELSE {})
    /\ IF pc \in {"rb_some", "rb_rest"} THEN pc' = "rb_end" /\ Notes({"files"})
                                        ELSE pc' = "idle" /\ UNCHANGED held
    /\ UNCHANGED <<head, deployed, trees, journal>>
BackFails ==
    /\ Fault /\ (TreeFails \/ ResetFails \/ RestoreFails) /\ hurt' = TRUE
    /\ gap' = (gap \/ (pc \in {"rec_some", "rec_rest"} /\ Gap))
    /\ UNCHANGED <<risked, setup, launches, owner>>

\* What cannot be deleted of the previous tree stays.
CleanupFails ==
    /\ Fault /\ pc \in {"drop", "drop_rest"} /\ pc' = "committed"
    /\ UNCHANGED <<repo, runtime, trees, journal, held, gap, hurt, risked, setup, launches, owner>>

\* A last record that does not land is only said in the log; so is that of the rollback.
RecordLost ==
    /\ Fault
    /\ \/ pc \in {"finish", "rb_end"} /\ pc' = "idle" /\ UNCHANGED held
       \/ pc = "rollback" /\ RollbackEnv
    /\ gap' = (gap \/ GapLost) /\ hurt' = (hurt \/ (pc = "rb_end" /\ HalfCopied))
    /\ UNCHANGED <<repo, runtime, trees, journal, risked, setup, launches, owner>>

\* The windows between a look and the step that relies on it.
Window ==
    (IF pc \in {"rb_reset", "rec_reset"} THEN {"commit"} ELSE {})
    \cup (IF /\ setup.same
             /\ pc \in {"updating", "merge", "merged", "syncing", "sync", "sync_rest",
                        "rb_some", "rb_rest", "rec_some", "rec_rest"} THEN {"edit"} ELSE {})
    \cup (IF pc \in {"swap_in", "rb_out", "rec_out"} THEN {"env"} ELSE {})
Act(kind) == risked' = risked \cup (Window \cap {kind})

\* At any time the owner commits or switches the branch, edits the checkout or cleans it up, or
\* rebuilds the environment (venv_repair).
Commits ==
    /\ head' = "own" /\ dirty' \in {dirty, FALSE} /\ Act("commit") /\ UNCHANGED <<files, trees>>
Edits ==
    /\ ~dirty /\ dirty' = TRUE /\ Act("edit") /\ UNCHANGED <<head, files, trees>>
CleansUp ==
    /\ Dirty /\ dirty' = FALSE
    /\ files' \in IF ~HalfCopied THEN {files} ELSE IF head = "own" THEN {"old", "new"} ELSE {head}
    /\ UNCHANGED <<head, trees, risked>>
Rebuilds ==
    /\ setup.deps /\ env' = [env EXCEPT !.active = "own"] /\ mark' = FALSE
    /\ Act("env") /\ UNCHANGED <<repo, files>>
Owner ==
    /\ owner < MaxOwner /\ owner' = owner + 1
    /\ Commits \/ Edits \/ CleansUp \/ Rebuilds
    /\ UNCHANGED <<deployed, journal, pc, held, gap, hurt, setup, launches, faults>>
-----------------------------------------------------------------------------
UpdateInit ==
    /\ setup \in Setups
    /\ head = "old" /\ dirty = FALSE /\ files = "old" /\ deployed = "old"
    /\ env = StagingGone([active |-> "old", previous |-> "none", candidate |-> "none", failed |-> "none"])
    /\ mark = FALSE
    /\ journal = [status |-> "none", synced |-> FALSE, env |-> FALSE, undone |-> {},
                  before |-> [head |-> "old", files |-> "old", deployed |-> "old", tree |-> "old"]]
    /\ pc = "idle" /\ held = Nothing /\ gap = FALSE /\ hurt = FALSE /\ risked = {}
    /\ launches = 0 /\ faults = 0 /\ owner = 0

UpdateNext == LaunchUpdate \/ Update \/ GoBack \/ Recover \/ UpdaterDies \/ StepFails \/ BackFails \/ CleanupFails \/ RecordLost \/ Owner

UpdateSpec == UpdateInit /\ [][UpdateNext]_updateVars
-----------------------------------------------------------------------------
(* Properties *)

UpdateTypes ==
    /\ setup \in [same: BOOLEAN, deps: BOOLEAN]
    /\ head \in {"old", "new", "own"} /\ dirty \in BOOLEAN
    /\ files \in {"old", "part", "new"} /\ deployed \in {"old", "new"}
    /\ env \in [active: Tree, previous: Tree, candidate: Tree, failed: Tree] /\ mark \in BOOLEAN
    /\ journal \in [status : Incomplete \cup {"none", "starting", "completed", "failed", "recovered", "recovery_failed"},
                    synced : BOOLEAN, env : BOOLEAN, undone : SUBSET Part,
                    before : [head : {"old", "new", "own"}, files : {"old", "part", "new"},
                              deployed : {"old", "new"}, tree : Tree]]
    /\ held \in [moved: BOOLEAN, synced: BOOLEAN, env: BOOLEAN, swapped: BOOLEAN, carried: BOOLEAN,
                undone: SUBSET Part]
    /\ gap \in BOOLEAN /\ hurt \in BOOLEAN /\ risked \subseteq {"commit", "edit", "env"} /\ owner \in Nat

AsBefore == journal.before = [head |-> head, files |-> files, deployed |-> deployed, tree |-> env.active]
Released == files = "new" /\ deployed = "new" /\ (setup.deps => env.active \in {"new", "own"})

\* The parts that the record does not name as undone are as before; the own checkout's files are its source's.
Kept ==
    /\ "repo" \notin journal.undone => head = journal.before.head
    /\ "files" \notin journal.undone =>
         /\ deployed = journal.before.deployed
         /\ (setup.same /\ "repo" \in journal.undone) \/ files = journal.before.files
    /\ "env" \notin journal.undone => env.active = journal.before.tree

\* An update ends whole, or its record says what is not, after crashes and errors at any steps of
\* update, rollback and recovery (update_helper.py:1493-1585, :1617-1705, :1722-1967, :2106-2453).
\* A completed update runs the release's files on the release's environment, also when it is the next
\* updater that completes it.  Where the owner kept out of it, a recovered update has left source,
\* files, record and environment as they were before it; after one that failed, or whose recovery
\* gave up, each is as before but for the parts the record names, and it names none that matter (all
\* are as before, or all are the release's) unless a step of going back failed, the runtime's own
\* checkout was left half copied, or the record after the environment's commit could not be written.
\* Excepted are the crashes and lost records that Gap and GapLost name.
EndsWhole ==
    pc \in {"idle", "check"} /\ ~gap =>
        /\ journal.status = "completed" => Released
        /\ owner = 0 /\ journal.status = "recovered" => AsBefore
        /\ owner = 0 /\ journal.status \in {"failed", "recovery_failed"} => Kept
        /\ owner = 0 /\ ~hurt /\ journal.status = "failed" => AsBefore
        /\ owner = 0 /\ ~hurt /\ journal.status = "recovery_failed" => AsBefore \/ Released

\* Whatever the owner does at any time outlives every later step of an update, a rollback and a
\* recovery: commits, uncommitted changes, and a rebuilt environment, which an update may set aside
\* until it is committed (update_helper.py:1508-1529, :1540-1585, :1617-1705, :1761-1818).  Excepted is
\* what is done in the windows the code leaves open (Window): a commit between the look at the
\* checkout and git reset (:1654-1661); an edit of the runtime's own checkout between the merge check
\* and the end of the copying (:2121-2161), or between the guard and the end of the restoring (:1898-1902,
\* :2343-2360); an environment rebuilt while trees are swapped (:1508-1529, :1557-1558).  So is one that
\* the recovery finds where the updater died while it committed its own (:1761-1774).
OwnersWorkStays ==
    [][pc' # pc =>
        /\ head = "own" /\ "commit" \notin risked => head' = "own"
        /\ dirty /\ "edit" \notin risked => dirty'
        /\ env.active = "own" /\ "env" \notin risked /\ journal.status # "dependency_commit_started" =>
             "own" \in {env'.active, env'.previous}]_updateVars
=============================================================================
