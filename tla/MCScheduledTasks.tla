--------------------------- MODULE MCScheduledTasks ---------------------------
(* A small instance of ScheduledTasks. *)
EXTENDS ScheduledTasks

\* A schedule of two times, with each choice for a busy task and a missed run.
MCDefinitions ==
    { [slots |-> {1, 2}, busy |-> "run_after", missed |-> "run_once", agent |-> TRUE],
      [slots |-> {1, 2}, busy |-> "skip", missed |-> "skip", agent |-> FALSE] }
=============================================================================
