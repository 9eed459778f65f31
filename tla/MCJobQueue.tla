---------------------------- MODULE MCJobQueue ----------------------------
(* JobQueue in two worlds.  In the quiet one the list holds any of the jobs, it can be
   saved and the runner saves it without the timer's help, and nobody else touches the
   destinations, which are free at first.  In the rough one the list holds only jobs
   with contested destinations, records come in with any status, the timer saves too,
   and the list may be protected.  The editor is restarted in both. *)
EXTENDS JobQueue

VARIABLE listable   \* the jobs that the list may hold

Quiet == INSTANCE JobQueue WITH Imported <- {"Pending"}, Contested <- {}

QuietLife ==
  \/ Quiet!UserEdits \/ StopJobQueue \/ AbortCurrentJob
  \/ \E answer \in {"yes", "no"} : RunPendingJobs(answer)
  \/ RunnerStep \/ ExporterCancelled
  \/ Restart

RoughLife == Next /\ ToSet(order') \subseteq Contested

WorldsInit ==
  /\ Init
  /\ \/ listable = Job /\ ~protected /\ out = [j \in Job |-> "nothing"]
     \/ listable = Contested /\ \A j \in Job \ Contested : out[j] = "nothing"

WorldsNext ==
  /\ \/ listable = Job /\ QuietLife
     \/ listable = Contested /\ RoughLife
  /\ UNCHANGED listable

WorldsSpec == WorldsInit /\ [][WorldsNext]_<<vars, listable>> /\ WF_vars(RunnerStep)
=============================================================================
