------------------------------ MODULE JobQueue ------------------------------
(***************************************************************************)
(* VDQtJobQueue and its runner, VDQtMainWindow::runPendingJobs().  The     *)
(* queue is an in-memory list of job records with a debounced autosave; the *)
(* runner executes the waiting records in list order on the GUI thread.    *)
(* There is one thread and yet there are interleavings: the runner pumps   *)
(* the event loop between its steps, and inside a pump the user can add,   *)
(* retry and postpone jobs, ask to stop, abort or close, and the autosave  *)
(* timer can fire.  Every save may fail, and the process may die anywhere. *)
(***************************************************************************)
EXTENDS Naturals, Sequences, FiniteSets, SequencesExt

CONSTANTS
  Job,         \* identities of the job records, each with a destination of its own
  Imported,    \* the statuses that added records may carry
  Contested    \* the jobs whose destinations other programs touch meanwhile

Status == {"Pending", "Starting", "Running", "Aborting", "Complete", "Postponed",
           "Cancelled", "Failed", "Interrupted"}

ASSUME JobAssumption == IsFiniteSet(Job) /\ Imported \subseteq Status /\ Contested \subseteq Job

VARIABLES
  order,       \* mJobs: job identities in list order
  status,      \* status of each job; "absent" when it is not in the list
  replace,     \* VDQtJobState::replaceExisting
  disk,        \* the saved job list, as a crash would leave it
  dirty,       \* the autosave timer is armed
  phase,       \* where runPendingJobs() is
  running,     \* VDQtJobQueue::mRunning
  row,         \* loop index of the runner
  active,      \* mActiveJobIndex (0 when none)
  job,         \* the record the runner copied before executing it
  result,      \* what executeQueuedJob() returned
  stopReq,     \* mQueueStopRequested
  abortReq,    \* mQueueAbortRequested
  out,         \* what is at each job's destination
  existed,     \* destinationExistedAtStart of the executing job
  protected,   \* mAutosaveProtected: an unreadable old list is on disk
  armed,       \* history: the user asked for (another) execution of the job
  madeBy       \* history: the job's latest execution installed its output, or
               \* the job was added with a record that says so

list   == <<order, status, replace>>
runner == <<phase, running, row, active, job, result, existed>>
flags  == <<stopReq, abortReq>>
ghosts == <<armed, madeBy>>
vars   == <<order, status, replace, disk, dirty, phase, running, row, active, job, result,
            stopReq, abortReq, out, existed, protected, armed, madeBy>>

Active == {"Starting", "Running", "Aborting"}
Retryable == {"Failed", "Cancelled", "Interrupted"}
Absent == "absent"
NoJob  == "no job"

Phases == {"idle", "checkpoint", "pick", "starting", "ready", "inspect", "working",
           "committing", "finish", "saved", "end"}

(* The places where the event loop runs: outside the runner, after a job was
   marked Running, in the progress callbacks of an export, in the last of them
   (whose answer the exporter ignores), and after a job was saved. *)
Pumping == phase \in {"idle", "ready", "working", "committing", "saved"}

InList(j)     == \E r \in DOMAIN order : order[r] = j
Pending       == {j \in Job : status[j] = "Pending"}
Snapshot      == [order |-> order, status |-> status, replace |-> replace]
SetStatus(r, s) == status' = [status EXCEPT ![order[r]] = s]

(* Mutant of Normal: a restarted editor resumes what it was doing. *)
NormalResuming(s) == IF s \in Active THEN "Pending" ELSE s

(* normalizeNewJob(): activity is meaningful only inside one process life. *)
Normal(s) == IF s \in Active THEN "Interrupted" ELSE s

Init ==
  /\ order = <<>>
  /\ status = [j \in Job |-> Absent]
  /\ replace = [j \in Job |-> FALSE]
  /\ disk = Snapshot
  /\ dirty = FALSE
  /\ phase = "idle" /\ running = FALSE /\ row = 1 /\ active = 0
  /\ job = NoJob /\ result = "none" /\ existed = FALSE
  /\ stopReq = FALSE /\ abortReq = FALSE
  /\ out \in [Job -> {"nothing", "other"}]
  /\ protected \in BOOLEAN
  /\ armed = [j \in Job |-> FALSE]
  /\ madeBy = [j \in Job |-> FALSE]

-----------------------------------------------------------------------------
(* flush(): an atomic rewrite of the list file, or a failure that leaves the
   old file alone.  A protected list is never overwritten. *)
FlushSucceeds == ~protected /\ disk' = Snapshot
FlushFails    == disk' = disk

(* The autosave timer.  A failed save is reported, not retried. *)
AutosaveFires ==
  /\ Pumping
  /\ dirty
  /\ dirty' = FALSE
  /\ FlushSucceeds \/ FlushFails
  /\ UNCHANGED <<list, runner, flags, out, protected, ghosts>>

-----------------------------------------------------------------------------
(* Editing the list.  Additions, retries and bulk postponing are allowed while
   the runner is active; whatever would move a row is not. *)
Touch == dirty' = TRUE /\ UNCHANGED <<disk, runner, flags, out, protected>>

Arm(S) == armed' = [j \in Job |-> armed[j] \/ j \in S]

(* What the user takes over with a record that was made elsewhere. *)
Trust(j, s) ==
  /\ Arm(IF s = "Pending" THEN {j} ELSE {})
  /\ madeBy' = [madeBy EXCEPT ![j] = @ \/ s = "Complete"]

(* addJobs(): new records, perhaps with replacement approved in the dialog that
   made them, or records read from a job list file. *)
AddJob(j, s, approved) ==
  /\ Pumping
  /\ ~InList(j)
  /\ order' = Append(order, j)
  /\ status' = [status EXCEPT ![j] = Normal(s)]
  /\ replace' = [replace EXCEPT ![j] = approved]
  /\ Trust(j, s)
  /\ Touch

(* replaceJobs(): another list takes the place of this one. *)
ReplaceList(j, s) ==
  /\ Pumping /\ ~running
  /\ order' = <<j>>
  /\ status' = [k \in Job |-> IF k = j THEN Normal(s) ELSE Absent]
  /\ replace' = [k \in Job |-> FALSE]
  /\ Trust(j, s)
  /\ Touch

(* The listed jobs of S, in the order they have in the list. *)
Place(j) == CHOOSE r \in DOMAIN order : order[r] = j
Listings(S) ==
  {l \in [1 .. Cardinality(S) -> S] :
     \A a, b \in DOMAIN l : a < b => Place(l[a]) < Place(l[b])}

Keep(S) ==
  /\ order' \in Listings({j \in S : InList(j)})
  /\ status' = [j \in Job |-> IF j \in S THEN status[j] ELSE Absent]
  /\ replace' = [j \in Job |-> j \in S /\ replace[j]]

(* removeRows(): active records are skipped. *)
RemoveRows(S) ==
  /\ Pumping /\ ~running
  /\ S # {}
  /\ Keep(Job \ {j \in S : status[j] \notin Active})
  /\ UNCHANGED ghosts
  /\ Touch

ClearCompleted ==
  /\ Pumping /\ ~running
  /\ \E j \in Job : status[j] = "Complete"
  /\ Keep({j \in Job : status[j] # "Complete"})
  /\ UNCHANGED ghosts
  /\ Touch

ClearAll ==
  /\ Pumping /\ ~running
  /\ order # <<>>
  /\ Keep({})
  /\ UNCHANGED ghosts
  /\ Touch

(* Mutant of MoveJob: rows may move under the runner. *)
MoveJobAnytime(from, to) ==
  /\ Pumping
  /\ from # to
  /\ order' = InsertAt(RemoveAt(order, from), to, order[from])
  /\ UNCHANGED <<status, replace, ghosts>>
  /\ Touch

MoveJob(from, to) ==
  /\ Pumping /\ ~running
  /\ from # to
  /\ order' = InsertAt(RemoveAt(order, from), to, order[from])
  /\ UNCHANGED <<status, replace, ghosts>>
  /\ Touch

RetryFailed ==
  /\ Pumping
  /\ \E j \in Job : status[j] \in Retryable
  /\ status' = [j \in Job |-> IF status[j] \in Retryable THEN "Pending" ELSE status[j]]
  /\ Arm({j \in Job : status[j] \in Retryable})
  /\ UNCHANGED <<order, replace, madeBy>>
  /\ Touch

SetAllPendingPostponed(postponed) ==
  LET from == IF postponed THEN "Pending" ELSE "Postponed"
      to   == IF postponed THEN "Postponed" ELSE "Pending"
  IN /\ Pumping
     /\ \E j \in Job : status[j] = from
     /\ status' = [j \in Job |-> IF status[j] = from THEN to ELSE status[j]]
     /\ Arm(IF postponed THEN {} ELSE {j \in Job : status[j] = from})
     /\ UNCHANGED <<order, replace, madeBy>>
     /\ Touch

(* The Postpone/Resume button of Job Control, enabled between runs. *)
TogglePostponed(r) ==
  /\ Pumping /\ ~running
  /\ SetStatus(r, IF status[order[r]] = "Postponed" THEN "Pending" ELSE "Postponed")
  /\ Arm(IF status[order[r]] = "Postponed" THEN {order[r]} ELSE {})
  /\ UNCHANGED <<order, replace, madeBy>>
  /\ Touch

(* "Return to waiting" in a job's details, which a completed job offers too. *)
ReturnToWaiting(r) ==
  /\ Pumping
  /\ status[order[r]] \in Retryable \union {"Complete"}
  /\ SetStatus(r, "Pending")
  /\ Arm({order[r]})
  /\ UNCHANGED <<order, replace, madeBy>>
  /\ Touch

UserEdits ==
  \/ \E j \in Job, s \in Imported, approved \in BOOLEAN : AddJob(j, s, approved)
  \/ \E j \in Job, s \in Imported : ReplaceList(j, s)
  \/ \E S \in SUBSET Job : RemoveRows(S)
  \/ ClearCompleted \/ ClearAll \/ RetryFailed
  \/ \E b \in BOOLEAN : SetAllPendingPostponed(b)
  \/ \E r \in DOMAIN order : TogglePostponed(r) \/ ReturnToWaiting(r)
  \/ \E from, to \in DOMAIN order : MoveJob(from, to)

-----------------------------------------------------------------------------
(* Requests to a run in progress. *)
StopJobQueue ==
  /\ Pumping /\ running
  /\ stopReq' = TRUE
  /\ UNCHANGED <<list, disk, dirty, runner, abortReq, out, protected, ghosts>>

(* abortCurrentJob(), from the Abort button or from closeEvent(). *)
AbortCurrentJob ==
  /\ Pumping /\ running
  /\ abortReq' = TRUE
  /\ stopReq' = TRUE
  /\ IF active > 0 THEN SetStatus(active, "Aborting") /\ dirty' = TRUE
                   ELSE UNCHANGED <<status, dirty>>
  /\ UNCHANGED <<order, replace, disk, runner, out, protected, ghosts>>

-----------------------------------------------------------------------------
(* runPendingJobs().  Jobs whose destination exists need the user's approval
   first: "yes", "no" (those jobs are cancelled) or "cancel". *)
Unapproved == {j \in Pending : out[j] # "nothing" /\ ~replace[j]}

RunPendingJobs(answer) ==
  /\ phase = "idle"
  /\ Pending # {}
  /\ \/ /\ Unapproved = {} \/ answer = "yes"
        /\ replace' = [j \in Job |-> replace[j] \/ j \in Unapproved]
        /\ phase' = "checkpoint"
        /\ UNCHANGED status
     \/ /\ Unapproved # {} /\ answer = "no"
        /\ status' = [j \in Job |-> IF j \in Unapproved THEN "Cancelled" ELSE status[j]]
        /\ phase' = IF Pending = Unapproved THEN "idle" ELSE "checkpoint"
        /\ UNCHANGED replace
  /\ dirty' = (dirty \/ Unapproved # {})
  /\ UNCHANGED <<order, disk, running, row, active, job, result, existed, flags, out,
                 protected, ghosts>>

FirstCheckpoint ==
  /\ phase = "checkpoint"
  /\ \/ /\ FlushSucceeds
        /\ phase' = "pick" /\ running' = TRUE /\ row' = 1
        /\ stopReq' = FALSE /\ abortReq' = FALSE
     \/ /\ FlushFails
        /\ phase' = "idle"
        /\ UNCHANGED <<running, row, stopReq, abortReq>>
  /\ UNCHANGED <<list, dirty, active, job, result, existed, out, protected, ghosts>>

SkipRow ==
  /\ phase = "pick"
  /\ row \in DOMAIN order
  /\ status[order[row]] # "Pending"
  /\ row' = row + 1
  /\ UNCHANGED <<list, disk, dirty, phase, running, active, job, result, existed, flags, out,
                 protected, ghosts>>

LeaveLoop ==
  /\ phase = "pick"
  /\ row \in DOMAIN order => status[order[row]] = "Pending" /\ stopReq
  /\ phase' = "end"
  /\ UNCHANGED <<list, disk, dirty, running, row, active, job, result, existed, flags, out,
                 protected, ghosts>>

PickJob ==
  /\ phase = "pick"
  /\ row \in DOMAIN order
  /\ status[order[row]] = "Pending"
  /\ ~stopReq
  /\ job' = order[row]
  /\ active' = row
  /\ abortReq' = FALSE
  /\ SetStatus(row, "Starting")
  /\ dirty' = TRUE
  /\ phase' = "starting"
  /\ UNCHANGED <<order, replace, disk, running, row, result, existed, stopReq, out,
                 protected, ghosts>>

(* Mutant of CheckpointIntent: a failed save is reported and the job runs. *)
CheckpointIntentRegardless ==
  /\ phase = "starting"
  /\ FlushSucceeds \/ FlushFails
  /\ SetStatus(row, "Running") /\ phase' = "ready"
  /\ dirty' = TRUE
  /\ UNCHANGED <<order, replace, running, row, active, job, result, existed, flags, out,
                 protected, ghosts>>

(* Publish the intent before any output work. *)
CheckpointIntent ==
  /\ phase = "starting"
  /\ \/ FlushSucceeds /\ SetStatus(row, "Running") /\ phase' = "ready"
     \/ FlushFails /\ SetStatus(row, "Pending") /\ phase' = "end"
  /\ dirty' = TRUE
  /\ UNCHANGED <<order, replace, running, row, active, job, result, existed, flags, out,
                 protected, ghosts>>

Finish(r) ==
  /\ result' = r
  /\ phase' = "finish"

(* executeQueuedJob(): refuse an existing destination that is not approved. *)
Execute ==
  /\ phase = "ready"
  /\ armed' = [armed EXCEPT ![job] = FALSE]
  /\ madeBy' = [madeBy EXCEPT ![job] = FALSE]
  /\ IF out[job] # "nothing" /\ ~replace[job]
     THEN Finish("failed")
     ELSE phase' = "inspect" /\ UNCHANGED result
  /\ UNCHANGED <<list, disk, dirty, running, row, active, job, existed, flags, out, protected>>

(* After all sources were inspected: look at the destination once more, and
   start rendering into a staging file, or fail to. *)
PrepareStage ==
  /\ phase = "inspect"
  /\ existed' = (out[job] # "nothing")
  /\ \/ Finish("failed")
     \/ phase' = "working" /\ UNCHANGED result
  /\ UNCHANGED <<list, disk, dirty, running, row, active, job, flags, out, protected, ghosts>>

(* The encoder fails, or a progress callback reports the abort request. *)
WorkFails ==
  /\ phase = "working"
  /\ Finish("failed")
  /\ UNCHANGED <<list, disk, dirty, running, row, active, job, existed, flags, out,
                 protected, ghosts>>

(* The user cancels the export's own progress dialog. *)
ExporterCancelled ==
  /\ phase = "working"
  /\ abortReq' = TRUE
  /\ stopReq' = TRUE
  /\ Finish("failed")
  /\ UNCHANGED <<list, disk, dirty, running, row, active, job, existed, out,
                 protected, ghosts>>

(* The last check of the abort request is behind; the exporter reports 100%. *)
RenderDone ==
  /\ phase = "working"
  /\ ~abortReq
  /\ phase' = "committing"
  /\ UNCHANGED <<list, disk, dirty, running, row, active, job, result, existed, flags, out,
                 protected, ghosts>>

(* commitQueuedStage(): look at the destination again, then rename over it. *)
CommitStage ==
  /\ phase = "committing"
  /\ \/ /\ out[job] = "nothing" \/ existed \/ replace[job]
        /\ out' = [out EXCEPT ![job] = "made"]
        /\ madeBy' = [madeBy EXCEPT ![job] = TRUE]
        /\ Finish("ok")
     \/ /\ Finish("failed")
        /\ UNCHANGED <<out, madeBy>>
  /\ UNCHANGED <<list, disk, dirty, running, row, active, job, existed, flags, protected, armed>>

(* Mutant of Outcome: whatever was not aborted has completed. *)
OutcomeUnlessAborted == IF abortReq THEN "Cancelled" ELSE "Complete"

Outcome == IF abortReq THEN "Cancelled" ELSE IF result = "ok" THEN "Complete" ELSE "Failed"

(* Record the outcome and save it; an unsaved outcome ends the run. *)
RecordOutcome ==
  /\ phase = "finish"
  /\ SetStatus(row, Outcome)
  /\ result' = "none" /\ existed' = FALSE
  /\ dirty' = TRUE
  /\ \/ /\ ~protected
        /\ disk' = [Snapshot EXCEPT !.status = status']
        /\ phase' = "saved"
     \/ /\ FlushFails
        /\ phase' = "end"
  /\ UNCHANGED <<order, replace, running, row, active, job, flags, out, protected, ghosts>>

(* Mutant of NextRow: look for waiting jobs from the top of the list again. *)
NextRowFromTop ==
  /\ phase = "saved"
  /\ IF stopReq THEN phase' = "end" /\ UNCHANGED row
                ELSE phase' = "pick" /\ row' = 1
  /\ UNCHANGED <<list, disk, dirty, running, active, job, result, existed, flags, out,
                 protected, ghosts>>

NextRow ==
  /\ phase = "saved"
  /\ IF stopReq THEN phase' = "end" /\ UNCHANGED row
                ELSE phase' = "pick" /\ row' = row + 1
  /\ UNCHANGED <<list, disk, dirty, running, active, job, result, existed, flags, out,
                 protected, ghosts>>

EndRun ==
  /\ phase = "end"
  /\ active' = 0
  /\ running' = FALSE
  /\ job' = NoJob
  /\ stopReq' = FALSE /\ abortReq' = FALSE

  /\ FlushSucceeds \/ FlushFails
  /\ phase' = "idle" /\ row' = 1
  /\ UNCHANGED <<list, dirty, result, existed, out, protected, ghosts>>

RunnerStep ==
  \/ FirstCheckpoint \/ SkipRow \/ LeaveLoop \/ PickJob \/ CheckpointIntent
  \/ Execute \/ PrepareStage \/ WorkFails \/ RenderDone \/ CommitStage
  \/ RecordOutcome \/ NextRow \/ EndRun

-----------------------------------------------------------------------------
(* The process dies, or the editor is closed, and a new editor restores the
   saved list: loadAutosave() normalizes every record. *)
Restart ==
  /\ IF protected
     THEN /\ order' = <<>>
          /\ status' = [j \in Job |-> Absent]
          /\ replace' = [j \in Job |-> FALSE]
          /\ dirty' = FALSE
     ELSE /\ order' = disk.order
          /\ status' = [j \in Job |-> Normal(disk.status[j])]
          /\ replace' = disk.replace
          /\ dirty' = TRUE
  /\ phase' = "idle" /\ running' = FALSE /\ row' = 1 /\ active' = 0
  /\ job' = NoJob /\ result' = "none" /\ existed' = FALSE
  /\ stopReq' = FALSE /\ abortReq' = FALSE
  /\ UNCHANGED <<disk, out, protected, ghosts>>

(* Another program puts a file at, or takes it away from, a destination. *)
OtherChangesOutput(j) ==
  /\ out' = [out EXCEPT ![j] = IF out[j] = "nothing" THEN "other" ELSE "nothing"]
  /\ UNCHANGED <<list, disk, dirty, runner, flags, protected, ghosts>>

Next ==
  \/ UserEdits \/ StopJobQueue \/ AbortCurrentJob
  \/ AutosaveFires
  \/ \E answer \in {"yes", "no"} : RunPendingJobs(answer)
  \/ RunnerStep \/ ExporterCancelled
  \/ Restart
  \/ \E j \in Contested : OtherChangesOutput(j)

Spec == Init /\ [][Next]_vars

(* The runner is one call on the GUI thread: it goes on as long as its event
   pumps return and encoder processes end. *)
FairSpec == Spec /\ WF_vars(RunnerStep)

-----------------------------------------------------------------------------
Lists == [order : Seq(Job), status : [Job -> Status \union {Absent}], replace : [Job -> BOOLEAN]]

(* Every variable keeps its type; the row of the executing job is a row. *)
TypeOK ==
  /\ Snapshot \in Lists /\ disk \in Lists
  /\ dirty \in BOOLEAN /\ running \in BOOLEAN /\ protected \in BOOLEAN /\ existed \in BOOLEAN
  /\ stopReq \in BOOLEAN /\ abortReq \in BOOLEAN
  /\ phase \in Phases
  /\ row \in Nat \ {0}
  /\ active \in 0 .. Len(order)
  /\ job \in Job \union {NoJob}
  /\ result \in {"none", "ok", "failed"}
  /\ out \in [Job -> {"nothing", "other", "made"}]
  /\ armed \in [Job -> BOOLEAN] /\ madeBy \in [Job -> BOOLEAN]

(* A job waits, in the list or in the saved list a restart would read, only if
   the user asked for an execution that has not begun: neither a crash, nor a
   failed save, nor an abort makes the queue run a job a second time by itself
   (runPendingJobs()'s checkpoints and normalizeNewJob()). *)
NoSilentRerun ==
  \A j \in Job : "Pending" \in {status[j], disk.status[j]} => armed[j]

(* A job that is shown as done, now or after a restart, was done: its latest
   execution put its output in place, or it was taken over as done. *)
CompleteIsTrue ==
  \A j \in Job : "Complete" \in {status[j], disk.status[j]} => madeBy[j]

(* The runner addresses its job by row across every pump of the event loop, and
   whatever the user does to the list meanwhile the row stays that job's. *)
RowStable == active > 0 => active \in DOMAIN order /\ order[active] = job

(* While a job's output is being made, the saved list says that the job was
   started, so that a crash leaves a record which the restart marks interrupted. *)
WorkIsOnRecord ==
  phase \in {"ready", "inspect", "working", "committing"} =>
    /\ \E r \in DOMAIN disk.order : disk.order[r] = job
    /\ disk.status[job] \in Active

(* A run ends, however often the user adds, retries and resumes jobs during it. *)
RunEnds == running ~> ~running

(* A file that somebody else put at a destination is replaced only with the
   user's approval, also when it appears while the job runs. *)
ReplacementWasApproved ==
  [][\A j \in Job : out[j] = "other" /\ out'[j] = "made" => replace[j]]_vars

=============================================================================
