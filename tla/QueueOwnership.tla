---------------------------- MODULE QueueOwnership ----------------------------
(***************************************************************************)
(* Several windows (processes) of the program and the job lists they save. *)
(* A window claims one list for its life by a lock file beside it: the     *)
(* primary one, or the list of a secondary session that nobody holds, or a *)
(* new one.  Claiming, publishing the list and loading it are separate     *)
(* steps, each may fail, and any window may die between any two of them.   *)
(***************************************************************************)
CONSTANTS
  Window,      \* processes, each with one VDQtJobQueue; an identity is used again
  Primary,     \* VirtualDub.vdqjobs
  Session,     \* the names VirtualDub-session-<uuid>.vdqjobs
  QueuedJob,   \* jobs, each created once
  None

Path == Session \cup {Primary}

ASSUME OwnershipAssumption == Primary \notin Session /\ None \notin Path \cup Window

VARIABLES
  step,        \* how far the window's constructor is
  todo,        \* candidates that setAutosavePath() has listed and not tried
  path,        \* mAutosavePath
  lock,        \* the live window that holds the lock file beside a list
  jobs,        \* mJobs
  timer,       \* the windows whose mAutosaveTimer is active
  guarded,     \* mAutosaveProtected
  recovering,  \* the windows that have a mRecoveryPath: the one paired with their list
  files,       \* the lists that exist on disk
  content,     \* their contents
  snaps,       \* the lists whose paired recovery snapshot exists
  copied,      \* history: jobs that a user copied with Save As, Open or Append
  gone         \* history: jobs that a user removed or overwrote

startup == <<step, todo, path>>
queue   == <<jobs, timer, guarded, recovering>>
stored  == <<files, content, snaps>>
userActs == <<copied, gone>>
ownershipVars == <<startup, lock, queue, stored, userActs>>

Steps == {"off", "primary", "listing", "candidates", "publish", "load", "up"}

OwnershipInit ==
  /\ step = [w \in Window |-> "off"]
  /\ todo = [w \in Window |-> {}]
  /\ path = [w \in Window |-> None]
  /\ lock = [p \in Path |-> None]
  /\ jobs = [w \in Window |-> {}]
  /\ timer = {} /\ guarded = {} /\ recovering = {}
  /\ files = {} /\ content = [p \in Path |-> {}] /\ snaps = {}
  /\ copied = {} /\ gone = {}

-----------------------------------------------------------------------------
(* Mutant of Claimable: a lock becomes stale with age, as by Qt's default. *)
ClaimableByAge(p) == TRUE

(* claimPath(): only the lock of a dead process is stale. *)
Claimable(p) == lock[p] = None

Owns(w)  == path[w] # None /\ lock[path[w]] = w
Saved    == UNION {content[p] : p \in Path}
Known(j) == j \in Saved \cup copied \cup gone \/ \E w \in Window : j \in jobs[w]

Go(w, s) == step' = [step EXCEPT ![w] = s]

(* saveJobQueue() replaces the file as a whole. *)
Write(w, p) ==
  /\ files' = files \cup {p}
  /\ content' = [content EXCEPT ![p] = jobs[w]]
  /\ UNCHANGED snaps

(* Mutant of Flush: a list that could not be read is saved over. *)
FlushUnguarded(w) == Owns(w) /\ Write(w, path[w])

(* flush(), when it succeeds. *)
Flush(w) == Owns(w) /\ w \notin guarded /\ Write(w, path[w])

-----------------------------------------------------------------------------
Start(w) ==
  /\ step[w] = "off"
  /\ Go(w, "primary")
  /\ UNCHANGED <<todo, path, lock, queue, stored, userActs>>

(* setAutosavePath(): tryLock() on one list after the other.  It can also fail
   for want of permission, or while another window's Save As holds the lock. *)
Claim(w, p) ==
  /\ Claimable(p)
  /\ lock' = [lock EXCEPT ![p] = w]
  /\ path' = [path EXCEPT ![w] = p]
  /\ todo' = [todo EXCEPT ![w] = {}]
  /\ Go(w, "publish")

ClaimPrimary(w) ==
  /\ step[w] = "primary"
  /\ \/ Claim(w, Primary)
     \/ Go(w, "listing") /\ UNCHANGED <<todo, path, lock>>
  /\ UNCHANGED <<queue, stored, userActs>>

(* The lists that are named like those of sessions. *)
Candidates == files \cap Session

ListCandidates(w) ==
  /\ step[w] = "listing"
  /\ Go(w, "candidates")
  /\ todo' = [todo EXCEPT ![w] = Candidates]
  /\ UNCHANGED <<path, lock, queue, stored, userActs>>

ClaimCandidate(w, p) ==
  /\ step[w] = "candidates" /\ p \in todo[w]
  /\ \/ Claim(w, p)
     \/ todo' = [todo EXCEPT ![w] = @ \ {p}] /\ UNCHANGED <<step, path, lock>>
  /\ UNCHANGED <<queue, stored, userActs>>

(* A name with a new UUID is nobody's, on disk or in use. *)
New(p) == p \notin files \cup snaps /\ \A w \in Window : path[w] # p

NewSession(w, p) ==
  /\ step[w] = "candidates" /\ todo[w] = {}
  /\ New(p)
  /\ \/ Claim(w, p)
     \/ /\ path' = [path EXCEPT ![w] = p]
        /\ Go(w, "load")
        /\ UNCHANGED <<todo, lock>>
  /\ UNCHANGED <<queue, stored, userActs>>

(* Mutant of Publish: a session that could not publish its list keeps its
   recovery path. *)
PublishRegardless(w) ==
  /\ step[w] = "publish"
  /\ Go(w, "load")
  /\ recovering' = recovering \cup {w}
  /\ \/ path[w] \notin files /\ Flush(w)
     \/ UNCHANGED stored
  /\ UNCHANGED <<todo, path, lock, jobs, timer, guarded, userActs>>

(* The empty list that makes a session findable. *)
Publish(w) ==
  /\ step[w] = "publish"
  /\ Go(w, "load")
  /\ \/ path[w] \in files /\ recovering' = recovering \cup {w} /\ UNCHANGED stored
     \/ path[w] \notin files /\ recovering' = recovering \cup {w} /\ Flush(w)
     \/ path[w] \notin files /\ UNCHANGED <<recovering, stored>>
  /\ UNCHANGED <<todo, path, lock, jobs, timer, guarded, userActs>>

(* loadAutosave(), which the window calls whatever setAutosavePath() said. *)
LoadAutosave(w) ==
  /\ step[w] = "load"
  /\ Go(w, "up")
  /\ \/ path[w] \notin files /\ UNCHANGED <<jobs, timer, guarded>>
     \/ /\ path[w] \in files
        /\ jobs' = [jobs EXCEPT ![w] = content[path[w]]]
        /\ timer' = timer \cup {w}
        /\ UNCHANGED guarded
     \/ /\ path[w] \in files
        /\ guarded' = guarded \cup {w}
        /\ UNCHANGED <<jobs, timer>>
  /\ UNCHANGED <<todo, path, lock, recovering, stored, userActs>>

-----------------------------------------------------------------------------
(* addJob() *)
CreateJob(w, j) ==
  /\ step[w] = "up" /\ ~Known(j)
  /\ jobs' = [jobs EXCEPT ![w] = @ \cup {j}]
  /\ timer' = timer \cup {w}
  /\ UNCHANGED <<startup, lock, guarded, recovering, stored, userActs>>

RemoveJob(w, j) ==
  /\ step[w] = "up" /\ j \in jobs[w]
  /\ jobs' = [jobs EXCEPT ![w] = @ \ {j}]
  /\ timer' = timer \cup {w}
  /\ gone' = gone \cup {j}
  /\ UNCHANGED <<startup, lock, guarded, recovering, stored, copied>>

(* The single-shot timer; a failed save is reported and not repeated. *)
Autosave(w) ==
  /\ step[w] = "up" /\ w \in timer
  /\ timer' = timer \ {w}
  /\ Flush(w) \/ UNCHANGED stored
  /\ UNCHANGED <<startup, lock, jobs, guarded, recovering, userActs>>

(* Mutant of SaveAs: an explicit save does not ask who holds the list. *)
SaveAsAnywhere(w, p) ==
  /\ step[w] = "up"
  /\ p \in files \cup {Primary}
  /\ Write(w, p)
  /\ copied' = IF p = path[w] THEN copied ELSE copied \cup jobs[w]
  /\ gone' = gone \cup (content[p] \ jobs[w])
  /\ UNCHANGED <<startup, lock, queue>>

(* saveToFile() on a list of this directory: its own, or one that can be
   claimed for the time of the save.  The user agreed to overwrite it. *)
SaveAs(w, p) ==
  /\ step[w] = "up"
  /\ p \in files \cup {Primary}
  /\ (p = path[w] /\ Owns(w)) \/ Claimable(p)
  /\ Write(w, p)
  /\ copied' = IF p = path[w] THEN copied ELSE copied \cup jobs[w]
  /\ gone' = gone \cup (content[p] \ jobs[w])
  /\ UNCHANGED <<startup, lock, queue>>

(* appendFromFile() and replaceFromFile(): any list may be read, locked or not. *)
AppendFromFile(w, p) ==
  /\ step[w] = "up" /\ p \in files
  /\ jobs' = [jobs EXCEPT ![w] = @ \cup content[p]]
  /\ timer' = timer \cup {w}
  /\ copied' = copied \cup content[p]
  /\ UNCHANGED <<startup, lock, guarded, recovering, stored, gone>>

ReplaceFromFile(w, p) ==
  /\ step[w] = "up" /\ p \in files
  /\ jobs' = [jobs EXCEPT ![w] = content[p]]
  /\ timer' = timer \cup {w}
  /\ copied' = copied \cup content[p]
  /\ gone' = gone \cup (jobs[w] \ content[p])
  /\ UNCHANGED <<startup, lock, guarded, recovering, stored>>

(* saveRecoverySnapshot(), and the places that remove the snapshot. *)
SaveSnapshot(w) ==
  /\ step[w] = "up" /\ w \in recovering
  /\ snaps' = snaps \cup {path[w]}
  /\ UNCHANGED <<startup, lock, queue, files, content, userActs>>

RemoveSnapshot(w) ==
  /\ step[w] = "up" /\ w \in recovering
  /\ snaps' = snaps \ {path[w]}
  /\ UNCHANGED <<startup, lock, queue, files, content, userActs>>

(* The end of a process: what it held in memory is gone, its locks are stale. *)
End(w) ==
  /\ Go(w, "off")
  /\ todo' = [todo EXCEPT ![w] = {}]
  /\ path' = [path EXCEPT ![w] = None]
  /\ lock' = [p \in Path |-> IF lock[p] = w THEN None ELSE lock[p]]
  /\ jobs' = [jobs EXCEPT ![w] = {}]
  /\ timer' = timer \ {w} /\ guarded' = guarded \ {w} /\ recovering' = recovering \ {w}
  /\ UNCHANGED userActs

Crash(w) ==
  /\ step[w] # "off"
  /\ UNCHANGED stored
  /\ End(w)

(* closeEvent() and the destructor: the list is saved, or the user discards it. *)
Quit(w) ==
  /\ step[w] = "up"
  /\ Flush(w) \/ UNCHANGED stored
  /\ End(w)

Construct(w) ==
  \/ Start(w) \/ ClaimPrimary(w) \/ ListCandidates(w)
  \/ \E p \in Session : ClaimCandidate(w, p) \/ NewSession(w, p)
  \/ Publish(w) \/ LoadAutosave(w)

Use(w) ==
  \/ \E j \in QueuedJob : CreateJob(w, j) \/ RemoveJob(w, j)
  \/ \E p \in Path : SaveAs(w, p) \/ AppendFromFile(w, p) \/ ReplaceFromFile(w, p)
  \/ Autosave(w) \/ SaveSnapshot(w) \/ RemoveSnapshot(w)

OwnershipNext == \E w \in Window : Construct(w) \/ Use(w) \/ Crash(w) \/ Quit(w)

OwnershipSpec == OwnershipInit /\ [][OwnershipNext]_ownershipVars

-----------------------------------------------------------------------------
OwnershipTypes ==
  /\ step \in [Window -> Steps]
  /\ todo \in [Window -> SUBSET Session]
  /\ path \in [Window -> Path \cup {None}]
  /\ lock \in [Path -> Window \cup {None}]
  /\ jobs \in [Window -> SUBSET QueuedJob]
  /\ timer \subseteq Window /\ guarded \subseteq Window /\ recovering \subseteq Window
  /\ files \subseteq Path /\ snaps \subseteq Path
  /\ content \in [Path -> SUBSET QueuedJob]
  /\ copied \subseteq QueuedJob /\ gone \subseteq QueuedJob

(* A job is in the hands of one window: two that are open at the same time have
   no job in common, and so never render it twice, unless a user copied it from
   list to list (the lifetime lock of setAutosavePath(), whatever dies or starts
   in between). *)
JobsHaveOneWindow ==
  \A v, w \in Window : v # w => jobs[v] \cap jobs[w] \subseteq copied

(* A job that has reached a saved list stays in one until a user removes or
   overwrites it: no window saves over a list it has not read, be it another's,
   an abandoned one or one that could not be loaded
   (flush(), loadAutosave(), saveToFile()). *)
SavedJobsStay == [][Saved \ gone' \subseteq Saved']_ownershipVars

(* A snapshot left by a dead window can be found again: the list it belongs to
   is on disk, where the next window that needs a session looks for one
   (setAutosavePath() publishes the list before it gives out a recovery path). *)
SnapshotsAreFindable == \A p \in snaps : p \in files

=============================================================================
