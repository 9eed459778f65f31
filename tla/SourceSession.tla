----------------------------- MODULE SourceSession -----------------------------
(***************************************************************************)
(* The life of the source in VDQtMainWindow: opening and closing it,       *)
(* requests put off while it is being replaced, operations that replace it *)
(* and roll back, the temporary copies of raw files, and the snapshot that *)
(* a crash leaves behind.  Everything runs on the GUI thread; what makes   *)
(* it hard is that opening a file, an error box and the dialogs of an      *)
(* operation all enter the event loop, so timers, posted requests and the  *)
(* startup question run in the middle of a replacement.                    *)
(***************************************************************************)
EXTENDS Naturals, FiniteSets

CONSTANTS
  File,        \* files on disk that can be opened as they are
  Raw,         \* a raw file, opened through a temporary copy of it
  Copy,        \* temporary copies (VDQtTemporaryMediaFile), each made once
  NoPath       \* the empty path

ASSUME SourceAssumption ==
  /\ Raw \notin File \cup Copy
  /\ File \cap Copy = {}
  /\ NoPath \notin File \cup Copy \cup {Raw}

VARIABLES
  source,      \* path of the open authoritative decoder
  media,       \* mActiveTemporaryMedia
  session,     \* what captureProjectState() would capture: source and edits
  depth,       \* mOperationDepth
  transition,  \* mSourceTransitionActive
  automation,  \* mAutomationRunning
  deferred,    \* mDeferredSourcePending, mDeferredSourcePath, mDeferredTemporaryMedia
  scheduled,   \* mDeferredSourceScheduled: the zero timer is on its way
  at,          \* where the GUI thread is
  task,        \* the call it is in
  outer,       \* the call whose event loop the present call was made from
  pin,         \* candidateMedia of openVideoFileImpl()
  mine,        \* the copy owned by the running operation
  opened,      \* what openVideoFileImpl() or the operation will answer
  plan,        \* the session that the operation is to bring about
  rollback,    \* SessionRollbackScope
  snap,        \* the recovery file
  protected,   \* mRecoverySnapshotProtected
  question,    \* the startup question is posted but has not run
  made,        \* copies that were ever made
  aside,       \* history: the session that the latest rollback could not bring back
               \* and saved as a project of its own, or reported
  asked,       \* history: the path of the latest accepted request
  inherited    \* history: the snapshot is an earlier process's, and not dealt with

editor  == <<source, media, session>>
scopes  == <<depth, transition, automation>>
waiting == <<deferred, scheduled>>
call    == <<at, task, outer, pin, mine, opened, plan, rollback>>
disk    == <<snap, protected, question>>
world   == <<made, aside>>
ghosts  == <<asked, inherited>>
vars    == <<editor, scopes, waiting, call, disk, world, ghosts>>

Path     == File \cup Copy
Edits    == {"fresh", "edited"}
Session  == [path : Path \cup {Raw}, edits : Edits]
Nothing  == [path |-> NoPath, edits |-> "fresh"]
Fresh(p) == [path |-> p, edits |-> "fresh"]

NoRequest  == [pending |-> FALSE, path |-> NoPath, media |-> NoPath]
NoRollback == [active |-> FALSE, session |-> Nothing, path |-> NoPath, media |-> NoPath,
               protected |-> FALSE, snap |-> FALSE]
NoOuter    == [at |-> "idle", task |-> "none"]

(* editorActionsBlocked() *)
Blocked == depth > 0 \/ transition \/ automation

(* The places where the event loop runs: nothing else is going on; the dialogs,
   validation and copying of an operation; window sizing or an error box while
   the source is being replaced (by an operation, or back by its rollback); the
   error box about a missing soundtrack; the commands of a script. *)
Pumping == at \in {"idle", "preparing", "opening", "restoring", "refused", "commands"}

(* The user, or whoever calls the public slots, can act.  The startup question
   was posted before any input could be. *)
Free == at = "idle" /\ ~Blocked /\ ~question

(* A copy exists as long as one of these owns it. *)
Held   == {media, deferred.media, pin, mine, rollback.media} \cap Copy
Pin(p) == IF p \in Held THEN p ELSE NoPath

Openable(p) == p \in File \cup Held

Start ==
  /\ source = NoPath /\ media = NoPath /\ session = Nothing
  /\ depth = 0 /\ transition = FALSE /\ automation = FALSE
  /\ deferred = NoRequest /\ scheduled = FALSE
  /\ at = "startup" /\ task = "none" /\ outer = NoOuter
  /\ pin = NoPath /\ mine = NoPath /\ opened = FALSE
  /\ plan = Nothing /\ rollback = NoRollback
  /\ question = TRUE
  /\ aside = Nothing
  /\ asked = NoPath

Init ==
  /\ Start
  /\ snap = Nothing /\ protected = FALSE /\ inherited = FALSE
  /\ made = {}

-----------------------------------------------------------------------------
(* scheduleDeferredSourceTransition(), as the end of a scope calls it. *)
Reschedule == scheduled' = (scheduled \/ (deferred.pending /\ ~Blocked'))

(* releaseVideoSource(), as far as the snapshot goes. *)
ReleaseSnapshot == snap' = IF protected' THEN snap ELSE Nothing

(* A replacement that begins forgets the request that was put off. *)
Supersede == deferred' = NoRequest

(* Mutant of Adopt: the copy is not kept beyond the call that opened it. *)
AdoptNothing(p) == media' = NoPath

(* The editor becomes an owner of the copy it shows. *)
Adopt(p) == media' = Pin(p)

(* openVideoFileImpl() outside a transition, up to the event loop it enters:
   the old source is released, then the new one is opened or not. *)
Install(p) ==
  /\ ~transition
  /\ transition' = TRUE
  /\ Supersede
  /\ pin' = Pin(p)
  /\ ReleaseSnapshot
  /\ \/ /\ Openable(p)
        /\ source' = p /\ session' = Fresh(p) /\ opened' = TRUE
        /\ Adopt(p)
     \/ /\ source' = NoPath /\ session' = Nothing /\ opened' = FALSE
        /\ media' = NoPath

(* closeVideoSource() outside a transition; nothing in it enters the event loop. *)
CloseNow ==
  /\ ~transition
  /\ Supersede
  /\ source' = NoPath /\ media' = NoPath /\ session' = Nothing
  /\ ReleaseSnapshot

-----------------------------------------------------------------------------
(* Open: the menu, a recent file, a dropped file, openVideoFile(), or the file
   named on the command line, which is opened before the event loop starts. *)
OpenFile(p) ==
  /\ Free \/ at = "startup"
  /\ task' = "open" /\ at' = "opening"
  /\ asked' = p
  /\ UNCHANGED protected
  /\ Install(p)
  /\ UNCHANGED <<depth, automation, scheduled, outer, mine, plan, rollback, question, world,
                 inherited>>

EnterLoop ==
  /\ at = "startup"
  /\ at' = "idle"
  /\ UNCHANGED <<editor, scopes, waiting, task, outer, pin, mine, opened, plan, rollback, disk,
                 world, ghosts>>

CloseFile ==
  /\ Free
  /\ asked' = NoPath
  /\ UNCHANGED protected
  /\ CloseNow
  /\ UNCHANGED <<scopes, scheduled, call, question, world, inherited>>

Edit ==
  /\ Free /\ source # NoPath
  /\ session' = [session EXCEPT !.edits = "edited"]
  /\ UNCHANGED <<source, media, scopes, waiting, call, disk, world, ghosts>>

(* Mutant of PutOff: the first request that was put off wins. *)
PutOffOnce(p) ==
  deferred' = IF deferred.pending THEN deferred
              ELSE [pending |-> TRUE, path |-> p, media |-> Pin(p)]

(* openVideoFileImpl() and closeVideoSource() inside a transition. *)
PutOff(p) == deferred' = [pending |-> TRUE, path |-> p, media |-> Pin(p)]

(* Open or Close from the event loop of a replacement: openVideoFile() and
   onFileClose() refuse only during operations and scripts. *)
RequestMeanwhile(p) ==
  /\ Pumping /\ transition /\ depth = 0 /\ ~automation /\ ~question
  /\ PutOff(p)
  /\ asked' = p
  /\ UNCHANGED <<editor, scopes, scheduled, call, disk, world, inherited>>

(* Mutant of EndOpen: the transition ends and nobody looks for requests. *)
EndOpenQuietly ==
  /\ at = "opening" /\ ~question
  /\ transition' = FALSE
  /\ pin' = NoPath
  /\ at' = CASE task = "open" -> "idle" [] task = "script" -> "commands" [] OTHER -> "opened"
  /\ task' = IF task = "open" THEN "none" ELSE task
  /\ UNCHANGED <<editor, depth, automation, deferred, scheduled, outer, mine, opened, plan,
                 rollback, disk, world, ghosts>>

(* The event loop of the replacement ends: finishSourceTransition(). *)
EndOpen ==
  /\ at = "opening" /\ ~question
  /\ transition' = FALSE
  /\ pin' = NoPath
  /\ at' = CASE task = "open" -> "idle" [] task = "script" -> "commands" [] OTHER -> "opened"
  /\ task' = IF task = "open" THEN "none" ELSE task
  /\ UNCHANGED <<depth, automation>>
  /\ Reschedule
  /\ UNCHANGED <<editor, deferred, outer, mine, opened, plan, rollback, disk, world, ghosts>>

(* The zero timer of scheduleDeferredSourceTransition(). *)
TimerWhileBlocked ==
  /\ Pumping /\ scheduled
  /\ Blocked \/ ~deferred.pending
  /\ scheduled' = FALSE
  /\ UNCHANGED <<editor, scopes, deferred, call, disk, world, ghosts>>

DeferredTimer ==
  /\ at = "idle" /\ scheduled /\ ~Blocked /\ deferred.pending
  /\ scheduled' = FALSE
  /\ UNCHANGED protected
  /\ \/ /\ deferred.path = NoPath
        /\ CloseNow
        /\ UNCHANGED <<transition, at, task, pin, opened>>
     \/ /\ deferred.path # NoPath
        /\ task' = "open" /\ at' = "opening"
        /\ Install(deferred.path)
  /\ UNCHANGED <<depth, automation, outer, mine, plan, rollback, question, world, asked, inherited>>

-----------------------------------------------------------------------------
(* OperationScope: an operation begins from the menu (or Job Control), from a
   script, or from the startup question. *)
Begin(t, s) ==
  /\ depth' = depth + 1
  /\ at' = "preparing" /\ task' = t /\ plan' = s
  /\ outer' = [at |-> at, task |-> task]
  /\ aside' = Nothing
  /\ UNCHANGED <<editor, transition, automation, waiting, pin, mine, opened, rollback, snap,
                 protected, made, asked, inherited>>

(* An export or another operation that leaves the source alone; a raw file, an
   image sequence or a queued job that replaces it; a project, or an append,
   that replaces it under a rollback. *)
BeginOperation ==
  /\ Free
  /\ \/ Begin("work", Nothing)
     \/ \E s \in {Fresh(Raw)} \cup {[path |-> p, edits |-> "edited"] : p \in File} :
          Begin("replace", s)
     \/ \E p \in File \cup {Raw} : Begin("load", [path |-> p, edits |-> "edited"])
  /\ UNCHANGED question

(* Append, as a script calls it. *)
ScriptAppends ==
  /\ at = "commands" /\ opened /\ ~question
  /\ source # NoPath
  /\ \E p \in File : Begin("load", [path |-> p, edits |-> "edited"])
  /\ UNCHANGED question

(* The destructor of OperationScope, and the return to the caller's event loop. *)
Return(success) ==
  /\ depth' = depth - 1
  /\ at' = outer.at /\ task' = outer.task /\ outer' = NoOuter
  /\ mine' = NoPath /\ plan' = Nothing
  /\ opened' = IF transition THEN opened ELSE success \/ task = "recover"
  /\ Reschedule

(* The operation is over, is cancelled, or fails before it touches the source. *)
EndPreparing ==
  /\ at = "preparing"
  /\ UNCHANGED <<transition, automation>>
  /\ Return(FALSE)
  /\ UNCHANGED <<editor, deferred, pin, rollback, disk, world, ghosts>>

(* materializeRawVideo() *)
Materialize ==
  /\ at = "preparing" /\ plan.path = Raw /\ mine = NoPath
  /\ Copy # made
  /\ mine' = CHOOSE c \in Copy : c \notin made
  /\ made' = made \cup {mine'}
  /\ UNCHANGED <<editor, scopes, waiting, at, task, outer, pin, opened, plan, rollback, disk,
                 aside, ghosts>>

Prepared == plan.path = Raw => mine # NoPath
Target   == IF plan.path = Raw THEN mine ELSE plan.path

(* onFileOpenRawVideo(), onFileOpenImageSequence(), reloadQueuedJob() *)
ReplaceSource ==
  /\ at = "preparing" /\ task = "replace" /\ Prepared
  /\ at' = "opening" /\ asked' = plan.path
  /\ UNCHANGED protected
  /\ Install(Target)
  /\ UNCHANGED <<depth, automation, scheduled, task, outer, mine, plan, rollback, question, world,
                 inherited>>

(* The caller then says what the copy or the manifest stands for. *)
FinishReplace ==
  /\ at = "opened" /\ task = "replace"
  /\ session' = IF opened THEN plan ELSE session
  /\ UNCHANGED <<transition, automation>>
  /\ Return(opened)
  /\ UNCHANGED <<source, media, deferred, pin, rollback, disk, world, ghosts>>

(* onFileReopen() of a temporary copy. *)
Reopen ==
  /\ Free /\ media # NoPath /\ source # NoPath
  /\ depth' = depth + 1
  /\ at' = "opening" /\ task' = "replace" /\ plan' = Fresh(session.path)
  /\ asked' = session.path
  /\ UNCHANGED protected
  /\ Install(source)
  /\ UNCHANGED <<automation, scheduled, outer, mine, rollback, question, world, inherited>>

-----------------------------------------------------------------------------
(* SessionRollbackScope *)
Loading == task \in {"load", "recover"}

(* Mutant of Protect: the recovery file is fair game during a load. *)
ProtectNothing == protected' = protected

(* Its constructor protects a snapshot that exists. *)
Protect == protected' = (protected \/ snap # Nothing)

Capture ==
  [active |-> TRUE, session |-> session, path |-> source, media |-> media,
   protected |-> protected, snap |-> snap # Nothing]

(* loadProjectFile() and appendVideoSegments(): the old session is captured and
   the new source opened. *)
LoadSource ==
  /\ at = "preparing" /\ Loading /\ Prepared
  /\ ~transition
  /\ rollback' = Capture
  /\ Protect
  /\ at' = "opening" /\ asked' = session.path
  /\ Install(Target)
  /\ UNCHANGED <<depth, automation, scheduled, task, outer, mine, plan, question, world, inherited>>

(* A session that cannot be brought back is saved under a new name, or reported. *)
Preserve(s) == aside' = s

(* The same inside somebody else's transition: openVideoFileImpl() puts the new
   source off and answers false, and so does the rollback with the old one. *)
LoadInsideTransition ==
  /\ at = "preparing" /\ Loading /\ Prepared
  /\ transition
  /\ PutOff(source)
  /\ IF source = NoPath THEN UNCHANGED aside ELSE Preserve(session)
  /\ UNCHANGED <<transition, automation, scheduled>>
  /\ depth' = depth - 1
  /\ at' = outer.at /\ task' = outer.task /\ outer' = NoOuter
  /\ mine' = NoPath /\ plan' = Nothing
  /\ UNCHANGED <<editor, pin, opened, rollback, disk, made, ghosts>>

(* The external soundtrack of the new session cannot be opened. *)
LoadRefused ==
  /\ at = "opened" /\ Loading /\ opened
  /\ at' = "refused"
  /\ UNCHANGED <<editor, scopes, waiting, task, outer, pin, mine, opened, plan, rollback, disk,
                 world, ghosts>>

(* commit(); after the startup question the snapshot that was restored goes,
   and when it cannot be removed it is left alone from then on. *)
LoadCommits ==
  /\ at = "opened" /\ Loading /\ opened
  /\ session' = plan
  /\ asked' = plan.path
  /\ rollback' = NoRollback
  /\ IF task = "recover"
     THEN /\ inherited' = FALSE
          /\ \/ snap' = Nothing /\ protected' = FALSE
             \/ snap' = snap /\ protected' = TRUE
     ELSE /\ protected' = rollback.protected
          /\ snap' = IF rollback.protected THEN snap ELSE Nothing
          /\ UNCHANGED inherited
  /\ UNCHANGED <<transition, automation>>
  /\ Return(TRUE)
  /\ UNCHANGED <<source, media, deferred, pin, question, world>>

(* The destructor without a commit: the old source is opened again. *)
RollBack ==
  /\ Loading
  /\ at = "refused" \/ (at = "opened" /\ ~opened)
  /\ rollback.path # NoPath
  /\ at' = "restoring"
  /\ UNCHANGED protected
  /\ Install(rollback.path)
  /\ UNCHANGED <<depth, automation, scheduled, task, outer, mine, plan, rollback, question, world,
                 asked, inherited>>

RollBackToNothing ==
  /\ Loading
  /\ at = "refused" \/ (at = "opened" /\ ~opened)
  /\ rollback.path = NoPath
  /\ at' = "restored"
  /\ UNCHANGED protected
  /\ CloseNow
  /\ UNCHANGED <<scopes, scheduled, task, outer, pin, mine, opened, plan, rollback, question, world,
                 ghosts>>

EndRestore ==
  /\ at = "restoring"
  /\ transition' = FALSE
  /\ pin' = NoPath
  /\ at' = "restored"
  /\ UNCHANGED <<depth, automation>>
  /\ Reschedule
  /\ UNCHANGED <<editor, deferred, task, outer, mine, opened, plan, rollback, disk, world, ghosts>>

(* Mutant of Restored: the source is back, the edits are not looked after. *)
RestoredSource == session

(* applyDetails() puts the captured state on the reopened source. *)
Restored == IF opened THEN rollback.session ELSE session

(* The end of the destructor.  A soundtrack that is gone counts as a failure. *)
FinishRollback ==
  /\ at = "restored"
  /\ rollback' = NoRollback
  /\ protected' = rollback.protected
  /\ IF rollback.path = NoPath
     THEN UNCHANGED <<session, aside>>
     ELSE /\ session' = Restored
          /\ \/ opened /\ UNCHANGED aside
             \/ Preserve(rollback.session)
  /\ UNCHANGED <<transition, automation>>
  /\ Return(FALSE)
  /\ UNCHANGED <<source, media, deferred, pin, snap, question, made, ghosts>>

-----------------------------------------------------------------------------
(* executeAutomationProgram(): Open and Close of a script replace the source
   without an operation around them. *)
BeginScript ==
  /\ Free \/ at = "startup"
  /\ automation' = TRUE
  /\ at' = "commands" /\ task' = "script" /\ opened' = TRUE
  /\ UNCHANGED <<editor, depth, transition, waiting, outer, pin, mine, plan, rollback, disk, world,
                 ghosts>>

ScriptOpens(p) ==
  /\ at = "commands" /\ opened
  /\ at' = "opening" /\ asked' = p
  /\ UNCHANGED protected
  /\ Install(p)
  /\ UNCHANGED <<depth, automation, scheduled, task, outer, mine, plan, rollback, question, world,
                 inherited>>

ScriptCloses ==
  /\ at = "commands" /\ opened
  /\ asked' = NoPath
  /\ UNCHANGED protected
  /\ CloseNow
  /\ UNCHANGED <<scopes, scheduled, call, question, world, inherited>>

EndScript ==
  /\ at = "commands" /\ ~question
  /\ at' = "idle" /\ task' = "none"
  /\ automation' = FALSE
  /\ UNCHANGED <<depth, transition>>
  /\ Reschedule
  /\ UNCHANGED <<editor, deferred, outer, pin, mine, opened, plan, rollback, disk, world, ghosts>>

-----------------------------------------------------------------------------
(* saveRecoverySnapshot(), every thirty seconds wherever the event loop runs. *)
RecoveryTimer ==
  /\ Pumping /\ ~protected /\ source # NoPath
  /\ snap' = session
  /\ UNCHANGED <<editor, scopes, waiting, call, protected, question, world, ghosts>>

(* The startup question, posted by the constructor: it runs in the first event
   loop there is, which may be that of a file opened from the command line. *)
AskNothing ==
  /\ Pumping /\ question
  /\ snap = Nothing
  /\ question' = FALSE
  /\ UNCHANGED <<editor, scopes, waiting, call, snap, protected, world, ghosts>>

AnswerYes ==
  /\ Pumping /\ question
  /\ snap # Nothing
  /\ question' = FALSE
  /\ Begin("recover", snap)

AnswerNo ==
  /\ Pumping /\ question
  /\ snap # Nothing
  /\ question' = FALSE
  /\ inherited' = FALSE
  /\ \/ snap' = Nothing /\ protected' = FALSE
     \/ snap' = snap /\ protected' = TRUE
  /\ UNCHANGED <<editor, scopes, waiting, call, world, asked>>

Dismiss ==
  /\ Pumping /\ question
  /\ snap # Nothing
  /\ question' = FALSE
  /\ UNCHANGED <<editor, scopes, waiting, call, snap, protected, world, ghosts>>

(* closeEvent(), or the death of the process, and the next start. *)
Restart ==
  /\ source' = NoPath /\ media' = NoPath /\ session' = Nothing
  /\ depth' = 0 /\ transition' = FALSE /\ automation' = FALSE
  /\ deferred' = NoRequest /\ scheduled' = FALSE
  /\ at' = "startup" /\ task' = "none" /\ outer' = NoOuter
  /\ pin' = NoPath /\ mine' = NoPath /\ opened' = FALSE
  /\ plan' = Nothing /\ rollback' = NoRollback
  /\ question' = TRUE
  /\ protected' = (snap' # Nothing) /\ inherited' = (snap' # Nothing)
  /\ aside' = Nothing /\ asked' = NoPath
  /\ UNCHANGED made

Crash ==
  /\ snap' = snap
  /\ Restart

Quit ==
  /\ Free
  /\ snap' = IF protected THEN snap ELSE Nothing
  /\ Restart

-----------------------------------------------------------------------------
Question == AskNothing \/ AnswerYes \/ AnswerNo \/ Dismiss

Requests ==
  \/ \E p \in File \cup Held : OpenFile(p) \/ ScriptOpens(p)
  \/ \E p \in File \cup Held \cup {NoPath} : RequestMeanwhile(p)
  \/ CloseFile \/ Edit \/ BeginOperation \/ Reopen \/ BeginScript \/ ScriptCloses \/ ScriptAppends

(* What the GUI thread goes on with by itself. *)
Progress ==
  \/ EnterLoop \/ EndOpen \/ EndPreparing \/ Materialize
  \/ ReplaceSource \/ FinishReplace \/ LoadSource \/ LoadInsideTransition \/ LoadRefused
  \/ LoadCommits \/ RollBack \/ RollBackToNothing \/ EndRestore \/ FinishRollback \/ EndScript

Next ==
  \/ Requests \/ Progress \/ Question
  \/ TimerWhileBlocked \/ DeferredTimer \/ RecoveryTimer
  \/ Crash \/ Quit

Spec == Init /\ [][Next]_vars

(* Every call returns in the end: dialogs are answered, the question too, and
   operations and scripts have an end.  The zero timer is delivered when the
   event loop is idle often enough, because events are delivered in order. *)
FairSpec ==
  /\ Spec
  /\ WF_vars(Question) /\ WF_vars(Progress) /\ SF_vars(EndScript) /\ SF_vars(DeferredTimer)

-----------------------------------------------------------------------------
TypeOK ==
  /\ source \in Path \cup {NoPath} /\ {media, pin, mine} \subseteq Copy \cup {NoPath}
  /\ session \in Session \cup {Nothing} /\ plan \in Session \cup {Nothing}
  /\ depth \in 0 .. 1 /\ transition \in BOOLEAN /\ automation \in BOOLEAN
  /\ deferred \in [pending : BOOLEAN, path : Path \cup {NoPath}, media : Copy \cup {NoPath}]
  /\ scheduled \in BOOLEAN /\ opened \in BOOLEAN
  /\ at \in {"startup", "idle", "preparing", "opening", "opened", "refused", "restoring",
             "restored", "commands"}
  /\ task \in {"none", "open", "work", "replace", "load", "recover", "script"}
  /\ rollback \in [active : BOOLEAN, session : Session \cup {Nothing},
                   path : Path \cup {NoPath}, media : Copy \cup {NoPath},
                   protected : BOOLEAN, snap : BOOLEAN]
  /\ snap \in Session \cup {Nothing}
  /\ protected \in BOOLEAN /\ question \in BOOLEAN
  /\ made \subseteq Copy /\ aside \in Session \cup {Nothing}

(* A temporary copy lives exactly as long as somebody needs it: the file under
   the open decoder, under a request that was put off and under a session that
   may have to be brought back exists; at rest no other copy is kept (the shared
   owners of VDQtTemporaryMediaFile and where the window resets them). *)
CopiesAreExact ==
  /\ {source, deferred.path, rollback.path} \cap Copy \subseteq Held
  /\ at = "idle" /\ ~deferred.pending => Held \subseteq {source}

(* At rest the editor shows what was asked for last, or nothing when that could
   not be opened; it never ends with a request that was overtaken, and a raw
   file is known by its own name, not by that of its copy
   (openVideoFileImpl(), scheduleDeferredSourceTransition(), onFileReopen()). *)
RestIsLatest ==
  at = "idle" /\ ~deferred.pending => session.path \in {asked, NoPath}

(* A snapshot that an earlier process left survives until the user disposes of
   it or it was restored, and the snapshot of the present session survives
   a load until the load is committed, whatever timers, failures and crashes
   come in between (mRecoverySnapshotProtected).  The end of a process disposes of
   nothing that is owed, whether it quits or crashes: the next one asks its question. *)
SnapshotIsOwed == inherited \/ (rollback.active /\ rollback.snap)
SnapshotSurvives == [][SnapshotIsOwed /\ (SnapshotIsOwed' \/ question') => snap' = snap]_vars

(* A load that is not committed leaves the session as it was, edits and all, or
   its edits in a project of their own, or a report that neither was possible
   (SessionRollbackScope). *)
FailedLoadKeepsSession ==
  [][rollback.active /\ ~rollback'.active /\ at' # "startup" =>
       \/ opened' /\ session' = plan
       \/ session' = rollback.session
       \/ aside' = rollback.session]_vars

(* A request that was put off is carried out or overtaken by a newer one. *)
DeferredIsServed == deferred.pending ~> ~deferred.pending

=============================================================================
