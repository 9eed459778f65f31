------------------------- MODULE SourceSessionProofs -------------------------
(***************************************************************************)
(* What SourceSession's runs check on a few files holds for every set of   *)
(* files and of temporary copies.                                          *)
(***************************************************************************)
EXTENDS SourceSession, TLAPS

(* An operation, from its scope's constructor to its destructor. *)
InOperation == \/ at \in {"preparing", "opened", "refused", "restoring", "restored"}
               \/ at = "opening" /\ task \in {"replace", "load", "recover"}

(* The calls that an operation can be made from. *)
Outers == {NoOuter, [at |-> "commands", task |-> "script"],
           [at |-> "opening", task |-> "open"], [at |-> "opening", task |-> "script"]}

(* The recovery that the startup question began inside another file's opening. *)
Inside == outer.at = "opening"

(* The counters and flags of the scopes say where the GUI thread is. *)
ScopeInv ==
  /\ outer \in Outers
  /\ depth = IF InOperation THEN 1 ELSE 0
  /\ ~InOperation => outer = NoOuter
  /\ Inside => at = "preparing" /\ task = "recover"
  /\ transition <=> at \in {"opening", "restoring"} \/ Inside
  /\ question => ~InOperation /\ ~deferred.pending
  /\ Inside => ~deferred.pending

(* What is done where, and what an operation is to bring about. *)
TaskInv ==
  /\ at \in {"startup", "idle"} => task = "none"
  /\ at = "commands" => task = "script"
  /\ at = "opening" => task \in {"open", "script", "replace", "load", "recover"}
  /\ at = "preparing" => task \in {"work", "replace", "load", "recover"}
  /\ at = "opened" => task \in {"replace", "load", "recover"}
  /\ at \in {"refused", "restoring", "restored"} => task \in {"load", "recover"}
  /\ task \in {"replace", "load", "recover"} => plan \in Session

(* A rollback exists while a load is past its preparations; nothing is put off then. *)
RollbackInv ==
  /\ rollback.active <=> task \in {"load", "recover"} /\ at # "preparing"
  /\ ~rollback.active => rollback = NoRollback
  /\ rollback.active => /\ asked = rollback.session.path
                        /\ rollback.path = NoPath <=> rollback.session = Nothing

(* Whoever refers to a temporary copy owns it. *)
OwnersInv ==
  /\ media # NoPath => media = source
  /\ source \in Copy => media = source
  /\ ~deferred.pending => deferred = NoRequest
  /\ deferred.path \in Copy => deferred.media = deferred.path
  /\ rollback.path \in Copy => rollback.media = rollback.path
  /\ pin # NoPath => transition
  /\ mine # NoPath => InOperation

(* The session is that of the open source, and the answer of the open is true. *)
SourceInv ==
  /\ source = NoPath <=> session = Nothing
  /\ at \in {"opening", "opened", "refused", "restoring"} \/ Inside
       => (opened <=> source # NoPath)
  /\ at = "restored" => IF rollback.path = NoPath THEN source = NoPath
                        ELSE opened <=> source # NoPath
  /\ at = "restoring" => rollback.path # NoPath

(* Where the latest request is: done, being done, or put off. *)
LatestInv ==
  /\ deferred.pending => deferred.path \in {asked, NoPath}
  /\ (~InOperation \/ at = "preparing") /\ ~deferred.pending
       => session.path \in {asked, NoPath}
  /\ InOperation /\ at # "preparing" => ~deferred.pending
  /\ task = "replace" /\ at \in {"opening", "opened"} => asked = plan.path
  /\ (at = "opening" /\ ~InOperation) \/ Inside => session.path = source

(* What is owed is protected, and stays so when a rollback gives back the flag. *)
OwedInv ==
  /\ SnapshotIsOwed => protected
  /\ rollback.active /\ inherited => rollback.protected

IInv == /\ TypeOK /\ ScopeInv /\ TaskInv /\ RollbackInv
        /\ OwnersInv /\ SourceInv /\ LatestInv /\ OwedInv

-----------------------------------------------------------------------------
(* One lemma per action of the GUI thread, one step per part of the invariant. *)

(* Opening, closing, requests put off and the zero timer that serves them. *)
LEMMA OpenFileStep ==
  ASSUME IInv, NEW p \in File \cup Held, OpenFile(p)
  PROVE  IInv'
<1>1. TypeOK'
  <2>1. opened' \in BOOLEAN /\ transition' \in BOOLEAN  BY Zenon DEF OpenFile, Install
  <2> QED
    BY <2>1 DEF IInv, TypeOK, OpenFile, Install, Supersede, ReleaseSnapshot, Adopt, Pin, Held,
         Path, Session, Edits, Fresh, NoRequest, world
<1>2. ScopeInv'
  BY DEF IInv, ScopeInv, InOperation, Inside, OpenFile, Free, Install, Supersede, NoRequest
<1>3. TaskInv'
  BY DEF IInv, TaskInv, OpenFile
<1>4. RollbackInv'
  BY DEF IInv, TaskInv, RollbackInv, OpenFile, Free
<1>5. OwnersInv'
  BY SourceAssumption DEF IInv, OwnersInv, InOperation, OpenFile, Free, Install, Supersede,
       Adopt, Pin, NoRequest
<1>6. SourceInv'
  BY SourceAssumption DEF IInv, SourceInv, OpenFile, Install, Held, Nothing, Fresh
<1>7. LatestInv'
  BY DEF IInv, LatestInv, OpenFile, Install, Supersede, Nothing, Fresh, NoRequest
<1>8. OwedInv'
  BY DEF IInv, OwedInv, SnapshotIsOwed, OpenFile
<1> QED  BY <1>1, <1>2, <1>3, <1>4, <1>5, <1>6, <1>7, <1>8 DEF IInv

LEMMA EnterLoopStep ==
  ASSUME IInv, EnterLoop
  PROVE  IInv'
<1>1. TypeOK'
  BY DEF IInv, TypeOK, EnterLoop, editor, scopes, waiting, disk, world
<1>2. ScopeInv'
  BY DEF IInv, ScopeInv, InOperation, Inside, EnterLoop, scopes, waiting, disk
<1>3. TaskInv'
  BY DEF IInv, TaskInv, EnterLoop
<1>4. RollbackInv'
  BY DEF IInv, RollbackInv, EnterLoop, ghosts
<1>5. OwnersInv'
  BY DEF IInv, OwnersInv, InOperation, EnterLoop, editor, scopes, waiting
<1>6. SourceInv'
  BY DEF IInv, SourceInv, Inside, EnterLoop, editor
<1>7. LatestInv'
  BY DEF IInv, LatestInv, InOperation, Inside, EnterLoop, editor, waiting, ghosts
<1>8. OwedInv'
  BY DEF IInv, OwedInv, SnapshotIsOwed, EnterLoop, disk, ghosts
<1> QED  BY <1>1, <1>2, <1>3, <1>4, <1>5, <1>6, <1>7, <1>8 DEF IInv

LEMMA CloseFileStep ==
  ASSUME IInv, CloseFile
  PROVE  IInv'
<1>1. TypeOK'
  BY DEF IInv, TypeOK, CloseFile, CloseNow, Supersede, ReleaseSnapshot, NoRequest, scopes, call,
       world
<1>2. ScopeInv'
  BY DEF IInv, ScopeInv, InOperation, Inside, CloseFile, CloseNow, Supersede, NoRequest, scopes,
       call
<1>3. TaskInv'
  BY DEF IInv, TaskInv, CloseFile, call
<1>4. RollbackInv'
  BY DEF IInv, TaskInv, RollbackInv, CloseFile, Free, call
<1>5. OwnersInv'
  BY DEF IInv, OwnersInv, InOperation, CloseFile, CloseNow, Supersede, NoRequest, call
<1>6. SourceInv'
  BY DEF IInv, ScopeInv, SourceInv, Inside, CloseFile, Free, CloseNow, call
<1>7. LatestInv'
  BY DEF IInv, LatestInv, CloseFile, Free, CloseNow, Supersede, Nothing, NoRequest, call
<1>8. OwedInv'
  BY DEF IInv, OwedInv, SnapshotIsOwed, CloseFile, call
<1> QED  BY <1>1, <1>2, <1>3, <1>4, <1>5, <1>6, <1>7, <1>8 DEF IInv

LEMMA EditStep ==
  ASSUME IInv, Edit
  PROVE  IInv'
<1>1. TypeOK'
  BY DEF IInv, TypeOK, SourceInv, Edit, Session, Edits, scopes, waiting, call, disk, world
<1>2. ScopeInv'
  BY DEF IInv, ScopeInv, InOperation, Inside, Edit, scopes, waiting, call, disk
<1>3. TaskInv'
  BY DEF IInv, TaskInv, Edit, call
<1>4. RollbackInv'
  BY DEF IInv, RollbackInv, Edit, call, ghosts
<1>5. OwnersInv'
  BY DEF IInv, OwnersInv, InOperation, Edit, scopes, waiting, call
<1>6. SourceInv'
  BY DEF IInv, SourceInv, Inside, Edit, Nothing, call
<1>7. LatestInv'
  BY DEF IInv, LatestInv, InOperation, Inside, Edit, waiting, call, ghosts
<1>8. OwedInv'
  BY DEF IInv, OwedInv, SnapshotIsOwed, Edit, call, disk, ghosts
<1> QED  BY <1>1, <1>2, <1>3, <1>4, <1>5, <1>6, <1>7, <1>8 DEF IInv

LEMMA RequestMeanwhileStep ==
  ASSUME IInv, NEW p \in File \cup Held \cup {NoPath}, RequestMeanwhile(p)
  PROVE  IInv'
<1>1. TypeOK'
  BY DEF IInv, TypeOK, RequestMeanwhile, PutOff, Pin, Held, Path, editor, scopes, call, disk,
       world
<1>2. ScopeInv'
  BY DEF IInv, ScopeInv, InOperation, Inside, RequestMeanwhile, scopes, call, disk
<1>3. TaskInv'
  BY DEF IInv, TaskInv, RequestMeanwhile, call
<1>4. RollbackInv'
  BY DEF IInv, ScopeInv, RollbackInv, InOperation, RequestMeanwhile, call
<1>5. OwnersInv'
  BY SourceAssumption DEF IInv, OwnersInv, InOperation, RequestMeanwhile, PutOff, Pin, editor,
       scopes, call
<1>6. SourceInv'
  BY DEF IInv, SourceInv, Inside, RequestMeanwhile, editor, call
<1>7. LatestInv'
  BY DEF IInv, ScopeInv, LatestInv, InOperation, RequestMeanwhile, PutOff, editor, call
<1>8. OwedInv'
  BY DEF IInv, OwedInv, SnapshotIsOwed, RequestMeanwhile, call, disk
<1> QED  BY <1>1, <1>2, <1>3, <1>4, <1>5, <1>6, <1>7, <1>8 DEF IInv

LEMMA EndOpenStep ==
  ASSUME IInv, EndOpen
  PROVE  IInv'
<1>1. TypeOK'
  <2>1. scheduled' \in BOOLEAN /\ transition' \in BOOLEAN  BY Zenon DEF EndOpen, Reschedule
  <2> QED  BY <2>1 DEF IInv, TypeOK, EndOpen, editor, scopes, waiting, call, disk, world, ghosts
<1>2. ScopeInv'
  BY DEF IInv, ScopeInv, TaskInv, InOperation, Inside, EndOpen, disk
<1>3. TaskInv'
  BY DEF IInv, TaskInv, EndOpen
<1>4. RollbackInv'
  BY DEF IInv, RollbackInv, EndOpen, ghosts
<1>5. OwnersInv'
  BY DEF IInv, OwnersInv, InOperation, EndOpen, editor
<1>6. SourceInv'
  BY DEF IInv, SourceInv, EndOpen, editor
<1>7. LatestInv'
  BY DEF IInv, TaskInv, LatestInv, InOperation, Inside, EndOpen, editor, ghosts
<1>8. OwedInv'
  BY DEF IInv, OwedInv, SnapshotIsOwed, EndOpen, disk, ghosts
<1> QED  BY <1>1, <1>2, <1>3, <1>4, <1>5, <1>6, <1>7, <1>8 DEF IInv

LEMMA TimerWhileBlockedStep ==
  ASSUME IInv, TimerWhileBlocked
  PROVE  IInv'
<1>1. TypeOK'
  <2>1. scheduled' \in BOOLEAN  BY Zenon DEF TimerWhileBlocked
  <2> QED
    BY <2>1 DEF IInv, TypeOK, TimerWhileBlocked, editor, scopes, waiting, call, disk, world,
         ghosts
<1>2. ScopeInv'
  BY DEF IInv, ScopeInv, InOperation, Inside, TimerWhileBlocked, scopes, call, disk
<1>3. TaskInv'
  BY DEF IInv, TaskInv, TimerWhileBlocked, call
<1>4. RollbackInv'
  BY DEF IInv, RollbackInv, TimerWhileBlocked, call, ghosts
<1>5. OwnersInv'
  BY DEF IInv, OwnersInv, InOperation, TimerWhileBlocked, editor, scopes, call
<1>6. SourceInv'
  BY DEF IInv, SourceInv, Inside, TimerWhileBlocked, editor, call
<1>7. LatestInv'
  BY DEF IInv, LatestInv, InOperation, Inside, TimerWhileBlocked, editor, call, ghosts
<1>8. OwedInv'
  BY DEF IInv, OwedInv, SnapshotIsOwed, TimerWhileBlocked, call, disk, ghosts
<1> QED  BY <1>1, <1>2, <1>3, <1>4, <1>5, <1>6, <1>7, <1>8 DEF IInv

LEMMA DeferredTimerStep ==
  ASSUME IInv, DeferredTimer
  PROVE  IInv'
<1>1. TypeOK'
  <2>1. scheduled' \in BOOLEAN /\ transition' \in BOOLEAN /\ opened' \in BOOLEAN
    BY Zenon DEF DeferredTimer, Install, IInv, TypeOK
  <2>2. deferred' \in [pending : BOOLEAN, path : Path \cup {NoPath}, media : Copy \cup {NoPath}]
    <3>1. deferred' = NoRequest  BY Zenon DEF DeferredTimer, CloseNow, Install, Supersede
    <3> QED  BY <3>1, Zenon DEF NoRequest
  <2>3. snap' \in Session \cup {Nothing}
    BY Zenon DEF IInv, TypeOK, DeferredTimer, CloseNow, Install, ReleaseSnapshot
  <2>4. source' \in Path \cup {NoPath} /\ session' \in Session \cup {Nothing}
    <3>1. deferred.path \in Path \cup {NoPath}  BY DEF IInv, TypeOK
    <3>2. deferred.path # NoPath => Fresh(deferred.path) \in Session
      BY <3>1 DEF Fresh, Session, Edits
    <3> QED  BY <3>1, <3>2, Zenon DEF DeferredTimer, CloseNow, Install
  <2>5. {media', pin', mine'} \subseteq Copy \cup {NoPath}
    BY DEF IInv, TypeOK, DeferredTimer, CloseNow, Install, Adopt, Pin, Held
  <2>6. at' \in {"idle", "opening"} /\ task' \in {task, "open"}
    BY Zenon DEF DeferredTimer
  <2>7. UNCHANGED <<depth, automation, plan, rollback, question, made, aside, protected>>
    BY Zenon DEF DeferredTimer, world
  <2> QED  BY <2>1, <2>2, <2>3, <2>4, <2>5, <2>6, <2>7 DEF IInv, TypeOK
<1>2. ScopeInv'
  BY DEF IInv, ScopeInv, InOperation, Inside, DeferredTimer, Install
<1>3. TaskInv'
  BY DEF IInv, TaskInv, DeferredTimer
<1>4. RollbackInv'
  BY DEF IInv, TaskInv, RollbackInv, DeferredTimer
<1>5. OwnersInv'
  BY DEF IInv, OwnersInv, InOperation, DeferredTimer, CloseNow, Install, Supersede, Adopt, Pin,
       Held, NoRequest
<1>6. SourceInv'
  BY DEF IInv, ScopeInv, SourceInv, Inside, DeferredTimer, CloseNow, Install, Nothing, Fresh
<1>7. LatestInv'
  BY DEF IInv, LatestInv, DeferredTimer, CloseNow, Install, Supersede, Nothing, Fresh, NoRequest
<1>8. OwedInv'
  BY DEF IInv, OwedInv, SnapshotIsOwed, DeferredTimer
<1> QED  BY <1>1, <1>2, <1>3, <1>4, <1>5, <1>6, <1>7, <1>8 DEF IInv

(* Operations and the sources they replace. *)
LEMMA BeginOperationStep ==
  ASSUME IInv, BeginOperation
  PROVE  IInv'
<1>1. TypeOK'
  BY DEF IInv, TypeOK, BeginOperation, Free, Blocked, Begin, Path, Session, Edits, Fresh, editor,
       waiting
<1>2. ScopeInv'
  BY DEF IInv, ScopeInv, TaskInv, InOperation, Inside, BeginOperation, Free, Begin, NoOuter
<1>3. TaskInv'
  BY DEF IInv, TaskInv, BeginOperation, Begin, Path, Session, Edits, Fresh
<1>4. RollbackInv'
  BY DEF IInv, TaskInv, RollbackInv, BeginOperation, Free, Begin
<1>5. OwnersInv'
  BY DEF IInv, OwnersInv, InOperation, BeginOperation, Begin, editor, waiting
<1>6. SourceInv'
  BY DEF IInv, SourceInv, Inside, BeginOperation, Begin, editor
<1>7. LatestInv'
  BY DEF IInv, LatestInv, InOperation, Inside, BeginOperation, Free, Begin, editor, waiting
<1>8. OwedInv'
  BY DEF IInv, OwedInv, SnapshotIsOwed, BeginOperation, Begin
<1> QED  BY <1>1, <1>2, <1>3, <1>4, <1>5, <1>6, <1>7, <1>8 DEF IInv

LEMMA ScriptAppendsStep ==
  ASSUME IInv, ScriptAppends
  PROVE  IInv'
<1>1. TypeOK'
  BY DEF IInv, TypeOK, ScopeInv, InOperation, ScriptAppends, Begin, Path, Session, Edits, editor,
       waiting
<1>2. ScopeInv'
  BY DEF IInv, ScopeInv, TaskInv, InOperation, Outers, Inside, ScriptAppends, Begin
<1>3. TaskInv'
  BY DEF IInv, TaskInv, ScriptAppends, Begin, Path, Session, Edits
<1>4. RollbackInv'
  BY DEF IInv, TaskInv, RollbackInv, ScriptAppends, Begin
<1>5. OwnersInv'
  BY DEF IInv, OwnersInv, InOperation, ScriptAppends, Begin, editor, waiting
<1>6. SourceInv'
  BY DEF IInv, SourceInv, ScriptAppends, Begin, editor
<1>7. LatestInv'
  BY DEF IInv, LatestInv, InOperation, Inside, ScriptAppends, Begin, editor, waiting
<1>8. OwedInv'
  BY DEF IInv, OwedInv, SnapshotIsOwed, ScriptAppends, Begin
<1> QED  BY <1>1, <1>2, <1>3, <1>4, <1>5, <1>6, <1>7, <1>8 DEF IInv

LEMMA EndPreparingStep ==
  ASSUME IInv, EndPreparing
  PROVE  IInv'
<1>1. TypeOK'
  <2>1. scheduled' \in BOOLEAN /\ opened' \in BOOLEAN
    BY Zenon DEF EndPreparing, Return, Reschedule, IInv, TypeOK
  <2> QED
    BY <2>1 DEF IInv, TypeOK, ScopeInv, InOperation, Outers, EndPreparing, Return, NoOuter,
         editor, disk, world
<1>2. ScopeInv'
  BY DEF IInv, ScopeInv, InOperation, Outers, Inside, EndPreparing, Return, NoOuter, disk
<1>3. TaskInv'
  BY DEF IInv, ScopeInv, TaskInv, Outers, EndPreparing, Return, NoOuter
<1>4. RollbackInv'
  BY DEF IInv, ScopeInv, RollbackInv, Outers, EndPreparing, Return, NoOuter
<1>5. OwnersInv'
  BY DEF IInv, OwnersInv, EndPreparing, Return, editor
<1>6. SourceInv'
  BY DEF IInv, ScopeInv, SourceInv, Outers, Inside, EndPreparing, Return, NoOuter, editor
<1>7. LatestInv'
  BY DEF IInv, ScopeInv, LatestInv, InOperation, Outers, Inside, EndPreparing, Return, NoOuter,
       editor, ghosts
<1>8. OwedInv'
  BY DEF IInv, OwedInv, SnapshotIsOwed, EndPreparing, disk, ghosts
<1> QED  BY <1>1, <1>2, <1>3, <1>4, <1>5, <1>6, <1>7, <1>8 DEF IInv

LEMMA MaterializeStep ==
  ASSUME IInv, Materialize
  PROVE  IInv'
<1>1. TypeOK'
  BY DEF IInv, TypeOK, Materialize, editor, scopes, waiting, disk
<1>2. ScopeInv'
  BY DEF IInv, ScopeInv, InOperation, Inside, Materialize, scopes, waiting, disk
<1>3. TaskInv'
  BY DEF IInv, TaskInv, Materialize
<1>4. RollbackInv'
  BY DEF IInv, RollbackInv, Materialize
<1>5. OwnersInv'
  BY DEF IInv, OwnersInv, InOperation, Materialize, editor, scopes, waiting
<1>6. SourceInv'
  BY DEF IInv, SourceInv, Inside, Materialize, editor
<1>7. LatestInv'
  BY DEF IInv, LatestInv, Inside, Materialize, editor, waiting, ghosts
<1>8. OwedInv'
  BY DEF IInv, OwedInv, SnapshotIsOwed, Materialize, disk, ghosts
<1> QED  BY <1>1, <1>2, <1>3, <1>4, <1>5, <1>6, <1>7, <1>8 DEF IInv

LEMMA ReplaceSourceStep ==
  ASSUME IInv, ReplaceSource
  PROVE  IInv'
<1>1. TypeOK'
  <2>1. opened' \in BOOLEAN /\ transition' \in BOOLEAN  BY Zenon DEF ReplaceSource, Install
  <2> QED
    BY <2>1 DEF IInv, TypeOK, ReplaceSource, Target, Install, Supersede, ReleaseSnapshot, Adopt,
         Pin, Held, Path, Session, Edits, Nothing, Fresh, NoRequest, world
<1>2. ScopeInv'
  BY DEF IInv, ScopeInv, InOperation, Inside, ReplaceSource, Install
<1>3. TaskInv'
  BY DEF IInv, TaskInv, ReplaceSource
<1>4. RollbackInv'
  BY DEF IInv, RollbackInv, ReplaceSource
<1>5. OwnersInv'
  BY SourceAssumption DEF IInv, OwnersInv, InOperation, ReplaceSource, Install, Supersede, Adopt,
       Pin, Openable, NoRequest
<1>6. SourceInv'
  BY SourceAssumption DEF IInv, SourceInv, ReplaceSource, Install, Openable, Held, Nothing, Fresh
<1>7. LatestInv'
  BY DEF IInv, LatestInv, InOperation, ReplaceSource, Install, Supersede, Nothing, Fresh,
       NoRequest
<1>8. OwedInv'
  BY DEF IInv, OwedInv, SnapshotIsOwed, ReplaceSource
<1> QED  BY <1>1, <1>2, <1>3, <1>4, <1>5, <1>6, <1>7, <1>8 DEF IInv

LEMMA FinishReplaceStep ==
  ASSUME IInv, FinishReplace
  PROVE  IInv'
<1>1. TypeOK'
  BY DEF IInv, TypeOK, ScopeInv, InOperation, Outers, FinishReplace, Return, Reschedule, NoOuter,
       disk, world
<1>2. ScopeInv'
  BY DEF IInv, ScopeInv, InOperation, Outers, Inside, FinishReplace, Return, NoOuter, disk
<1>3. TaskInv'
  BY DEF IInv, ScopeInv, TaskInv, Outers, FinishReplace, Return, NoOuter
<1>4. RollbackInv'
  BY DEF IInv, ScopeInv, RollbackInv, Outers, FinishReplace, Return, NoOuter
<1>5. OwnersInv'
  BY DEF IInv, OwnersInv, FinishReplace, Return
<1>6. SourceInv'
  BY SourceAssumption DEF IInv, ScopeInv, TaskInv, SourceInv, Outers, Inside, FinishReplace,
       Return, Path, Session, Nothing, NoOuter
<1>7. LatestInv'
  BY DEF IInv, ScopeInv, SourceInv, LatestInv, InOperation, Outers, Inside, FinishReplace,
       Return, Nothing, NoOuter, ghosts
<1>8. OwedInv'
  BY DEF IInv, OwedInv, SnapshotIsOwed, FinishReplace, disk, ghosts
<1> QED  BY <1>1, <1>2, <1>3, <1>4, <1>5, <1>6, <1>7, <1>8 DEF IInv

LEMMA ReopenStep ==
  ASSUME IInv, Reopen
  PROVE  IInv'
<1>1. TypeOK'
  <2>1. opened' \in BOOLEAN /\ transition' \in BOOLEAN  BY Zenon DEF Reopen, Install
  <2> QED
    BY <2>1 DEF IInv, TypeOK, Reopen, Free, Blocked, Install, Supersede, ReleaseSnapshot, Adopt,
         Pin, Held, Session, Edits, Nothing, Fresh, NoRequest, world
<1>2. ScopeInv'
  BY DEF IInv, ScopeInv, InOperation, Inside, Reopen, Free, Install
<1>3. TaskInv'
  BY DEF IInv, TypeOK, TaskInv, SourceInv, Reopen, Session, Edits, Fresh
<1>4. RollbackInv'
  BY DEF IInv, TaskInv, RollbackInv, Reopen, Free
<1>5. OwnersInv'
  BY DEF IInv, OwnersInv, InOperation, Reopen, Install, Supersede, Adopt, Pin, Held, NoRequest
<1>6. SourceInv'
  BY DEF IInv, SourceInv, Reopen, Install, Nothing, Fresh
<1>7. LatestInv'
  BY DEF IInv, LatestInv, InOperation, Reopen, Install, Supersede, Nothing, Fresh, NoRequest
<1>8. OwedInv'
  BY DEF IInv, OwedInv, SnapshotIsOwed, Reopen
<1> QED  BY <1>1, <1>2, <1>3, <1>4, <1>5, <1>6, <1>7, <1>8 DEF IInv

(* Loads, with their commit and their rollback. *)
LEMMA LoadSourceStep ==
  ASSUME IInv, LoadSource
  PROVE  IInv'
<1>1. TypeOK'
  <2>1. /\ opened' \in BOOLEAN /\ transition' \in BOOLEAN
        /\ protected' \in BOOLEAN /\ rollback'.snap \in BOOLEAN
    BY Zenon DEF LoadSource, Install, Protect, Capture, IInv, TypeOK
  <2> QED
    BY <2>1 DEF IInv, TypeOK, LoadSource, Target, Capture, Install, Supersede, ReleaseSnapshot,
         Adopt, Pin, Held, Path, Session, Edits, Nothing, Fresh, NoRequest, world
<1>2. ScopeInv'
  BY DEF IInv, ScopeInv, InOperation, Inside, LoadSource, Loading, Install
<1>3. TaskInv'
  BY DEF IInv, TaskInv, LoadSource, Loading
<1>4. RollbackInv'
  BY DEF IInv, RollbackInv, SourceInv, LoadSource, Loading, Capture
<1>5. OwnersInv'
  BY SourceAssumption DEF IInv, OwnersInv, InOperation, LoadSource, Loading, Capture, Install,
       Supersede, Adopt, Pin, Openable, NoRequest
<1>6. SourceInv'
  BY SourceAssumption DEF IInv, SourceInv, LoadSource, Install, Openable, Held, Nothing, Fresh
<1>7. LatestInv'
  BY DEF IInv, LatestInv, InOperation, LoadSource, Loading, Install, Supersede, Nothing, Fresh,
       NoRequest
<1>8. OwedInv'
  BY DEF IInv, OwedInv, SnapshotIsOwed, LoadSource, Capture, Protect
<1> QED  BY <1>1, <1>2, <1>3, <1>4, <1>5, <1>6, <1>7, <1>8 DEF IInv

LEMMA LoadInsideTransitionStep ==
  ASSUME IInv, LoadInsideTransition
  PROVE  IInv'
<1>1. TypeOK'
  BY DEF IInv, TypeOK, ScopeInv, InOperation, Outers, LoadInsideTransition, PutOff, Preserve,
       Pin, Held, NoOuter, editor, disk
<1>2. ScopeInv'
  BY DEF IInv, ScopeInv, InOperation, Outers, Inside, LoadInsideTransition, NoOuter, disk
<1>3. TaskInv'
  BY DEF IInv, ScopeInv, TaskInv, Outers, LoadInsideTransition, NoOuter
<1>4. RollbackInv'
  BY DEF IInv, ScopeInv, RollbackInv, Outers, LoadInsideTransition, NoOuter
<1>5. OwnersInv'
  BY DEF IInv, OwnersInv, LoadInsideTransition, PutOff, Pin, Held, editor
<1>6. SourceInv'
  BY DEF IInv, ScopeInv, SourceInv, Inside, LoadInsideTransition, editor
<1>7. LatestInv'
  BY DEF IInv, ScopeInv, LatestInv, InOperation, Outers, LoadInsideTransition, PutOff, NoOuter,
       editor, ghosts
<1>8. OwedInv'
  BY DEF IInv, OwedInv, SnapshotIsOwed, LoadInsideTransition, disk, ghosts
<1> QED  BY <1>1, <1>2, <1>3, <1>4, <1>5, <1>6, <1>7, <1>8 DEF IInv

LEMMA LoadRefusedStep ==
  ASSUME IInv, LoadRefused
  PROVE  IInv'
<1>1. TypeOK'
  BY DEF IInv, TypeOK, LoadRefused, editor, scopes, waiting, disk, world
<1>2. ScopeInv'
  BY DEF IInv, ScopeInv, InOperation, Inside, LoadRefused, scopes, disk
<1>3. TaskInv'
  BY DEF IInv, TaskInv, LoadRefused, Loading
<1>4. RollbackInv'
  BY DEF IInv, RollbackInv, LoadRefused, ghosts
<1>5. OwnersInv'
  BY DEF IInv, OwnersInv, InOperation, LoadRefused, editor, scopes, waiting
<1>6. SourceInv'
  BY DEF IInv, SourceInv, LoadRefused, editor
<1>7. LatestInv'
  BY DEF IInv, LatestInv, InOperation, Inside, LoadRefused, editor, waiting
<1>8. OwedInv'
  BY DEF IInv, OwedInv, SnapshotIsOwed, LoadRefused, disk, ghosts
<1> QED  BY <1>1, <1>2, <1>3, <1>4, <1>5, <1>6, <1>7, <1>8 DEF IInv

LEMMA LoadCommitsStep ==
  ASSUME IInv, LoadCommits
  PROVE  IInv'
<1>1. TypeOK'
  <2>1. scheduled' \in BOOLEAN /\ opened' \in BOOLEAN /\ protected' \in BOOLEAN
    BY Zenon DEF LoadCommits, Return, Reschedule, IInv, TypeOK
  <2>2. plan \in Session /\ at' \in {"commands", "idle"} /\ task' \in {"script", "none"}
    BY DEF IInv, ScopeInv, TaskInv, Outers, NoOuter, Inside, LoadCommits, Loading, Return
  <2>3. depth' \in 0 .. 1
    BY DEF IInv, ScopeInv, InOperation, LoadCommits, Return
  <2>4. rollback' \in [active : BOOLEAN, session : Session \cup {Nothing}, path : Path \cup {NoPath},
                      media : Copy \cup {NoPath}, protected : BOOLEAN, snap : BOOLEAN]
    BY Zenon DEF LoadCommits, NoRollback
  <2>5. /\ session' \in Session /\ plan' = Nothing /\ mine' = NoPath
        /\ snap' \in Session \cup {Nothing}
    BY <2>2, Zenon DEF LoadCommits, Return, IInv, TypeOK
  <2>6. UNCHANGED <<source, media, pin, deferred, transition, automation, question, made, aside>>
    BY Zenon DEF LoadCommits, world
  <2> QED  BY <2>1, <2>2, <2>3, <2>4, <2>5, <2>6 DEF IInv, TypeOK
<1>2. ScopeInv'
  BY DEF IInv, ScopeInv, InOperation, Outers, Inside, LoadCommits, Return, NoOuter
<1>3. TaskInv'
  BY DEF IInv, ScopeInv, TaskInv, Outers, LoadCommits, Return, NoOuter
<1>4. RollbackInv'
  BY DEF IInv, ScopeInv, RollbackInv, Outers, LoadCommits, Return, NoRollback, NoOuter
<1>5. OwnersInv'
  BY DEF IInv, OwnersInv, LoadCommits, Return, NoRollback
<1>6. SourceInv'
  BY SourceAssumption DEF IInv, ScopeInv, TaskInv, SourceInv, Outers, Inside, LoadCommits,
       Return, Path, Session, Nothing, NoOuter
<1>7. LatestInv'
  BY DEF IInv, ScopeInv, LatestInv, InOperation, Outers, Inside, LoadCommits, Return, NoOuter
<1>8. OwedInv'
  BY DEF IInv, RollbackInv, OwedInv, SnapshotIsOwed, LoadCommits, Loading, NoRollback
<1> QED  BY <1>1, <1>2, <1>3, <1>4, <1>5, <1>6, <1>7, <1>8 DEF IInv

LEMMA RollBackStep ==
  ASSUME IInv, RollBack
  PROVE  IInv'
<1>1. TypeOK'
  <2>1. opened' \in BOOLEAN /\ transition' \in BOOLEAN  BY Zenon DEF RollBack, Install
  <2> QED
    BY <2>1 DEF IInv, TypeOK, RollBack, Install, Supersede, ReleaseSnapshot, Adopt, Pin, Held,
         Session, Edits, Fresh, NoRequest, world
<1>2. ScopeInv'
  BY DEF IInv, ScopeInv, InOperation, Inside, RollBack, Install
<1>3. TaskInv'
  BY DEF IInv, TaskInv, RollBack, Loading
<1>4. RollbackInv'
  BY DEF IInv, RollbackInv, RollBack
<1>5. OwnersInv'
  BY DEF IInv, OwnersInv, InOperation, RollBack, Install, Supersede, Adopt, Pin, Held, NoRequest
<1>6. SourceInv'
  BY DEF IInv, SourceInv, RollBack, Install, Nothing, Fresh
<1>7. LatestInv'
  BY DEF IInv, LatestInv, InOperation, RollBack, Install, Supersede, Nothing, Fresh, NoRequest
<1>8. OwedInv'
  BY DEF IInv, OwedInv, SnapshotIsOwed, RollBack
<1> QED  BY <1>1, <1>2, <1>3, <1>4, <1>5, <1>6, <1>7, <1>8 DEF IInv

LEMMA RollBackToNothingStep ==
  ASSUME IInv, RollBackToNothing
  PROVE  IInv'
<1>1. TypeOK'
  BY DEF IInv, TypeOK, RollBackToNothing, CloseNow, Supersede, ReleaseSnapshot, NoRequest,
       scopes, world
<1>2. ScopeInv'
  BY DEF IInv, ScopeInv, InOperation, Inside, RollBackToNothing, scopes
<1>3. TaskInv'
  BY DEF IInv, TaskInv, RollBackToNothing, Loading
<1>4. RollbackInv'
  BY DEF IInv, RollbackInv, RollBackToNothing, ghosts
<1>5. OwnersInv'
  BY DEF IInv, OwnersInv, InOperation, RollBackToNothing, CloseNow, Supersede, NoRequest
<1>6. SourceInv'
  BY DEF IInv, ScopeInv, SourceInv, Inside, RollBackToNothing, CloseNow
<1>7. LatestInv'
  BY DEF IInv, LatestInv, RollBackToNothing, CloseNow, Supersede, Nothing, NoRequest
<1>8. OwedInv'
  BY DEF IInv, OwedInv, SnapshotIsOwed, RollBackToNothing, ghosts
<1> QED  BY <1>1, <1>2, <1>3, <1>4, <1>5, <1>6, <1>7, <1>8 DEF IInv

LEMMA EndRestoreStep ==
  ASSUME IInv, EndRestore
  PROVE  IInv'
<1>1. TypeOK'
  <2>1. scheduled' \in BOOLEAN /\ transition' \in BOOLEAN  BY Zenon DEF EndRestore, Reschedule
  <2> QED
    BY <2>1 DEF IInv, TypeOK, EndRestore, editor, scopes, waiting, call, disk, world, ghosts
<1>2. ScopeInv'
  BY DEF IInv, ScopeInv, InOperation, Inside, EndRestore, disk
<1>3. TaskInv'
  BY DEF IInv, TaskInv, EndRestore
<1>4. RollbackInv'
  BY DEF IInv, RollbackInv, EndRestore, ghosts
<1>5. OwnersInv'
  BY DEF IInv, OwnersInv, InOperation, EndRestore, editor
<1>6. SourceInv'
  BY DEF IInv, SourceInv, EndRestore, editor
<1>7. LatestInv'
  BY DEF IInv, LatestInv, InOperation, Inside, EndRestore, editor
<1>8. OwedInv'
  BY DEF IInv, OwedInv, SnapshotIsOwed, EndRestore, disk, ghosts
<1> QED  BY <1>1, <1>2, <1>3, <1>4, <1>5, <1>6, <1>7, <1>8 DEF IInv

LEMMA FinishRollbackStep ==
  ASSUME IInv, FinishRollback
  PROVE  IInv'
<1>1. TypeOK'
  BY DEF IInv, TypeOK, ScopeInv, RollbackInv, InOperation, Outers, FinishRollback, Restored,
       Preserve, Return, Reschedule, NoRollback, NoOuter
<1>2. ScopeInv'
  BY DEF IInv, ScopeInv, InOperation, Outers, Inside, FinishRollback, Return, NoOuter
<1>3. TaskInv'
  BY DEF IInv, ScopeInv, TaskInv, Outers, FinishRollback, Return, NoOuter
<1>4. RollbackInv'
  BY DEF IInv, ScopeInv, RollbackInv, Outers, FinishRollback, Return, NoRollback, NoOuter
<1>5. OwnersInv'
  BY DEF IInv, OwnersInv, FinishRollback, Return, NoRollback
<1>6. SourceInv'
  BY DEF IInv, ScopeInv, RollbackInv, SourceInv, Outers, Inside, FinishRollback, Restored,
       Return, NoRollback, NoOuter
<1>7. LatestInv'
  BY DEF IInv, ScopeInv, RollbackInv, SourceInv, LatestInv, InOperation, Outers, Inside,
       FinishRollback, Restored, Return, Nothing, NoRollback, NoOuter, ghosts
<1>8. OwedInv'
  BY DEF IInv, TaskInv, RollbackInv, OwedInv, SnapshotIsOwed, FinishRollback, NoRollback, ghosts
<1> QED  BY <1>1, <1>2, <1>3, <1>4, <1>5, <1>6, <1>7, <1>8 DEF IInv

(* Scripts. *)
LEMMA BeginScriptStep ==
  ASSUME IInv, BeginScript
  PROVE  IInv'
<1>1. TypeOK'
  BY DEF IInv, TypeOK, BeginScript, editor, waiting, disk, world
<1>2. ScopeInv'
  BY DEF IInv, ScopeInv, InOperation, Inside, BeginScript, Free, waiting, disk
<1>3. TaskInv'
  BY DEF IInv, TaskInv, BeginScript
<1>4. RollbackInv'
  BY DEF IInv, TaskInv, RollbackInv, BeginScript, Free
<1>5. OwnersInv'
  BY DEF IInv, OwnersInv, InOperation, BeginScript, Free, editor, waiting
<1>6. SourceInv'
  BY DEF IInv, ScopeInv, SourceInv, Inside, BeginScript, Free, editor
<1>7. LatestInv'
  BY DEF IInv, LatestInv, InOperation, Inside, BeginScript, Free, editor, waiting, ghosts
<1>8. OwedInv'
  BY DEF IInv, OwedInv, SnapshotIsOwed, BeginScript, disk, ghosts
<1> QED  BY <1>1, <1>2, <1>3, <1>4, <1>5, <1>6, <1>7, <1>8 DEF IInv

LEMMA ScriptOpensStep ==
  ASSUME IInv, NEW p \in File \cup Held, ScriptOpens(p)
  PROVE  IInv'
<1>1. TypeOK'
  <2>1. opened' \in BOOLEAN /\ transition' \in BOOLEAN  BY Zenon DEF ScriptOpens, Install
  <2> QED
    BY <2>1 DEF IInv, TypeOK, ScriptOpens, Install, Supersede, ReleaseSnapshot, Adopt, Pin, Held,
         Path, Session, Edits, Fresh, NoRequest, world
<1>2. ScopeInv'
  BY DEF IInv, ScopeInv, TaskInv, InOperation, Inside, ScriptOpens, Install, Supersede, NoRequest
<1>3. TaskInv'
  BY DEF IInv, TaskInv, ScriptOpens
<1>4. RollbackInv'
  BY DEF IInv, TaskInv, RollbackInv, ScriptOpens
<1>5. OwnersInv'
  BY SourceAssumption DEF IInv, OwnersInv, InOperation, ScriptOpens, Install, Supersede, Adopt,
       Pin, NoRequest
<1>6. SourceInv'
  BY SourceAssumption DEF IInv, SourceInv, ScriptOpens, Install, Held, Nothing, Fresh
<1>7. LatestInv'
  BY DEF IInv, TaskInv, LatestInv, ScriptOpens, Install, Supersede, Nothing, Fresh, NoRequest
<1>8. OwedInv'
  BY DEF IInv, OwedInv, SnapshotIsOwed, ScriptOpens
<1> QED  BY <1>1, <1>2, <1>3, <1>4, <1>5, <1>6, <1>7, <1>8 DEF IInv

LEMMA ScriptClosesStep ==
  ASSUME IInv, ScriptCloses
  PROVE  IInv'
<1>1. TypeOK'
  BY DEF IInv, TypeOK, ScriptCloses, CloseNow, Supersede, ReleaseSnapshot, NoRequest, scopes,
       call, world
<1>2. ScopeInv'
  BY DEF IInv, ScopeInv, InOperation, Inside, ScriptCloses, CloseNow, Supersede, NoRequest,
       scopes, call
<1>3. TaskInv'
  BY DEF IInv, TaskInv, ScriptCloses, call
<1>4. RollbackInv'
  BY DEF IInv, TaskInv, RollbackInv, ScriptCloses, call
<1>5. OwnersInv'
  BY DEF IInv, OwnersInv, InOperation, ScriptCloses, CloseNow, Supersede, NoRequest, call
<1>6. SourceInv'
  BY DEF IInv, ScopeInv, SourceInv, Inside, ScriptCloses, CloseNow, call
<1>7. LatestInv'
  BY DEF IInv, LatestInv, ScriptCloses, CloseNow, Supersede, Nothing, NoRequest, call
<1>8. OwedInv'
  BY DEF IInv, OwedInv, SnapshotIsOwed, ScriptCloses, call
<1> QED  BY <1>1, <1>2, <1>3, <1>4, <1>5, <1>6, <1>7, <1>8 DEF IInv

LEMMA EndScriptStep ==
  ASSUME IInv, EndScript
  PROVE  IInv'
<1>1. TypeOK'
  <2>1. scheduled' \in BOOLEAN /\ automation' \in BOOLEAN  BY Zenon DEF EndScript, Reschedule
  <2> QED  BY <2>1 DEF IInv, TypeOK, EndScript, editor, scopes, waiting, call, disk, world, ghosts
<1>2. ScopeInv'
  BY DEF IInv, ScopeInv, InOperation, Inside, EndScript, disk
<1>3. TaskInv'
  BY DEF IInv, TaskInv, EndScript
<1>4. RollbackInv'
  BY DEF IInv, TaskInv, RollbackInv, EndScript
<1>5. OwnersInv'
  BY DEF IInv, OwnersInv, InOperation, EndScript, editor
<1>6. SourceInv'
  BY DEF IInv, SourceInv, Inside, EndScript, editor
<1>7. LatestInv'
  BY DEF IInv, LatestInv, InOperation, Inside, EndScript, editor, ghosts
<1>8. OwedInv'
  BY DEF IInv, OwedInv, SnapshotIsOwed, EndScript, disk, ghosts
<1> QED  BY <1>1, <1>2, <1>3, <1>4, <1>5, <1>6, <1>7, <1>8 DEF IInv

(* The recovery timer, the startup question, and the next start. *)
LEMMA RecoveryTimerStep ==
  ASSUME IInv, RecoveryTimer
  PROVE  IInv'
<1>1. TypeOK'
  BY DEF IInv, TypeOK, RecoveryTimer, editor, scopes, waiting, call, world
<1>2. ScopeInv'
  BY DEF IInv, ScopeInv, InOperation, Inside, RecoveryTimer, scopes, waiting, call
<1>3. TaskInv'
  BY DEF IInv, TaskInv, RecoveryTimer, call
<1>4. RollbackInv'
  BY DEF IInv, RollbackInv, RecoveryTimer, call, ghosts
<1>5. OwnersInv'
  BY DEF IInv, OwnersInv, InOperation, RecoveryTimer, editor, scopes, waiting, call
<1>6. SourceInv'
  BY DEF IInv, SourceInv, Inside, RecoveryTimer, editor, call
<1>7. LatestInv'
  BY DEF IInv, LatestInv, InOperation, Inside, RecoveryTimer, editor, waiting, call, ghosts
<1>8. OwedInv'
  BY DEF IInv, OwedInv, SnapshotIsOwed, RecoveryTimer, call, ghosts
<1> QED  BY <1>1, <1>2, <1>3, <1>4, <1>5, <1>6, <1>7, <1>8 DEF IInv

LEMMA AskNothingStep ==
  ASSUME IInv, AskNothing
  PROVE  IInv'
<1>1. TypeOK'
  <2>1. question' \in BOOLEAN  BY Zenon DEF AskNothing
  <2> QED
    BY <2>1 DEF IInv, TypeOK, AskNothing, editor, scopes, waiting, call, disk, world, ghosts
<1>2. ScopeInv'
  BY DEF IInv, ScopeInv, InOperation, Inside, AskNothing, scopes, call
<1>3. TaskInv'
  BY DEF IInv, TaskInv, AskNothing, call
<1>4. RollbackInv'
  BY DEF IInv, RollbackInv, AskNothing, call, ghosts
<1>5. OwnersInv'
  BY DEF IInv, OwnersInv, InOperation, AskNothing, editor, scopes, waiting, call
<1>6. SourceInv'
  BY DEF IInv, SourceInv, Inside, AskNothing, editor, call
<1>7. LatestInv'
  BY DEF IInv, LatestInv, InOperation, Inside, AskNothing, editor, waiting, call, ghosts
<1>8. OwedInv'
  BY DEF IInv, OwedInv, SnapshotIsOwed, AskNothing, call, ghosts
<1> QED  BY <1>1, <1>2, <1>3, <1>4, <1>5, <1>6, <1>7, <1>8 DEF IInv

LEMMA AnswerYesStep ==
  ASSUME IInv, AnswerYes
  PROVE  IInv'
<1>1. TypeOK'
  <2>1. question' \in BOOLEAN  BY Zenon DEF AnswerYes
  <2> QED  BY <2>1 DEF IInv, TypeOK, ScopeInv, AnswerYes, Begin, editor, waiting
<1>2. ScopeInv'
  BY DEF IInv, ScopeInv, TaskInv, InOperation, Outers, Inside, AnswerYes, Pumping, Begin,
       NoOuter, waiting
<1>3. TaskInv'
  BY DEF IInv, TypeOK, TaskInv, AnswerYes, Begin
<1>4. RollbackInv'
  BY DEF IInv, ScopeInv, TaskInv, RollbackInv, InOperation, AnswerYes, Pumping, Begin
<1>5. OwnersInv'
  BY DEF IInv, OwnersInv, InOperation, AnswerYes, Begin, editor, waiting
<1>6. SourceInv'
  BY DEF IInv, SourceInv, Inside, AnswerYes, Begin, editor
<1>7. LatestInv'
  BY DEF IInv, ScopeInv, LatestInv, Inside, AnswerYes, Begin, editor, waiting
<1>8. OwedInv'
  BY DEF IInv, OwedInv, SnapshotIsOwed, AnswerYes, Begin
<1> QED  BY <1>1, <1>2, <1>3, <1>4, <1>5, <1>6, <1>7, <1>8 DEF IInv

LEMMA AnswerNoStep ==
  ASSUME IInv, AnswerNo
  PROVE  IInv'
<1>1. TypeOK'
  <2>1. question' \in BOOLEAN /\ protected' \in BOOLEAN  BY Zenon DEF AnswerNo
  <2> QED  BY <2>1 DEF IInv, TypeOK, AnswerNo, editor, scopes, waiting, call, disk, world, ghosts
<1>2. ScopeInv'
  BY DEF IInv, ScopeInv, InOperation, Inside, AnswerNo, scopes, call
<1>3. TaskInv'
  BY DEF IInv, TaskInv, AnswerNo, call
<1>4. RollbackInv'
  BY DEF IInv, RollbackInv, AnswerNo, call
<1>5. OwnersInv'
  BY DEF IInv, OwnersInv, InOperation, AnswerNo, editor, scopes, waiting, call
<1>6. SourceInv'
  BY DEF IInv, SourceInv, Inside, AnswerNo, editor, call
<1>7. LatestInv'
  BY DEF IInv, LatestInv, InOperation, Inside, AnswerNo, editor, waiting, call
<1>8. OwedInv'
  BY DEF IInv, TypeOK, ScopeInv, TaskInv, RollbackInv, OwedInv, SnapshotIsOwed, InOperation,
       AnswerNo, call
<1> QED  BY <1>1, <1>2, <1>3, <1>4, <1>5, <1>6, <1>7, <1>8 DEF IInv

LEMMA DismissStep ==
  ASSUME IInv, Dismiss
  PROVE  IInv'
<1>1. TypeOK'
  <2>1. question' \in BOOLEAN  BY Zenon DEF Dismiss
  <2> QED  BY <2>1 DEF IInv, TypeOK, Dismiss, editor, scopes, waiting, call, disk, world, ghosts
<1>2. ScopeInv'
  BY DEF IInv, ScopeInv, InOperation, Inside, Dismiss, scopes, call
<1>3. TaskInv'
  BY DEF IInv, TaskInv, Dismiss, call
<1>4. RollbackInv'
  BY DEF IInv, RollbackInv, Dismiss, call, ghosts
<1>5. OwnersInv'
  BY DEF IInv, OwnersInv, InOperation, Dismiss, editor, scopes, waiting, call
<1>6. SourceInv'
  BY DEF IInv, SourceInv, Inside, Dismiss, editor, call
<1>7. LatestInv'
  BY DEF IInv, LatestInv, InOperation, Inside, Dismiss, editor, waiting, call, ghosts
<1>8. OwedInv'
  BY DEF IInv, OwedInv, SnapshotIsOwed, Dismiss, call, ghosts
<1> QED  BY <1>1, <1>2, <1>3, <1>4, <1>5, <1>6, <1>7, <1>8 DEF IInv

LEMMA RestartStep ==
  ASSUME IInv, Restart, snap' \in Session \cup {Nothing}
  PROVE  IInv'
<1>1. TypeOK'
  <2>1. /\ transition' \in BOOLEAN /\ automation' \in BOOLEAN /\ scheduled' \in BOOLEAN
        /\ opened' \in BOOLEAN /\ question' \in BOOLEAN /\ protected' \in BOOLEAN
    BY Zenon DEF Restart
  <2> QED  BY <2>1 DEF IInv, TypeOK, Restart, NoRequest, NoRollback
<1>2. ScopeInv'
  BY DEF IInv, ScopeInv, InOperation, Outers, Inside, Restart, NoRequest, NoOuter
<1>3. TaskInv'
  BY DEF IInv, TaskInv, Restart
<1>4. RollbackInv'
  BY DEF IInv, RollbackInv, Restart, NoRollback
<1>5. OwnersInv'
  BY DEF IInv, OwnersInv, Restart, NoRequest, NoRollback
<1>6. SourceInv'
  BY DEF IInv, SourceInv, Restart
<1>7. LatestInv'
  BY DEF IInv, LatestInv, Restart, Nothing, NoRequest
<1>8. OwedInv'
  BY DEF IInv, OwedInv, SnapshotIsOwed, Restart, NoRollback
<1> QED  BY <1>1, <1>2, <1>3, <1>4, <1>5, <1>6, <1>7, <1>8 DEF IInv

-----------------------------------------------------------------------------
(* The invariant holds at the first start and is kept by every step. *)
LEMMA InitInv == Init => IInv
<1> SUFFICES ASSUME Init PROVE IInv  OBVIOUS
<1>1. TypeOK
  <2>1. rollback = NoRollback /\ deferred = NoRequest  BY DEF Init, Start
  <2>2. NoRollback \in [active : BOOLEAN, session : Session \cup {Nothing}, path : Path \cup {NoPath},
                       media : Copy \cup {NoPath}, protected : BOOLEAN, snap : BOOLEAN]
    BY Zenon DEF NoRollback
  <2>3. NoRequest \in [pending : BOOLEAN, path : Path \cup {NoPath}, media : Copy \cup {NoPath}]
    BY Zenon DEF NoRequest
  <2>4. {transition, automation, scheduled, opened, question, protected} \subseteq BOOLEAN
    BY Zenon DEF Init, Start
  <2> QED  BY <2>1, <2>2, <2>3, <2>4 DEF TypeOK, Init, Start
<1>2. ScopeInv  BY DEF Init, Start, ScopeInv, InOperation, Outers, Inside, NoOuter, NoRequest
<1>3. TaskInv  BY DEF Init, Start, TaskInv
<1>4. RollbackInv  BY DEF Init, Start, RollbackInv, NoRollback
<1>5. OwnersInv  BY SourceAssumption DEF Init, Start, OwnersInv, NoRequest, NoRollback
<1>6. SourceInv  BY DEF Init, Start, SourceInv, Inside, NoOuter
<1>7. LatestInv  BY DEF Init, Start, LatestInv, InOperation, Inside, NoOuter, NoRequest, Nothing
<1>8. OwedInv  BY DEF Init, Start, OwedInv, SnapshotIsOwed, NoRollback
<1> QED  BY <1>1, <1>2, <1>3, <1>4, <1>5, <1>6, <1>7, <1>8 DEF IInv

LEMMA NextInv == IInv /\ Next => IInv'
<1> SUFFICES ASSUME IInv, Next PROVE IInv'  OBVIOUS
<1>1. CASE Requests
  BY <1>1, OpenFileStep, ScriptOpensStep, RequestMeanwhileStep, CloseFileStep, EditStep,
       BeginOperationStep, ReopenStep, BeginScriptStep, ScriptClosesStep, ScriptAppendsStep DEF
       Requests
<1>2. CASE Progress
  BY <1>2, EnterLoopStep, EndOpenStep, EndPreparingStep, MaterializeStep, ReplaceSourceStep,
       FinishReplaceStep, LoadSourceStep, LoadInsideTransitionStep, LoadRefusedStep,
       LoadCommitsStep, RollBackStep, RollBackToNothingStep, EndRestoreStep, FinishRollbackStep,
       EndScriptStep DEF Progress
<1>3. CASE Question
  BY <1>3, AskNothingStep, AnswerYesStep, AnswerNoStep, DismissStep DEF Question
<1>4. CASE TimerWhileBlocked \/ DeferredTimer \/ RecoveryTimer
  BY <1>4, TimerWhileBlockedStep, DeferredTimerStep, RecoveryTimerStep
<1>5. CASE Crash \/ Quit
  <2>1. Restart /\ snap' \in Session \cup {Nothing}  BY <1>5 DEF Crash, Quit, IInv, TypeOK
  <2> QED  BY <2>1, RestartStep
<1> QED  BY <1>1, <1>2, <1>3, <1>4, <1>5 DEF Next

LEMMA StutterInv == IInv /\ UNCHANGED vars => IInv'
  BY DEF IInv, TypeOK, ScopeInv, TaskInv, RollbackInv, OwnersInv, SourceInv, LatestInv, OwedInv,
       SnapshotIsOwed, InOperation, Outers, Inside, vars, editor, scopes, waiting, call, disk,
       world, ghosts

(* What every run of the window keeps: scopes, owners, requests and snapshots
   agree with the place of the GUI thread (VDQtMainWindow.cpp). *)
THEOREM InductiveInvariant == Spec => []IInv
<1>1. Init => IInv  BY InitInv
<1>2. IInv /\ [Next]_vars => IInv'  BY NextInv, StutterInv
<1> QED  BY <1>1, <1>2, PTL DEF Spec

(* Every variable has its type; in particular no operation begins inside
   another, whatever the event loop delivers (OperationScope). *)
THEOREM TypeCorrect == Spec => []TypeOK
<1>1. IInv => TypeOK  BY DEF IInv
<1> QED  BY <1>1, InductiveInvariant, PTL

(* However many files and copies there are, a temporary copy exists as long as
   the decoder, a request put off or a rollback needs it, and at rest no other
   is kept (VDQtTemporaryMediaFile and its owners in the window). *)
THEOREM CopiesExact == Spec => []CopiesAreExact
<1>1. IInv => CopiesAreExact
  BY SourceAssumption
     DEF IInv, TypeOK, ScopeInv, TaskInv, RollbackInv, OwnersInv, CopiesAreExact, Held, InOperation, Inside,
         NoOuter, NoRequest, NoRollback, Path
<1> QED  BY <1>1, InductiveInvariant, PTL

(* At rest the editor shows what was asked for last, or nothing
   (openVideoFileImpl(), scheduleDeferredSourceTransition()). *)
THEOREM RestLatest == Spec => []RestIsLatest
<1>1. IInv => RestIsLatest
  BY DEF IInv, LatestInv, InOperation, RestIsLatest
<1> QED  BY <1>1, InductiveInvariant, PTL

(* Only an unprotected snapshot is removed or written over, and what is owed is
   protected; commit() and the answers to the question give up what they owe, the
   end of a process does not. *)
LEMMA OwedStep == ASSUME IInv, Next, SnapshotIsOwed, SnapshotIsOwed' \/ question'
                  PROVE  snap' = snap
<1> DEFINE Still == snap' = snap
<1>0. protected /\ (rollback.active /\ inherited => rollback.protected)
  BY DEF IInv, OwedInv
<1>1. ASSUME ReleaseSnapshot, UNCHANGED protected PROVE Still
  BY <1>0, <1>1 DEF ReleaseSnapshot
<1>2. CASE Requests
  BY <1>0, <1>1, <1>2, Zenon DEF Requests, OpenFile, ScriptOpens, RequestMeanwhile, CloseFile,
       Edit, BeginOperation,
     Begin, Reopen, BeginScript, ScriptCloses, ScriptAppends, Install, CloseNow, disk
<1>3. CASE LoadCommits
  <2>1. rollback' = NoRollback /\ ~NoRollback.active  BY <1>3 DEF LoadCommits, NoRollback
  <2>2. ~question'
    BY <1>3 DEF LoadCommits, Loading, IInv, ScopeInv, InOperation
  <2>3. inherited'  BY <2>1, <2>2 DEF SnapshotIsOwed
  <2>4. task # "recover" /\ inherited  BY <1>3, <2>3 DEF LoadCommits
  <2>5. rollback.protected  BY <1>0, <1>3, <2>4 DEF IInv, RollbackInv, LoadCommits, Loading
  <2> QED  BY <1>3, <2>4, <2>5, Zenon DEF LoadCommits
<1>4. CASE LoadSource
  BY <1>0, <1>4 DEF LoadSource, Protect, Install, ReleaseSnapshot
<1>5. CASE Progress /\ ~LoadCommits /\ ~LoadSource
  BY <1>0, <1>1, <1>5, Zenon DEF Progress, EnterLoop, EndOpen, EndPreparing, Materialize,
       ReplaceSource, FinishReplace,
     LoadInsideTransition, LoadRefused, RollBack, RollBackToNothing, EndRestore, FinishRollback,
     EndScript, Install, CloseNow, disk
<1>6. CASE Question
  <2>1. CASE AskNothing \/ AnswerYes \/ Dismiss
    BY <2>1 DEF AskNothing, AnswerYes, Dismiss, Begin
  <2>2. CASE AnswerNo
    <3>1. ~rollback.active
      BY <2>2 DEF AnswerNo, IInv, TypeOK, ScopeInv, RollbackInv, TaskInv, InOperation
    <3>2. UNCHANGED rollback /\ inherited' = FALSE /\ question' = FALSE
      BY <2>2 DEF AnswerNo, call
    <3> QED  BY <3>1, <3>2 DEF SnapshotIsOwed
  <2> QED  BY <1>6, <2>1, <2>2 DEF Question
<1>7. CASE TimerWhileBlocked \/ DeferredTimer \/ RecoveryTimer
  BY <1>0, <1>1, <1>7, Zenon DEF TimerWhileBlocked, DeferredTimer, RecoveryTimer, Install,
       CloseNow, disk
<1>8. CASE Crash \/ Quit
  BY <1>0, <1>8 DEF Crash, Quit
<1> QED  BY <1>2, <1>3, <1>4, <1>5, <1>6, <1>7, <1>8 DEF Next

(* A snapshot owed to the user survives timers, failed loads and crashes
   (mRecoverySnapshotProtected, SessionRollbackScope). *)
THEOREM SnapshotsSurvive == Spec => SnapshotSurvives
<1>1. IInv /\ [Next]_vars => [SnapshotIsOwed /\ (SnapshotIsOwed' \/ question') => snap' = snap]_vars
  BY OwedStep
<1> QED  BY <1>1, InductiveInvariant, PTL DEF Spec, SnapshotSurvives

(* A rollback ends by its commit, its destructor, or with the process. *)
LEMMA KeptStep == ASSUME IInv, Next, rollback.active, ~rollback'.active, at' # "startup"
                  PROVE  \/ opened' /\ session' = plan
                         \/ session' = rollback.session
                         \/ aside' = rollback.session
<1>1. CASE LoadCommits
  BY <1>1 DEF LoadCommits, Return, IInv, ScopeInv, InOperation, Inside
<1>2. CASE FinishRollback
  BY <1>2 DEF FinishRollback, Restored, Preserve, IInv, TaskInv, RollbackInv, SourceInv, Inside
<1>3. CASE Requests
  BY <1>3 DEF Requests, OpenFile, ScriptOpens, RequestMeanwhile, CloseFile, Edit, BeginOperation,
     Begin, Reopen, BeginScript, ScriptCloses, ScriptAppends, call
<1>4. CASE LoadSource
  BY <1>4, Zenon DEF LoadSource, Capture
<1>5. CASE Progress /\ ~LoadCommits /\ ~FinishRollback /\ ~LoadSource
  BY <1>5, Zenon DEF Progress, EnterLoop, EndOpen, EndPreparing, Materialize, ReplaceSource,
       FinishReplace,
     LoadInsideTransition, LoadRefused, RollBack, RollBackToNothing, EndRestore, EndScript
<1>6. CASE Question
  BY <1>6 DEF Question, AskNothing, AnswerYes, AnswerNo, Dismiss, Begin, call
<1>7. CASE TimerWhileBlocked \/ DeferredTimer \/ RecoveryTimer
  BY <1>7 DEF TimerWhileBlocked, DeferredTimer, RecoveryTimer, call
<1>8. CASE Crash \/ Quit
  BY <1>8 DEF Crash, Quit, Restart
<1> QED  BY <1>1, <1>2, <1>3, <1>4, <1>5, <1>6, <1>7, <1>8 DEF Next

(* A load commits the new session, brings the old one back, or preserves it
   (SessionRollbackScope). *)
THEOREM FailedLoadKeeps == Spec => FailedLoadKeepsSession
<1>1. IInv /\ [Next]_vars =>
        [rollback.active /\ ~rollback'.active /\ at' # "startup" =>
           \/ opened' /\ session' = plan
           \/ session' = rollback.session
           \/ aside' = rollback.session]_vars
  BY KeptStep
<1> QED  BY <1>1, InductiveInvariant, PTL DEF Spec, FailedLoadKeepsSession

=============================================================================
