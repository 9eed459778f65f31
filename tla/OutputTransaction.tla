-------------------------- MODULE OutputTransaction --------------------------
(***************************************************************************)
(* VDQtOutputTransaction: installing a family of rendered files over their *)
(* destinations.  The family was rendered into a private staging directory *)
(* beside the destinations; commit() moves the existing destinations into  *)
(* a backup area, moves the staged files in, and on any failure rolls the  *)
(* whole family back.  Other programs own the destination directory too:   *)
(* between any two system calls they may create, replace or delete a file  *)
(* under a destination name, or make the directory path lead elsewhere.    *)
(* Any rename or unlink of the transaction may fail, an exception may      *)
(* unwind commit(), and the process may die.                               *)
(***************************************************************************)
EXTENDS Naturals, FiniteSets

CONSTANTS
  N,          \* number of files in the output family
  Foreign     \* number of files the rest of the system may bring along

ASSUME FamilyAssumption == N \in Nat \ {0} /\ Foreign \in Nat

Entry == 1..N

(***************************************************************************)
(* A file stands for everything samePayload() compares: device, inode,     *)
(* size and modification time.  Writing into a file in place therefore     *)
(* makes it another file.                                                  *)
(***************************************************************************)
Orig(i)  == <<"orig", i>>      \* occupied destination i when it was rendered
New(i)   == <<"new", i>>       \* the rendered file for destination i
Other(j) == <<"other", j>>     \* a file some other program wrote
None     == <<"none", 0>>

UserFile == {Orig(i) : i \in Entry} \cup {Other(j) : j \in 1..Foreign}
File     == UserFile \cup {New(i) : i \in Entry}

Private == {"stage", "backup", "retired"}     \* inside the staging directory
Loc     == ({"target"} \cup Private) \X Entry
PrivateLoc == Private \X Entry

Outcomes == {"none", "untouched", "restored", "incomplete", "unwound", "installed"}
Steps == {"idle", "inspected", "check", "prepare", "backup", "backupMove", "install",
          "installMove", "undo", "retire", "discard", "putBack", "restore", "closing", "end"}

VARIABLES
  fs,          \* which file each location holds
  reachable,   \* the destination path still leads to the inspected directory
  step,        \* where the caller is in inspect() / commit()
  at,          \* the entry commit() is working on
  expected,    \* the destinations as inspect() saw them
  approved,    \* replaceExisting, as passed to commit()
  backedUp,    \* entries whose original has been moved to the backup area
  installed,   \* entries whose rendered file has been moved in
  problems,    \* rollback reported at least one recovery problem
  autoRemove,  \* QTemporaryDir::autoRemove of the staging directory
  manifest,    \* recovery.txt has been written
  outcome,     \* what commit() told its caller
  gone         \* files other programs deleted or replaced themselves

places == <<fs, reachable, gone>>
book   == <<expected, approved, manifest>>
undone == <<backedUp, installed, problems>>
vars   == <<fs, reachable, step, at, expected, approved, backedUp, installed, problems,
            autoRemove, manifest, outcome, gone>>

Target(i)  == <<"target", i>>
Stage(i)   == <<"stage", i>>
Backup(i)  == <<"backup", i>>
Retired(i) == <<"retired", i>>

(* What lstat() finds through the path the transaction remembered. *)
Seen(l) == IF reachable THEN fs[l] ELSE None

Existing == {i \in Entry : expected[i] # None}

(* The directory still is the inspected one and entry i still is as approved
   (or, in the installation loop, absent). *)
ValidTarget(i, expectedAbsent) ==
  /\ reachable
  /\ fs[Target(i)] = (IF expectedAbsent THEN None ELSE expected[i])

(* The slip the code's comment warns of: rename(2) replaces what is there. *)
RenameOver(from, to) ==
  /\ reachable
  /\ fs[from] # None
  /\ fs' = [fs EXCEPT ![to] = fs[from], ![from] = None]

(* renameat2(RENAME_NOREPLACE): moves one directory entry, never onto another. *)
Rename(from, to) ==
  /\ reachable
  /\ fs[from] # None
  /\ fs[to] = None
  /\ fs' = [fs EXCEPT ![to] = fs[from], ![from] = None]

Init ==
  /\ fs \in [Loc -> File \cup {None}]
  /\ \A i \in Entry : /\ fs[Target(i)] \in {None, Orig(i)}
                      /\ fs[Stage(i)] \in {None, New(i)}
                      /\ fs[Backup(i)] = None /\ fs[Retired(i)] = None
  /\ reachable = TRUE
  /\ step = "idle"
  /\ at = 1
  /\ expected = [i \in Entry |-> None]
  /\ approved = FALSE
  /\ backedUp = {} /\ installed = {}
  /\ problems = FALSE
  /\ autoRemove = TRUE
  /\ manifest = FALSE
  /\ outcome = "none"
  /\ gone = {}

-----------------------------------------------------------------------------
(* inspect(): snapshot every destination.  A caller may inspect again until
   it has tried to commit; a failed inspection leaves nothing to commit. *)
Inspect ==
  /\ step \in {"idle", "inspected"}
  /\ reachable
  /\ expected' = [i \in Entry |-> fs[Target(i)]]
  /\ step' = "inspected"
  /\ UNCHANGED <<places, at, approved, undone, autoRemove, manifest, outcome>>

InspectFails ==
  /\ step \in {"idle", "inspected"}
  /\ step' = "idle"
  /\ expected' = [i \in Entry |-> None]
  /\ UNCHANGED <<places, at, approved, undone, autoRemove, manifest, outcome>>

(* commit() returns before anything was moved. *)
FailUnchanged ==
  /\ outcome' = "untouched"
  /\ step' = "closing"
  /\ UNCHANGED <<at, undone, autoRemove>>

(* commit(stagedPaths, replaceExisting) marks the transaction used and
   refuses to replace files the user did not approve. *)
Commit(replaceExisting) ==
  /\ step = "inspected"
  /\ approved' = replaceExisting
  /\ \/ /\ Existing # {} /\ ~replaceExisting
        /\ FailUnchanged
     \/ /\ Existing = {} \/ replaceExisting
        /\ step' = "check"
        /\ UNCHANGED <<at, undone, autoRemove, outcome>>
  /\ UNCHANGED <<places, expected, manifest>>

CheckEntry ==
  /\ step = "check"
  /\ ValidTarget(at, FALSE)
  /\ fs[Stage(at)] # None
  /\ IF at < N THEN at' = at + 1 /\ step' = step
               ELSE at' = 1 /\ step' = "prepare"
  /\ UNCHANGED <<places, book, undone, autoRemove, outcome>>

(* A changed destination, a missing staged file, permissions that cannot be
   copied, and a backup directory or recovery map that cannot be written. *)
CheckFails ==
  /\ step \in {"check", "prepare"}
  /\ FailUnchanged
  /\ UNCHANGED <<places, book>>

(* A slip: backups are made while the directory still removes itself. *)
PrepareAutoRemoving ==
  /\ step = "prepare"
  /\ reachable
  /\ manifest' = TRUE
  /\ step' = "backup"
  /\ UNCHANGED <<places, at, expected, approved, undone, autoRemove, outcome>>

Prepare ==
  /\ step = "prepare"
  /\ reachable
  /\ manifest' = TRUE
  /\ autoRemove' = FALSE
  /\ step' = "backup"
  /\ UNCHANGED <<places, at, expected, approved, undone, outcome>>

-----------------------------------------------------------------------------
(* First loop: move every existing destination into the backup area. *)
NextBackup ==
  IF at < N THEN at' = at + 1 /\ step' = "backup"
            ELSE at' = 1 /\ step' = "install"

BeginRollback == step' = "undo" /\ at' = at

BackupValidate ==
  /\ step = "backup"
  /\ ValidTarget(at, FALSE)
  /\ IF expected[at] = None THEN NextBackup
                            ELSE step' = "backupMove" /\ at' = at
  /\ UNCHANGED <<places, book, undone, autoRemove, outcome>>

(* The move, and the inspection of what was moved: the file may have been
   replaced since it was validated. *)
BackupMove ==
  /\ step = "backupMove"
  /\ Rename(Target(at), Backup(at))
  /\ backedUp' = backedUp \cup {at}
  /\ \/ fs[Target(at)] = expected[at] /\ NextBackup
     \/ BeginRollback
  /\ UNCHANGED <<reachable, gone, book, installed, problems, autoRemove, outcome>>

(* Second loop: move the rendered files in. *)
InstallValidate ==
  /\ step = "install"
  /\ ValidTarget(at, TRUE)
  /\ step' = "installMove"
  /\ UNCHANGED <<places, at, book, undone, autoRemove, outcome>>

InstallMove ==
  /\ step = "installMove"
  /\ Rename(Stage(at), Target(at))
  /\ installed' = installed \cup {at}
  /\ IF at < N
     THEN /\ at' = at + 1 /\ step' = "install"
          /\ UNCHANGED <<autoRemove, outcome>>
     ELSE /\ at' = 1 /\ step' = "closing"
          /\ autoRemove' = TRUE
          /\ outcome' = "installed"
  /\ UNCHANGED <<reachable, gone, book, backedUp, problems>>

(* A validation, lstat or rename of either loop fails. *)
MoveFails ==
  /\ step \in {"backup", "backupMove", "install", "installMove"}
  /\ BeginRollback
  /\ UNCHANGED <<places, book, undone, autoRemove, outcome>>

-----------------------------------------------------------------------------
(* rollback(): newest first, take the installed files away again, then move
   the backups home. *)
Newest(S, i) == i \in S /\ \A j \in S : j <= i

UndoProblem ==
  /\ problems' = TRUE
  /\ step' = "undo"

(* lstat() may also fail; a file that is not ours is left where it is. *)
UndoInspect ==
  /\ step = "undo"
  /\ \E i \in Entry :
       /\ Newest(installed, i)
       /\ at' = i
       /\ installed' = installed \ {i}
       /\ \/ /\ Seen(Target(i)) = None
             /\ UNCHANGED <<step, problems>>
          \/ /\ Seen(Target(i)) = New(i)
             /\ step' = "retire"
             /\ UNCHANGED problems
          \/ UndoProblem
  /\ UNCHANGED <<places, book, backedUp, autoRemove, outcome>>

(* Quarantine the file before deleting it, and look again. *)
UndoRetire ==
  /\ step = "retire"
  /\ \/ /\ Rename(Target(at), Retired(at))
        /\ step' = IF fs[Target(at)] = New(at) THEN "discard" ELSE "putBack"
        /\ UNCHANGED problems
     \/ fs' = fs /\ UndoProblem
  /\ UNCHANGED <<reachable, gone, at, book, backedUp, installed, autoRemove, outcome>>

UndoDiscard ==
  /\ step = "discard"
  /\ \/ /\ reachable
        /\ fs' = [fs EXCEPT ![Retired(at)] = None]
        /\ step' = "undo"
        /\ UNCHANGED problems
     \/ fs' = fs /\ UndoProblem
  /\ UNCHANGED <<reachable, gone, at, book, backedUp, installed, autoRemove, outcome>>

(* Somebody else's file was quarantined: return it.  Either way the user is
   told, because the family is not as it was. *)
UndoPutBack ==
  /\ step = "putBack"
  /\ Rename(Retired(at), Target(at)) \/ fs' = fs
  /\ UndoProblem
  /\ UNCHANGED <<reachable, gone, at, book, backedUp, installed, autoRemove, outcome>>

UndoInstalledDone ==
  /\ step = "undo"
  /\ installed = {}
  /\ step' = "restore"
  /\ UNCHANGED <<places, at, book, undone, autoRemove, outcome>>

RestoreBackup ==
  /\ step = "restore"
  /\ \E i \in Entry :
       /\ Newest(backedUp, i)
       /\ backedUp' = backedUp \ {i}
       /\ \/ Rename(Backup(i), Target(i)) /\ UNCHANGED problems
          \/ fs' = fs /\ problems' = TRUE
  /\ UNCHANGED <<reachable, gone, step, at, book, installed, autoRemove, outcome>>

(* A slip: the recovery problems are not looked at. *)
FinishRollbackQuietly ==
  /\ step = "restore"
  /\ backedUp = {}
  /\ autoRemove' = FALSE
  /\ outcome' = "restored"
  /\ step' = "closing"
  /\ UNCHANGED <<places, at, book, undone>>

FinishRollback ==
  /\ step = "restore"
  /\ backedUp = {}
  /\ autoRemove' = ~problems
  /\ outcome' = IF problems THEN "incomplete" ELSE "restored"
  /\ step' = "closing"
  /\ UNCHANGED <<places, at, book, undone>>

-----------------------------------------------------------------------------
(* The caller's QTemporaryDir leaves its scope. *)
CloseStaging ==
  /\ step = "closing"
  /\ \/ /\ autoRemove /\ reachable
        /\ fs' = [l \in Loc |-> IF l \in PrivateLoc THEN None ELSE fs[l]]
     \/ /\ ~autoRemove \/ ~reachable
        /\ fs' = fs
  /\ step' = "end"
  /\ UNCHANGED <<reachable, gone, at, book, undone, autoRemove, outcome>>

(* The caller gives up before commit(): approval refused, rendering failed. *)
Abandon ==
  /\ step \in {"idle", "inspected"}
  /\ step' = "closing"
  /\ UNCHANGED <<places, at, book, undone, autoRemove, outcome>>

InCommit == step \notin {"idle", "inspected", "closing", "end"}

(* An exception leaves commit() and destroys the staging directory object. *)
Unwind ==
  /\ InCommit
  /\ outcome' = "unwound"
  /\ step' = "closing"
  /\ UNCHANGED <<places, at, book, undone, autoRemove>>

(* The process dies: nothing is cleaned up. *)
Crash ==
  /\ step # "end"
  /\ step' = "end"
  /\ UNCHANGED <<places, at, book, undone, autoRemove, outcome>>

(* Other programs at work in the destination directory. *)
Unused(f) == f \notin gone /\ \A l \in Loc : fs[l] # f

OtherWrites ==
  /\ \E i \in Entry, j \in 1..Foreign :
       /\ Unused(Other(j))
       /\ fs' = [fs EXCEPT ![Target(i)] = Other(j)]
       /\ gone' = gone \cup ({fs[Target(i)]} \ {None})
  /\ UNCHANGED <<reachable, step, at, book, undone, autoRemove, outcome>>

OtherRemoves ==
  /\ \E i \in Entry :
       /\ fs[Target(i)] # None
       /\ fs' = [fs EXCEPT ![Target(i)] = None]
       /\ gone' = gone \cup {fs[Target(i)]}
  /\ UNCHANGED <<reachable, step, at, book, undone, autoRemove, outcome>>

PathMoves ==
  /\ reachable
  /\ reachable' = FALSE
  /\ UNCHANGED <<fs, gone, step, at, book, undone, autoRemove, outcome>>

Environment == OtherWrites \/ OtherRemoves \/ PathMoves

Transaction ==
  \/ Inspect \/ InspectFails \/ Abandon
  \/ \E replaceExisting \in BOOLEAN : Commit(replaceExisting)
  \/ CheckEntry \/ CheckFails \/ Prepare
  \/ BackupValidate \/ BackupMove \/ InstallValidate \/ InstallMove \/ MoveFails
  \/ UndoInspect \/ UndoRetire \/ UndoDiscard \/ UndoPutBack
  \/ UndoInstalledDone \/ RestoreBackup \/ FinishRollback
  \/ CloseStaging \/ Unwind \/ Crash

Next == Transaction \/ (Environment /\ step # "end")

Spec == Init /\ [][Next]_vars

-----------------------------------------------------------------------------
(* Every variable keeps to its declared range; a step counter past the last
   entry of the family would index outside State::entries. *)
TypeOK ==
  /\ fs \in [Loc -> File \cup {None}]
  /\ reachable \in BOOLEAN
  /\ step \in Steps
  /\ at \in Entry
  /\ expected \in [Entry -> File \cup {None}]
  /\ approved \in BOOLEAN
  /\ backedUp \subseteq Entry
  /\ installed \subseteq Entry
  /\ problems \in BOOLEAN
  /\ autoRemove \in BOOLEAN
  /\ manifest \in BOOLEAN
  /\ outcome \in Outcomes
  /\ gone \subseteq File

(* While a displaced file of somebody else sits in the staging directory and
   the family has not been installed, that directory is not deleted with its
   owner and a displaced original is listed in recovery.txt: an exception or
   a crash at any step leaves it recoverable. *)
DisplacedAreRecoverable ==
  outcome # "installed" =>
    /\ \A l \in PrivateLoc : fs[l] \in UserFile => ~autoRemove
    /\ \A i \in Entry : fs[Backup(i)] # None => manifest /\ expected[i] # None

(* A failed commit that reports no recovery problem ("No output files were
   replaced", "Any previous output files were restored") left every original
   under its own name, unless somebody else removed it, and none of its own
   outputs in the directory. *)
CleanFailureRestores ==
  outcome \in {"untouched", "restored"} =>
    \A i \in Entry :
      /\ expected[i] \notin gone \cup {None} => fs[Target(i)] = expected[i]
      /\ reachable => fs[Target(i)] # New(i)

(* A commit that returns true has moved every file of the family to its
   destination, and replaced existing files only with approval. *)
SuccessIsComplete ==
  outcome = "installed" =>
    /\ \A i \in Entry : fs[Target(i)] = New(i) \/ New(i) \in gone
    /\ Existing # {} => approved

(* What commit() reports to the user is true: a clean failure changed nothing,
   and a success is the whole family. *)
OutcomeIsTrue == CleanFailureRestores /\ SuccessIsComplete

(* The files the user agreed to see replaced, and the user files on disk. *)
Agreed == IF approved THEN {expected[i] : i \in Entry} \ {None} ELSE {}
Kept   == {f \in UserFile : \E l \in Loc : fs[l] = f}

(* The protocol of moves, checks and rollback keeps the promise: no step of it
   makes a file of somebody else disappear, except the replaced originals once
   the whole family is in place. *)
Promise == INSTANCE OutputPromise WITH kept <- Kept, agreed <- Agreed
KeepsPromise == Promise!Spec
=============================================================================
