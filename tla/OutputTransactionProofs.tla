---------------------- MODULE OutputTransactionProofs ----------------------
(***************************************************************************)
(* Proofs about OutputTransaction, for every family size and any number of *)
(* foreign files: type correctness, the recoverability of displaced files, *)
(* that the transaction implements OutputPromise, and that its report is   *)
(* true.  Then about Capture, which installs what it recorded by such      *)
(* transactions, for any number of parts and rounds: type correctness, and *)
(* that an installation is owed.                                           *)
(***************************************************************************)
EXTENDS OutputTransaction, Capture, TLAPS

Early   == {"idle", "inspected", "check", "prepare"}
Forward == {"backup", "backupMove", "install", "installMove"}
Undoing == {"undo", "retire", "discard", "putBack", "restore"}
Closed  == {"closing", "end"}

(* Before the first move nothing is displaced and nothing is agreed. *)
EarlyInv ==
  step \in Early =>
    /\ outcome = "none"
    /\ \A i \in Entry : /\ fs[Target(i)] \in UserFile \cup {None}
                        /\ fs[Backup(i)] = None
                        /\ fs[Retired(i)] = None
    /\ step \in {"idle", "inspected"} => ~approved

(* Past the approval check, existing destinations imply consent. *)
ConsentInv ==
  step \in Forward \cup {"check", "prepare"} => approved \/ \A i \in Entry : expected[i] = None

(* What holds at every step: staged files are the transaction's own, it only
   ever agreed on user files, and every backup is on the recovery map. *)
PlacesInv ==
  /\ expected \in [Entry -> UserFile \cup {None}]
  /\ \A i \in Entry : /\ fs[Stage(i)] \notin UserFile
                      /\ fs[Backup(i)] # None => manifest /\ expected[i] # None

(* From Prepare to the end of a rollback the staging directory is kept, and
   rollback knows every backup it still has to restore. *)
MovingInv ==
  step \in Forward \cup Undoing =>
    /\ outcome = "none"
    /\ ~autoRemove
    /\ manifest
    /\ \A i \in Entry : fs[Backup(i)] # None => i \in backedUp \/ problems

(* While nothing went wrong the backups are exactly the approved files. *)
ForwardInv ==
  step \in Forward =>
    /\ \A i \in Entry : fs[Backup(i)] \in {None, expected[i]} /\ fs[Retired(i)] = None
    /\ step = "backupMove" => expected[at] # None

UndoInv ==
  /\ step \in Undoing =>
       \A i \in Entry : fs[Retired(i)] \in UserFile =>
                          problems \/ (step = "putBack" /\ i = at)
  /\ step = "discard" => fs[Retired(at)] = New(at)

ClosedInv ==
  step \in Closed =>
    /\ outcome # "installed" => \/ ~autoRemove
                                \/ \A i \in Entry : /\ fs[Backup(i)] \notin UserFile
                                                    /\ fs[Retired(i)] \notin UserFile
    /\ outcome = "installed" =>
         \A i \in Entry : /\ fs[Backup(i)] # None => approved /\ fs[Backup(i)] = expected[i]
                          /\ fs[Retired(i)] \notin UserFile

IInv ==
  /\ TypeOK /\ EarlyInv /\ ConsentInv /\ PlacesInv /\ MovingInv /\ ForwardInv /\ UndoInv /\ ClosedInv

-----------------------------------------------------------------------------
(* Rendered files, user files and the absence of a file are never confused. *)
LEMMA FileFacts ==
  /\ UserFile \subseteq File
  /\ None \notin File
  /\ \A i \in Entry : New(i) \in File /\ New(i) \notin UserFile /\ Orig(i) \in UserFile
BY DEF UserFile, File, None, New, Orig, Other

(* The locations of the family are pairwise distinct directory entries. *)
LEMMA LocFacts ==
  /\ \A i \in Entry : /\ Target(i) \in Loc /\ Stage(i) \in Loc
                      /\ Backup(i) \in Loc /\ Retired(i) \in Loc
  /\ \A i, j \in Entry :
       /\ Target(i) # Stage(j) /\ Target(i) # Backup(j) /\ Target(i) # Retired(j)
       /\ Stage(i) # Backup(j) /\ Stage(i) # Retired(j) /\ Backup(i) # Retired(j)
       /\ Target(i) = Target(j) => i = j
       /\ Stage(i) = Stage(j) => i = j
       /\ Backup(i) = Backup(j) => i = j
       /\ Retired(i) = Retired(j) => i = j
  /\ \A l \in Loc : \E i \in Entry : l \in {Target(i), Stage(i), Backup(i), Retired(i)}
  /\ \A i \in Entry : Target(i) \notin PrivateLoc
  /\ \A l \in PrivateLoc : \E i \in Entry : l \in {Stage(i), Backup(i), Retired(i)}
BY DEF Loc, PrivateLoc, Private, Target, Stage, Backup, Retired

(* A successful rename moves one file and touches nothing else; in particular
   no user file is lost by it. *)
LEMMA RenameFacts ==
  ASSUME TypeOK, NEW a \in Loc, NEW b \in Loc, Rename(a, b)
  PROVE  /\ a # b /\ fs[a] # None /\ fs[b] = None
         /\ fs' \in [Loc -> File \cup {None}]
         /\ fs'[b] = fs[a] /\ fs'[a] = None
         /\ \A l \in Loc : l # a /\ l # b => fs'[l] = fs[l]
         /\ Kept' = Kept
<1>1. a # b /\ fs[a] # None /\ fs[b] = None
  BY DEF Rename
<1>2. fs' = [fs EXCEPT ![b] = fs[a], ![a] = None]
  BY DEF Rename
<1>3. fs \in [Loc -> File \cup {None}]
  BY DEF TypeOK
<1>4. /\ fs' \in [Loc -> File \cup {None}]
      /\ fs'[b] = fs[a] /\ fs'[a] = None
      /\ \A l \in Loc : l # a /\ l # b => fs'[l] = fs[l]
  BY <1>1, <1>2, <1>3
<1>5. \A f \in UserFile : (\E l \in Loc : fs'[l] = f) <=> (\E l \in Loc : fs[l] = f)
  BY <1>1, <1>4, FileFacts
<1>6. Kept' = Kept
  BY <1>5 DEF Kept
<1>. QED BY <1>1, <1>4, <1>6

-----------------------------------------------------------------------------
LEMMA InitIInv == Init => IInv
<1>. SUFFICES ASSUME Init PROVE IInv
  OBVIOUS
<1>1. 1 \in Entry
  BY FamilyAssumption DEF Entry
<1>2. TypeOK
  BY <1>1, FileFacts DEF Init, TypeOK, Steps, Outcomes
<1>3. \A i \in Entry : /\ fs[Target(i)] \in UserFile \cup {None}
                       /\ fs[Stage(i)] \notin UserFile
                       /\ fs[Backup(i)] = None /\ fs[Retired(i)] = None
  BY FileFacts DEF Init
<1>. QED
  BY <1>2, <1>3 DEF Init, IInv, EarlyInv, ConsentInv, PlacesInv, MovingInv, ForwardInv, UndoInv,
     ClosedInv, Early, Forward, Undoing, Closed

(* inspect(), the consent of the user, and the checks before the first move. *)
LEMMA PrepareStep ==
  ASSUME IInv,
         \/ Inspect \/ InspectFails \/ Abandon
         \/ \E replaceExisting \in BOOLEAN : Commit(replaceExisting)
         \/ CheckEntry \/ CheckFails \/ Prepare
  PROVE  IInv'
<1>. USE FileFacts, LocFacts DEF places, book, undone, Steps, Outcomes
<1>1. CASE Inspect
  BY <1>1 DEF Inspect, IInv, TypeOK, EarlyInv, ConsentInv, PlacesInv, MovingInv, ForwardInv,
     UndoInv, ClosedInv, Early, Forward, Undoing, Closed
<1>2. CASE InspectFails
  BY <1>2 DEF InspectFails, IInv, TypeOK, EarlyInv, ConsentInv, PlacesInv, MovingInv, ForwardInv,
     UndoInv, ClosedInv, Early, Forward, Undoing, Closed
<1>3. CASE Abandon
  BY <1>3 DEF Abandon, IInv, TypeOK, EarlyInv, ConsentInv, PlacesInv, MovingInv, ForwardInv,
     UndoInv, ClosedInv, Early, Forward, Undoing, Closed
<1>4. ASSUME NEW replaceExisting \in BOOLEAN, Commit(replaceExisting)
      PROVE  IInv'
  BY <1>4 DEF Commit, FailUnchanged, Existing, IInv, TypeOK, EarlyInv, ConsentInv, PlacesInv,
     MovingInv, ForwardInv, UndoInv, ClosedInv, Early, Forward, Undoing, Closed
<1>5. CASE CheckEntry
  BY <1>5, FamilyAssumption DEF CheckEntry, Entry, IInv, TypeOK, EarlyInv, ConsentInv, PlacesInv,
     MovingInv, ForwardInv, UndoInv, ClosedInv, Early, Forward, Undoing, Closed
<1>6. CASE CheckFails
  BY <1>6 DEF CheckFails, FailUnchanged, IInv, TypeOK, EarlyInv, ConsentInv, PlacesInv, MovingInv,
     ForwardInv, UndoInv, ClosedInv, Early, Forward, Undoing, Closed
<1>7. CASE Prepare
  BY <1>7 DEF Prepare, IInv, TypeOK, EarlyInv, ConsentInv, PlacesInv, MovingInv, ForwardInv,
     UndoInv, ClosedInv, Early, Forward, Undoing, Closed
<1>. QED BY <1>1, <1>2, <1>3, <1>4, <1>5, <1>6, <1>7

(* The two loops.  A move changes two locations; RenameFacts says which. *)
LEMMA MoveStep ==
  ASSUME IInv,
         BackupValidate \/ BackupMove \/ InstallValidate \/ InstallMove \/ MoveFails
  PROVE  IInv'
<1>. USE FileFacts, LocFacts, FamilyAssumption
     DEF places, book, undone, Steps, Outcomes, NextBackup, BeginRollback
<1>. TypeOK
  BY DEF IInv
<1>1. CASE BackupValidate
  BY <1>1 DEF Entry, BackupValidate, ValidTarget, IInv, TypeOK, EarlyInv, ConsentInv, PlacesInv,
     MovingInv, ForwardInv, UndoInv, ClosedInv, Early, Forward, Undoing, Closed
<1>2. CASE BackupMove
  <2>1. /\ at \in Entry
        /\ Rename(Target(at), Backup(at))
    BY <1>2 DEF BackupMove, TypeOK
  <2>2. /\ fs' \in [Loc -> File \cup {None}]
        /\ fs'[Backup(at)] = fs[Target(at)]
        /\ \A l \in Loc : l # Target(at) /\ l # Backup(at) => fs'[l] = fs[l]
    BY <2>1, RenameFacts
  <2>3. at + 1 \in Entry \/ ~(at < N)
    BY <2>1 DEF Entry
  <2>4. 1 \in Entry
    BY DEF Entry
  <2>. QED
    BY <1>2, <2>1, <2>2, <2>3, <2>4 DEF BackupMove, IInv, TypeOK, EarlyInv, ConsentInv, PlacesInv,
     MovingInv, ForwardInv, UndoInv, ClosedInv, Early, Forward, Undoing, Closed
<1>3. CASE InstallValidate
  BY <1>3 DEF InstallValidate, IInv, TypeOK, EarlyInv, ConsentInv, PlacesInv,
     MovingInv, ForwardInv, UndoInv, ClosedInv, Early, Forward, Undoing, Closed
<1>4. CASE InstallMove
  <2>1. /\ at \in Entry
        /\ Rename(Stage(at), Target(at))
    BY <1>4 DEF InstallMove, TypeOK
  <2>2. /\ fs' \in [Loc -> File \cup {None}]
        /\ fs'[Stage(at)] = None
        /\ \A l \in Loc : l # Target(at) /\ l # Stage(at) => fs'[l] = fs[l]
    BY <2>1, RenameFacts
  <2>3. at + 1 \in Entry \/ ~(at < N)
    BY <2>1 DEF Entry
  <2>4. 1 \in Entry
    BY DEF Entry
  <2>5. TypeOK'
    BY <1>4, <2>1, <2>2, <2>3, <2>4 DEF InstallMove, IInv, TypeOK
  <2>6. EarlyInv'
    BY <1>4, <2>1, <2>2, <2>3, <2>4 DEF InstallMove, IInv, TypeOK, EarlyInv, Early
  <2>7. ConsentInv'
    BY <1>4, <2>1, <2>2, <2>3, <2>4 DEF InstallMove, IInv, TypeOK, ConsentInv, Forward
  <2>8. PlacesInv'
    BY <1>4, <2>1, <2>2, <2>3, <2>4 DEF InstallMove, IInv, TypeOK, PlacesInv, MovingInv,
       ForwardInv, Forward, Undoing
  <2>9. MovingInv'
    BY <1>4, <2>1, <2>2, <2>3, <2>4 DEF InstallMove, IInv, TypeOK, MovingInv, Forward, Undoing
  <2>10. ForwardInv'
    BY <1>4, <2>1, <2>2, <2>3, <2>4 DEF InstallMove, IInv, TypeOK, ForwardInv, Forward
  <2>11. UndoInv'
    BY <1>4, <2>1, <2>2, <2>3, <2>4 DEF InstallMove, IInv, TypeOK, UndoInv, Undoing, ForwardInv,
       Forward
  <2>12. ClosedInv'
    BY <1>4, <2>1, <2>2, <2>3, <2>4 DEF InstallMove, IInv, TypeOK, ClosedInv, Closed, ConsentInv,
       ForwardInv, Forward, PlacesInv
  <2>. QED BY <2>5, <2>6, <2>7, <2>8, <2>9, <2>10, <2>11, <2>12 DEF IInv
<1>5. CASE MoveFails
  BY <1>5 DEF MoveFails, IInv, TypeOK, EarlyInv, ConsentInv, PlacesInv,
     MovingInv, ForwardInv, UndoInv, ClosedInv, Early, Forward, Undoing, Closed
<1>. QED BY <1>1, <1>2, <1>3, <1>4, <1>5

(* rollback(): what is displaced stays known until it is home again. *)
LEMMA RollbackStep ==
  ASSUME IInv,
         \/ UndoInspect \/ UndoRetire \/ UndoDiscard \/ UndoPutBack
         \/ UndoInstalledDone \/ RestoreBackup \/ FinishRollback
  PROVE  IInv'
<1>. USE FileFacts, LocFacts DEF places, book, undone, Steps, Outcomes, UndoProblem
<1>. TypeOK
  BY DEF IInv
<1>1. CASE UndoInspect
  <2>1. TypeOK'
    BY <1>1 DEF UndoInspect, Newest, IInv, TypeOK
  <2>2. EarlyInv'
    BY <1>1 DEF UndoInspect, Newest, IInv, TypeOK, EarlyInv, Early
  <2>3. ConsentInv'
    BY <1>1 DEF UndoInspect, Newest, IInv, TypeOK, ConsentInv, Forward
  <2>4. PlacesInv'
    BY <1>1 DEF UndoInspect, Newest, IInv, TypeOK, PlacesInv, MovingInv, ForwardInv, Forward,
       Undoing
  <2>5. MovingInv'
    BY <1>1 DEF UndoInspect, Newest, IInv, TypeOK, MovingInv, Forward, Undoing
  <2>6. ForwardInv'
    BY <1>1 DEF UndoInspect, Newest, IInv, TypeOK, ForwardInv, Forward
  <2>7. UndoInv'
    BY <1>1 DEF UndoInspect, Newest, IInv, TypeOK, UndoInv, Undoing, ForwardInv, Forward
  <2>8. ClosedInv'
    BY <1>1 DEF UndoInspect, Newest, IInv, TypeOK, ClosedInv, Closed, ConsentInv, ForwardInv,
       Forward, PlacesInv
  <2>. QED BY <2>1, <2>2, <2>3, <2>4, <2>5, <2>6, <2>7, <2>8 DEF IInv
<1>2. CASE UndoRetire
  <2>1. at \in Entry
    BY DEF TypeOK
  <2>2. CASE Rename(Target(at), Retired(at))
    <3>1. /\ fs' \in [Loc -> File \cup {None}]
          /\ fs'[Retired(at)] = fs[Target(at)]
          /\ \A l \in Loc : l # Target(at) /\ l # Retired(at) => fs'[l] = fs[l]
      BY <2>1, <2>2, RenameFacts
    <3>2. TypeOK'
      BY <1>2, <2>1, <3>1 DEF UndoRetire, IInv, TypeOK
    <3>3. EarlyInv'
      BY <1>2, <2>1, <3>1 DEF UndoRetire, IInv, TypeOK, EarlyInv, Early
    <3>4. ConsentInv'
      BY <1>2, <2>1, <3>1 DEF UndoRetire, IInv, TypeOK, ConsentInv, Forward
    <3>5. PlacesInv'
      BY <1>2, <2>1, <3>1 DEF UndoRetire, IInv, TypeOK, PlacesInv, MovingInv, ForwardInv,
         Forward, Undoing
    <3>6. MovingInv'
      BY <1>2, <2>1, <3>1 DEF UndoRetire, IInv, TypeOK, MovingInv, Forward, Undoing
    <3>7. ForwardInv'
      BY <1>2, <2>1, <3>1 DEF UndoRetire, IInv, TypeOK, ForwardInv, Forward
    <3>8. UndoInv'
      BY <1>2, <2>1, <3>1 DEF UndoRetire, IInv, TypeOK, UndoInv, Undoing, ForwardInv, Forward
    <3>9. ClosedInv'
      BY <1>2, <2>1, <3>1 DEF UndoRetire, IInv, TypeOK, ClosedInv, Closed, ConsentInv,
         ForwardInv, Forward, PlacesInv
    <3>. QED BY <3>2, <3>3, <3>4, <3>5, <3>6, <3>7, <3>8, <3>9 DEF IInv
  <2>3. CASE fs' = fs /\ UndoProblem
    BY <1>2, <2>3 DEF UndoRetire, IInv, TypeOK, EarlyInv, ConsentInv,
       PlacesInv, MovingInv, ForwardInv, UndoInv, ClosedInv, Early, Forward, Undoing, Closed
  <2>. QED BY <1>2, <2>2, <2>3 DEF UndoRetire
<1>3. CASE UndoDiscard
  <2>1. at \in Entry
    BY DEF TypeOK
  <2>2. CASE fs' = [fs EXCEPT ![Retired(at)] = None]
    <3>1. /\ fs' \in [Loc -> File \cup {None}]
          /\ fs'[Retired(at)] = None
          /\ \A l \in Loc : l # Retired(at) => fs'[l] = fs[l]
      BY <2>1, <2>2 DEF TypeOK
    <3>. QED
      BY <1>3, <2>1, <3>1 DEF UndoDiscard, IInv, TypeOK, EarlyInv, ConsentInv, PlacesInv,
         MovingInv, ForwardInv, UndoInv, ClosedInv, Early, Forward, Undoing, Closed
  <2>3. CASE fs' = fs
    BY <1>3, <2>3 DEF UndoDiscard, IInv, TypeOK, EarlyInv, ConsentInv, PlacesInv,
       MovingInv, ForwardInv, UndoInv, ClosedInv, Early, Forward, Undoing, Closed
  <2>. QED BY <1>3, <2>2, <2>3 DEF UndoDiscard
<1>4. CASE UndoPutBack
  <2>1. at \in Entry
    BY DEF TypeOK
  <2>2. CASE Rename(Retired(at), Target(at))
    <3>1. /\ fs' \in [Loc -> File \cup {None}]
          /\ fs'[Retired(at)] = None
          /\ \A l \in Loc : l # Target(at) /\ l # Retired(at) => fs'[l] = fs[l]
      BY <2>1, <2>2, RenameFacts
    <3>. QED
      BY <1>4, <2>1, <3>1 DEF UndoPutBack, IInv, TypeOK, EarlyInv, ConsentInv, PlacesInv,
         MovingInv, ForwardInv, UndoInv, ClosedInv, Early, Forward, Undoing, Closed
  <2>3. CASE fs' = fs
    BY <1>4, <2>3 DEF UndoPutBack, IInv, TypeOK, EarlyInv, ConsentInv, PlacesInv,
       MovingInv, ForwardInv, UndoInv, ClosedInv, Early, Forward, Undoing, Closed
  <2>. QED BY <1>4, <2>2, <2>3 DEF UndoPutBack
<1>5. CASE UndoInstalledDone
  BY <1>5 DEF UndoInstalledDone, IInv, TypeOK, EarlyInv, ConsentInv, PlacesInv,
     MovingInv, ForwardInv, UndoInv, ClosedInv, Early, Forward, Undoing, Closed
<1>6. CASE RestoreBackup
  <2>1. PICK i \in Entry : /\ backedUp' = backedUp \ {i}
                           /\ \/ Rename(Backup(i), Target(i)) /\ UNCHANGED problems
                              \/ fs' = fs /\ problems' = TRUE
    BY <1>6 DEF RestoreBackup
  <2>2. CASE Rename(Backup(i), Target(i)) /\ UNCHANGED problems
    <3>1. /\ fs' \in [Loc -> File \cup {None}]
          /\ fs'[Backup(i)] = None
          /\ \A l \in Loc : l # Target(i) /\ l # Backup(i) => fs'[l] = fs[l]
      BY <2>2, RenameFacts
    <3>. QED
      BY <1>6, <2>1, <2>2, <3>1 DEF RestoreBackup, IInv, TypeOK, EarlyInv, ConsentInv, PlacesInv,
         MovingInv, ForwardInv, UndoInv, ClosedInv, Early, Forward, Undoing, Closed
  <2>3. CASE fs' = fs /\ problems' = TRUE
    BY <1>6, <2>1, <2>3 DEF RestoreBackup, IInv, TypeOK, EarlyInv, ConsentInv, PlacesInv,
       MovingInv, ForwardInv, UndoInv, ClosedInv, Early, Forward, Undoing, Closed
  <2>. QED BY <2>1, <2>2, <2>3
<1>7. CASE FinishRollback
  BY <1>7 DEF FinishRollback, IInv, TypeOK, EarlyInv, ConsentInv, PlacesInv,
     MovingInv, ForwardInv, UndoInv, ClosedInv, Early, Forward, Undoing, Closed
<1>. QED BY <1>1, <1>2, <1>3, <1>4, <1>5, <1>6, <1>7

(* Leaving the transaction, by any door, and other programs at work. *)
LEMMA OutsideStep ==
  ASSUME IInv,
         CloseStaging \/ Unwind \/ Crash \/ (Environment /\ step # "end")
  PROVE  IInv'
<1>. USE FileFacts, LocFacts DEF places, book, undone, Steps, Outcomes
<1>1. CASE CloseStaging
  <2>1. /\ fs' \in [Loc -> File \cup {None}]
        /\ \A l \in Loc : fs'[l] = fs[l] \/ (l \in PrivateLoc /\ fs'[l] = None)
    BY <1>1 DEF CloseStaging, IInv, TypeOK
  <2>2. \A i \in Entry : /\ fs'[Stage(i)] \in {None, fs[Stage(i)]}
                         /\ fs'[Backup(i)] \in {None, fs[Backup(i)]}
                         /\ fs'[Retired(i)] \in {None, fs[Retired(i)]}
    BY <2>1
  <2>3. /\ step = "closing" /\ step' = "end"
        /\ UNCHANGED <<reachable, gone, at, book, undone, autoRemove, outcome>>
    BY <1>1 DEF CloseStaging
  <2>. QED
    BY <2>1, <2>2, <2>3 DEF IInv, TypeOK, EarlyInv, ConsentInv, PlacesInv,
     MovingInv, ForwardInv, UndoInv, ClosedInv, Early, Forward, Undoing, Closed
<1>2. CASE Unwind
  BY <1>2 DEF InCommit, Unwind, IInv, TypeOK, EarlyInv, ConsentInv, PlacesInv,
     MovingInv, ForwardInv, UndoInv, ClosedInv, Early, Forward, Undoing, Closed
<1>3. CASE Crash
  BY <1>3 DEF Crash, IInv, TypeOK, EarlyInv, ConsentInv, PlacesInv,
     MovingInv, ForwardInv, UndoInv, ClosedInv, Early, Forward, Undoing, Closed
<1>4. CASE Environment
  <2>. DEFINE TargetsOnly ==
        /\ fs' \in [Loc -> File \cup {None}]
        /\ \A i \in Entry : /\ fs'[Stage(i)] = fs[Stage(i)]
                            /\ fs'[Backup(i)] = fs[Backup(i)]
                            /\ fs'[Retired(i)] = fs[Retired(i)]
                            /\ \/ fs'[Target(i)] = fs[Target(i)]
                               \/ fs'[Target(i)] \in UserFile \cup {None}
        /\ gone' \subseteq File
        /\ UNCHANGED <<step, at, book, undone, autoRemove, outcome>>
        /\ reachable' \in BOOLEAN
  <2>1. ASSUME OtherWrites PROVE TargetsOnly
    <3>1. PICK i \in Entry, j \in 1..Foreign :
            /\ fs' = [fs EXCEPT ![Target(i)] = Other(j)]
            /\ gone' = gone \cup ({fs[Target(i)]} \ {None})
      BY <2>1 DEF OtherWrites
    <3>2. Other(j) \in UserFile /\ Other(j) \in File
      BY DEF UserFile, File
    <3>. QED
      BY <2>1, <3>1, <3>2 DEF OtherWrites, IInv, TypeOK
  <2>2. ASSUME OtherRemoves PROVE TargetsOnly
    BY <2>2 DEF OtherRemoves, IInv, TypeOK
  <2>3. ASSUME PathMoves PROVE TargetsOnly
    BY <2>3 DEF PathMoves, IInv, TypeOK
  <2>4. TargetsOnly
    BY <1>4, <2>1, <2>2, <2>3 DEF Environment
  <2>. QED
    BY <1>4, <2>4 DEF IInv, TypeOK, EarlyInv, ConsentInv, PlacesInv,
     MovingInv, ForwardInv, UndoInv, ClosedInv, Early, Forward, Undoing, Closed
<1>. QED BY <1>1, <1>2, <1>3, <1>4

LEMMA Inductive == IInv /\ [Next]_vars => IInv'
<1>. SUFFICES ASSUME IInv, [Next]_vars PROVE IInv'
  OBVIOUS
<1>1. CASE UNCHANGED vars
  BY <1>1 DEF vars, IInv, TypeOK, EarlyInv, ConsentInv, PlacesInv, MovingInv, ForwardInv,
     UndoInv, ClosedInv
<1>2. CASE Next
  BY <1>2, PrepareStep, MoveStep, RollbackStep, OutsideStep DEF Next, Transaction
<1>. QED BY <1>1, <1>2

(* In every state of the protocol each file lies where its phase says. *)
THEOREM Invariance == Spec => []IInv
<1>1. Init => IInv
  BY InitIInv
<1>2. IInv /\ [Next]_vars => IInv'
  BY Inductive
<1>. QED BY <1>1, <1>2, PTL DEF Spec

(* Every variable of the transaction stays in its range, for any family. *)
THEOREM TypeCorrect == Spec => []TypeOK
<1>1. IInv => TypeOK
  BY DEF IInv
<1>. QED BY <1>1, Invariance, PTL

(* Whatever fails, and wherever an exception or a crash cuts commit() short,
   a displaced file of somebody else lies in a directory that is not deleted
   and, when it is an original, is on the recovery map. *)
THEOREM DisplacedFilesSurvive == Spec => []DisplacedAreRecoverable
<1>1. IInv => DisplacedAreRecoverable
  <2>. SUFFICES ASSUME IInv, outcome # "installed" PROVE DisplacedAreRecoverable
    BY DEF DisplacedAreRecoverable
  <2>1. step \in Early \cup Forward \cup Undoing \cup Closed
    BY DEF IInv, TypeOK, Steps, Early, Forward, Undoing, Closed
  <2>2. ASSUME NEW l \in PrivateLoc, fs[l] \in UserFile
        PROVE  ~autoRemove
    <3>1. PICK i \in Entry : l \in {Backup(i), Retired(i)}
      BY <2>2, LocFacts DEF IInv, PlacesInv
    <3>2. CASE step \in Early
      BY <2>2, <3>1, <3>2, FileFacts DEF IInv, EarlyInv
    <3>3. CASE step \in Forward \cup Undoing
      BY <3>3 DEF IInv, MovingInv
    <3>4. CASE step \in Closed
      BY <2>2, <3>1, <3>4 DEF IInv, ClosedInv
    <3>. QED BY <2>1, <3>2, <3>3, <3>4
  <2>. QED
    BY <2>2 DEF DisplacedAreRecoverable, IInv, PlacesInv
<1>. QED BY <1>1, Invariance, PTL

-----------------------------------------------------------------------------
(* The transaction implements OutputPromise: initial states first, then one
   step of the promise, or none, for every step of the code. *)
LEMMA PromiseInit == Init => Promise!Init
<1>. SUFFICES ASSUME Init PROVE Promise!Init
  OBVIOUS
<1>1. Kept \subseteq UserFile
  BY DEF Kept
<1>. QED BY <1>1 DEF Init, Agreed, Promise!Init

(* Only consent, a report, the end of the staging directory and other programs
   are visible to the promise. *)
LEMMA PromiseStep == IInv /\ [Next]_vars => [Promise!Next]_Promise!vars
<1>. SUFFICES ASSUME IInv, [Next]_vars PROVE [Promise!Next]_Promise!vars
  OBVIOUS
<1>. USE FileFacts, LocFacts DEF Promise!vars, Promise!Next, places, book, undone
<1>0. TypeOK
  BY DEF IInv
<1>1. CASE UNCHANGED vars
  BY <1>1 DEF vars, Kept, Agreed
<1>2. CASE Inspect \/ InspectFails
  <2>1. step \in {"idle", "inspected"} /\ UNCHANGED <<places, approved, outcome>>
    BY <1>2 DEF Inspect, InspectFails
  <2>2. ~approved
    BY <2>1 DEF IInv, EarlyInv, Early
  <2>. QED BY <2>1, <2>2 DEF Kept, Agreed
<1>3. ASSUME NEW replaceExisting \in BOOLEAN, Commit(replaceExisting)
      PROVE  [Promise!Next]_Promise!vars
  <2>1. /\ step = "inspected" /\ UNCHANGED <<fs, gone, expected>>
        /\ approved' = replaceExisting
        /\ outcome' = outcome \/ (outcome' = "untouched" /\ ~replaceExisting)
    BY <1>3 DEF Commit, FailUnchanged
  <2>2. ~approved /\ outcome = "none" /\ expected \in [Entry -> UserFile \cup {None}]
    BY <2>1 DEF IInv, EarlyInv, Early, PlacesInv
  <2>3. Kept' = Kept /\ Agreed = {} /\ Agreed' \subseteq UserFile
    BY <2>1, <2>2 DEF Kept, Agreed
  <2>4. CASE outcome' = outcome
    BY <2>1, <2>2, <2>3, <2>4 DEF Promise!Agree
  <2>5. CASE outcome' = "untouched" /\ ~replaceExisting
    BY <2>1, <2>2, <2>3, <2>5 DEF Promise!Report, Agreed
  <2>. QED BY <2>1, <2>4, <2>5
<1>4. CASE CheckFails \/ FinishRollback \/ Unwind
  <2>1. /\ UNCHANGED <<fs, gone, expected, approved>>
        /\ step \notin {"idle", "inspected", "closing", "end"}
        /\ outcome' \in {"untouched", "restored", "incomplete", "unwound"}
    BY <1>4 DEF CheckFails, FailUnchanged, FinishRollback, Unwind, InCommit
  <2>2. outcome = "none"
    BY <2>1 DEF IInv, TypeOK, Steps, EarlyInv, MovingInv, Early, Forward, Undoing
  <2>. QED BY <2>1, <2>2 DEF Promise!Report, Kept, Agreed
<1>5. CASE \/ CheckEntry \/ Prepare \/ BackupValidate \/ InstallValidate \/ MoveFails
           \/ UndoInspect \/ UndoInstalledDone \/ Abandon \/ Crash
  <2>1. UNCHANGED <<fs, gone, expected, approved, outcome>>
    BY <1>5 DEF CheckEntry, Prepare, BackupValidate, InstallValidate, MoveFails, UndoInspect,
       UndoInstalledDone, Abandon, Crash
  <2>. QED BY <2>1 DEF Kept, Agreed
<1>6. CASE BackupMove
  <2>1. Kept' = Kept
    BY <1>0, <1>6, RenameFacts DEF BackupMove, TypeOK
  <2>. QED BY <1>6, <2>1 DEF BackupMove, Agreed
<1>7. CASE InstallMove
  <2>1. Kept' = Kept
    BY <1>0, <1>7, RenameFacts DEF InstallMove, TypeOK
  <2>2. outcome = "none"
    BY <1>7 DEF InstallMove, IInv, MovingInv, Forward
  <2>. QED BY <1>7, <2>1, <2>2 DEF InstallMove, Agreed, Promise!Report
<1>8. CASE UndoRetire \/ UndoPutBack
  <2>1. at \in Entry
    BY <1>0 DEF TypeOK
  <2>2. \/ fs' = fs
        \/ Rename(Target(at), Retired(at))
        \/ Rename(Retired(at), Target(at))
    BY <1>8 DEF UndoRetire, UndoPutBack
  <2>3. Kept' = Kept
    <3>1. CASE fs' = fs
      BY <3>1 DEF Kept
    <3>2. CASE Rename(Target(at), Retired(at)) \/ Rename(Retired(at), Target(at))
      BY <1>0, <2>1, <3>2, RenameFacts
    <3>. QED BY <2>2, <3>1, <3>2
  <2>4. UNCHANGED <<gone, expected, approved, outcome>>
    BY <1>8 DEF UndoRetire, UndoPutBack
  <2>. QED BY <2>3, <2>4 DEF Agreed
<1>9. CASE UndoDiscard
  <2>1. at \in Entry /\ fs[Retired(at)] = New(at) /\ fs \in [Loc -> File \cup {None}]
    BY <1>0, <1>9 DEF UndoDiscard, IInv, UndoInv, TypeOK
  <2>2. \/ fs' = fs
        \/ fs' = [fs EXCEPT ![Retired(at)] = None]
    BY <1>9 DEF UndoDiscard
  <2>3. \A f \in UserFile : (\E l \in Loc : fs'[l] = f) <=> (\E l \in Loc : fs[l] = f)
    BY <2>1, <2>2
  <2>4. Kept' = Kept
    BY <2>3 DEF Kept
  <2>5. UNCHANGED <<gone, expected, approved, outcome>>
    BY <1>9 DEF UndoDiscard
  <2>. QED BY <2>4, <2>5 DEF Agreed
<1>10. CASE RestoreBackup
  <2>1. PICK i \in Entry : fs' = fs \/ Rename(Backup(i), Target(i))
    BY <1>10 DEF RestoreBackup
  <2>2. Kept' = Kept
    <3>1. CASE fs' = fs
      BY <3>1 DEF Kept
    <3>2. CASE Rename(Backup(i), Target(i))
      BY <1>0, <3>2, RenameFacts
    <3>. QED BY <2>1, <3>1, <3>2
  <2>. QED BY <1>10, <2>2 DEF RestoreBackup, Agreed
<1>11. CASE CloseStaging
  <2>1. /\ step = "closing" /\ UNCHANGED <<gone, expected, approved, outcome, autoRemove>>
    BY <1>11 DEF CloseStaging
  <2>2. CASE fs' = fs
    BY <2>1, <2>2 DEF Kept, Agreed
  <2>3. CASE autoRemove /\ fs' = [l \in Loc |-> IF l \in PrivateLoc THEN None ELSE fs[l]]
    <3>1. Kept' \subseteq Kept
      BY <2>3 DEF Kept
    <3>2. \A f \in Kept \ Kept' : \E i \in Entry : fs[Backup(i)] = f \/ fs[Retired(i)] = f
      BY <2>3 DEF Kept, IInv, PlacesInv
    <3>3. CASE outcome = "installed"
      <4>1. \A i \in Entry : /\ fs[Backup(i)] # None => approved /\ fs[Backup(i)] = expected[i]
                             /\ fs[Retired(i)] \notin UserFile
        BY <2>1, <3>3 DEF IInv, ClosedInv, Closed
      <4>2. Kept \ Kept' \subseteq Agreed
        BY <3>2, <4>1 DEF Kept, Agreed
      <4>3. Promise!Discard
        BY <2>1, <3>1, <3>3, <4>2 DEF Promise!Discard, Agreed
      <4>. QED BY <4>3
    <3>4. CASE outcome # "installed"
      <4>1. Kept' = Kept
        BY <2>1, <2>3, <3>1, <3>2, <3>4 DEF Kept, IInv, ClosedInv, Closed
      <4>. QED BY <2>1, <4>1 DEF Agreed
    <3>. QED BY <3>3, <3>4
  <2>. QED BY <1>11, <2>2, <2>3 DEF CloseStaging
<1>12. CASE Environment
  <2>1. /\ gone \subseteq gone'
        /\ \A l \in Loc : fs'[l] = fs[l] \/ fs[l] = None \/ fs[l] \in gone'
        /\ UNCHANGED <<expected, approved, outcome>>
    <3>1. CASE OtherWrites
      BY <1>0, <3>1 DEF OtherWrites, TypeOK
    <3>2. CASE OtherRemoves
      BY <1>0, <3>2 DEF OtherRemoves, TypeOK
    <3>3. CASE PathMoves
      BY <3>3 DEF PathMoves
    <3>. QED BY <1>12, <3>1, <3>2, <3>3 DEF Environment
  <2>2. Kept \ Kept' \subseteq gone' /\ Kept' \subseteq UserFile
    BY <2>1 DEF Kept
  <2>. QED BY <2>1, <2>2 DEF Promise!OthersAct, Agreed
<1>. QED
  BY <1>1, <1>2, <1>3, <1>4, <1>5, <1>6, <1>7, <1>8, <1>9, <1>10, <1>11, <1>12
     DEF Next, Transaction

(* No step of inspect(), commit(), rollback or cleanup makes somebody else's
   file disappear, except an approved original after complete installation. *)
THEOREM TransactionKeepsPromise == Spec => KeepsPromise
<1>1. Init => Promise!Init
  BY PromiseInit
<1>2. IInv /\ [Next]_vars => [Promise!Next]_Promise!vars
  BY PromiseStep
<1>. QED BY <1>1, <1>2, Invariance, PTL DEF Spec, KeepsPromise, Promise!Spec

-----------------------------------------------------------------------------
(* A destination as it was inspected is in its place, or in the private place
   of its entry, unless other programs took it; at a clean end it is in its place. *)
OriginalsInv ==
  /\ step \in {"inspected", "check", "prepare"} \cup Forward \cup Undoing =>
       \A i \in Entry : expected[i] \notin gone \cup {None} =>
         expected[i] \in {fs[Target(i)], fs[Backup(i)], fs[Retired(i)]}
  /\ outcome \in {"untouched", "restored"} =>
       \A i \in Entry : expected[i] \notin gone \cup {None} => fs[Target(i)] = expected[i]

(* An output under its final name is one that rollback still knows of. *)
OutputsInv ==
  /\ \A i \in Entry : fs[Stage(i)] \in {None, New(i)} /\ fs[Backup(i)] # New(i)
  /\ step \in Early \cup Forward => ~problems
  /\ step \in Early \cup {"backup", "backupMove", "restore"} => installed = {}
  /\ step \in Forward \cup Undoing =>
       \A i \in Entry : fs[Target(i)] = New(i) =>
         \/ i \in installed \/ problems \/ ~reachable
         \/ step = "retire" /\ i = at
  /\ outcome \in {"untouched", "restored"} =>
       \A i \in Entry : reachable => fs[Target(i)] # New(i)

(* The second loop has installed what is behind it. *)
FamilyInv ==
  /\ step \in {"install", "installMove"} =>
       \A i \in Entry : i < at => fs[Target(i)] = New(i) \/ New(i) \in gone
  /\ outcome = "installed" =>
       /\ \A i \in Entry : fs[Target(i)] = New(i) \/ New(i) \in gone
       /\ approved \/ \A i \in Entry : expected[i] = None

ReportInv == OriginalsInv /\ OutputsInv /\ FamilyInv


LEMMA InitReport == Init => ReportInv
<1> SUFFICES ASSUME Init PROVE ReportInv  OBVIOUS
<1>. QED  BY FileFacts DEF Init, ReportInv, OriginalsInv, OutputsInv, FamilyInv

(* Before the first move. *)
LEMMA ReportPrepare ==
  ASSUME IInv, ReportInv,
         \/ Inspect \/ InspectFails \/ Abandon
         \/ \E replaceExisting \in BOOLEAN : Commit(replaceExisting)
         \/ CheckEntry \/ CheckFails \/ Prepare
  PROVE  ReportInv'
<1>. USE FileFacts, LocFacts, FamilyAssumption DEF places, book, undone
<1>. at \in Entry /\ TypeOK  BY DEF IInv, TypeOK
<1>1. CASE Inspect
  <2>1. OriginalsInv'
    BY <1>1 DEF Inspect, OriginalsInv
  <2>2. OutputsInv'
    BY <1>1 DEF Inspect, ReportInv, OutputsInv, Early, Forward, Undoing
  <2>3. FamilyInv'
    BY <1>1 DEF Inspect, IInv, EarlyInv, FamilyInv, Early
  <2>. QED  BY <2>1, <2>2, <2>3 DEF ReportInv
<1>2. CASE InspectFails
  <2>1. OriginalsInv'
    BY <1>2 DEF InspectFails, OriginalsInv
  <2>2. OutputsInv'
    BY <1>2 DEF InspectFails, ReportInv, OutputsInv, Early, Forward, Undoing
  <2>3. FamilyInv'
    BY <1>2 DEF InspectFails, ReportInv, FamilyInv
  <2>. QED  BY <2>1, <2>2, <2>3 DEF ReportInv
<1>3. CASE Abandon
  <2>1. OriginalsInv'
    BY <1>3 DEF Abandon, ReportInv, OriginalsInv, Forward, Undoing
  <2>2. OutputsInv'
    BY <1>3 DEF Abandon, ReportInv, OutputsInv, Early, Forward, Undoing
  <2>3. FamilyInv'
    BY <1>3 DEF Abandon, ReportInv, FamilyInv
  <2>. QED  BY <2>1, <2>2, <2>3 DEF ReportInv
<1>4. ASSUME NEW replaceExisting \in BOOLEAN, Commit(replaceExisting)
     PROVE  ReportInv'
  <2>1. OriginalsInv'
    BY <1>4 DEF Commit, IInv, EarlyInv, ReportInv, OriginalsInv, Early
  <2>2. OutputsInv'
    BY <1>4 DEF Commit, FailUnchanged, IInv, EarlyInv, ReportInv, OutputsInv, Early
  <2>3. FamilyInv'
    BY <1>4 DEF Commit, FailUnchanged, Existing, ReportInv, FamilyInv
  <2>. QED  BY <2>1, <2>2, <2>3 DEF ReportInv
<1>5. CASE CheckEntry
  <2>1. OriginalsInv'
    BY <1>5 DEF CheckEntry, ReportInv, OriginalsInv
  <2>2. OutputsInv'
    BY <1>5 DEF CheckEntry, ReportInv, OutputsInv, Early, Forward, Undoing
  <2>3. FamilyInv'
    BY <1>5 DEF CheckEntry, ReportInv, FamilyInv
  <2>. QED  BY <2>1, <2>2, <2>3 DEF ReportInv
<1>6. CASE CheckFails
  <2>1. OriginalsInv'
    BY <1>6 DEF CheckFails, IInv, EarlyInv, ReportInv, OriginalsInv, Early
  <2>2. OutputsInv'
    BY <1>6 DEF CheckFails, FailUnchanged, IInv, EarlyInv, ReportInv, OutputsInv, Early
  <2>3. FamilyInv'
    BY <1>6 DEF CheckFails, FailUnchanged, FamilyInv
  <2>. QED  BY <2>1, <2>2, <2>3 DEF ReportInv
<1>7. CASE Prepare
  <2>1. OriginalsInv'
    BY <1>7 DEF Prepare, ReportInv, OriginalsInv
  <2>2. OutputsInv'
    BY <1>7 DEF Prepare, IInv, EarlyInv, ReportInv, OutputsInv, Early
  <2>3. FamilyInv'
    BY <1>7 DEF Prepare, ReportInv, FamilyInv
  <2>. QED  BY <2>1, <2>2, <2>3 DEF ReportInv
<1>. QED  BY <1>1, <1>2, <1>3, <1>4, <1>5, <1>6, <1>7

(* The two loops. *)
LEMMA ReportMove ==
  ASSUME IInv, ReportInv,
         BackupValidate \/ BackupMove \/ InstallValidate \/ InstallMove \/ MoveFails
  PROVE  ReportInv'
<1>. USE FileFacts, LocFacts, FamilyAssumption DEF places, book, undone
<1>. at \in Entry /\ TypeOK  BY DEF IInv, TypeOK
<1>1. CASE BackupValidate
  <2>1. OriginalsInv'
    BY <1>1 DEF BackupValidate, ReportInv, OriginalsInv, Forward
  <2>2. OutputsInv'
    BY <1>1 DEF BackupValidate, ReportInv, OutputsInv, Forward
  <2>3. FamilyInv'
    BY <1>1 DEF BackupValidate, NextBackup, Entry, ReportInv, FamilyInv
  <2>. QED  BY <2>1, <2>2, <2>3 DEF ReportInv
<1>2. CASE BackupMove
  <2>1. /\ fs' \in [Loc -> File \cup {None}] /\ fs[Target(at)] # None /\ fs[Backup(at)] = None /\ reachable
        /\ fs'[Backup(at)] = fs[Target(at)] /\ fs'[Target(at)] = None
        /\ \A l \in Loc : l # Target(at) /\ l # Backup(at) => fs'[l] = fs[l]
    BY <1>2, RenameFacts DEF BackupMove, Rename
  <2>2. OriginalsInv'
    BY <1>2, <2>1 DEF BackupMove, IInv, MovingInv, ReportInv, OriginalsInv, Forward
  <2>3. OutputsInv'
    BY <1>2, <2>1 DEF BackupMove, ReportInv, OutputsInv, Forward
  <2>4. FamilyInv'
    BY <1>2, <2>1 DEF BackupMove, NextBackup, BeginRollback, Entry, ReportInv, OutputsInv,
       FamilyInv, Forward
  <2>. QED  BY <2>2, <2>3, <2>4 DEF ReportInv
<1>3. CASE InstallValidate
  <2>1. OriginalsInv'
    BY <1>3 DEF InstallValidate, ReportInv, OriginalsInv, Forward
  <2>2. OutputsInv'
    BY <1>3 DEF InstallValidate, ReportInv, OutputsInv, Early, Forward
  <2>3. FamilyInv'
    BY <1>3 DEF InstallValidate, ReportInv, FamilyInv
  <2>. QED  BY <2>1, <2>2, <2>3 DEF ReportInv
<1>4. CASE InstallMove
  <2>1. /\ fs' \in [Loc -> File \cup {None}] /\ fs[Stage(at)] # None /\ fs[Target(at)] = None /\ reachable
        /\ fs'[Target(at)] = fs[Stage(at)] /\ fs'[Stage(at)] = None
        /\ \A l \in Loc : l # Stage(at) /\ l # Target(at) => fs'[l] = fs[l]
    BY <1>4, RenameFacts DEF InstallMove, Rename
  <2>2. OriginalsInv'
    BY <1>4, <2>1 DEF InstallMove, ReportInv, OriginalsInv, Forward
  <2>3. OutputsInv'
    BY <1>4, <2>1 DEF InstallMove, IInv, MovingInv, ReportInv, OutputsInv, Early, Forward
  <2>4. FamilyInv'
    BY <1>4, <2>1 DEF InstallMove, Entry, IInv, ConsentInv, ReportInv, OutputsInv, FamilyInv,
       Forward
  <2>. QED  BY <2>2, <2>3, <2>4 DEF ReportInv
<1>5. CASE MoveFails
  <2>1. OriginalsInv'
    BY <1>5 DEF MoveFails, ReportInv, OriginalsInv, Forward
  <2>2. OutputsInv'
    BY <1>5 DEF MoveFails, BeginRollback, ReportInv, OutputsInv, Early, Forward
  <2>3. FamilyInv'
    BY <1>5 DEF MoveFails, BeginRollback, ReportInv, FamilyInv
  <2>. QED  BY <2>1, <2>2, <2>3 DEF ReportInv
<1>. QED  BY <1>1, <1>2, <1>3, <1>4, <1>5

(* The rollback. *)
LEMMA ReportRollback ==
  ASSUME IInv, ReportInv,
         \/ UndoInspect \/ UndoRetire \/ UndoDiscard \/ UndoPutBack
         \/ UndoInstalledDone \/ RestoreBackup \/ FinishRollback
  PROVE  ReportInv'
<1>. USE FileFacts, LocFacts, FamilyAssumption DEF places, book, undone, UndoProblem
<1>. at \in Entry /\ TypeOK  BY DEF IInv, TypeOK
<1>1. CASE UndoInspect
  <2>1. OriginalsInv'
    BY <1>1 DEF UndoInspect, ReportInv, OriginalsInv, Undoing
  <2>2. OutputsInv'
    BY <1>1 DEF UndoInspect, Seen, ReportInv, OutputsInv, Early, Forward, Undoing
  <2>3. FamilyInv'
    BY <1>1 DEF UndoInspect, ReportInv, FamilyInv
  <2>. QED  BY <2>1, <2>2, <2>3 DEF ReportInv
<1>2. CASE UndoRetire /\ fs' = fs /\ UndoProblem
  <2>1. OriginalsInv'
    BY <1>2 DEF UndoRetire, ReportInv, OriginalsInv, Undoing
  <2>2. OutputsInv'
    BY <1>2 DEF UndoRetire, ReportInv, OutputsInv, Early, Forward
  <2>3. FamilyInv'
    BY <1>2 DEF UndoRetire, ReportInv, FamilyInv
  <2>. QED  BY <2>1, <2>2, <2>3 DEF ReportInv
<1>3. CASE UndoRetire /\ Rename(Target(at), Retired(at))
  <2>1. /\ fs' \in [Loc -> File \cup {None}] /\ fs[Target(at)] # None /\ fs[Retired(at)] = None /\ reachable
        /\ fs'[Retired(at)] = fs[Target(at)] /\ fs'[Target(at)] = None
        /\ \A l \in Loc : l # Target(at) /\ l # Retired(at) => fs'[l] = fs[l]
    BY <1>3, RenameFacts DEF UndoRetire, Rename
  <2>2. OriginalsInv'
    BY <1>3, <2>1 DEF UndoRetire, IInv, MovingInv, ReportInv, OriginalsInv, Undoing
  <2>3. OutputsInv'
    BY <1>3, <2>1 DEF UndoRetire, ReportInv, OutputsInv, Early, Forward, Undoing
  <2>4. FamilyInv'
    BY <1>3, <2>1 DEF UndoRetire, IInv, MovingInv, FamilyInv, Undoing
  <2>. QED  BY <2>2, <2>3, <2>4 DEF ReportInv
<1>4. CASE UndoDiscard
  <2>1. \A l \in Loc : fs'[l] = fs[l] \/ l = Retired(at)
    BY <1>4 DEF UndoDiscard, TypeOK
  <2>2. OriginalsInv'
    BY <1>4, <2>1 DEF UndoDiscard, IInv, PlacesInv, UndoInv, ReportInv, OriginalsInv, Undoing
  <2>3. OutputsInv'
    BY <1>4, <2>1 DEF UndoDiscard, ReportInv, OutputsInv, Early, Forward, Undoing
  <2>4. FamilyInv'
    BY <1>4, <2>1 DEF UndoDiscard, ReportInv, FamilyInv
  <2>. QED  BY <2>2, <2>3, <2>4 DEF ReportInv
<1>5. CASE UndoPutBack /\ fs' = fs
  <2>1. OriginalsInv'
    BY <1>5 DEF UndoPutBack, ReportInv, OriginalsInv, Undoing
  <2>2. OutputsInv'
    BY <1>5 DEF UndoPutBack, ReportInv, OutputsInv, Early, Forward
  <2>3. FamilyInv'
    BY <1>5 DEF UndoPutBack, ReportInv, FamilyInv
  <2>. QED  BY <2>1, <2>2, <2>3 DEF ReportInv
<1>6. CASE UndoPutBack /\ Rename(Retired(at), Target(at))
  <2>1. /\ fs' \in [Loc -> File \cup {None}] /\ fs[Retired(at)] # None /\ fs[Target(at)] = None /\ reachable
        /\ fs'[Target(at)] = fs[Retired(at)] /\ fs'[Retired(at)] = None
        /\ \A l \in Loc : l # Retired(at) /\ l # Target(at) => fs'[l] = fs[l]
    BY <1>6, RenameFacts DEF UndoPutBack, Rename
  <2>2. OriginalsInv'
    BY <1>6, <2>1 DEF UndoPutBack, ReportInv, OriginalsInv, Undoing
  <2>3. OutputsInv'
    BY <1>6, <2>1 DEF UndoPutBack, IInv, MovingInv, ReportInv, OutputsInv, Early, Forward, Undoing
  <2>4. FamilyInv'
    BY <1>6, <2>1 DEF UndoPutBack, ReportInv, FamilyInv
  <2>. QED  BY <2>2, <2>3, <2>4 DEF ReportInv
<1>7. CASE UndoInstalledDone
  <2>1. OriginalsInv'
    BY <1>7 DEF UndoInstalledDone, ReportInv, OriginalsInv, Undoing
  <2>2. OutputsInv'
    BY <1>7 DEF UndoInstalledDone, ReportInv, OutputsInv, Early, Forward, Undoing
  <2>3. FamilyInv'
    BY <1>7 DEF UndoInstalledDone, ReportInv, FamilyInv
  <2>. QED  BY <2>1, <2>2, <2>3 DEF ReportInv
<1>8. ASSUME NEW i \in Entry, RestoreBackup, Rename(Backup(i), Target(i)), UNCHANGED problems
     PROVE  ReportInv'
  <2>1. /\ fs' \in [Loc -> File \cup {None}] /\ fs[Backup(i)] # None /\ fs[Target(i)] = None /\ reachable
        /\ fs'[Target(i)] = fs[Backup(i)] /\ fs'[Backup(i)] = None
        /\ \A l \in Loc : l # Backup(i) /\ l # Target(i) => fs'[l] = fs[l]
    BY <1>8, RenameFacts DEF RestoreBackup, Rename
  <2>2. OriginalsInv'
    BY <1>8, <2>1 DEF RestoreBackup, ReportInv, OriginalsInv
  <2>3. OutputsInv'
    BY <1>8, <2>1 DEF RestoreBackup, ReportInv, OutputsInv
  <2>4. FamilyInv'
    BY <1>8, <2>1 DEF RestoreBackup, ReportInv, FamilyInv
  <2>. QED  BY <2>2, <2>3, <2>4 DEF ReportInv
<1>9. CASE RestoreBackup /\ fs' = fs /\ problems'
  <2>1. OriginalsInv'
    BY <1>9 DEF RestoreBackup, ReportInv, OriginalsInv
  <2>2. OutputsInv'
    BY <1>9 DEF RestoreBackup, ReportInv, OutputsInv, Early, Forward
  <2>3. FamilyInv'
    BY <1>9 DEF RestoreBackup, ReportInv, FamilyInv
  <2>. QED  BY <2>1, <2>2, <2>3 DEF ReportInv
<1>10. CASE FinishRollback
  <2>1. OriginalsInv'
    BY <1>10 DEF FinishRollback, IInv, PlacesInv, MovingInv, UndoInv, ReportInv, OriginalsInv,
       Undoing
  <2>2. OutputsInv'
    BY <1>10 DEF FinishRollback, ReportInv, OutputsInv, Early, Forward, Undoing
  <2>3. FamilyInv'
    BY <1>10 DEF FinishRollback, FamilyInv
  <2>. QED  BY <2>1, <2>2, <2>3 DEF ReportInv
<1>. QED  BY <1>1, <1>2, <1>3, <1>4, <1>5, <1>6, <1>7, <1>8, <1>9, <1>10
     DEF UndoRetire, UndoPutBack, RestoreBackup

(* The end of the staging directory, and other programs. *)
LEMMA ReportOutside ==
  ASSUME IInv, ReportInv,
         CloseStaging \/ Unwind \/ Crash \/ (Environment /\ step # "end")
  PROVE  ReportInv'
<1>. USE FileFacts, LocFacts, FamilyAssumption DEF places, book, undone
<1>. at \in Entry /\ TypeOK  BY DEF IInv, TypeOK
<1>1. CASE CloseStaging
  <2>1. \A i \in Entry : /\ fs'[Target(i)] = fs[Target(i)]
                         /\ fs'[Stage(i)] \in {None, fs[Stage(i)]}
                         /\ fs'[Backup(i)] \in {None, fs[Backup(i)]}
    BY <1>1 DEF CloseStaging, TypeOK
  <2>2. /\ step = "closing" /\ step' = "end"
        /\ UNCHANGED <<reachable, gone, at, expected, approved, installed, problems, outcome>>
    BY <1>1 DEF CloseStaging
  <2>3. \A i \in Entry : New(i) # None  OBVIOUS
  <2>4. OriginalsInv'
    BY <1>1, <2>1, <2>2, <2>3 DEF ReportInv, OriginalsInv, Forward, Undoing
  <2>5. OutputsInv'
    BY <1>1, <2>1, <2>2, <2>3 DEF ReportInv, OutputsInv, Early, Forward, Undoing
  <2>6. FamilyInv'
    BY <1>1, <2>1, <2>2, <2>3 DEF ReportInv, FamilyInv
  <2>. QED  BY <2>4, <2>5, <2>6 DEF ReportInv
<1>2. CASE Unwind
  <2>1. OriginalsInv'
    BY <1>2 DEF Unwind, OriginalsInv, Forward, Undoing
  <2>2. OutputsInv'
    BY <1>2 DEF Unwind, ReportInv, OutputsInv, Early, Forward, Undoing
  <2>3. FamilyInv'
    BY <1>2 DEF Unwind, FamilyInv
  <2>. QED  BY <2>1, <2>2, <2>3 DEF ReportInv
<1>3. CASE Crash
  <2>1. OriginalsInv'
    BY <1>3 DEF Crash, ReportInv, OriginalsInv, Forward, Undoing
  <2>2. OutputsInv'
    BY <1>3 DEF Crash, ReportInv, OutputsInv, Early, Forward, Undoing
  <2>3. FamilyInv'
    BY <1>3 DEF Crash, ReportInv, FamilyInv
  <2>. QED  BY <2>1, <2>2, <2>3 DEF ReportInv
<1>4. CASE OtherWrites \/ OtherRemoves \/ PathMoves
  <2>1. /\ gone \subseteq gone' /\ (reachable' => reachable)
        /\ \A i \in Entry : /\ fs'[Stage(i)] = fs[Stage(i)] /\ fs'[Backup(i)] = fs[Backup(i)]
                            /\ fs'[Retired(i)] = fs[Retired(i)]
                            /\ \/ fs'[Target(i)] = fs[Target(i)]
                               \/ /\ fs'[Target(i)] \in UserFile \cup {None}
                                  /\ fs[Target(i)] \in gone' \cup {None}
    <3>1. CASE OtherWrites
      <4>1. PICK i \in Entry, j \in 1..Foreign :
              /\ fs' = [fs EXCEPT ![Target(i)] = Other(j)]
              /\ gone' = gone \cup ({fs[Target(i)]} \ {None})
        BY <3>1 DEF OtherWrites
      <4>2. Other(j) \in UserFile  BY DEF UserFile
      <4>. QED  BY <3>1, <4>1, <4>2 DEF OtherWrites, TypeOK
    <3>2. CASE OtherRemoves  BY <3>2 DEF OtherRemoves, TypeOK
    <3>3. CASE PathMoves  BY <3>3 DEF PathMoves
    <3>. QED  BY <1>4, <3>1, <3>2, <3>3
  <2>2. UNCHANGED <<step, at, expected, approved, installed, problems, outcome>>
    BY <1>4 DEF OtherWrites, OtherRemoves, PathMoves
  <2>3. OriginalsInv'
    BY <1>4, <2>1, <2>2 DEF ReportInv, OriginalsInv
  <2>4. OutputsInv'
    BY <1>4, <2>1, <2>2 DEF ReportInv, OutputsInv
  <2>5. FamilyInv'
    BY <1>4, <2>1, <2>2 DEF ReportInv, FamilyInv
  <2>. QED  BY <2>3, <2>4, <2>5 DEF ReportInv
<1>. QED  BY <1>1, <1>2, <1>3, <1>4 DEF Environment

LEMMA ReportInductive == IInv /\ ReportInv /\ [Next]_vars => ReportInv'
<1>. SUFFICES ASSUME IInv, ReportInv, [Next]_vars PROVE ReportInv'
  OBVIOUS
<1>1. CASE UNCHANGED vars
  BY <1>1 DEF vars, ReportInv, OriginalsInv, OutputsInv, FamilyInv
<1>2. CASE Next
  BY <1>2, ReportPrepare, ReportMove, ReportRollback, ReportOutside DEF Next, Transaction
<1>. QED BY <1>1, <1>2

(* What commit() reports is true for every family, whatever other programs do:
   a clean failure left every destination as it was, and a success installed
   the whole family with approval. *)
THEOREM ReportsAreTrue == Spec => []OutcomeIsTrue
<1>1. Init => ReportInv
  BY InitReport
<1>2. IInv /\ ReportInv /\ [Next]_vars => ReportInv'
  BY ReportInductive
<1>3. ReportInv => OutcomeIsTrue
  BY DEF ReportInv, OriginalsInv, OutputsInv, FamilyInv, OutcomeIsTrue, CleanFailureRestores,
     SuccessIsComplete, Existing
<1>. QED BY <1>1, <1>2, <1>3, Invariance, PTL DEF Spec

-----------------------------------------------------------------------------
(* Capture, whose parts are installed by such a transaction. *)

(* A child that ended well has completed what it recorded. *)
EndedWellIsWhole == Ended /\ exit = "ok" /\ recording # "empty" => recording = "whole"

(* The user is asked after the judgement, which stays true until the files are
   installed, and the approval is for what was inspected. *)
ApprovedIsInspected ==
  /\ place \in {"asking", "installing"} => Captured
  /\ place = "installing" => consented = {inspected[t] : t \in Part} \ {Nothing}

CaptureInv == CaptureTypes /\ EndedWellIsWhole /\ ApprovedIsInspected

LEMMA InitCapture ==
  ASSUME CaptureInit
  PROVE  CaptureInv
<1>1. CaptureTypes
  <2>1. Limit \in Nat /\ Grace \in Nat
    BY CaptureAssumption
  <2>2. elapsed \in 0 .. Limit /\ since \in -1 .. Grace + 1
    BY <2>1 DEF CaptureInit
  <2>3. split \in BOOLEAN /\ timed \in BOOLEAN /\ stop \in BOOLEAN
    BY Zenon DEF CaptureInit
  <2>4. QED
    BY <2>2, <2>3 DEF CaptureInit, CaptureTypes, Ended
<1>2. EndedWellIsWhole /\ ApprovedIsInspected
  BY DEF CaptureInit, EndedWellIsWhole, ApprovedIsInspected
<1>3. QED
  BY <1>1, <1>2 DEF CaptureInv

(* A step that leaves the files alone keeps their types. *)
LEMMA FilesTyped ==
  ASSUME CaptureInv, UNCHANGED files
  PROVE  /\ disk' \in [Part -> OtherFile \cup {Nothing, Recorded}]
         /\ inspected' \in [Part -> OtherFile \cup {Nothing, Recorded}]
         /\ consented' \subseteq OtherFile \cup {Recorded}
  BY DEF CaptureInv, CaptureTypes, files

(* Beginning a capture. *)
LEMMA CaptureBegins ==
  ASSUME CaptureInv, Choose \/ Start \/ StartFails
  PROVE  CaptureInv' /\ disk' = disk
<1>1. First \in Part /\ Limit \in Nat /\ Grace \in Nat
  BY CaptureAssumption
<1>2. CASE Choose
  <2>1. CaptureTypes'
    BY <1>1, <1>2 DEF CaptureInv, Choose, CaptureTypes, asked, ffmpeg, Loop, Ended
  <2>2. EndedWellIsWhole' /\ ApprovedIsInspected'
    BY <1>2 DEF CaptureInv, Choose, ffmpeg, EndedWellIsWhole, ApprovedIsInspected, Ended
  <2>3. QED
    BY <1>2, <2>1, <2>2 DEF CaptureInv, Choose
<1>3. CASE Start
  <2>1. CaptureTypes'
    <3>1. elapsed' \in 0 .. Limit /\ since' \in -1 .. Grace + 1
      BY <1>1, <1>3 DEF Start
    <3>2. stop' \in BOOLEAN
      BY <1>3, Zenon DEF Start
    <3>3. QED
      BY <1>3, <3>1, <3>2 DEF CaptureInv, Start, CaptureTypes, files, settings, Loop,
         Ended
  <2>2. EndedWellIsWhole' /\ ApprovedIsInspected'
    BY <1>3 DEF CaptureInv, Start, EndedWellIsWhole, ApprovedIsInspected, Ended
  <2>3. QED
    BY <1>3, <2>1, <2>2 DEF CaptureInv, Start, files
<1>4. CASE StartFails
  <2>1. CaptureTypes'
    BY <1>4 DEF CaptureInv, StartFails, CaptureTypes, settings, asked, ffmpeg, files,
       Loop, Ended
  <2>2. EndedWellIsWhole' /\ ApprovedIsInspected'
    BY <1>4 DEF CaptureInv, StartFails, ffmpeg, EndedWellIsWhole, ApprovedIsInspected, Ended
  <2>3. QED
    BY <1>4, <2>1, <2>2 DEF CaptureInv, StartFails, files
<1>5. QED
  BY <1>2, <1>3, <1>4

(* The rounds of the window's wait. *)
LEMMA CaptureWaits ==
  ASSUME CaptureInv,
         WaitedInVain \/ ChildEnded \/ UserStops \/ Pumped \/ Act \/ Terminated
  PROVE  CaptureInv' /\ disk' = disk
<1>1. Limit \in Nat /\ Grace \in Nat /\ elapsed \in 0 .. Limit /\ since \in -1 .. Grace + 1
  BY CaptureAssumption DEF CaptureInv, CaptureTypes
<1>2. /\ place \in Loop /\ place' \in Loop \cup {"judging"}
      /\ place' = "judging" => Ended'
  BY DEF WaitedInVain, ChildEnded, UserStops, Pumped, Act, Terminated,
     Loop, ffmpeg, Ended
<1>3. UNCHANGED <<split, timed, camera, recording, disk, inspected, consented, told>>
  BY DEF WaitedInVain, ChildEnded, UserStops, Pumped, Act, Terminated,
     ffmpeg, settings, files
<1>4. \/ child' = child /\ exit' = exit
      \/ child' = "ended" /\ exit' = "crash"
  BY DEF WaitedInVain, ChildEnded, UserStops, Pumped, Act, Terminated,
     ffmpeg
<1>5. elapsed' \in 0 .. Limit
  BY <1>1 DEF WaitedInVain, ChildEnded, UserStops, Pumped, Act, Terminated
<1>6. since' \in -1 .. Grace + 1
  BY <1>1 DEF WaitedInVain, ChildEnded, UserStops, Pumped, Act, Terminated,
     asked
<1>7. stop' \in BOOLEAN /\ signal' \in {"none", "q", "term"}
  BY DEF CaptureInv, CaptureTypes, WaitedInVain, ChildEnded, UserStops, Pumped,
     Act, Terminated, asked, ffmpeg
<1>8. CaptureTypes'
  BY <1>2, <1>3, <1>4, <1>5, <1>6, <1>7 DEF CaptureInv, CaptureTypes, Loop, Ended
<1>9. EndedWellIsWhole' /\ ApprovedIsInspected'
  BY <1>2, <1>3, <1>4 DEF CaptureInv, EndedWellIsWhole, ApprovedIsInspected, Ended, Loop
<1>10. QED
  BY <1>3, <1>8, <1>9 DEF CaptureInv

(* The child, and the camera. *)
LEMMA ChildGoesOn ==
  ASSUME CaptureInv,
         Record \/ Heed \/ Finalize \/ ChildFails \/ Stall \/ Resume
  PROVE  CaptureInv' /\ disk' = disk
<1>1. UNCHANGED <<place, split, timed, elapsed, stop, since, signal, disk, inspected, consented,
                  told>>
  BY DEF Record, Heed, Finalize, ChildFails, Stall, Resume, Around,
     settings, asked, files, ffmpeg
<1>2. /\ camera' \in {"flows", "stalled"} /\ child' \in {"recording", "finishing", "ended"}
      /\ exit' \in {"ok", "error", "crash"} /\ recording' \in {"empty", "partial", "whole"}
  BY DEF CaptureInv, CaptureTypes, Record, Heed, Finalize, ChildFails, Stall,
     Resume, ffmpeg
<1>3. ~Ended \/ UNCHANGED <<child, exit, recording>>
  BY DEF Record, Heed, Finalize, ChildFails, Stall, Resume, ffmpeg,
     Ended
<1>4. CaptureTypes'
  BY <1>1, <1>2, <1>3 DEF CaptureInv, CaptureTypes, Ended
<1>5. EndedWellIsWhole'
  BY DEF CaptureInv, EndedWellIsWhole, Ended, Record, Heed, Finalize, ChildFails,
     Stall, Resume, ffmpeg
<1>6. ApprovedIsInspected'
  <2>1. place \in {"asking", "installing"} => Ended
    BY DEF CaptureInv, CaptureTypes, Loop
  <2>2. QED
    BY <1>1, <1>3, <2>1 DEF CaptureInv, ApprovedIsInspected, Captured
<1>7. QED
  BY <1>1, <1>4, <1>5, <1>6 DEF CaptureInv

(* Other programs: none of them brings the recording along. *)
LEMMA OthersAct ==
  ASSUME CaptureInv, OthersWrite \/ OthersDelete
  PROVE  /\ CaptureInv'
         /\ \A t \in Part : disk'[t] \in {disk[t], Nothing} \cup OtherFile
<1>1. /\ UNCHANGED <<place, split, timed, elapsed, stop, since, camera, child, signal, exit, recording,
                     inspected, consented, told>>
      /\ \E t \in Part, f \in OtherFile \cup {Nothing} :
           disk' = [disk EXCEPT ![t] = f]
  BY DEF OthersWrite, OthersDelete, settings, asked, ffmpeg
<1>2. disk \in [Part -> OtherFile \cup {Nothing, Recorded}]
  BY DEF CaptureInv, CaptureTypes
<1>3. /\ disk' \in [Part -> OtherFile \cup {Nothing, Recorded}]
      /\ \A t \in Part : disk'[t] \in {disk[t], Nothing} \cup OtherFile
  BY <1>1, <1>2
<1>4. CaptureTypes'
  BY <1>1, <1>3 DEF CaptureInv, CaptureTypes, Ended
<1>5. EndedWellIsWhole' /\ ApprovedIsInspected'
  BY <1>1 DEF CaptureInv, EndedWellIsWhole, ApprovedIsInspected, Captured, Ended
<1>6. QED
  BY <1>3, <1>4, <1>5 DEF CaptureInv

(* What an installation puts in place is a complete recording, and a part of a
   split one replaces what the user agreed to, or nothing. *)
Owed(t) ==
  disk[t] # Recorded /\ disk'[t] = Recorded =>
    /\ recording = "whole"
    /\ split => disk[t] \in consented \cup {Nothing}

LEMMA CaptureConcludes ==
  ASSUME CaptureInv,
         Discard \/ InstallOne \/ InspectParts \/ Approve \/ Refuse \/ InstallParts
  PROVE  CaptureInv' /\ \A t \in Part : Owed(t)
<1>1. /\ place \in {"judging", "asking", "installing"} /\ Ended
      /\ UNCHANGED <<split, timed, elapsed, stop, since, camera, child, signal, exit>>
  BY DEF CaptureInv, CaptureTypes, Loop, Discard, InstallOne, InspectParts, Approve,
     Refuse, InstallParts, Finish, settings, asked, ffmpeg
<1>2. CASE Finish("saved") \/ Finish("failed")
  <2>1. place' = "idle" /\ recording' = "empty" /\ told' \in {"saved", "failed"}
    BY <1>2 DEF Finish
  <2>2. UNCHANGED <<inspected, consented>>
    BY <2>1 DEF Discard, InstallOne, InspectParts, Approve, Refuse,
       InstallParts, Install, files
  <2>3. CASE disk' = disk
    <3>1. CaptureTypes'
      BY <1>1, <2>1, <2>2, <2>3 DEF CaptureInv, CaptureTypes, Loop, Ended
    <3>2. EndedWellIsWhole' /\ ApprovedIsInspected'
      BY <1>1, <2>1 DEF EndedWellIsWhole, ApprovedIsInspected
    <3>3. QED
      BY <2>3, <3>1, <3>2 DEF CaptureInv, Owed
  <2>4. CASE Install /\ Captured /\ (~split \/ (place = "installing" /\ disk = inspected))
    <3>1. disk' = [t \in Part |-> IF t \in Used THEN Recorded ELSE disk[t]]
      BY <2>4 DEF Install
    <3>2. disk' \in [Part -> OtherFile \cup {Nothing, Recorded}]
      BY <3>1 DEF CaptureInv, CaptureTypes
    <3>3. CaptureTypes'
      BY <1>1, <2>1, <2>2, <3>2 DEF CaptureInv, CaptureTypes, Loop, Ended
    <3>4. EndedWellIsWhole' /\ ApprovedIsInspected'
      BY <1>1, <2>1 DEF EndedWellIsWhole, ApprovedIsInspected
    <3>5. recording = "whole"
      BY <1>1, <2>4 DEF CaptureInv, EndedWellIsWhole, Captured
    <3>6. ASSUME split, NEW t \in Part PROVE disk[t] \in consented \cup {Nothing}
      <4>1. disk = inspected /\ consented = {inspected[u] : u \in Part} \ {Nothing}
        BY <2>4, <3>6 DEF CaptureInv, ApprovedIsInspected
      <4>2. QED
        BY <4>1
    <3>7. QED
      BY <3>3, <3>4, <3>5, <3>6 DEF CaptureInv, Owed
  <2>5. QED
    BY <1>2, <2>1, <2>3, <2>4 DEF CaptureInv, ApprovedIsInspected, Discard, InstallOne,
       InspectParts, Approve, Refuse, InstallParts, files
<1>3. CASE InspectParts
  <2>1. /\ place' = "asking" /\ inspected' = disk /\ Captured
        /\ UNCHANGED <<recording, disk, consented, told>>
    BY <1>3 DEF InspectParts, ffmpeg
  <2>2. CaptureTypes'
    BY <1>1, <2>1 DEF CaptureInv, CaptureTypes, Loop, Ended
  <2>3. EndedWellIsWhole' /\ ApprovedIsInspected'
    BY <1>1, <2>1 DEF CaptureInv, EndedWellIsWhole, ApprovedIsInspected, Captured, Ended
  <2>4. QED
    BY <2>1, <2>2, <2>3 DEF CaptureInv, Owed
<1>4. CASE Approve
  <2>1. /\ place = "asking" /\ place' = "installing"
        /\ consented' = {inspected[t] : t \in Part} \ {Nothing}
        /\ UNCHANGED <<recording, disk, inspected, told>>
    BY <1>4 DEF Approve, ffmpeg
  <2>2. consented' \subseteq OtherFile \cup {Recorded}
    BY <2>1 DEF CaptureInv, CaptureTypes
  <2>3. CaptureTypes'
    BY <1>1, <2>1, <2>2 DEF CaptureInv, CaptureTypes, Loop, Ended
  <2>4. EndedWellIsWhole' /\ ApprovedIsInspected'
    BY <1>1, <2>1 DEF CaptureInv, EndedWellIsWhole, ApprovedIsInspected, Captured, Ended
  <2>5. QED
    BY <2>1, <2>3, <2>4 DEF CaptureInv, Owed
<1>5. QED
  BY <1>2, <1>3, <1>4 DEF Discard, InstallOne, InspectParts, Approve, Refuse,
     InstallParts

LEMMA NextCapture ==
  ASSUME CaptureInv, [CaptureNext]_captureVars
  PROVE  CaptureInv' /\ \A t \in Part : Owed(t)
<1>1. CASE UNCHANGED captureVars
  <2>1. UNCHANGED <<place, split, timed, elapsed, stop, since, camera, child, signal, exit, recording,
                    disk, inspected, consented, told>>
    BY <1>1 DEF captureVars
  <2>2. CaptureTypes'
    BY <2>1 DEF CaptureInv, CaptureTypes, Ended
  <2>3. EndedWellIsWhole' /\ ApprovedIsInspected'
    BY <2>1 DEF CaptureInv, EndedWellIsWhole, ApprovedIsInspected, Captured, Ended
  <2>4. QED
    BY <2>1, <2>2, <2>3 DEF CaptureInv, Owed
<1>2. CASE Choose \/ Start \/ StartFails
  BY <1>2, CaptureBegins DEF Owed
<1>3. CASE WaitedInVain \/ ChildEnded \/ UserStops \/ Pumped \/ Act \/ Terminated
  BY <1>3, CaptureWaits DEF Owed
<1>4. CASE Record \/ Heed \/ Finalize \/ ChildFails \/ Stall \/ Resume
  BY <1>4, ChildGoesOn DEF Owed
<1>5. CASE OthersWrite \/ OthersDelete
  <2>1. CaptureInv' /\ \A t \in Part : disk'[t] \in {disk[t], Nothing} \cup OtherFile
    BY <1>5, OthersAct
  <2>2. Recorded \notin {Nothing} \cup OtherFile
    BY CaptureAssumption DEF Nothing, Recorded
  <2>3. QED
    BY <2>1, <2>2 DEF Owed
<1>6. CASE Discard \/ InstallOne \/ InspectParts \/ Approve \/ Refuse \/ InstallParts
  BY <1>6, CaptureConcludes
<1>7. QED
  BY <1>1, <1>2, <1>3, <1>4, <1>5, <1>6 DEF CaptureNext, Window

LEMMA CaptureInvariance == FairSpec => []CaptureInv
<1>1. CaptureInit => CaptureInv
  BY InitCapture
<1>2. CaptureInv /\ [CaptureNext]_captureVars => CaptureInv'
  BY NextCapture
<1>3. QED
  BY <1>1, <1>2, PTL DEF FairSpec, CaptureSpec

(* Types of a capture, for any number of parts, rounds and files of others. *)
THEOREM CaptureTyped == FairSpec => []CaptureTypes
<1>1. CaptureInv => CaptureTypes
  BY DEF CaptureInv
<1>2. QED
  BY <1>1, CaptureInvariance, PTL

(* What comes to a destination is a recording that ffmpeg finished, and a part of
   a split recording replaces only what the user was asked about: the child has
   ended by the time of the judgement and nothing changes what it left, and the
   approval is for the inspected paths, which are compared again. *)
THEOREM InstallationsAreOwed == FairSpec => InstallationIsOwed
<1>1. CaptureInv /\ [CaptureNext]_captureVars =>
        [\A t \in Part : disk[t] # Recorded /\ disk'[t] = Recorded =>
           /\ recording = "whole"
           /\ split => disk[t] \in consented \cup {Nothing}]_captureVars
  BY NextCapture DEF Owed
<1>2. QED
  BY <1>1, CaptureInvariance, PTL DEF FairSpec, CaptureSpec, InstallationIsOwed

=============================================================================
