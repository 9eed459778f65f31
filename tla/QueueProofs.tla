---------------------------- MODULE QueueProofs -----------------------------
(***************************************************************************)
(* Proofs about the job queue.  First JobQueue, one window, for every       *)
(* finite set of jobs: type correctness, that the runner's row stays its    *)
(* job's, that work is on record before it begins, and that no job is       *)
(* executed twice without the user's request.  Then QueueOwnership, for any *)
(* number of windows, sessions and jobs: a job is in the hands of one       *)
(* window, saved jobs stay until a user removes them, and snapshots can be  *)
(* found again.                                                             *)
(***************************************************************************)
EXTENDS JobQueue, QueueOwnership, FiniteSetTheorems, SequenceTheorems, TLAPS

Underway  == {"ready", "inspect", "working", "committing", "finish"}
Busy      == Underway \union {"starting"}
Executing == Busy \union {"saved"}

(* Where the runner is: the row it works on, and what the list says of it. *)
RunnerInv ==
  /\ running <=> phase \notin {"idle", "checkpoint"}
  /\ ~running => active = 0
  /\ phase \in Executing => active > 0 /\ row = active
  /\ phase \in Busy => status[job] \in Active

(* What is known of the job at each stage of its execution. *)
ExecutionInv ==
  /\ phase = "starting" => armed[job]
  /\ phase \in Underway => /\ \E r \in DOMAIN disk.order : disk.order[r] = job
                           /\ disk.status[job] \in Active
  /\ phase = "finish" /\ result = "ok" => madeBy[job]

(* NoSilentRerun and CompleteIsTrue speak of the list and of its saved copy, but
   nothing in them says that what a save writes or a restart reads was asked
   for while a job executes: the inductive invariant adds where the runner is. *)
IInv == TypeOK /\ RowStable /\ RunnerInv /\ ExecutionInv /\ NoSilentRerun /\ CompleteIsTrue

-----------------------------------------------------------------------------
(* The type invariant, variable by variable. *)
LEMMA Types ==
  ASSUME TypeOK
  PROVE  /\ order \in Seq(Job)
         /\ status \in [Job -> Status \union {Absent}]
         /\ replace \in [Job -> BOOLEAN]
         /\ disk.order \in Seq(Job)
         /\ disk.status \in [Job -> Status \union {Absent}]
         /\ disk.replace \in [Job -> BOOLEAN]
BY DEF TypeOK, Snapshot, Lists

LEMMA ListTyped ==
  ASSUME TypeOK, order' \in Seq(Job), status' \in [Job -> Status \union {Absent}],
         replace' \in [Job -> BOOLEAN]
  PROVE  Snapshot' \in Lists
BY DEF Snapshot, Lists

(* The executing job is a job of the list. *)
LEMMA Owner ==
  ASSUME IInv, phase \in Executing
  PROVE  /\ job \in Job /\ active = row /\ active \in DOMAIN order
         /\ order[row] = job /\ InList(job)
<1>1. active > 0 /\ row = active
  BY DEF IInv, RunnerInv
<1>2. active \in DOMAIN order /\ order[active] = job
  BY <1>1 DEF IInv, RowStable
<1>3. job \in Job
  BY <1>2, Types, ElementOfSeq DEF IInv
<1>. QED BY <1>1, <1>2, <1>3 DEF InList

(* An arrangement of some jobs is a list of jobs. *)
LEMMA ListingIsList ==
  ASSUME NEW S \in SUBSET Job, NEW l \in Listings(S)
  PROVE  l \in Seq(Job)
<1>1. Cardinality(S) \in Nat
  BY JobAssumption, FS_Subset, FS_CardinalityType
<1>2. l \in [1 .. Cardinality(S) -> Job]
  BY DEF Listings
<1>. QED BY <1>1, <1>2, SeqDef

LEMMA MovedIsList ==
  ASSUME NEW s \in Seq(Job), NEW from \in DOMAIN s, NEW to \in DOMAIN s
  PROVE  InsertAt(RemoveAt(s, from), to, s[from]) \in Seq(Job)
<1>0. from \in 1 .. Len(s) /\ to \in 1 .. Len(s) /\ Len(s) \in Nat
  BY LenProperties
<1>1. SubSeq(s, 1, from - 1) \in Seq(Job) /\ Len(SubSeq(s, 1, from - 1)) = from - 1
  BY <1>0, SubSeqProperties, ElementOfSeq
<1>2. SubSeq(s, from + 1, Len(s)) \in Seq(Job) /\ Len(SubSeq(s, from + 1, Len(s))) = Len(s) - from
  BY <1>0, SubSeqProperties, ElementOfSeq
<1>3. RemoveAt(s, from) \in Seq(Job) /\ Len(RemoveAt(s, from)) = Len(s) - 1
  <2>1. RemoveAt(s, from) = SubSeq(s, 1, from - 1) \o SubSeq(s, from + 1, Len(s))
    BY DEF RemoveAt
  <2>2. PICK a \in Seq(Job) : a = SubSeq(s, 1, from - 1) /\ Len(a) = from - 1
    BY <1>1
  <2>3. PICK b \in Seq(Job) : b = SubSeq(s, from + 1, Len(s)) /\ Len(b) = Len(s) - from
    BY <1>2
  <2>4. a \o b \in Seq(Job) /\ Len(a \o b) = Len(a) + Len(b)
    BY ConcatProperties
  <2>5. RemoveAt(s, from) = a \o b
    BY <2>1, <2>2, <2>3, Zenon
  <2>6. Len(a) = from - 1 /\ Len(b) = Len(s) - from
    BY <2>2, <2>3, Zenon
  <2>7. Len(a \o b) = Len(s) - 1
    BY <1>0, <2>4, <2>6
  <2>. QED BY <2>4, <2>5, <2>7, Zenon
<1>4. PICK t \in Seq(Job) : t = RemoveAt(s, from) /\ Len(t) = Len(s) - 1
  BY <1>3
<1>5. SubSeq(t, 1, to - 1) \in Seq(Job)
  BY <1>0, <1>4, SubSeqProperties, ElementOfSeq
<1>6. SubSeq(t, to, Len(t)) \in Seq(Job)
  BY <1>0, <1>4, SubSeqProperties, ElementOfSeq
<1>7. <<s[from]>> \in Seq(Job)
  BY <1>0, ElementOfSeq
<1>8. InsertAt(t, to, s[from]) = SubSeq(t, 1, to - 1) \o <<s[from]>> \o SubSeq(t, to, Len(t))
  BY DEF InsertAt
<1>. QED BY <1>4, <1>5, <1>6, <1>7, <1>8, ConcatProperties

(* An edit of the list that leaves the executing job's row and status alone,
   and makes a job wait or be done only with the user's word, is harmless. *)
LEMMA EditStep ==
  ASSUME IInv, Touch,
         order' \in Seq(Job),
         status' \in [Job -> Status \union {Absent}],
         replace' \in [Job -> BOOLEAN],
         armed' \in [Job -> BOOLEAN], madeBy' \in [Job -> BOOLEAN],
         active > 0 => active \in DOMAIN order' /\ order'[active] = order[active],
         phase \in Busy => status'[job] = status[job],
         \A j \in Job : /\ armed[j] => armed'[j]
                        /\ madeBy[j] => madeBy'[j]
                        /\ status'[j] = "Pending" => armed'[j]
                        /\ status'[j] = "Complete" => madeBy'[j]
  PROVE  IInv'
<1>. USE DEF Touch, runner, flags
<1>1. TypeOK'
  <2>1. Snapshot' \in Lists
    BY ListTyped DEF IInv
  <2>2. active' \in 0 .. Len(order')
    BY LenProperties DEF IInv, TypeOK
  <2>. QED BY <2>1, <2>2 DEF IInv, TypeOK
<1>2. RowStable'
  BY DEF IInv, RowStable
<1>3. RunnerInv'
  BY DEF IInv, RunnerInv
<1>4. ExecutionInv'
  <2>1. phase \in Executing => job \in Job
    BY Owner
  <2>. QED BY <2>1 DEF IInv, ExecutionInv, Executing, Busy, Underway
<1>5. NoSilentRerun' /\ CompleteIsTrue'
  BY DEF IInv, NoSilentRerun, CompleteIsTrue
<1>. QED BY <1>1, <1>2, <1>3, <1>4, <1>5 DEF IInv

-----------------------------------------------------------------------------
(* Each edit of the list, as an instance of EditStep. *)
LEMMA AddStep ==
  ASSUME IInv, NEW j \in Job, NEW s \in Imported, NEW approved \in BOOLEAN, AddJob(j, s, approved)
  PROVE  IInv'
<1>. USE DEF AddJob, Trust, Arm
<1>1. s \in Status
  BY JobAssumption
<1>2. Normal(s) \in Status /\ (Normal(s) = "Pending" <=> s = "Pending")
  BY <1>1 DEF Normal, Status, Active
<1>3. Normal(s) = "Complete" <=> s = "Complete"
  BY <1>1 DEF Normal, Status, Active
<1>4. order' \in Seq(Job) /\ \A r \in DOMAIN order : r \in DOMAIN order' /\ order'[r] = order[r]
  <2>1. order \in Seq(Job)
    BY Types DEF IInv
  <2>. QED BY <2>1, AppendProperties, LenProperties
<1>5. active > 0 => active \in DOMAIN order
  BY DEF IInv, RowStable
<1>6. status' \in [Job -> Status \union {Absent}] /\ replace' \in [Job -> BOOLEAN]
  BY <1>1, <1>2, Types DEF IInv
<1>7. armed' \in [Job -> BOOLEAN] /\ madeBy' \in [Job -> BOOLEAN]
  BY DEF IInv, TypeOK
<1>8. phase \in Busy => status'[job] = status[job]
  BY Owner, Types DEF IInv, Executing
<1>9. \A k \in Job : /\ armed[k] => armed'[k]
                     /\ status'[k] = "Pending" => armed'[k]
  BY <1>2, Types DEF IInv, TypeOK, NoSilentRerun
<1>10. \A k \in Job : /\ madeBy[k] => madeBy'[k]
                      /\ status'[k] = "Complete" => madeBy'[k]
  BY <1>3, Types DEF IInv, TypeOK, CompleteIsTrue
<1>. QED BY <1>4, <1>5, <1>6, <1>7, <1>8, <1>9, <1>10, EditStep

LEMMA ReplaceStep ==
  ASSUME IInv, NEW j \in Job, NEW s \in Imported, ReplaceList(j, s)
  PROVE  IInv'
<1>. USE DEF ReplaceList, Trust, Arm
<1>1. s \in Status
  BY JobAssumption
<1>2. Normal(s) \in Status /\ (Normal(s) = "Pending" <=> s = "Pending")
  BY <1>1 DEF Normal, Status, Active
<1>3. Normal(s) = "Complete" <=> s = "Complete"
  BY <1>1 DEF Normal, Status, Active
<1>4. active = 0 /\ phase \notin Busy
  BY DEF IInv, RunnerInv, Busy, Underway
<1>5. order' \in Seq(Job)
  BY ElementOfSeq
<1>6. status' \in [Job -> Status \union {Absent}] /\ replace' \in [Job -> BOOLEAN]
  BY <1>2
<1>7. armed' \in [Job -> BOOLEAN] /\ madeBy' \in [Job -> BOOLEAN]
  BY DEF IInv, TypeOK
<1>8. \A k \in Job : /\ armed[k] => armed'[k]
                     /\ status'[k] = "Pending" => armed'[k]
  BY <1>2 DEF IInv, TypeOK, Absent
<1>9. \A k \in Job : /\ madeBy[k] => madeBy'[k]
                     /\ status'[k] = "Complete" => madeBy'[k]
  BY <1>3 DEF IInv, TypeOK, Absent
<1>. QED BY <1>4, <1>5, <1>6, <1>7, <1>8, <1>9, EditStep

(* Removing jobs between runs. *)
LEMMA KeepStep ==
  ASSUME IInv, ~running, NEW S \in SUBSET Job, Keep(S), UNCHANGED ghosts, Touch
  PROVE  IInv'
<1>. USE DEF Keep, ghosts
<1>1. active = 0 /\ phase \notin Busy
  BY DEF IInv, RunnerInv, Busy, Underway
<1>2. order' \in Seq(Job)
  <2>1. {j \in S : InList(j)} \in SUBSET Job
    OBVIOUS
  <2>. QED BY <2>1, ListingIsList
<1>3. status' \in [Job -> Status \union {Absent}] /\ replace' \in [Job -> BOOLEAN]
  BY Types DEF IInv
<1>4. armed' \in [Job -> BOOLEAN] /\ madeBy' \in [Job -> BOOLEAN]
  BY DEF IInv, TypeOK
<1>5. \A k \in Job : /\ status'[k] = "Pending" => armed'[k]
                     /\ status'[k] = "Complete" => madeBy'[k]
  BY DEF IInv, NoSilentRerun, CompleteIsTrue, Absent
<1>. QED BY <1>1, <1>2, <1>3, <1>4, <1>5, EditStep

LEMMA MoveStep ==
  ASSUME IInv, NEW from \in DOMAIN order, NEW to \in DOMAIN order, MoveJob(from, to)
  PROVE  IInv'
<1>. USE DEF MoveJob, ghosts
<1>1. active = 0 /\ phase \notin Busy
  BY DEF IInv, RunnerInv, Busy, Underway
<1>2. order' \in Seq(Job)
  BY MovedIsList, Types DEF IInv
<1>3. /\ status' \in [Job -> Status \union {Absent}] /\ replace' \in [Job -> BOOLEAN]
      /\ armed' \in [Job -> BOOLEAN] /\ madeBy' \in [Job -> BOOLEAN]
  BY Types DEF IInv, TypeOK
<1>4. \A k \in Job : /\ status'[k] = "Pending" => armed'[k]
                     /\ status'[k] = "Complete" => madeBy'[k]
  BY DEF IInv, NoSilentRerun, CompleteIsTrue
<1>. QED BY <1>1, <1>2, <1>3, <1>4, EditStep

(* Changes of statuses that leave the list of jobs as it is: jobs of S, none of
   them active unless nothing runs, wait again or are put off. *)
LEMMA ResumeStep ==
  ASSUME IInv, NEW S \in SUBSET Job, NEW s \in {"Pending", "Postponed"},
         status' = [j \in Job |-> IF j \in S THEN s ELSE status[j]],
         running => \A j \in S : status[j] \notin Active,
         armed' = [j \in Job |-> armed[j] \/ (s = "Pending" /\ j \in S)],
         UNCHANGED <<order, replace, madeBy>>, Touch
  PROVE  IInv'
<1>1. /\ status' \in [Job -> Status \union {Absent}] /\ replace' \in [Job -> BOOLEAN]
      /\ order' \in Seq(Job)
  BY Types DEF IInv, Status
<1>2. armed' \in [Job -> BOOLEAN] /\ madeBy' \in [Job -> BOOLEAN]
  BY DEF IInv, TypeOK
<1>3. active > 0 => active \in DOMAIN order' /\ order'[active] = order[active]
  BY DEF IInv, RowStable
<1>4. phase \in Busy => status'[job] = status[job]
  <2>. SUFFICES ASSUME phase \in Busy PROVE status'[job] = status[job]
    OBVIOUS
  <2>1. job \in Job
    BY Owner DEF Executing
  <2>2. running /\ status[job] \in Active
    BY DEF IInv, RunnerInv, Busy, Underway
  <2>. QED BY <2>1, <2>2
<1>5. \A k \in Job : armed[k] => armed'[k]
  BY DEF IInv, TypeOK
<1>6. \A k \in Job : /\ status'[k] = "Pending" => armed'[k]
                     /\ status'[k] = "Complete" => madeBy'[k]
  BY DEF IInv, TypeOK, NoSilentRerun, CompleteIsTrue
<1>. QED BY <1>1, <1>2, <1>3, <1>4, <1>5, <1>6, EditStep

(* One row's status is the status of one job. *)
LEMMA RowStatus ==
  ASSUME TypeOK, NEW r \in DOMAIN order, NEW s, SetStatus(r, s)
  PROVE  /\ order[r] \in Job
         /\ status' = [j \in Job |-> IF j \in {order[r]} THEN s ELSE status[j]]
<1>1. order[r] \in Job
  BY Types, ElementOfSeq, LenProperties
<1>. QED BY <1>1, Types DEF SetStatus

LEMMA EditsStep ==
  ASSUME IInv, UserEdits
  PROVE  IInv'
<1>. TypeOK
  BY DEF IInv
<1>1. CASE \E j \in Job, s \in Imported, approved \in BOOLEAN : AddJob(j, s, approved)
  BY <1>1, AddStep
<1>2. CASE \E j \in Job, s \in Imported : ReplaceList(j, s)
  BY <1>2, ReplaceStep
<1>3. CASE \E S \in SUBSET Job : RemoveRows(S)
  <2>1. PICK S \in SUBSET Job : RemoveRows(S)
    BY <1>3
  <2>2. (Job \ {j \in S : status[j] \notin Active}) \in SUBSET Job
    OBVIOUS
  <2>. QED BY <2>1, <2>2, KeepStep DEF RemoveRows
<1>4. CASE ClearCompleted
  <2>1. {j \in Job : status[j] # "Complete"} \in SUBSET Job
    OBVIOUS
  <2>. QED BY <1>4, <2>1, KeepStep DEF ClearCompleted
<1>5. CASE ClearAll
  BY <1>5, KeepStep DEF ClearAll
<1>6. CASE RetryFailed
  <2>. DEFINE S == {j \in Job : status[j] \in Retryable}
  <2>1. S \in SUBSET Job /\ \A j \in S : status[j] \notin Active
    BY DEF Retryable, Active
  <2>2. status' = [j \in Job |-> IF j \in S THEN "Pending" ELSE status[j]]
    BY <1>6 DEF RetryFailed
  <2>3. armed' = [j \in Job |-> armed[j] \/ ("Pending" = "Pending" /\ j \in S)]
    BY <1>6 DEF RetryFailed, Arm
  <2>4. UNCHANGED <<order, replace, madeBy>> /\ Touch
    BY <1>6 DEF RetryFailed
  <2>. HIDE DEF S
  <2>. QED BY <2>1, <2>2, <2>3, <2>4, ResumeStep
<1>7. CASE \E b \in BOOLEAN : SetAllPendingPostponed(b)
  <2>1. PICK b \in BOOLEAN : SetAllPendingPostponed(b)
    BY <1>7
  <2>. DEFINE S == {j \in Job : status[j] = IF b THEN "Pending" ELSE "Postponed"}
              s == IF b THEN "Postponed" ELSE "Pending"
  <2>2. S \in SUBSET Job /\ s \in {"Pending", "Postponed"} /\ \A j \in S : status[j] \notin Active
    BY DEF Active
  <2>3. status' = [j \in Job |-> IF j \in S THEN s ELSE status[j]]
    BY <2>1 DEF SetAllPendingPostponed
  <2>4. armed' = [j \in Job |-> armed[j] \/ (s = "Pending" /\ j \in S)]
    BY <2>1 DEF SetAllPendingPostponed, Arm
  <2>5. UNCHANGED <<order, replace, madeBy>> /\ Touch
    BY <2>1 DEF SetAllPendingPostponed
  <2>. HIDE DEF S, s
  <2>. QED BY <2>2, <2>3, <2>4, <2>5, ResumeStep
<1>8. CASE \E r \in DOMAIN order : TogglePostponed(r)
  <2>1. PICK r \in DOMAIN order : TogglePostponed(r)
    BY <1>8
  <2>. DEFINE s == IF status[order[r]] = "Postponed" THEN "Pending" ELSE "Postponed"
  <2>2. order[r] \in Job /\ status' = [j \in Job |-> IF j \in {order[r]} THEN s ELSE status[j]]
    BY <2>1, RowStatus DEF TogglePostponed
  <2>3. armed' = [j \in Job |-> armed[j] \/ (s = "Pending" /\ j \in {order[r]})]
    BY <2>1 DEF TogglePostponed, Arm
  <2>4. UNCHANGED <<order, replace, madeBy>> /\ Touch /\ ~running
    BY <2>1 DEF TogglePostponed
  <2>5. s \in {"Pending", "Postponed"} /\ {order[r]} \in SUBSET Job
    BY <2>2
  <2>. HIDE DEF s
  <2>. QED BY <2>2, <2>3, <2>4, <2>5, ResumeStep
<1>9. CASE \E r \in DOMAIN order : ReturnToWaiting(r)
  <2>1. PICK r \in DOMAIN order : ReturnToWaiting(r)
    BY <1>9
  <2>2. order[r] \in Job /\ status' = [j \in Job |-> IF j \in {order[r]} THEN "Pending" ELSE status[j]]
    BY <2>1, RowStatus DEF ReturnToWaiting
  <2>3. armed' = [j \in Job |-> armed[j] \/ ("Pending" = "Pending" /\ j \in {order[r]})]
    BY <2>1 DEF ReturnToWaiting, Arm
  <2>4. UNCHANGED <<order, replace, madeBy>> /\ Touch /\ status[order[r]] \notin Active
    BY <2>1 DEF ReturnToWaiting, Retryable, Active
  <2>5. {order[r]} \in SUBSET Job
    BY <2>2
  <2>. QED BY <2>2, <2>3, <2>4, <2>5, ResumeStep
<1>10. CASE \E from, to \in DOMAIN order : MoveJob(from, to)
  BY <1>10, MoveStep
<1>. QED BY <1>1, <1>2, <1>3, <1>4, <1>5, <1>6, <1>7, <1>8, <1>9, <1>10 DEF UserEdits

-----------------------------------------------------------------------------
(* A save writes a list of the right type. *)
LEMMA SnapshotTyped ==
  ASSUME IInv
  PROVE  /\ Snapshot \in Lists /\ disk \in Lists
         /\ Snapshot.order = order /\ Snapshot.status = status /\ Snapshot.replace = replace
BY DEF IInv, TypeOK, Snapshot

LEMMA InitIInv == Init => IInv
<1>. SUFFICES ASSUME Init PROVE IInv
  OBVIOUS
<1>. USE DEF Init
<1>1. TypeOK
  <2>1. Snapshot \in Lists
    BY EmptySeq DEF Snapshot, Lists
  <2>2. active \in 0 .. Len(order)
    BY EmptySeq
  <2>3. out \in [Job -> {"nothing", "other", "made"}]
    OBVIOUS
  <2>4. armed \in [Job -> BOOLEAN] /\ madeBy \in [Job -> BOOLEAN]
    OBVIOUS
  <2>5. disk \in Lists
    BY <2>1
  <2>6. /\ dirty \in BOOLEAN /\ running \in BOOLEAN /\ protected \in BOOLEAN
        /\ existed \in BOOLEAN /\ stopReq \in BOOLEAN /\ abortReq \in BOOLEAN
        /\ phase \in Phases /\ job \in Job \union {NoJob} /\ result \in {"none", "ok", "failed"}
    BY Zenon DEF Phases
  <2>7. row \in Nat \ {0}
    OBVIOUS
  <2>. QED BY <2>1, <2>2, <2>3, <2>4, <2>5, <2>6, <2>7 DEF TypeOK
<1>2. RowStable /\ RunnerInv /\ ExecutionInv
  BY DEF RowStable, RunnerInv, ExecutionInv, Executing, Busy, Underway
<1>3. NoSilentRerun /\ CompleteIsTrue
  BY DEF NoSilentRerun, CompleteIsTrue, Snapshot, Absent
<1>. QED BY <1>1, <1>2, <1>3 DEF IInv

(* The saved list may at any time be brought up to date. *)
LEMMA SaveStep ==
  ASSUME IInv, FlushSucceeds \/ FlushFails, dirty' \in BOOLEAN,
         UNCHANGED <<list, runner, flags, out, protected, ghosts>>
  PROVE  IInv'
<1>. USE DEF list, runner, flags, ghosts
<1>1. disk' \in {Snapshot, disk}
  BY DEF FlushSucceeds, FlushFails
<1>2. TypeOK'
  BY <1>1 DEF IInv, TypeOK, Snapshot
<1>3. RowStable' /\ RunnerInv'
  BY DEF IInv, RowStable, RunnerInv
<1>4. ExecutionInv'
  <2>1. phase \in Underway => status[job] \in Active /\ \E r \in DOMAIN order : order[r] = job
    BY Owner DEF IInv, RunnerInv, Executing, Busy, InList
  <2>. QED BY <1>1, <2>1 DEF IInv, ExecutionInv, Snapshot
<1>5. NoSilentRerun' /\ CompleteIsTrue'
  BY <1>1 DEF IInv, NoSilentRerun, CompleteIsTrue, Snapshot
<1>. QED BY <1>2, <1>3, <1>4, <1>5 DEF IInv

(* What users, timers, other programs and a restart do. *)
LEMMA OutsideStep ==
  ASSUME IInv,
         \/ AutosaveFires \/ StopJobQueue \/ AbortCurrentJob \/ Restart
         \/ \E j \in Contested : OtherChangesOutput(j)
  PROVE  IInv'
<1>1. CASE AutosaveFires
  BY <1>1, SaveStep DEF AutosaveFires
<1>2. CASE StopJobQueue
  BY <1>2 DEF StopJobQueue, list, runner, ghosts, IInv, TypeOK, Snapshot, RowStable, RunnerInv,
              ExecutionInv, NoSilentRerun, CompleteIsTrue
<1>3. CASE AbortCurrentJob
  <2>. USE DEF runner, ghosts
  <2>1. CASE active = 0
    BY <1>3, <2>1 DEF AbortCurrentJob, IInv, TypeOK, Snapshot, RowStable, RunnerInv,
                      ExecutionInv, NoSilentRerun, CompleteIsTrue
  <2>2. CASE active > 0
    <3>1. active \in DOMAIN order /\ order[active] = job
      BY <2>2 DEF IInv, RowStable
    <3>2. job \in Job
      BY <3>1, Types, ElementOfSeq, LenProperties DEF IInv
    <3>3. /\ status' = [status EXCEPT ![job] = "Aborting"]
          /\ status' \in [Job -> Status \union {Absent}]
      BY <1>3, <2>2, <3>1, Types DEF AbortCurrentJob, SetStatus, IInv, Status
    <3>4. TypeOK'
      <4>1. Snapshot' \in Lists
        BY <1>3, <3>3, Types DEF AbortCurrentJob, Snapshot, Lists, IInv
      <4>. QED BY <1>3, <2>2, <4>1 DEF AbortCurrentJob, IInv, TypeOK
    <3>5. RowStable' /\ RunnerInv' /\ ExecutionInv'
      BY <1>3, <3>2, <3>3, Types
         DEF AbortCurrentJob, IInv, RowStable, RunnerInv, ExecutionInv, Active
    <3>6. NoSilentRerun' /\ CompleteIsTrue'
      BY <1>3, <3>2, <3>3, Types DEF AbortCurrentJob, IInv, NoSilentRerun, CompleteIsTrue
    <3>. QED BY <3>4, <3>5, <3>6 DEF IInv
  <2>. QED BY <2>1, <2>2, LenProperties DEF IInv, TypeOK
<1>4. CASE Restart
  <2>. USE DEF ghosts
  <2>1. /\ order' \in Seq(Job)
        /\ replace' \in [Job -> BOOLEAN]
    BY <1>4, EmptySeq, Types DEF Restart, IInv
  <2>2. \A j \in Job : /\ status'[j] \in Status \union {Absent}
                       /\ status'[j] \in {"Pending", "Complete"} => status'[j] = disk.status[j]
    <3>. SUFFICES ASSUME NEW j \in Job
                  PROVE  /\ status'[j] \in Status \union {Absent}
                         /\ status'[j] \in {"Pending", "Complete"} => status'[j] = disk.status[j]
      OBVIOUS
    <3>1. CASE protected
      BY <1>4, <3>1 DEF Restart, Absent
    <3>2. CASE ~protected
      <4>1. disk.status[j] \in Status \union {Absent}
        BY Types DEF IInv
      <4>2. status'[j] = Normal(disk.status[j])
        BY <1>4, <3>2 DEF Restart
      <4>. QED BY <4>1, <4>2 DEF Normal, Status
    <3>3. protected \in BOOLEAN
      BY DEF IInv, TypeOK
    <3>. QED BY <3>1, <3>2, <3>3
  <2>3. status' \in [Job -> Status \union {Absent}]
    <3>1. CASE protected
      BY <1>4, <3>1 DEF Restart
    <3>2. CASE ~protected
      <4>1. status' = [j \in Job |-> Normal(disk.status[j])]
        BY <1>4, <3>2 DEF Restart
      <4>2. \A j \in Job : Normal(disk.status[j]) \in Status \union {Absent}
        BY Types DEF IInv, Normal, Status
      <4>. QED BY <4>1, <4>2
    <3>. QED BY <3>1, <3>2 DEF IInv, TypeOK
  <2>4. TypeOK'
    <3>1. Snapshot' \in Lists
      BY <2>1, <2>3, ListTyped DEF IInv
    <3>2. active' \in 0 .. Len(order')
      BY <1>4, <2>1, LenProperties DEF Restart
    <3>3. /\ disk' \in Lists /\ dirty' \in BOOLEAN
          /\ UNCHANGED <<out, protected, armed, madeBy>>
      BY <1>4, SnapshotTyped DEF Restart, IInv, TypeOK
    <3>4. /\ running' \in BOOLEAN /\ existed' \in BOOLEAN
          /\ stopReq' \in BOOLEAN /\ abortReq' \in BOOLEAN
          /\ phase' \in Phases /\ job' \in Job \union {NoJob} /\ result' \in {"none", "ok", "failed"}
      BY <1>4, Zenon DEF Restart, Phases
    <3>5. row' \in Nat \ {0}
      BY <1>4 DEF Restart
    <3>. QED BY <3>1, <3>2, <3>3, <3>4, <3>5 DEF IInv, TypeOK
  <2>5. RowStable' /\ RunnerInv' /\ ExecutionInv'
    BY <1>4 DEF Restart, RowStable, RunnerInv, ExecutionInv, Executing, Busy, Underway
  <2>6. NoSilentRerun' /\ CompleteIsTrue'
    <3>1. UNCHANGED <<disk, armed, madeBy>>
      BY <1>4 DEF Restart
    <3>2. \A j \in Job : /\ status'[j] = "Pending" => disk.status[j] = "Pending"
                         /\ status'[j] = "Complete" => disk.status[j] = "Complete"
      BY <2>2, Zenon
    <3>3. \A j \in Job : /\ disk.status[j] = "Pending" => armed[j]
                         /\ disk.status[j] = "Complete" => madeBy[j]
      BY DEF IInv, NoSilentRerun, CompleteIsTrue
    <3>. QED BY <3>1, <3>2, <3>3, Zenon DEF NoSilentRerun, CompleteIsTrue
  <2>. QED BY <2>4, <2>5, <2>6 DEF IInv
<1>5. CASE \E j \in Contested : OtherChangesOutput(j)
  <2>. USE DEF OtherChangesOutput, list, runner, flags, ghosts
  <2>1. out' \in [Job -> {"nothing", "other", "made"}]
    BY <1>5 DEF IInv, TypeOK
  <2>2. TypeOK'
    BY <1>5, <2>1 DEF IInv, TypeOK, Snapshot
  <2>3. RowStable' /\ RunnerInv' /\ ExecutionInv' /\ NoSilentRerun' /\ CompleteIsTrue'
    BY <1>5 DEF IInv, RowStable, RunnerInv, ExecutionInv, NoSilentRerun, CompleteIsTrue
  <2>. QED BY <2>2, <2>3 DEF IInv
<1>. QED BY <1>1, <1>2, <1>3, <1>4, <1>5

-----------------------------------------------------------------------------
(* A runner step leaves the list's order and the records' permissions alone, so
   its type is the type of what it assigns. *)
LEMMA RunnerTypes ==
  ASSUME IInv, UNCHANGED <<order, protected>>,
         status' \in [Job -> Status \union {Absent}], replace' \in [Job -> BOOLEAN],
         disk' \in {Snapshot, disk, Snapshot'},
         dirty' \in BOOLEAN, running' \in BOOLEAN, existed' \in BOOLEAN,
         stopReq' \in BOOLEAN, abortReq' \in BOOLEAN,
         phase' \in Phases, row' \in Nat \ {0}, active' \in 0 .. Len(order),
         job' \in Job \union {NoJob}, result' \in {"none", "ok", "failed"},
         out' \in [Job -> {"nothing", "other", "made"}],
         armed' \in [Job -> BOOLEAN], madeBy' \in [Job -> BOOLEAN]
  PROVE  TypeOK'
<1>1. Snapshot' \in Lists
  BY ListTyped, Types DEF IInv
<1>2. disk' \in Lists
  BY <1>1 DEF IInv, TypeOK
<1>3. protected' \in BOOLEAN /\ active' \in 0 .. Len(order')
  BY DEF IInv, TypeOK
<1>. QED BY <1>1, <1>2, <1>3 DEF TypeOK

(* Before a job is picked. *)
LEMMA StartStep ==
  ASSUME IInv,
         \/ \E answer \in {"yes", "no"} : RunPendingJobs(answer)
         \/ FirstCheckpoint \/ SkipRow \/ LeaveLoop
  PROVE  IInv'
<1>. USE DEF list, runner, flags, ghosts, Phases, IInv, RowStable, RunnerInv, ExecutionInv,
             Executing, Busy, Underway
<1>1. CASE \E answer \in {"yes", "no"} : RunPendingJobs(answer)
  <2>1. PICK answer \in {"yes", "no"} : RunPendingJobs(answer)
    BY <1>1
  <2>. USE <2>1 DEF RunPendingJobs
  <2>2. /\ status' \in [Job -> Status \union {Absent}]
        /\ replace' \in [Job -> BOOLEAN]
    <3>1. \A S \in SUBSET Job : [j \in Job |-> IF j \in S THEN "Cancelled" ELSE status[j]]
                                \in [Job -> Status \union {Absent}]
      BY Types DEF Status
    <3>2. Unapproved \in SUBSET Job
      BY DEF Unapproved, Pending
    <3>3. status' \in [Job -> Status \union {Absent}]
      BY <3>1, <3>2, Types
    <3>4. replace' \in [Job -> BOOLEAN]
      BY Types
    <3>. QED BY <3>3, <3>4
  <2>3. \A j \in Job : status'[j] \in {status[j], "Cancelled"}
    BY Types DEF Unapproved, Pending
  <2>4. TypeOK'
    BY <2>2, RunnerTypes DEF TypeOK
  <2>5. RowStable' /\ RunnerInv' /\ ExecutionInv'
    OBVIOUS
  <2>6. NoSilentRerun' /\ CompleteIsTrue'
    BY <2>3 DEF NoSilentRerun, CompleteIsTrue
  <2>. QED BY <2>4, <2>5, <2>6
<1>2. CASE FirstCheckpoint
  <2>. USE <1>2 DEF FirstCheckpoint
  <2>1. disk' \in {Snapshot, disk}
    BY DEF FlushSucceeds, FlushFails
  <2>2. TypeOK'
    <3>1. /\ disk' \in {Snapshot, disk, Snapshot'}
          /\ phase' \in Phases /\ row' \in Nat \ {0} /\ active' \in 0 .. Len(order)
      BY <2>1 DEF TypeOK
    <3>2. running' \in BOOLEAN /\ stopReq' \in BOOLEAN /\ abortReq' \in BOOLEAN
      BY DEF TypeOK
    <3>. QED BY <3>1, <3>2, Types, RunnerTypes DEF TypeOK
  <2>3. RowStable' /\ RunnerInv' /\ ExecutionInv'
    OBVIOUS
  <2>4. NoSilentRerun' /\ CompleteIsTrue'
    BY <2>1, SnapshotTyped DEF NoSilentRerun, CompleteIsTrue
  <2>. QED BY <2>2, <2>3, <2>4
<1>3. CASE SkipRow \/ LeaveLoop
  <2>. USE <1>3 DEF SkipRow, LeaveLoop
  <2>1. TypeOK'
    BY Types, RunnerTypes DEF TypeOK
  <2>2. RowStable' /\ RunnerInv' /\ ExecutionInv'
    OBVIOUS
  <2>3. NoSilentRerun' /\ CompleteIsTrue'
    BY DEF NoSilentRerun, CompleteIsTrue
  <2>. QED BY <2>1, <2>2, <2>3
<1>. QED BY <1>1, <1>2, <1>3

(* A step that gives the runner's job another status and perhaps saves it. *)
LEMMA StatusStep ==
  ASSUME IInv, NEW j \in Job, NEW s \in Status,
         status' = [status EXCEPT ![j] = s],
         disk' \in {disk, Snapshot, Snapshot'},
         UNCHANGED <<armed, madeBy>>, UNCHANGED <<order, replace>>,
         s = "Pending" => armed[j],
         s = "Complete" => madeBy[j]
  PROVE  /\ status' \in [Job -> Status \union {Absent}]
         /\ NoSilentRerun' /\ CompleteIsTrue'
<1>1. status' \in [Job -> Status \union {Absent}]
  BY Types DEF IInv
<1>2. \A k \in Job : status'[k] = IF k = j THEN s ELSE status[k]
  BY Types DEF IInv
<1>3. disk'.status \in {disk.status, status, status'}
  BY DEF Snapshot
<1>4. \A k \in Job : disk'.status[k] \in {disk.status[k], status[k], status'[k]}
  BY <1>3
<1>5. NoSilentRerun'
  BY <1>2, <1>4 DEF IInv, NoSilentRerun
<1>6. CompleteIsTrue'
  BY <1>2, <1>4 DEF IInv, CompleteIsTrue
<1>. QED BY <1>1, <1>5, <1>6

(* Picking a job and publishing the intent to run it. *)
LEMMA PickStep ==
  ASSUME IInv, PickJob
  PROVE  IInv'
<1>. USE DEF PickJob, IInv
<1>1. order[row] \in Job /\ row \in 1 .. Len(order)
  BY Types, ElementOfSeq, LenProperties
<1>2. armed[order[row]]
  BY <1>1 DEF NoSilentRerun
<1>3. status' = [status EXCEPT ![order[row]] = "Starting"]
  BY DEF SetStatus
<1>4. status' \in [Job -> Status \union {Absent}] /\ NoSilentRerun' /\ CompleteIsTrue'
  BY <1>1, <1>3, StatusStep DEF ghosts, Status
<1>5. TypeOK'
  <2>1. phase' \in Phases /\ row' \in Nat \ {0} /\ active' \in 0 .. Len(order)
    BY <1>1 DEF TypeOK, Phases
  <2>2. job' \in Job \union {NoJob} /\ abortReq' \in BOOLEAN /\ dirty' \in BOOLEAN
    BY <1>1
  <2>. QED BY <1>4, <2>1, <2>2, Types, RunnerTypes DEF TypeOK, ghosts
<1>6. status'[job'] = "Starting"
  BY <1>1, <1>3, Types
<1>7. RowStable' /\ RunnerInv' /\ ExecutionInv'
  BY <1>1, <1>2, <1>6 DEF RowStable, RunnerInv, ExecutionInv, Executing, Busy, Underway, ghosts, Active
<1>. QED BY <1>4, <1>5, <1>7

LEMMA IntentStep ==
  ASSUME IInv, CheckpointIntent
  PROVE  IInv'
<1>. USE DEF IInv, CheckpointIntent
<1>1. job \in Job /\ order[row] = job /\ active \in DOMAIN order /\ status[job] \in Active
  BY Owner DEF RunnerInv, Executing, Busy
<1>2. armed[job]
  BY DEF ExecutionInv
<1>3. CASE FlushSucceeds /\ SetStatus(row, "Running") /\ phase' = "ready"
  <2>1. status' = [status EXCEPT ![job] = "Running"] /\ disk' = Snapshot
    BY <1>1, <1>3 DEF SetStatus, FlushSucceeds
  <2>2. status' \in [Job -> Status \union {Absent}] /\ NoSilentRerun' /\ CompleteIsTrue'
    BY <1>1, <2>1, StatusStep DEF ghosts, Status
  <2>3. TypeOK'
    BY <1>3, <2>1, <2>2, Types, RunnerTypes DEF TypeOK, Phases, ghosts, flags
  <2>4. status'[job] = "Running"
    BY <1>1, <2>1, Types
  <2>5. disk'.status[job] \in Active /\ \E r \in DOMAIN disk'.order : disk'.order[r] = job
    BY <1>1, <2>1, SnapshotTyped DEF RowStable, RunnerInv, Executing, Busy
  <2>6. RowStable' /\ RunnerInv' /\ ExecutionInv'
    BY <1>3, <2>4, <2>5 DEF RowStable, RunnerInv, ExecutionInv, Executing, Busy, Underway, ghosts, flags, Active
  <2>. QED BY <2>2, <2>3, <2>6
<1>4. CASE FlushFails /\ SetStatus(row, "Pending") /\ phase' = "end"
  <2>1. status' = [status EXCEPT ![job] = "Pending"] /\ disk' = disk
    BY <1>1, <1>4 DEF SetStatus, FlushFails
  <2>2. status' \in [Job -> Status \union {Absent}] /\ NoSilentRerun' /\ CompleteIsTrue'
    BY <1>1, <1>2, <2>1, StatusStep DEF ghosts, Status
  <2>3. TypeOK'
    BY <1>4, <2>1, <2>2, Types, RunnerTypes DEF TypeOK, Phases, ghosts, flags
  <2>4. RowStable' /\ RunnerInv' /\ ExecutionInv'
    BY <1>4 DEF RowStable, RunnerInv, ExecutionInv, Executing, Busy, Underway, ghosts, flags
  <2>. QED BY <2>2, <2>3, <2>4
<1>. QED BY <1>3, <1>4

(* The execution of a job up to its outcome: the list, its saved copy and the
   row stay as they are. *)
LEMMA WorkStep ==
  ASSUME IInv,
         Execute \/ PrepareStage \/ WorkFails \/ ExporterCancelled \/ RenderDone \/ CommitStage
  PROVE  IInv'
<1>. USE DEF Execute, PrepareStage, WorkFails, ExporterCancelled, RenderDone, CommitStage, Finish
<1>1. job \in Job /\ status[job] \in Active /\ disk.status[job] \in Active
  BY Owner DEF IInv, RunnerInv, ExecutionInv, Executing, Busy, Underway
<1>2. UNCHANGED <<list, disk, dirty, running, row, active, job, protected>>
  OBVIOUS
<1>3. phase \in Underway \ {"finish"} /\ phase' \in Underway
  BY DEF Underway
<1>4. \A k \in Job : k # job => armed'[k] = armed[k] /\ madeBy'[k] = madeBy[k]
  BY DEF ghosts, IInv, TypeOK
<1>5. phase' = "finish" /\ result' = "ok" => madeBy'[job]
  <2>1. madeBy \in [Job -> BOOLEAN]
    BY DEF IInv, TypeOK
  <2>. QED BY <1>1, <2>1
<1>6. TypeOK'
  <2>1. out' \in [Job -> {"nothing", "other", "made"}]
    BY DEF IInv, TypeOK
  <2>2. armed' \in [Job -> BOOLEAN] /\ madeBy' \in [Job -> BOOLEAN]
    BY DEF IInv, TypeOK, ghosts
  <2>3. phase' \in Phases /\ result' \in {"none", "ok", "failed"} /\ existed' \in BOOLEAN
    BY DEF IInv, TypeOK, Phases
  <2>4. stopReq' \in BOOLEAN /\ abortReq' \in BOOLEAN
    BY DEF IInv, TypeOK, flags
  <2>. QED BY <1>2, <2>1, <2>2, <2>3, <2>4 DEF IInv, TypeOK, Snapshot, list
<1>7. RowStable' /\ RunnerInv' /\ ExecutionInv'
  BY <1>2, <1>3, <1>5
     DEF IInv, RowStable, RunnerInv, ExecutionInv, Executing, Busy, Underway, list
<1>8. NoSilentRerun' /\ CompleteIsTrue'
  <2>1. UNCHANGED <<status, disk>>
    BY <1>2 DEF list
  <2>2. status[job] \notin {"Pending", "Complete"} /\ disk.status[job] \notin {"Pending", "Complete"}
    BY <1>1 DEF Active
  <2>. QED BY <1>4, <2>1, <2>2 DEF IInv, NoSilentRerun, CompleteIsTrue
<1>. QED BY <1>6, <1>7, <1>8 DEF IInv

LEMMA OutcomeStep ==
  ASSUME IInv, RecordOutcome
  PROVE  IInv'
<1>. USE DEF IInv, RecordOutcome
<1>1. job \in Job /\ order[row] = job /\ active \in DOMAIN order
  BY Owner DEF Executing, Busy, Underway
<1>2. Outcome \in Status /\ Outcome # "Pending" /\ (Outcome = "Complete" => madeBy[job])
  BY DEF Outcome, Status, ExecutionInv
<1>3. status' = [status EXCEPT ![job] = Outcome]
  BY <1>1 DEF SetStatus
<1>4. disk' \in {disk, Snapshot, Snapshot'}
  BY DEF FlushFails, Snapshot
<1>5. status' \in [Job -> Status \union {Absent}] /\ NoSilentRerun' /\ CompleteIsTrue'
  BY <1>1, <1>2, <1>3, <1>4, StatusStep DEF ghosts
<1>6. TypeOK'
  <2>1. phase' \in Phases
    BY DEF Phases
  <2>2. /\ dirty' \in BOOLEAN /\ existed' \in BOOLEAN /\ result' \in {"none", "ok", "failed"}
        /\ stopReq' \in BOOLEAN /\ abortReq' \in BOOLEAN
    BY DEF TypeOK, flags
  <2>. QED BY <1>4, <1>5, <2>1, <2>2, Types, RunnerTypes DEF TypeOK, ghosts
<1>7. RowStable' /\ RunnerInv' /\ ExecutionInv'
  BY DEF RowStable, RunnerInv, ExecutionInv, Executing, Busy, Underway
<1>. QED BY <1>5, <1>6, <1>7

LEMMA AfterStep ==
  ASSUME IInv, NextRow \/ EndRun
  PROVE  IInv'
<1>. USE DEF IInv, list, runner, flags, ghosts
<1>1. CASE NextRow
  <2>. USE <1>1 DEF NextRow
  <2>1. TypeOK'
    <3>1. phase' \in Phases /\ row' \in Nat \ {0}
      BY DEF TypeOK, Phases
    <3>. QED BY <3>1, Types, RunnerTypes DEF TypeOK
  <2>2. RowStable' /\ RunnerInv' /\ ExecutionInv'
    BY DEF RowStable, RunnerInv, ExecutionInv, Executing, Busy, Underway
  <2>3. NoSilentRerun' /\ CompleteIsTrue'
    BY DEF NoSilentRerun, CompleteIsTrue
  <2>. QED BY <2>1, <2>2, <2>3
<1>2. CASE EndRun
  <2>. USE <1>2 DEF EndRun
  <2>1. disk' \in {Snapshot, disk}
    BY DEF FlushSucceeds, FlushFails
  <2>2. TypeOK'
    <3>1. phase' \in Phases /\ row' \in Nat \ {0} /\ job' \in Job \union {NoJob}
      BY DEF Phases
    <3>2. active' \in 0 .. Len(order)
      BY LenProperties, Types
    <3>3. running' \in BOOLEAN /\ stopReq' \in BOOLEAN /\ abortReq' \in BOOLEAN
      OBVIOUS
    <3>. QED BY <2>1, <3>1, <3>2, <3>3, Types, RunnerTypes DEF TypeOK
  <2>3. RowStable' /\ RunnerInv' /\ ExecutionInv'
    BY DEF RowStable, RunnerInv, ExecutionInv, Executing, Busy, Underway
  <2>4. NoSilentRerun' /\ CompleteIsTrue'
    BY <2>1, SnapshotTyped DEF NoSilentRerun, CompleteIsTrue
  <2>. QED BY <2>2, <2>3, <2>4
<1>. QED BY <1>1, <1>2

LEMMA Inductive == IInv /\ [Next]_vars => IInv'
<1>. SUFFICES ASSUME IInv, [Next]_vars PROVE IInv'
  OBVIOUS
<1>1. CASE UserEdits
  BY <1>1, EditsStep
<1>2. CASE \/ AutosaveFires \/ StopJobQueue \/ AbortCurrentJob \/ Restart
           \/ \E j \in Contested : OtherChangesOutput(j)
  BY <1>2, OutsideStep
<1>3. CASE \E answer \in {"yes", "no"} : RunPendingJobs(answer)
  BY <1>3, StartStep
<1>4. CASE RunnerStep
  BY <1>4, StartStep, PickStep, IntentStep, WorkStep, OutcomeStep, AfterStep DEF RunnerStep
<1>5. CASE ExporterCancelled
  BY <1>5, WorkStep
<1>6. CASE UNCHANGED vars
  BY <1>6 DEF vars, IInv, TypeOK, Snapshot, RowStable, RunnerInv, ExecutionInv,
              NoSilentRerun, CompleteIsTrue
<1>. QED BY <1>1, <1>2, <1>3, <1>4, <1>5, <1>6 DEF Next

-----------------------------------------------------------------------------
(* The inductive invariant holds in every behaviour, for every set of jobs. *)
THEOREM Invariance == Spec => []IInv
<1>1. Init => IInv
  BY InitIInv
<1>2. IInv /\ [Next]_vars => IInv'
  BY Inductive
<1>. QED BY <1>1, <1>2, PTL DEF Spec

(* Every variable keeps its type, and the executing row stays a row. *)
THEOREM TypeCorrect == Spec => []TypeOK
<1>1. IInv => TypeOK
  BY DEF IInv
<1>. QED BY <1>1, Invariance, PTL

(* Whatever crashes, failed saves, aborts, retries and edits happen in whatever
   order, no job is executed again unless the user asked for it. *)
THEOREM JobsRunOnRequest == Spec => []NoSilentRerun
<1>1. IInv => NoSilentRerun
  BY DEF IInv
<1>. QED BY <1>1, Invariance, PTL

(* A job that the list, or the list a restart would read, shows as done is done. *)
THEOREM CompletionIsTrue == Spec => []CompleteIsTrue
<1>1. IInv => CompleteIsTrue
  BY DEF IInv
<1>. QED BY <1>1, Invariance, PTL

(* The row index the runner holds across event pumps names its job. *)
THEOREM RowsAreStable == Spec => []RowStable
<1>1. IInv => RowStable
  BY DEF IInv
<1>. QED BY <1>1, Invariance, PTL

(* No output is made for a job that the saved list does not show as started. *)
THEOREM IntentIsPublished == Spec => []WorkIsOnRecord
<1>1. IInv => WorkIsOnRecord
  BY DEF IInv, ExecutionInv, WorkIsOnRecord, Underway
<1>. QED BY <1>1, Invariance, PTL

-----------------------------------------------------------------------------
(* The windows and the lists they save: QueueOwnership. *)

(* Before a list is chosen the window has none. *)
NoPathYet ==
  \A w \in Window : step[w] \in {"off", "primary", "listing", "candidates"} => path[w] = None

(* A window locks nothing but its own list. *)
LocksArePaths == \A w \in Window, p \in Path : lock[p] = w => path[w] = p

(* A window without a lock has a name that nobody else can come by. *)
LocklessIsNew ==
  \A w \in Window : path[w] # None =>
    \/ lock[path[w]] = w
    \/ path[w] \in Session \ files /\ lock[path[w]] = None

CandidatesExist == \A w \in Window : todo[w] \subseteq files

EmptyUnlessThere == \A p \in Path : p \notin files => content[p] = {}

(* Two lists have no job in common, nor have a list and a window that does not
   hold it, unless a user copied it. *)
ListsApart == \A p, q \in Path : p # q => content[p] \cap content[q] \subseteq copied

ForeignInv ==
  \A w \in Window, p \in Path : lock[p] # w => jobs[w] \cap content[p] \subseteq copied

(* What an owner would overwrite it has read, or a user has removed it. *)
OwnerKnows ==
  \A w \in Window : step[w] = "up" /\ Owns(w) /\ w \notin guarded =>
                      content[path[w]] \subseteq jobs[w] \cup gone

RecoveryIsPublished == \A w \in recovering : path[w] \in files

ClaimsInv == NoPathYet /\ LocksArePaths /\ LocklessIsNew /\ CandidatesExist
ListsInv  == EmptyUnlessThere /\ ListsApart /\ ForeignInv /\ OwnerKnows
SnapsInv  == RecoveryIsPublished /\ SnapshotsAreFindable

OwnershipInv == OwnershipTypes /\ ClaimsInv /\ ListsInv /\ JobsHaveOneWindow /\ SnapsInv

-----------------------------------------------------------------------------
LEMMA InitOwnership == OwnershipInit => OwnershipInv
<1>1. SUFFICES ASSUME OwnershipInit PROVE OwnershipInv
  OBVIOUS
<1>2. OwnershipTypes
  BY <1>1 DEF OwnershipInit, OwnershipTypes, Steps
<1>3. ClaimsInv
  BY <1>1, OwnershipAssumption DEF OwnershipInit, ClaimsInv, NoPathYet, LocksArePaths, LocklessIsNew,
     CandidatesExist
<1>4. ListsInv
  BY <1>1 DEF OwnershipInit, ListsInv, EmptyUnlessThere, ListsApart, ForeignInv, OwnerKnows
<1>5. JobsHaveOneWindow /\ SnapsInv
  BY <1>1 DEF OwnershipInit, JobsHaveOneWindow, SnapsInv, RecoveryIsPublished, SnapshotsAreFindable
<1>6. QED
  BY <1>2, <1>3, <1>4, <1>5 DEF OwnershipInv

-----------------------------------------------------------------------------
(* Types, action by action. *)

LEMMA TypeClaim ==
  ASSUME OwnershipTypes, NEW w \in Window, NEW p \in Path, Claim(w, p)
  PROVE  /\ step' \in [Window -> Steps] /\ todo' \in [Window -> SUBSET Session]
         /\ path' \in [Window -> Path \cup {None}] /\ lock' \in [Path -> Window \cup {None}]
  BY DEF OwnershipTypes, Claim, Go, Steps

LEMMA TypeWrite ==
  ASSUME OwnershipTypes, NEW w \in Window, NEW p \in Path, Write(w, p)
  PROVE  files' \subseteq Path /\ content' \in [Path -> SUBSET QueuedJob] /\ snaps' \subseteq Path
  BY DEF OwnershipTypes, Write

LEMMA OwnPath ==
  ASSUME OwnershipTypes, NEW w \in Window, Owns(w)
  PROVE  path[w] \in Path
  BY DEF OwnershipTypes, Owns

LEMMA TypeFlush ==
  ASSUME OwnershipTypes, NEW w \in Window, Flush(w) \/ UNCHANGED stored
  PROVE  files' \subseteq Path /\ content' \in [Path -> SUBSET QueuedJob] /\ snaps' \subseteq Path
<1>1. CASE Flush(w)
  BY <1>1, TypeWrite, OwnPath DEF Flush
<1>2. CASE UNCHANGED stored
  BY <1>2 DEF stored, OwnershipTypes
<1>3. QED
  BY <1>1, <1>2

LEMMA TypeEnd ==
  ASSUME OwnershipTypes, NEW w \in Window, End(w)
  PROVE  /\ step' \in [Window -> Steps] /\ todo' \in [Window -> SUBSET Session]
         /\ path' \in [Window -> Path \cup {None}] /\ lock' \in [Path -> Window \cup {None}]
         /\ jobs' \in [Window -> SUBSET QueuedJob]
         /\ timer' \subseteq Window /\ guarded' \subseteq Window /\ recovering' \subseteq Window
         /\ copied' \subseteq QueuedJob /\ gone' \subseteq QueuedJob
  BY DEF OwnershipTypes, End, Go, Steps, userActs

LEMMA TypeConstruct ==
  ASSUME OwnershipTypes, NEW w \in Window, Construct(w)
  PROVE  OwnershipTypes'
<1>1. CASE Start(w)
  BY <1>1 DEF Start, Go, queue, stored, userActs, OwnershipTypes, Steps
<1>2. CASE ClaimPrimary(w)
  <2>1. CASE Claim(w, Primary)
    <3>1. Primary \in Path
      BY DEF Path
    <3>2. QED
      BY <1>2, <2>1, <3>1, TypeClaim DEF ClaimPrimary, queue, stored, userActs, OwnershipTypes
  <2>2. CASE Go(w, "listing") /\ UNCHANGED <<todo, path, lock>>
    BY <1>2, <2>2 DEF ClaimPrimary, Go, queue, stored, userActs, OwnershipTypes, Steps
  <2>3. QED
    BY <1>2, <2>1, <2>2 DEF ClaimPrimary
<1>3. CASE ListCandidates(w)
  BY <1>3 DEF ListCandidates, Candidates, Go, queue, stored, userActs, OwnershipTypes, Steps
<1>4. ASSUME NEW p \in Session, ClaimCandidate(w, p) PROVE OwnershipTypes'
  <2>1. CASE Claim(w, p)
    <3>1. p \in Path
      BY DEF Path
    <3>2. QED
      BY <1>4, <2>1, <3>1, TypeClaim DEF ClaimCandidate, queue, stored, userActs, OwnershipTypes
  <2>2. CASE todo' = [todo EXCEPT ![w] = @ \ {p}] /\ UNCHANGED <<step, path, lock>>
    BY <1>4, <2>2 DEF ClaimCandidate, queue, stored, userActs, OwnershipTypes
  <2>3. QED
    BY <1>4, <2>1, <2>2 DEF ClaimCandidate
<1>5. ASSUME NEW p \in Session, NewSession(w, p) PROVE OwnershipTypes'
  <2>0. p \in Path
    BY DEF Path
  <2>1. CASE Claim(w, p)
    BY <1>5, <2>0, <2>1, TypeClaim DEF NewSession, queue, stored, userActs, OwnershipTypes
  <2>2. CASE path' = [path EXCEPT ![w] = p] /\ Go(w, "load") /\ UNCHANGED <<todo, lock>>
    BY <1>5, <2>0, <2>2 DEF NewSession, Go, queue, stored, userActs, OwnershipTypes, Steps
  <2>3. QED
    BY <1>5, <2>1, <2>2 DEF NewSession
<1>6. CASE Publish(w)
  <2>1. files' \subseteq Path /\ content' \in [Path -> SUBSET QueuedJob] /\ snaps' \subseteq Path
    BY <1>6, TypeFlush DEF Publish
  <2>2. recovering' \subseteq Window
    BY <1>6 DEF Publish, OwnershipTypes
  <2>3. QED
    BY <1>6, <2>1, <2>2 DEF Publish, Go, userActs, OwnershipTypes, Steps
<1>7. CASE LoadAutosave(w)
  <2>1. jobs' \in [Window -> SUBSET QueuedJob] /\ timer' \subseteq Window /\ guarded' \subseteq Window
    BY <1>7 DEF LoadAutosave, OwnershipTypes
  <2>2. QED
    BY <1>7, <2>1 DEF LoadAutosave, Go, stored, userActs, OwnershipTypes, Steps
<1>8. QED
  BY <1>1, <1>2, <1>3, <1>4, <1>5, <1>6, <1>7 DEF Construct

LEMMA TypeUse ==
  ASSUME OwnershipTypes, RecoveryIsPublished, NEW w \in Window, Use(w)
  PROVE  OwnershipTypes'
<1>1. ASSUME NEW j \in QueuedJob, CreateJob(w, j) \/ RemoveJob(w, j) PROVE OwnershipTypes'
  BY <1>1 DEF CreateJob, RemoveJob, startup, stored, userActs, OwnershipTypes
<1>2. ASSUME NEW p \in Path, SaveAs(w, p) PROVE OwnershipTypes'
  <2>1. files' \subseteq Path /\ content' \in [Path -> SUBSET QueuedJob] /\ snaps' \subseteq Path
    BY <1>2, TypeWrite DEF SaveAs
  <2>2. copied' \subseteq QueuedJob /\ gone' \subseteq QueuedJob
    BY <1>2 DEF SaveAs, OwnershipTypes
  <2>3. QED
    BY <1>2, <2>1, <2>2 DEF SaveAs, startup, queue, OwnershipTypes
<1>3. ASSUME NEW p \in Path, AppendFromFile(w, p) \/ ReplaceFromFile(w, p) PROVE OwnershipTypes'
  BY <1>3 DEF AppendFromFile, ReplaceFromFile, startup, stored, OwnershipTypes
<1>4. CASE Autosave(w)
  <2>1. files' \subseteq Path /\ content' \in [Path -> SUBSET QueuedJob] /\ snaps' \subseteq Path
    BY <1>4, TypeFlush DEF Autosave
  <2>2. QED
    BY <1>4, <2>1 DEF Autosave, startup, userActs, OwnershipTypes
<1>5. CASE SaveSnapshot(w) \/ RemoveSnapshot(w)
  <2>1. w \in recovering /\ path[w] \in Path
    BY <1>5 DEF SaveSnapshot, RemoveSnapshot, RecoveryIsPublished, OwnershipTypes
  <2>2. snaps' \subseteq Path
    BY <1>5, <2>1 DEF SaveSnapshot, RemoveSnapshot, OwnershipTypes
  <2>3. QED
    BY <1>5, <2>2 DEF SaveSnapshot, RemoveSnapshot, startup, queue, userActs, OwnershipTypes
<1>6. QED
  BY <1>1, <1>2, <1>3, <1>4, <1>5 DEF Use

LEMMA EndAndQuitTypes ==
  ASSUME OwnershipTypes, NEW w \in Window, Crash(w) \/ Quit(w)
  PROVE  OwnershipTypes'
<1>1. files' \subseteq Path /\ content' \in [Path -> SUBSET QueuedJob] /\ snaps' \subseteq Path
  BY TypeFlush DEF Crash, Quit
<1>2. End(w)
  BY DEF Crash, Quit
<1>3. QED
  BY <1>1, <1>2, TypeEnd DEF OwnershipTypes

-----------------------------------------------------------------------------
(* Claiming a list.  Files only grow. *)

LEMMA FilesGrow ==
  ASSUME OwnershipTypes, NEW w \in Window, Flush(w) \/ UNCHANGED stored
  PROVE  files \subseteq files' /\ snaps' = snaps
         /\ \A p \in Path : p \notin files => p \notin files' \/ lock[p] = w
  BY DEF Flush, Owns, Write, stored, OwnershipTypes

LEMMA ClaimKeeps ==
  ASSUME OwnershipInv, NEW w \in Window, NEW p \in Path, Claim(w, p), path[w] = None,
         p \in files \cup {Primary} \/ \A v \in Window : path[v] # p,
         UNCHANGED <<queue, stored, userActs>>
  PROVE  ClaimsInv' /\ ListsInv' /\ JobsHaveOneWindow' /\ SnapsInv'
<1> USE DEF OwnershipInv, ClaimsInv, ListsInv, SnapsInv
<1>1. OwnershipTypes /\ UNCHANGED <<jobs, timer, guarded, recovering, files, content, snaps, copied, gone>>
  BY DEF queue, stored, userActs
<1>2. /\ lock[p] = None
      /\ lock' = [lock EXCEPT ![p] = w] /\ path' = [path EXCEPT ![w] = p]
      /\ todo' = [todo EXCEPT ![w] = {}] /\ step' = [step EXCEPT ![w] = "publish"]
  BY DEF Claim, Claimable, Go
<1>3. NoPathYet'
  BY <1>1, <1>2 DEF NoPathYet, OwnershipTypes
<1>4. LocksArePaths'
  BY <1>1, <1>2, OwnershipAssumption DEF LocksArePaths, OwnershipTypes
<1>5. LocklessIsNew'
  <2>1. ASSUME NEW v \in Window, path'[v] # None
        PROVE  \/ lock'[path'[v]] = v
               \/ path'[v] \in Session \ files' /\ lock'[path'[v]] = None
    <3>1. CASE v = w
      BY <1>1, <1>2, <3>1 DEF OwnershipTypes
    <3>2. CASE v # w
      BY <1>1, <1>2, <2>1, <3>2, OwnershipAssumption DEF LocklessIsNew, OwnershipTypes
    <3>3. QED
      BY <3>1, <3>2
  <2>2. QED
    BY <2>1 DEF LocklessIsNew
<1>6. CandidatesExist'
  BY <1>1, <1>2 DEF CandidatesExist, OwnershipTypes
<1>7. EmptyUnlessThere' /\ ListsApart' /\ JobsHaveOneWindow'
  BY <1>1 DEF EmptyUnlessThere, ListsApart, JobsHaveOneWindow
<1>8. ForeignInv'
  BY <1>1, <1>2, OwnershipAssumption DEF ForeignInv, OwnershipTypes
<1>9. OwnerKnows'
  BY <1>1, <1>2, OwnershipAssumption DEF OwnerKnows, Owns, OwnershipTypes
<1>10. RecoveryIsPublished'
  BY <1>1, <1>2, OwnershipAssumption DEF RecoveryIsPublished, OwnershipTypes
<1>11. SnapshotsAreFindable'
  BY <1>1 DEF SnapshotsAreFindable
<1>12. QED
  BY <1>3, <1>4, <1>5, <1>6, <1>7, <1>8, <1>9, <1>10, <1>11

-----------------------------------------------------------------------------
(* Saving the own list: it replaces what the owner knows. *)

LEMMA FlushKeeps ==
  ASSUME OwnershipInv, NEW w \in Window, Flush(w) \/ UNCHANGED stored,
         step[w] = "up" \/ path[w] \notin files
  PROVE  /\ \A p \in Path : p \notin files' => content'[p] = {}
         /\ \A p, q \in Path : p # q => content'[p] \cap content'[q] \subseteq copied
         /\ \A v \in Window, p \in Path : lock[p] # v => jobs[v] \cap content'[p] \subseteq copied
         /\ \A p \in Path : content'[p] # content[p] => lock[p] = w /\ content'[p] = jobs[w]
         /\ Saved \ gone \subseteq Saved'
<1> USE DEF OwnershipInv, ClaimsInv, ListsInv
<1>1. CASE UNCHANGED stored
  BY <1>1 DEF stored, EmptyUnlessThere, ListsApart, ForeignInv, Saved
<1>2. CASE Flush(w)
  <2> DEFINE P == path[w]
  <2>1. P \in Path /\ lock[P] = w /\ w \notin guarded
    BY <1>2, OwnPath DEF Flush, Owns
  <2>2. files' = files \cup {P} /\ content' = [content EXCEPT ![P] = jobs[w]]
    BY <1>2 DEF Flush, Write
  <2>3. content \in [Path -> SUBSET QueuedJob]
    BY DEF OwnershipTypes
  <2>4. content'[P] = jobs[w] /\ \A p \in Path : p # P => content'[p] = content[p] /\ lock[p] # w
    BY <2>1, <2>2, <2>3 DEF LocksArePaths
  <2>5. content[P] \subseteq jobs[w] \cup gone
    <3>1. CASE step[w] = "up"
      BY <2>1, <3>1, <1>2 DEF OwnerKnows, Flush
    <3>2. CASE path[w] \notin files
      BY <2>1, <3>2 DEF EmptyUnlessThere
    <3>3. QED
      BY <3>1, <3>2
  <2> HIDE DEF P
  <2>6. \A p \in Path : p \notin files' => content'[p] = {}
    BY <2>2, <2>4 DEF EmptyUnlessThere
  <2>7. \A p, q \in Path : p # q => content'[p] \cap content'[q] \subseteq copied
    <3>1. \A q \in Path : q # P => jobs[w] \cap content[q] \subseteq copied
      BY <2>4 DEF ForeignInv
    <3>2. QED
      BY <2>1, <2>4, <3>1 DEF ListsApart
  <2>8. \A v \in Window, p \in Path : lock[p] # v => jobs[v] \cap content'[p] \subseteq copied
    <3>1. \A v \in Window : v # w => jobs[v] \cap jobs[w] \subseteq copied
      BY DEF JobsHaveOneWindow
    <3>2. QED
      BY <2>1, <2>4, <3>1 DEF ForeignInv
  <2>9. Saved \ gone \subseteq Saved'
    <3>1. ASSUME NEW j, NEW p \in Path, j \in content[p], j \notin gone
          PROVE  \E q \in Path : j \in content'[q]
      BY <2>1, <2>4, <2>5, <3>1
    <3>2. QED
      BY <3>1 DEF Saved
  <2>10. QED
    BY <2>1, <2>4, <2>6, <2>7, <2>8, <2>9
<1>3. QED
  BY <1>1, <1>2
(* An owner that saved its list knows it, and files only grow. *)
LEMMA SavedByOwner ==
  ASSUME OwnershipInv, NEW w \in Window, Flush(w) \/ UNCHANGED stored,
         step[w] = "up" \/ path[w] \notin files,
         UNCHANGED <<todo, path, lock, jobs, guarded, copied, gone>>,
         \A v \in Window : step'[v] = "up" => step[v] = "up",
         \A v \in Window : step'[v] \in {"off", "primary", "listing", "candidates"} => path[v] = None,
         \A v \in recovering' : v \in recovering \/ path[v] \in files'
  PROVE  ClaimsInv' /\ ListsInv' /\ JobsHaveOneWindow' /\ SnapsInv' /\ Saved \ gone' \subseteq Saved'
<1> USE DEF OwnershipInv, ClaimsInv, ListsInv, SnapsInv
<1>1. /\ \A p \in Path : p \notin files' => content'[p] = {}
      /\ \A p, q \in Path : p # q => content'[p] \cap content'[q] \subseteq copied
      /\ \A v \in Window, p \in Path : lock[p] # v => jobs[v] \cap content'[p] \subseteq copied
      /\ \A p \in Path : content'[p] # content[p] => lock[p] = w /\ content'[p] = jobs[w]
      /\ Saved \ gone \subseteq Saved'
  BY FlushKeeps
<1>2. /\ files \subseteq files' /\ snaps' = snaps
      /\ \A p \in Path : p \notin files => p \notin files' \/ lock[p] = w
  BY FilesGrow
<1>3. NoPathYet' /\ LocksArePaths'
  BY DEF NoPathYet, LocksArePaths
<1>4. LocklessIsNew'
  BY <1>2, OwnershipAssumption DEF LocklessIsNew, LocksArePaths, OwnershipTypes, Path
<1>5. CandidatesExist'
  BY <1>2 DEF CandidatesExist
<1>6. EmptyUnlessThere' /\ ListsApart' /\ ForeignInv'
  BY <1>1 DEF EmptyUnlessThere, ListsApart, ForeignInv
<1>7. OwnerKnows'
  <2>1. ASSUME NEW v \in Window, step'[v] = "up", path[v] # None, lock[path[v]] = v, v \notin guarded
        PROVE  content'[path[v]] \subseteq jobs[v] \cup gone
    <3>1. path[v] \in Path /\ content[path[v]] \subseteq jobs[v] \cup gone
      BY <2>1 DEF OwnerKnows, Owns, OwnershipTypes
    <3>2. QED
      BY <1>1, <2>1, <3>1
  <2>2. QED
    BY <2>1 DEF OwnerKnows, Owns
<1>8. JobsHaveOneWindow'
  BY DEF JobsHaveOneWindow
<1>9. RecoveryIsPublished' /\ SnapshotsAreFindable'
  BY <1>2 DEF RecoveryIsPublished, SnapshotsAreFindable
<1>10. QED
  BY <1>1, <1>3, <1>4, <1>5, <1>6, <1>7, <1>8, <1>9

LEMMA StartupKeeps ==
  ASSUME OwnershipInv, NEW w \in Window,
         Start(w) \/ ClaimPrimary(w) \/ ListCandidates(w)
         \/ \E p \in Session : ClaimCandidate(w, p) \/ NewSession(w, p)
  PROVE  ClaimsInv' /\ ListsInv' /\ JobsHaveOneWindow' /\ SnapsInv' /\ UNCHANGED <<stored, userActs>>
<1> USE DEF OwnershipInv
<1>0. UNCHANGED <<queue, stored, userActs>> /\ path[w] = None
  BY DEF Start, ClaimPrimary, ListCandidates, ClaimCandidate, NewSession, ClaimsInv, NoPathYet
<1>1. ASSUME NEW p \in Path, Claim(w, p),
             p \in files \cup {Primary} \/ \A v \in Window : path[v] # p
      PROVE  ClaimsInv' /\ ListsInv' /\ JobsHaveOneWindow' /\ SnapsInv'
  BY <1>0, <1>1, ClaimKeeps
<1>2. ASSUME UNCHANGED <<path, lock>>, step'[w] \in {"primary", "listing", "candidates"},
             \A v \in Window : v # w => step'[v] = step[v],
             \A v \in Window : todo'[v] \subseteq files
      PROVE  ClaimsInv' /\ ListsInv' /\ JobsHaveOneWindow' /\ SnapsInv'
  <2>1. UNCHANGED <<jobs, timer, guarded, recovering, files, content, snaps, copied, gone>>
    BY <1>0 DEF queue, stored, userActs
  <2>2. NoPathYet'
    BY <1>0, <1>2 DEF ClaimsInv, NoPathYet
  <2>3. LocksArePaths' /\ LocklessIsNew' /\ CandidatesExist'
    BY <1>2, <2>1 DEF ClaimsInv, LocksArePaths, LocklessIsNew, CandidatesExist
  <2>4. EmptyUnlessThere' /\ ListsApart' /\ ForeignInv' /\ JobsHaveOneWindow'
    BY <1>2, <2>1 DEF ListsInv, EmptyUnlessThere, ListsApart, ForeignInv, JobsHaveOneWindow
  <2>5. OwnerKnows'
    BY <1>0, <1>2, <2>1 DEF ListsInv, OwnerKnows, Owns
  <2>6. SnapsInv'
    BY <1>2, <2>1 DEF SnapsInv, RecoveryIsPublished, SnapshotsAreFindable
  <2>7. QED
    BY <2>2, <2>3, <2>4, <2>5, <2>6 DEF ClaimsInv, ListsInv
<1>3. CASE Start(w)
  BY <1>2, <1>3 DEF Start, Go, OwnershipTypes, ClaimsInv, CandidatesExist
<1>4. CASE ClaimPrimary(w)
  <2>1. Primary \in Path
    BY DEF Path
  <2>2. CASE Claim(w, Primary)
    BY <1>0, <1>1, <2>1, <2>2
  <2>3. CASE Go(w, "listing") /\ UNCHANGED <<todo, path, lock>>
    BY <1>0, <1>2, <2>3 DEF Go, OwnershipTypes, ClaimsInv, CandidatesExist
  <2>4. QED
    BY <1>4, <2>2, <2>3 DEF ClaimPrimary
<1>5. CASE ListCandidates(w)
  BY <1>2, <1>5 DEF ListCandidates, Candidates, Go, OwnershipTypes, ClaimsInv, CandidatesExist
<1>6. ASSUME NEW p \in Session, ClaimCandidate(w, p)
      PROVE  ClaimsInv' /\ ListsInv' /\ JobsHaveOneWindow' /\ SnapsInv'
  <2>1. p \in Path /\ p \in files
    BY <1>6 DEF Path, ClaimCandidate, ClaimsInv, CandidatesExist
  <2>2. CASE Claim(w, p)
    BY <1>0, <1>1, <2>1, <2>2
  <2>3. CASE todo' = [todo EXCEPT ![w] = @ \ {p}] /\ UNCHANGED <<step, path, lock>>
    BY <1>0, <1>2, <1>6, <2>3 DEF ClaimCandidate, OwnershipTypes, ClaimsInv, CandidatesExist
  <2>4. QED
    BY <1>6, <2>2, <2>3 DEF ClaimCandidate
<1>7. ASSUME NEW p \in Session, NewSession(w, p)
      PROVE  ClaimsInv' /\ ListsInv' /\ JobsHaveOneWindow' /\ SnapsInv'
  <2>1. p \in Path /\ \A v \in Window : path[v] # p
    BY <1>7 DEF Path, NewSession, New
  <2>2. CASE Claim(w, p)
    BY <1>0, <1>1, <2>1, <2>2
  <2>3. CASE path' = [path EXCEPT ![w] = p] /\ Go(w, "load") /\ UNCHANGED <<todo, lock>>
    <3>1. UNCHANGED <<jobs, timer, guarded, recovering, files, content, snaps, copied, gone>>
      BY <1>0 DEF queue, stored, userActs
    <3>2. p \notin files /\ step' = [step EXCEPT ![w] = "load"]
      BY <1>7, <2>3 DEF NewSession, New, Go
    <3>3. NoPathYet'
      BY <2>3, <3>2 DEF ClaimsInv, NoPathYet, OwnershipTypes
    <3>4. LocksArePaths'
      BY <1>0, <2>3, OwnershipAssumption DEF ClaimsInv, LocksArePaths, OwnershipTypes
    <3>5. LocklessIsNew'
      <4>1. lock[p] = None
        BY <2>1 DEF ClaimsInv, LocksArePaths, OwnershipTypes
      <4>2. QED
        BY <2>3, <3>1, <3>2, <4>1 DEF ClaimsInv, LocklessIsNew, OwnershipTypes
    <3>6. CandidatesExist'
      BY <2>3, <3>1 DEF ClaimsInv, CandidatesExist
    <3>7. EmptyUnlessThere' /\ ListsApart' /\ ForeignInv' /\ JobsHaveOneWindow'
      BY <2>3, <3>1 DEF ListsInv, EmptyUnlessThere, ListsApart, ForeignInv, JobsHaveOneWindow
    <3>8. OwnerKnows'
      BY <2>3, <3>1, <3>2 DEF ListsInv, OwnerKnows, Owns, OwnershipTypes
    <3>9. SnapsInv'
      BY <1>0, <2>3, <3>1, OwnershipAssumption
         DEF SnapsInv, RecoveryIsPublished, SnapshotsAreFindable, OwnershipTypes
    <3>10. QED
      BY <3>3, <3>4, <3>5, <3>6, <3>7, <3>8, <3>9 DEF ClaimsInv, ListsInv
  <2>4. QED
    BY <1>7, <2>2, <2>3 DEF NewSession
<1>8. QED
  BY <1>0, <1>3, <1>4, <1>5, <1>6, <1>7

LEMMA PublishKeeps ==
  ASSUME OwnershipInv, NEW w \in Window, Publish(w)
  PROVE  ClaimsInv' /\ ListsInv' /\ JobsHaveOneWindow' /\ SnapsInv' /\ Saved \ gone' \subseteq Saved'
<1>1. /\ Flush(w) \/ UNCHANGED stored
      /\ step[w] = "publish" /\ step' = [step EXCEPT ![w] = "load"]
      /\ UNCHANGED <<todo, path, lock, jobs, guarded, copied, gone>>
  BY DEF Publish, Go, userActs
<1>2. \A v \in Window : step'[v] = "up" => step[v] = "up"
  BY <1>1 DEF OwnershipInv, OwnershipTypes
<1>3. \A v \in Window : step'[v] \in {"off", "primary", "listing", "candidates"} => path[v] = None
  BY <1>1 DEF OwnershipInv, OwnershipTypes, ClaimsInv, NoPathYet
<1>4. \A v \in recovering' : v \in recovering \/ path[v] \in files'
  BY DEF Publish, Flush, Write, stored
<1>5. CASE path[w] \notin files
  BY <1>1, <1>2, <1>3, <1>4, <1>5, SavedByOwner
<1>6. CASE path[w] \in files
  <2>1. UNCHANGED stored
    BY <1>6 DEF Publish
  <2>2. UNCHANGED <<files, content, snaps>>
    BY <2>1 DEF stored
  <2>3. ClaimsInv'
    BY <1>1, <1>3, <2>2
       DEF OwnershipInv, ClaimsInv, NoPathYet, LocksArePaths, LocklessIsNew, CandidatesExist
  <2>4. EmptyUnlessThere' /\ ListsApart' /\ ForeignInv' /\ JobsHaveOneWindow'
    BY <1>1, <2>2 DEF OwnershipInv, ListsInv, EmptyUnlessThere, ListsApart, ForeignInv, JobsHaveOneWindow
  <2>5. OwnerKnows'
    BY <1>1, <1>2, <2>2 DEF OwnershipInv, ListsInv, OwnerKnows, Owns
  <2>6. SnapsInv'
    BY <1>1, <1>4, <2>2 DEF OwnershipInv, SnapsInv, RecoveryIsPublished, SnapshotsAreFindable
  <2>7. Saved' = Saved
    BY <2>2 DEF Saved
  <2>8. QED
    BY <2>3, <2>4, <2>5, <2>6, <2>7 DEF ListsInv
<1>7. QED
  BY <1>5, <1>6
-----------------------------------------------------------------------------
(* What leaves the locks and the lists on disk alone. *)
LEMMA ClaimsStay ==
  ASSUME OwnershipInv, UNCHANGED <<todo, path, lock, files, recovering>>,
         \A v \in Window : step'[v] \in {"off", "primary", "listing", "candidates"} => step'[v] = step[v],
         snaps' \subseteq files
  PROVE  ClaimsInv' /\ SnapsInv'
<1>1. NoPathYet' /\ LocksArePaths' /\ LocklessIsNew' /\ CandidatesExist'
  BY DEF OwnershipInv, ClaimsInv, NoPathYet, LocksArePaths, LocklessIsNew, CandidatesExist
<1>2. RecoveryIsPublished' /\ SnapshotsAreFindable'
  BY DEF OwnershipInv, SnapsInv, RecoveryIsPublished, SnapshotsAreFindable
<1>3. QED
  BY <1>1, <1>2 DEF ClaimsInv, SnapsInv

LEMMA LoadKeeps ==
  ASSUME OwnershipInv, NEW w \in Window, LoadAutosave(w)
  PROVE  ClaimsInv' /\ ListsInv' /\ JobsHaveOneWindow' /\ SnapsInv' /\ Saved \ gone' \subseteq Saved'
<1>1. /\ step[w] = "load" /\ step' = [step EXCEPT ![w] = "up"]
      /\ UNCHANGED <<todo, path, lock, recovering, files, content, snaps, copied, gone>>
  BY DEF LoadAutosave, Go, stored, userActs
<1>2. ClaimsInv' /\ SnapsInv'
  BY <1>1, ClaimsStay DEF OwnershipInv, OwnershipTypes, SnapsInv, SnapshotsAreFindable
<1>3. Saved \ gone' \subseteq Saved'
  BY <1>1 DEF Saved
<1>4. EmptyUnlessThere' /\ ListsApart'
  BY <1>1 DEF OwnershipInv, ListsInv, EmptyUnlessThere, ListsApart
<1>5. CASE UNCHANGED jobs /\ (path[w] \notin files \/ w \in guarded') /\ guarded \subseteq guarded'
  <2>1. ForeignInv' /\ JobsHaveOneWindow'
    BY <1>1, <1>5 DEF OwnershipInv, ListsInv, ForeignInv, JobsHaveOneWindow
  <2>2. ASSUME NEW v \in Window, step'[v] = "up", path[v] # None, lock[path[v]] = v, v \notin guarded'
        PROVE  content[path[v]] \subseteq jobs[v] \cup gone
    <3>1. path[v] \in Path
      BY <2>2 DEF OwnershipInv, OwnershipTypes
    <3>2. CASE v = w
      BY <1>5, <2>2, <3>1, <3>2 DEF OwnershipInv, ListsInv, EmptyUnlessThere
    <3>3. CASE v # w
      BY <1>1, <1>5, <2>2, <3>3 DEF OwnershipInv, ListsInv, OwnerKnows, Owns, OwnershipTypes
    <3>4. QED
      BY <3>2, <3>3
  <2>3. OwnerKnows'
    BY <1>1, <1>5, <2>2 DEF OwnerKnows, Owns
  <2>4. QED
    BY <1>2, <1>3, <1>4, <2>1, <2>3 DEF ListsInv
<1>6. CASE path[w] \in files /\ jobs' = [jobs EXCEPT ![w] = content[path[w]]] /\ UNCHANGED guarded
  <2> DEFINE P == path[w]
  <2>1. P \in Path /\ P # None /\ P \in files
    BY <1>6, OwnershipAssumption DEF OwnershipInv, OwnershipTypes
  <2>2. lock[P] = w
    BY <2>1 DEF OwnershipInv, ClaimsInv, LocklessIsNew
  <2> HIDE DEF P
  <2>3. jobs' = [jobs EXCEPT ![w] = content[P]]
    BY <1>6 DEF P
  <2>4. ForeignInv'
    BY <1>1, <2>1, <2>2, <2>3 DEF OwnershipInv, OwnershipTypes, ListsInv, ForeignInv, ListsApart
  <2>5. JobsHaveOneWindow'
    BY <1>1, <2>1, <2>2, <2>3 DEF OwnershipInv, OwnershipTypes, ListsInv, ForeignInv, JobsHaveOneWindow
  <2>6. OwnerKnows'
    BY <1>1, <1>6, <2>3 DEF OwnershipInv, OwnershipTypes, ListsInv, OwnerKnows, Owns, P
  <2>7. QED
    BY <1>2, <1>3, <1>4, <2>4, <2>5, <2>6 DEF ListsInv
<1>7. QED
  BY <1>5, <1>6 DEF LoadAutosave

-----------------------------------------------------------------------------
(* Changes of the list in memory. *)
LEMMA JobsKeep ==
  ASSUME OwnershipInv, NEW w \in Window, jobs' = [jobs EXCEPT ![w] = jobs'[w]],
         UNCHANGED <<startup, lock, guarded, recovering, stored>>,
         copied \subseteq copied', gone \subseteq gone',
         jobs[w] \ jobs'[w] \subseteq gone',
         \A v \in Window : v # w => (jobs'[w] \ jobs[w]) \cap jobs[v] \subseteq copied',
         \A p \in Path : (jobs'[w] \ jobs[w]) \cap content[p] \subseteq copied'
  PROVE  ClaimsInv' /\ ListsInv' /\ JobsHaveOneWindow' /\ SnapsInv' /\ Saved \ gone' \subseteq Saved'
<1>1. UNCHANGED <<step, todo, path, lock, guarded, recovering, files, content, snaps>>
  BY DEF startup, stored
<1>2. ClaimsInv' /\ SnapsInv'
  BY <1>1, ClaimsStay DEF OwnershipInv, SnapsInv, SnapshotsAreFindable
<1>3. Saved \ gone' \subseteq Saved'
  BY <1>1 DEF Saved
<1>4. EmptyUnlessThere' /\ ListsApart'
  BY <1>1 DEF OwnershipInv, ListsInv, EmptyUnlessThere, ListsApart
<1>5. \A v \in Window : v # w => jobs'[v] = jobs[v]
  BY DEF OwnershipInv, OwnershipTypes
<1>6. ForeignInv'
  <2>1. \A v \in Window, p \in Path : lock[p] # v => jobs[v] \cap content[p] \subseteq copied
    BY DEF OwnershipInv, ListsInv, ForeignInv
  <2>2. \A v \in Window, p \in Path : lock[p] # v => jobs'[v] \cap content[p] \subseteq copied'
    BY <1>5, <2>1
  <2>3. QED
    BY <1>1, <2>2 DEF ForeignInv
<1>7. JobsHaveOneWindow'
  <2>1. \A u, v \in Window : u # v => jobs[u] \cap jobs[v] \subseteq copied
    BY DEF OwnershipInv, JobsHaveOneWindow
  <2>2. \A u, v \in Window : u # v => jobs'[u] \cap jobs'[v] \subseteq copied'
    BY <1>5, <2>1
  <2>3. QED
    BY <2>2 DEF JobsHaveOneWindow
<1>8. OwnerKnows'
  <2>1. \A v \in Window : step[v] = "up" /\ Owns(v) /\ v \notin guarded =>
                             content[path[v]] \subseteq jobs[v] \cup gone
    BY DEF OwnershipInv, ListsInv, OwnerKnows
  <2>2. \A v \in Window : step[v] = "up" /\ Owns(v) /\ v \notin guarded =>
                             content[path[v]] \subseteq jobs'[v] \cup gone'
    BY <1>5, <2>1
  <2>3. QED
    BY <1>1, <2>2 DEF OwnerKnows, Owns
<1>9. QED
  BY <1>2, <1>3, <1>4, <1>6, <1>7, <1>8 DEF ListsInv

LEMMA EditKeeps ==
  ASSUME OwnershipInv, NEW w \in Window,
         \/ \E j \in QueuedJob : CreateJob(w, j) \/ RemoveJob(w, j)
         \/ \E p \in Path : AppendFromFile(w, p) \/ ReplaceFromFile(w, p)
  PROVE  ClaimsInv' /\ ListsInv' /\ JobsHaveOneWindow' /\ SnapsInv' /\ Saved \ gone' \subseteq Saved'
<1> DEFINE Goal == ClaimsInv' /\ ListsInv' /\ JobsHaveOneWindow' /\ SnapsInv' /\ Saved \ gone' \subseteq Saved'
<1>1. ASSUME NEW j \in QueuedJob, CreateJob(w, j) PROVE Goal
  <2>1. ~Known(j) /\ jobs' = [jobs EXCEPT ![w] = jobs[w] \cup {j}]
        /\ UNCHANGED <<startup, lock, guarded, recovering, stored, copied, gone>>
    BY <1>1 DEF CreateJob, userActs
  <2>2. (\A v \in Window : j \notin jobs[v]) /\ (\A p \in Path : j \notin content[p])
    BY <2>1 DEF Known, Saved
  <2>3. jobs' = [jobs EXCEPT ![w] = jobs'[w]]
    BY <2>1 DEF OwnershipInv, OwnershipTypes
  <2>4. jobs'[w] = jobs[w] \cup {j}
    BY <2>1 DEF OwnershipInv, OwnershipTypes
  <2>5. /\ copied \subseteq copied' /\ gone \subseteq gone' /\ jobs[w] \ jobs'[w] \subseteq gone'
        /\ \A v \in Window : v # w => (jobs'[w] \ jobs[w]) \cap jobs[v] \subseteq copied'
        /\ \A q \in Path : (jobs'[w] \ jobs[w]) \cap content[q] \subseteq copied'
    BY <2>1, <2>2, <2>4
  <2>6. QED
    BY <2>1, <2>3, <2>5, JobsKeep
<1>2. ASSUME NEW j \in QueuedJob, RemoveJob(w, j) PROVE Goal
  <2>1. jobs' = [jobs EXCEPT ![w] = jobs[w] \ {j}] /\ gone' = gone \cup {j}
        /\ UNCHANGED <<startup, lock, guarded, recovering, stored, copied>>
    BY <1>2 DEF RemoveJob
  <2>2. jobs' = [jobs EXCEPT ![w] = jobs'[w]]
    BY <2>1 DEF OwnershipInv, OwnershipTypes
  <2>3. jobs'[w] = jobs[w] \ {j}
    BY <2>1 DEF OwnershipInv, OwnershipTypes
  <2>4. /\ copied \subseteq copied' /\ gone \subseteq gone' /\ jobs[w] \ jobs'[w] \subseteq gone'
        /\ \A v \in Window : v # w => (jobs'[w] \ jobs[w]) \cap jobs[v] \subseteq copied'
        /\ \A q \in Path : (jobs'[w] \ jobs[w]) \cap content[q] \subseteq copied'
    BY <2>1, <2>3
  <2>5. QED
    BY <2>1, <2>2, <2>4, JobsKeep
<1>3. ASSUME NEW p \in Path, AppendFromFile(w, p) PROVE Goal
  <2>1. jobs' = [jobs EXCEPT ![w] = jobs[w] \cup content[p]] /\ copied' = copied \cup content[p]
        /\ UNCHANGED <<startup, lock, guarded, recovering, stored, gone>>
    BY <1>3 DEF AppendFromFile
  <2>2. jobs' = [jobs EXCEPT ![w] = jobs'[w]]
    BY <2>1 DEF OwnershipInv, OwnershipTypes
  <2>3. jobs'[w] = jobs[w] \cup content[p]
    BY <2>1 DEF OwnershipInv, OwnershipTypes
  <2>4. /\ copied \subseteq copied' /\ gone \subseteq gone' /\ jobs[w] \ jobs'[w] \subseteq gone'
        /\ \A v \in Window : v # w => (jobs'[w] \ jobs[w]) \cap jobs[v] \subseteq copied'
        /\ \A q \in Path : (jobs'[w] \ jobs[w]) \cap content[q] \subseteq copied'
    BY <2>1, <2>3
  <2>5. QED
    BY <2>1, <2>2, <2>4, JobsKeep
<1>4. ASSUME NEW p \in Path, ReplaceFromFile(w, p) PROVE Goal
  <2>1. jobs' = [jobs EXCEPT ![w] = content[p]] /\ copied' = copied \cup content[p]
        /\ gone' = gone \cup (jobs[w] \ content[p])
        /\ UNCHANGED <<startup, lock, guarded, recovering, stored>>
    BY <1>4 DEF ReplaceFromFile
  <2>2. jobs' = [jobs EXCEPT ![w] = jobs'[w]]
    BY <2>1 DEF OwnershipInv, OwnershipTypes
  <2>3. jobs'[w] = content[p]
    BY <2>1 DEF OwnershipInv, OwnershipTypes
  <2>4. /\ copied \subseteq copied' /\ gone \subseteq gone' /\ jobs[w] \ jobs'[w] \subseteq gone'
        /\ \A v \in Window : v # w => (jobs'[w] \ jobs[w]) \cap jobs[v] \subseteq copied'
        /\ \A q \in Path : (jobs'[w] \ jobs[w]) \cap content[q] \subseteq copied'
    BY <2>1, <2>3
  <2>5. QED
    BY <2>1, <2>2, <2>4, JobsKeep
<1>5. QED
  BY <1>1, <1>2, <1>3, <1>4
LEMMA SaveAsKeeps ==
  ASSUME OwnershipInv, NEW w \in Window, NEW P \in Path, SaveAs(w, P)
  PROVE  ClaimsInv' /\ ListsInv' /\ JobsHaveOneWindow' /\ SnapsInv' /\ Saved \ gone' \subseteq Saved'
<1>1. /\ files' = files \cup {P} /\ content' = [content EXCEPT ![P] = jobs[w]]
      /\ UNCHANGED <<step, todo, path, lock, jobs, guarded, recovering, snaps>>
      /\ P \in files \cup {Primary}
      /\ lock[P] = None \/ (lock[P] = w /\ P = path[w])
      /\ copied' = (IF P = path[w] THEN copied ELSE copied \cup jobs[w])
      /\ gone' = gone \cup (content[P] \ jobs[w])
  BY DEF SaveAs, Write, startup, queue, Owns, Claimable
<1>2. content'[P] = jobs[w] /\ \A p \in Path : p # P => content'[p] = content[p]
  BY <1>1 DEF OwnershipInv, OwnershipTypes
<1>3. copied \subseteq copied' /\ gone \subseteq gone' /\ content[P] \ content'[P] \subseteq gone'
  BY <1>1, <1>2
<1>4. lock[P] = None => jobs[w] \subseteq copied'
  BY <1>1, OwnershipAssumption DEF OwnershipInv, ClaimsInv, LocklessIsNew, Path
<1>5. ClaimsInv'
  <2>1. NoPathYet' /\ LocksArePaths' /\ CandidatesExist'
    BY <1>1 DEF OwnershipInv, ClaimsInv, NoPathYet, LocksArePaths, CandidatesExist
  <2>2. LocklessIsNew'
    BY <1>1, OwnershipAssumption DEF OwnershipInv, ClaimsInv, LocklessIsNew, Path
  <2>3. QED
    BY <2>1, <2>2 DEF ClaimsInv
<1>6. SnapsInv'
  BY <1>1 DEF OwnershipInv, SnapsInv, RecoveryIsPublished, SnapshotsAreFindable
<1>7. JobsHaveOneWindow'
  BY <1>1, <1>3 DEF OwnershipInv, JobsHaveOneWindow
<1>8. EmptyUnlessThere'
  BY <1>1, <1>2 DEF OwnershipInv, ListsInv, EmptyUnlessThere
<1>9. ASSUME NEW v \in Window, NEW p \in Path, lock[p] # v
      PROVE  jobs[v] \cap content'[p] \subseteq copied'
  <2>1. CASE p # P
    BY <1>2, <1>3, <1>9, <2>1 DEF OwnershipInv, ListsInv, ForeignInv
  <2>2. CASE p = P /\ lock[P] = None
    BY <1>2, <1>4, <2>2
  <2>3. CASE p = P /\ lock[P] = w
    BY <1>2, <1>3, <1>9, <2>3 DEF OwnershipInv, JobsHaveOneWindow
  <2>4. QED
    BY <1>1, <2>1, <2>2, <2>3
<1>10. ASSUME NEW p \in Path, p # P
       PROVE  jobs[w] \cap content[p] \subseteq copied'
  <2>1. CASE lock[P] = None
    BY <1>4, <2>1
  <2>2. CASE lock[P] = w /\ P = path[w]
    <3>1. lock[p] # w
      BY <1>10, <2>2 DEF OwnershipInv, ClaimsInv, LocksArePaths
    <3>2. QED
      BY <1>3, <3>1 DEF OwnershipInv, ListsInv, ForeignInv
  <2>3. QED
    BY <1>1, <2>1, <2>2
<1>11. ListsApart'
  <2>1. ASSUME NEW p \in Path, NEW q \in Path, p # q
        PROVE  content'[p] \cap content'[q] \subseteq copied'
    <3>1. CASE p = P
      BY <1>2, <1>10, <2>1, <3>1
    <3>2. CASE q = P
      BY <1>2, <1>10, <2>1, <3>2
    <3>3. CASE p # P /\ q # P
      BY <1>2, <1>3, <2>1, <3>3 DEF OwnershipInv, ListsInv, ListsApart
    <3>4. QED
      BY <3>1, <3>2, <3>3
  <2>2. QED
    BY <2>1 DEF ListsApart
<1>12. ForeignInv'
  BY <1>1, <1>9 DEF ForeignInv
<1>13. OwnerKnows'
  <2>1. ASSUME NEW v \in Window, step[v] = "up", path[v] # None, lock[path[v]] = v, v \notin guarded
        PROVE  content'[path[v]] \subseteq jobs[v] \cup gone'
    <3>1. path[v] \in Path /\ content[path[v]] \subseteq jobs[v] \cup gone
      BY <2>1 DEF OwnershipInv, OwnershipTypes, ListsInv, OwnerKnows, Owns
    <3>2. CASE path[v] # P
      BY <1>2, <1>3, <3>1, <3>2
    <3>3. CASE path[v] = P
      BY <1>1, <1>2, <2>1, <3>3, OwnershipAssumption
    <3>4. QED
      BY <3>2, <3>3
  <2>2. QED
    BY <1>1, <2>1 DEF OwnerKnows, Owns
<1>14. Saved \ gone' \subseteq Saved'
  <2>1. ASSUME NEW j, NEW p \in Path, j \in content[p], j \notin gone'
        PROVE  j \in content'[p]
    BY <1>2, <1>3, <2>1
  <2>2. QED
    BY <2>1 DEF Saved
<1>15. QED
  BY <1>5, <1>6, <1>7, <1>8, <1>11, <1>12, <1>13, <1>14 DEF ListsInv

LEMMA AutosaveKeeps ==
  ASSUME OwnershipInv, NEW w \in Window, Autosave(w)
  PROVE  ClaimsInv' /\ ListsInv' /\ JobsHaveOneWindow' /\ SnapsInv' /\ Saved \ gone' \subseteq Saved'
<1>1. /\ step[w] = "up"
      /\ Flush(w) \/ UNCHANGED stored
      /\ UNCHANGED <<step, todo, path, lock, jobs, guarded, recovering, copied, gone>>
  BY DEF Autosave, startup, userActs
<1>2. \A v \in Window : step'[v] \in {"off", "primary", "listing", "candidates"} => path[v] = None
  BY <1>1 DEF OwnershipInv, ClaimsInv, NoPathYet
<1>3. /\ \A v \in Window : step'[v] = "up" => step[v] = "up"
      /\ \A v \in recovering' : v \in recovering \/ path[v] \in files'
  BY <1>1
<1>4. QED
  BY <1>1, <1>2, <1>3, SavedByOwner

LEMMA SnapshotKeeps ==
  ASSUME OwnershipInv, NEW w \in Window, SaveSnapshot(w) \/ RemoveSnapshot(w)
  PROVE  ClaimsInv' /\ ListsInv' /\ JobsHaveOneWindow' /\ SnapsInv' /\ Saved \ gone' \subseteq Saved'
<1>1. UNCHANGED <<step, todo, path, lock, jobs, guarded, recovering, files, content, copied, gone>>
  BY DEF SaveSnapshot, RemoveSnapshot, startup, queue, userActs
<1>2. w \in recovering /\ snaps' \subseteq snaps \cup {path[w]}
  BY DEF SaveSnapshot, RemoveSnapshot
<1>3. ClaimsInv' /\ SnapsInv'
  BY <1>1, <1>2, ClaimsStay DEF OwnershipInv, SnapsInv, RecoveryIsPublished, SnapshotsAreFindable
<1>4. ListsInv' /\ JobsHaveOneWindow'
  BY <1>1 DEF OwnershipInv, ListsInv, EmptyUnlessThere, ListsApart, ForeignInv, OwnerKnows, Owns, JobsHaveOneWindow
<1>5. QED
  BY <1>1, <1>3, <1>4 DEF Saved

-----------------------------------------------------------------------------
(* The end of a process. *)
LEMMA EndKeeps ==
  ASSUME OwnershipInv, NEW w \in Window, Crash(w) \/ Quit(w)
  PROVE  ClaimsInv' /\ ListsInv' /\ JobsHaveOneWindow' /\ SnapsInv' /\ Saved \ gone' \subseteq Saved'
<1>1. /\ step' = [step EXCEPT ![w] = "off"] /\ todo' = [todo EXCEPT ![w] = {}]
      /\ path' = [path EXCEPT ![w] = None] /\ jobs' = [jobs EXCEPT ![w] = {}]
      /\ lock' = [p \in Path |-> IF lock[p] = w THEN None ELSE lock[p]]
      /\ guarded' = guarded \ {w} /\ recovering' = recovering \ {w}
      /\ UNCHANGED <<copied, gone>>
  BY DEF Crash, Quit, End, Go, userActs
<1>2. UNCHANGED stored \/ (step[w] = "up" /\ Flush(w))
  BY DEF Crash, Quit
<1>3. /\ \A p \in Path : p \notin files' => content'[p] = {}
      /\ \A p, q \in Path : p # q => content'[p] \cap content'[q] \subseteq copied
      /\ \A v \in Window, p \in Path : lock[p] # v => jobs[v] \cap content'[p] \subseteq copied
      /\ \A p \in Path : content'[p] # content[p] => lock[p] = w
      /\ Saved \ gone \subseteq Saved'
  <2>1. CASE step[w] = "up"
    BY <1>2, <2>1, FlushKeeps
  <2>2. CASE UNCHANGED stored
    BY <2>2 DEF OwnershipInv, ListsInv, EmptyUnlessThere, ListsApart, ForeignInv, Saved, stored
  <2>3. QED
    BY <1>2, <2>1, <2>2
<1>4. /\ files \subseteq files' /\ snaps' = snaps
      /\ \A p \in Path : p \notin files => p \notin files' \/ lock[p] = w
  BY <1>2, FilesGrow DEF OwnershipInv
<1>5. /\ path'[w] = None /\ jobs'[w] = {} /\ step'[w] = "off" /\ todo'[w] = {}
      /\ \A v \in Window : v # w =>
           path'[v] = path[v] /\ jobs'[v] = jobs[v] /\ step'[v] = step[v] /\ todo'[v] = todo[v]
      /\ \A p \in Path : lock'[p] = IF lock[p] = w THEN None ELSE lock[p]
  BY <1>1 DEF OwnershipInv, OwnershipTypes
<1>6. w # None /\ \A v \in Window : v # None
  BY OwnershipAssumption
<1>7. NoPathYet' /\ LocksArePaths' /\ CandidatesExist'
  BY <1>4, <1>5, <1>6 DEF OwnershipInv, ClaimsInv, NoPathYet, LocksArePaths, CandidatesExist
<1>8. LocklessIsNew'
  <2>1. ASSUME NEW v \in Window, path'[v] # None
        PROVE  \/ lock'[path'[v]] = v
               \/ path'[v] \in Session \ files' /\ lock'[path'[v]] = None
    <3>1. v # w /\ path'[v] = path[v] /\ path[v] \in Path
      BY <1>5, <2>1 DEF OwnershipInv, OwnershipTypes
    <3>2. \/ lock[path[v]] = v
          \/ path[v] \in Session \ files /\ lock[path[v]] = None
      BY <2>1, <3>1 DEF OwnershipInv, ClaimsInv, LocklessIsNew
    <3>3. QED
      BY <1>4, <1>5, <1>6, <3>1, <3>2
  <2>2. QED
    BY <2>1 DEF LocklessIsNew
<1>9. EmptyUnlessThere' /\ ListsApart'
  BY <1>1, <1>3 DEF EmptyUnlessThere, ListsApart
<1>10. ForeignInv'
  BY <1>1, <1>3, <1>5, <1>6 DEF ForeignInv
<1>11. JobsHaveOneWindow'
  BY <1>1, <1>5 DEF OwnershipInv, JobsHaveOneWindow
<1>12. OwnerKnows'
  <2>1. ASSUME NEW v \in Window, step'[v] = "up", path'[v] # None, lock'[path'[v]] = v, v \notin guarded'
        PROVE  content'[path'[v]] \subseteq jobs'[v] \cup gone'
    <3>1. v # w /\ path'[v] = path[v] /\ path[v] \in Path /\ step[v] = "up" /\ jobs'[v] = jobs[v]
      BY <1>5, <2>1 DEF OwnershipInv, OwnershipTypes
    <3>2. lock[path[v]] = v /\ v \notin guarded
      BY <1>1, <1>5, <1>6, <2>1, <3>1
    <3>3. content[path[v]] \subseteq jobs[v] \cup gone
      BY <2>1, <3>1, <3>2 DEF OwnershipInv, ListsInv, OwnerKnows, Owns
    <3>4. content'[path[v]] = content[path[v]]
      BY <1>3, <3>1, <3>2
    <3>5. QED
      BY <1>1, <3>1, <3>3, <3>4
  <2>2. QED
    BY <2>1 DEF OwnerKnows, Owns
<1>13. SnapsInv'
  BY <1>1, <1>4, <1>5 DEF OwnershipInv, OwnershipTypes, SnapsInv, RecoveryIsPublished, SnapshotsAreFindable
<1>14. QED
  BY <1>1, <1>3, <1>7, <1>8, <1>9, <1>10, <1>11, <1>12, <1>13 DEF ClaimsInv, ListsInv

-----------------------------------------------------------------------------
LEMMA NextOwnership ==
  ASSUME OwnershipInv, [OwnershipNext]_ownershipVars
  PROVE  OwnershipInv' /\ Saved \ gone' \subseteq Saved'
<1>1. CASE UNCHANGED ownershipVars
  <2>1. UNCHANGED <<step, todo, path, lock, jobs, timer, guarded, recovering, files, content, snaps,
                    copied, gone>>
    BY <1>1 DEF ownershipVars, startup, queue, stored, userActs
  <2>2. OwnershipTypes' /\ ClaimsInv' /\ SnapsInv'
    BY <2>1 DEF OwnershipInv, OwnershipTypes, ClaimsInv, NoPathYet, LocksArePaths, LocklessIsNew, CandidatesExist,
       SnapsInv, RecoveryIsPublished, SnapshotsAreFindable
  <2>3. ListsInv' /\ JobsHaveOneWindow'
    BY <2>1 DEF OwnershipInv, ListsInv, EmptyUnlessThere, ListsApart, ForeignInv, OwnerKnows, Owns,
       JobsHaveOneWindow
  <2>4. QED
    BY <2>1, <2>2, <2>3 DEF OwnershipInv, Saved
<1>2. ASSUME NEW w \in Window, Construct(w)
      PROVE  OwnershipInv' /\ Saved \ gone' \subseteq Saved'
  <2>1. OwnershipTypes'
    BY <1>2, TypeConstruct DEF OwnershipInv
  <2>2. CASE Publish(w)
    BY <2>1, <2>2, PublishKeeps DEF OwnershipInv
  <2>3. CASE LoadAutosave(w)
    BY <2>1, <2>3, LoadKeeps DEF OwnershipInv
  <2>4. CASE ~Publish(w) /\ ~LoadAutosave(w)
    <3>1. ClaimsInv' /\ ListsInv' /\ JobsHaveOneWindow' /\ SnapsInv' /\ UNCHANGED <<stored, userActs>>
      BY <1>2, <2>4, StartupKeeps DEF Construct
    <3>2. QED
      BY <2>1, <3>1 DEF OwnershipInv, Saved, stored, userActs
  <2>5. QED
    BY <2>2, <2>3, <2>4
<1>3. ASSUME NEW w \in Window, Use(w)
      PROVE  OwnershipInv' /\ Saved \ gone' \subseteq Saved'
  <2>1. OwnershipTypes'
    BY <1>3, TypeUse DEF OwnershipInv, SnapsInv
  <2>2. ClaimsInv' /\ ListsInv' /\ JobsHaveOneWindow' /\ SnapsInv' /\ Saved \ gone' \subseteq Saved'
    BY <1>3, EditKeeps, SaveAsKeeps, AutosaveKeeps, SnapshotKeeps DEF Use
  <2>3. QED
    BY <2>1, <2>2 DEF OwnershipInv
<1>4. ASSUME NEW w \in Window, Crash(w) \/ Quit(w)
      PROVE  OwnershipInv' /\ Saved \ gone' \subseteq Saved'
  BY <1>4, EndAndQuitTypes, EndKeeps DEF OwnershipInv
<1>5. QED
  BY <1>1, <1>2, <1>3, <1>4 DEF OwnershipNext

LEMMA OwnershipInvariance == OwnershipSpec => []OwnershipInv
<1>1. OwnershipInv /\ [OwnershipNext]_ownershipVars => OwnershipInv'
  BY NextOwnership
<1>2. QED
  BY <1>1, InitOwnership, PTL DEF OwnershipSpec

(* Types, for every set of windows, sessions and jobs. *)
THEOREM WindowsTyped == OwnershipSpec => []OwnershipTypes
<1>1. OwnershipInv => OwnershipTypes
  BY DEF OwnershipInv
<1>2. QED
  BY <1>1, OwnershipInvariance, PTL

(* No job is in the hands of two windows that a user did not copy: because a
   window reads only the list it holds, and no two lists share such a job. *)
THEOREM OneWindowPerJob == OwnershipSpec => []JobsHaveOneWindow
<1>1. OwnershipInv => JobsHaveOneWindow
  BY DEF OwnershipInv
<1>2. QED
  BY <1>1, OwnershipInvariance, PTL

(* No saved job vanishes from disk unasked: an owner that may save knows what
   it overwrites (OwnerKnows). *)
THEOREM SavedJobsSurvive == OwnershipSpec => SavedJobsStay
<1>1. OwnershipInv /\ [OwnershipNext]_ownershipVars => [Saved \ gone' \subseteq Saved']_ownershipVars
  BY NextOwnership
<1>2. QED
  BY <1>1, OwnershipInvariance, PTL DEF OwnershipSpec, SavedJobsStay

(* Every snapshot has its list on disk. *)
THEOREM SnapshotsFound == OwnershipSpec => []SnapshotsAreFindable
<1>1. OwnershipInv => SnapshotsAreFindable
  BY DEF OwnershipInv, SnapsInv
<1>2. QED
  BY <1>1, OwnershipInvariance, PTL

=============================================================================
