--------------------------- MODULE FrameServerProofs ---------------------------
(***************************************************************************)
(* What the frame server does, for any number of starts, any source and any *)
(* set of things to serve.                                                  *)
(*                                                                          *)
(* First the files it shares with others: the sound file of a run is there  *)
(* while it is needed although the signal that ends the run before it is    *)
(* dispatched late, the FIFO is the run's own, nothing else is touched, and *)
(* a source is not released under a run.                                    *)
(*                                                                          *)
(* Then what it writes: the pictures that are due, tick by tick, for every  *)
(* edit, rate, decimation and number of phases, all of them when the run    *)
(* ends without an error, and never many more than ffmpeg has taken.  This  *)
(* needs facts about sums, about where a frame of the edit comes from, and  *)
(* about division, which come before the invariant.                         *)
(***************************************************************************)
EXTENDS FrameServer, TLAPS, WellFoundedInduction, NaturalsInduction, FiniteSetTheorems,
        SequenceTheorems

Live == Places \ {"report", "leave"}

(* The sound file belongs to the run that is being prepared, to the one that
   runs, or to one whose end is still to be dispatched. *)
HasOwner == sound # None /\ gui # "preparing" => reports # <<>> \/ thread \in Places \ {"leave"}

(* A run with a sound file began when nothing was left to dispatch. *)
OwnSound ==
  thread \in Places \ {"leave"} /\ run.sound # None
    => reports = <<>> /\ sound = run.sound /\ sound \in sounds

IInv ==
  /\ thread \in Places \cup {"ended"}
  /\ gui = "preparing" => thread = "ended" /\ source
  /\ thread # "ended" => source /\ "sound" \in DOMAIN run
  /\ (entry \in {"fifo", "swapped"}) = (thread \in Live)
  /\ sounds \subseteq {sound}
  /\ HasOwner
  /\ OwnSound

(* What a thread's place can be follows from the place it was at. *)
LEMMA PlaceFacts ==
  /\ Places = {"index", "probe", "serve", "write", "settle", "drain", "remove",
               "report", "leave"}
  /\ Live = {"index", "probe", "serve", "write", "settle", "drain", "remove"}
  BY DEF Places, Live

LEMMA Initially == Init => IInv
  BY PlaceFacts DEF Init, IInv, HasOwner, OwnSound, None

(* The steps of run() before the FIFO is removed change the thread's place and
   its locals, but neither its sound file nor anything it shares. *)
Serving ==
  /\ thread \in Live \ {"remove"} /\ thread' \in Live
  /\ run'.sound = run.sound /\ "sound" \in DOMAIN run'
  /\ UNCHANGED <<gui, source, sound, sounds, reports, entry>>

LEMMA ServingKeeps ==
  ASSUME IInv, Serving
  PROVE  IInv'
  BY PlaceFacts DEF IInv, Serving, HasOwner, OwnSound, None

LEMMA AbandonKeepsSound ==
  ASSUME NEW error, Abandon(error), "sound" \in DOMAIN run
  PROVE  thread' = "remove" /\ run'.sound = run.sound /\ "sound" \in DOMAIN run'
  BY DEF Abandon

LEMMA WorkerServes ==
  ASSUME IInv,
         Index \/ Probe \/ ServeFrame \/ WritePicture \/ NextFrame \/ Settle \/ CloseInput \/ Drain
  PROVE  Serving
<1> USE DEF Local, window, world
<1>1. thread # "ended" => "sound" \in DOMAIN run
  BY DEF IInv
<1>2. CASE Index
  BY <1>1, <1>2, PlaceFacts, AbandonKeepsSound DEF Index, Serving
<1>3. CASE Probe
  BY <1>1, <1>3, PlaceFacts, AbandonKeepsSound DEF Probe, Serving
<1>4. CASE ServeFrame
  BY <1>1, <1>4, PlaceFacts, AbandonKeepsSound DEF ServeFrame, Serving
<1>5. CASE WritePicture
  BY <1>1, <1>5, PlaceFacts, AbandonKeepsSound DEF WritePicture, Serving
<1>6. CASE NextFrame
  BY <1>1, <1>6, PlaceFacts DEF NextFrame, Serving
<1>7. CASE Settle
  BY <1>1, <1>7, PlaceFacts, AbandonKeepsSound DEF Settle, Serving
<1>8. CASE CloseInput
  BY <1>1, <1>8, PlaceFacts DEF CloseInput, Serving
<1>9. CASE Drain
  BY <1>1, <1>9, PlaceFacts, AbandonKeepsSound DEF Drain, Serving
<1>10. QED
  BY <1>2, <1>3, <1>4, <1>5, <1>6, <1>7, <1>8, <1>9

LEMMA RemovePipeKeeps == ASSUME IInv, RemovePipe PROVE IInv'
  BY PlaceFacts DEF IInv, RemovePipe, HasOwner, OwnSound, window, None

(* From here on the end of the run is known, and its sound may go. *)
LEMMA ReportKeeps == ASSUME IInv, Report PROVE IInv'
<1>1. reports' # <<>>
  BY DEF Report
<1>2. QED
  BY <1>1, PlaceFacts DEF IInv, Report, HasOwner, OwnSound, window, world, None

LEMMA LeaveKeeps == ASSUME IInv, Leave PROVE IInv'
  BY PlaceFacts DEF IInv, Leave, HasOwner, OwnSound, window, None

-----------------------------------------------------------------------------
(* The window. *)

LEMMA BeginSound ==
  ASSUME NEW c, NEW audio
  PROVE  Begin(c, audio).sound = audio /\ "sound" \in DOMAIN Begin(c, audio)
  BY DEF Begin

LEMMA LaunchKeeps ==
  ASSUME IInv, NEW c, NEW audio, Launch(c, audio), thread = "ended", source,
         gui' = "events", UNCHANGED <<source, reports>>,
         audio # None => audio = sound /\ reports = <<>>
  PROVE  IInv'
<1>1. CASE entry = "none" /\ entry' = "fifo" /\ Run(c, audio)
  BY <1>1, PlaceFacts, BeginSound DEF IInv, Run, HasOwner, OwnSound, None
<1>2. CASE Discard
  BY <1>2, PlaceFacts DEF IInv, Discard, HasOwner, OwnSound, None
<1>3. QED
  BY <1>1, <1>2 DEF Launch

LEMMA StartServerKeeps == ASSUME IInv, NEW c, StartServer(c) PROVE IInv'
<1>1. CASE Launch(c, None) /\ UNCHANGED <<gui, wanted>>
  <2>1. thread = "ended" /\ source /\ gui' = "events" /\ UNCHANGED <<source, reports>>
    BY <1>1 DEF StartServer, IsRunning
  <2>2. QED
    BY <1>1, <2>1, LaunchKeeps
<1>2. CASE gui' = "preparing" /\ sounds' = sounds \ {sound} /\ UNCHANGED <<thread, run, entry>>
  BY <1>2, PlaceFacts DEF IInv, StartServer, IsRunning, HasOwner, OwnSound, None
<1>3. QED
  BY <1>1, <1>2 DEF StartServer

LEMMA PreparedKeeps == ASSUME IInv, Prepared PROVE IInv'
<1>1. thread = "ended" /\ source /\ gui' = "events" /\ UNCHANGED <<source, reports>>
  BY DEF Prepared, IInv
<1>2. CASE sound # None /\ Launch(wanted, sound)
  BY <1>1, <1>2, LaunchKeeps DEF Prepared
<1>3. CASE Discard
  BY <1>1, <1>3, PlaceFacts DEF IInv, Discard, HasOwner, OwnSound, None
<1>4. QED
  BY <1>2, <1>3 DEF Prepared

LEMMA FinishedKeeps == ASSUME IInv, Finished PROVE IInv'
  BY PlaceFacts DEF IInv, Finished, HasOwner, OwnSound, world, None

LEMMA WindowKeeps ==
  ASSUME IInv, OpenSource \/ StopServer \/ ReleaseSource \/ Stopped
  PROVE  IInv'
<1> USE DEF IInv, HasOwner, OwnSound, world, None
<1>1. CASE OpenSource
  BY <1>1, PlaceFacts DEF OpenSource
<1>2. CASE StopServer
  BY <1>2, PlaceFacts DEF StopServer, Stop, IsRunning
<1>3. CASE ReleaseSource
  BY <1>3, PlaceFacts DEF ReleaseSource, Stop
<1>4. CASE Stopped
  BY <1>4, PlaceFacts DEF Stopped, IsRunning
<1>5. QED
  BY <1>1, <1>2, <1>3, <1>4

-----------------------------------------------------------------------------
(* ffmpeg and everybody else. *)

LEMMA ChildKeeps == ASSUME IInv, Child PROVE IInv'
  BY PlaceFacts DEF IInv, Child, HasOwner, OwnSound, window, world, None

LEMMA OthersKeep ==
  ASSUME IInv, ReaderComes \/ ReaderLeaves \/ FileAppears \/ FileGoes \/ FifoSwapped
  PROVE  IInv'
  BY PlaceFacts DEF IInv, ReaderComes, ReaderLeaves, FileAppears, FileGoes, FifoSwapped, Elsewhere,
     HasOwner, OwnSound, window, None

LEMMA StepKeeps == ASSUME IInv, [Next]_vars PROVE IInv'
<1>1. CASE Worker
  BY <1>1, WorkerServes, ServingKeeps, RemovePipeKeeps, ReportKeeps, LeaveKeeps DEF Worker
<1>2. CASE ffmpegStep \/ ffmpegDies
  BY <1>2, ChildKeeps DEF ffmpegStep, ffmpegDies, Take, OpenInputs, OpenOutput, MeetReader, Mux, EndOfInput
<1>3. CASE \E c \in Configs : StartServer(c)
  BY <1>3, StartServerKeeps
<1>4. CASE OpenSource \/ StopServer \/ ReleaseSource \/ Stopped
  BY <1>4, WindowKeeps
<1>5. CASE ReaderComes \/ ReaderLeaves \/ FileAppears \/ FileGoes \/ FifoSwapped
  BY <1>5, OthersKeep
<1>6. CASE UNCHANGED vars
  BY <1>6 DEF vars, IInv, HasOwner, OwnSound
<1>7. QED
  BY <1>1, <1>2, <1>3, <1>4, <1>5, <1>6, PreparedKeeps, FinishedKeeps DEF Next

(* Who owns the sound file, and what a thread's place says of the FIFO, the
   source and the signals on their way (VDQtFrameServer.cpp:75-135, 375-376). *)
THEOREM InductiveInvariant == Spec => []IInv
<1>1. Init => IInv
  BY Initially
<1>2. IInv /\ [Next]_vars => IInv'
  BY StepKeeps
<1>3. QED
  BY <1>1, <1>2, PTL DEF Spec

-----------------------------------------------------------------------------
(* The end of an earlier run never takes the sound file of the current one, and
   no sound file is left over (VDQtMainWindow.cpp:700-705, 5193-5225). *)
LEMMA SoundHasOwner == IInv => SoundIsKept /\ SoundIsRemoved
<1>1. IInv => SoundIsKept
  BY PlaceFacts DEF IInv, OwnSound, SoundIsKept
<1>2. IInv => SoundIsRemoved
  BY PlaceFacts DEF IInv, HasOwner, SoundIsRemoved, IsRunning
<1>3. QED
  BY <1>1, <1>2

(* A run has its sound, its FIFO and its source as long as it needs them, and the
   sound and the FIFO do not outlive it (VDQtFrameServer.cpp:111, 375,
   VDQtMainWindow.cpp:700-705, 1649, 5193-5225). *)
THEOREM FilesAreTheRuns == Spec => []RunHasItsFiles
<1>1. IInv => PipeIsTheRuns
  BY DEF IInv, PipeIsTheRuns, Live
<1>2. IInv => SourceOutlivesRun
  BY DEF IInv, SourceOutlivesRun, IsRunning
<1>3. IInv => RunHasItsFiles
  BY <1>1, <1>2, SoundHasOwner DEF RunHasItsFiles
<1>4. QED
  BY <1>3, InductiveInvariant, PTL

(* A file that is at the path before a run has it is neither replaced nor removed by the
   program, whenever it came there before mkfifo() or after a clean-up
   (VDQtFrameServer.cpp:105-111, 375): a run removes only what was in the place of the
   FIFO it made. *)
THEOREM OthersFilesStay == Spec => FileIsKept
<1>1. ASSUME IInv, [Next]_vars
      PROVE  [entry = "file" /\ entry' # "file" => UNCHANGED <<gui, thread>>]_vars
  <2>1. SUFFICES ASSUME Next, entry = "file", entry' # "file" PROVE UNCHANGED <<gui, thread>>
    BY <1>1 DEF vars
  <2>2. thread \notin Live
    BY <1>1, <2>1 DEF IInv
  <2>3. ~Worker
    BY <1>1, <2>1, <2>2, PlaceFacts, WorkerServes
       DEF Worker, Serving, RemovePipe, Report, Leave, world
  <2>4. \A c : ~StartServer(c)
    BY <2>1 DEF StartServer
  <2>5. ~Prepared
    BY <2>1 DEF Prepared, Launch, Discard
  <2>6. ~(ffmpegStep \/ ffmpegDies \/ Finished \/ OpenSource \/ StopServer \/ ReleaseSource \/ Stopped)
    BY <2>1 DEF ffmpegStep, ffmpegDies, Take, OpenInputs, OpenOutput, MeetReader, Mux, EndOfInput, Child,
       Finished, OpenSource, StopServer, ReleaseSource, Stop, Stopped, world
  <2>7. QED
    BY <2>1, <2>3, <2>4, <2>5, <2>6
       DEF Next, ReaderComes, ReaderLeaves, FileAppears, FileGoes, FifoSwapped, Elsewhere, window
<1>2. QED
  BY <1>1, InductiveInvariant, PTL DEF Spec, FileIsKept

-----------------------------------------------------------------------------
(* Sums.  The induction principles of the library are about operators; this one is
   about sets, and follows from the least member of a set of numbers. *)

(* The numbers are well-founded. *)
LEMMA Less == IsWellFoundedOn({p \in Nat \X Nat : p[1] < p[2]}, Nat)
  BY NatLessThanWellFounded DEF OpToRel

(* A set of numbers has a least member. *)
LEMMA Least ==
  ASSUME NEW T \in SUBSET Nat, T # {}
  PROVE  \E x \in T : \A y \in T : x <= y
<1> DEFINE R == {p \in Nat \X Nat : p[1] < p[2]}
<1>1. IsWellFoundedOn(R, Nat)
  BY Less
<1> HIDE DEF R
<1>2. PICK x \in T : \A y \in T : ~(<<y, x>> \in R)
  BY <1>1, WFMin
<1>3. ASSUME NEW y \in T PROVE x <= y
  <2>1. ~(<<y, x>> \in R)
    BY <1>2
  <2>2. QED
    BY <2>1 DEF R
<1>4. QED
  BY <1>3

(* What holds of 0 and is handed on holds up to n. *)
LEMMA SetInduction ==
  ASSUME NEW n \in Nat, NEW S, 0 \in S, \A k \in 0 .. n - 1 : k \in S => k + 1 \in S
  PROVE  \A k \in 0 .. n : k \in S
<1>1. SUFFICES ASSUME NEW k \in 0 .. n, k \notin S PROVE FALSE
  OBVIOUS
<1> DEFINE T == {i \in 0 .. n : i \notin S}
<1>2. T \in SUBSET Nat /\ T # {}
  BY <1>1
<1>3. PICK x \in T : \A y \in T : x <= y
  <2> HIDE DEF T
  <2>1. QED
    BY <1>2, Least
<1>4. x > 0 /\ x - 1 \in 0 .. n - 1
  BY <1>3
<1>5. x - 1 \in S
  BY <1>3, <1>4
<1>6. QED
  BY <1>3, <1>4, <1>5

(* There is a function that adds up a list of numbers. *)
LEMMA SumsExist ==
  ASSUME NEW w \in Seq(Int)
  PROVE  Sums(w) = [k \in 0 .. Len(w) |-> IF k = 0 THEN 0 ELSE Sums(w)[k - 1] + w[k]]
<1> DEFINE n == Len(w)
           IsSum(f, m) == f[0] = 0 /\ \A k \in 1 .. m : f[k] = f[k - 1] + w[k]
           S == {m \in 0 .. n : \E f \in [0 .. m -> Int] : IsSum(f, m)}
<1>1. n \in Nat /\ \A k \in 1 .. n : w[k] \in Int
  OBVIOUS
<1>2. 0 \in S
  <2> DEFINE z == [k \in 0 .. 0 |-> 0]
  <2>1. z \in [0 .. 0 -> Int] /\ IsSum(z, 0)
    OBVIOUS
  <2>2. 0 \in 0 .. n
    BY <1>1
  <2> HIDE DEF z, IsSum, n
  <2>3. QED
    BY <2>1, <2>2
<1>3. \A m \in 0 .. n - 1 : m \in S => m + 1 \in S
  <2> SUFFICES ASSUME NEW m \in 0 .. n - 1, m \in S PROVE m + 1 \in S
    OBVIOUS
  <2>1. PICK f \in [0 .. m -> Int] : IsSum(f, m)
    OBVIOUS
  <2> DEFINE g == [k \in 0 .. m + 1 |-> IF k = m + 1 THEN f[m] + w[m + 1] ELSE f[k]]
  <2>2. m \in Nat /\ m + 1 \in 1 .. n /\ w[m + 1] \in Int /\ f[m] \in Int
    BY <1>1
  <2>3. g \in [0 .. m + 1 -> Int]
    BY <2>2
  <2>4. g[0] = 0
    BY <2>1, <2>2
  <2>5. ASSUME NEW k \in 1 .. m + 1 PROVE g[k] = g[k - 1] + w[k]
    <3>1. CASE k = m + 1
      BY <3>1, <2>2
    <3>2. CASE k \in 1 .. m
      BY <3>2, <2>1, <2>2
    <3>3. QED
      BY <3>1, <3>2, <2>2
  <2>6. IsSum(g, m + 1)
    BY <2>4, <2>5
  <2>7. m + 1 \in 0 .. n
    BY <2>2
  <2> HIDE DEF g, IsSum
  <2>8. QED
    BY <2>3, <2>6, <2>7
<1>4. n \in S
  <2> HIDE DEF S, n
  <2>1. n \in Nat
    BY <1>1
  <2>2. \A k \in 0 .. n : k \in S
    BY <2>1, <1>2, <1>3, SetInduction
  <2>3. QED
    BY <2>1, <2>2
<1>5. PICK f \in [0 .. n -> Int] : IsSum(f, n)
  BY <1>4
<1>6. f = [k \in 0 .. n |-> IF k = 0 THEN 0 ELSE f[k - 1] + w[k]]
  <2>1. ASSUME NEW k \in 0 .. n PROVE f[k] = IF k = 0 THEN 0 ELSE f[k - 1] + w[k]
    BY <1>1, <1>5
  <2>2. QED
    BY <2>1
<1>7. QED
  BY <1>6, Zenon DEF Sums

(* Sums is that function. *)
LEMMA SumsDef ==
  ASSUME NEW w \in Seq(Int)
  PROVE  /\ Sums(w)[0] = 0
         /\ \A k \in 1 .. Len(w) : Sums(w)[k] = Sums(w)[k - 1] + w[k]
         /\ \A k \in 0 .. Len(w) : Sums(w)[k] \in Int
<1> DEFINE n == Len(w)
           S == {k \in 0 .. n : Sums(w)[k] \in Int}
<1>1. n \in Nat /\ \A k \in 1 .. n : w[k] \in Int
  OBVIOUS
<1>2. Sums(w)[0] = 0
  BY <1>1, SumsExist
<1>3. \A k \in 1 .. n : Sums(w)[k] = Sums(w)[k - 1] + w[k]
  BY <1>1, SumsExist
<1>4. 0 \in S
  BY <1>1, <1>2
<1>5. \A k \in 0 .. n - 1 : k \in S => k + 1 \in S
  BY <1>1, <1>3
<1>6. \A k \in 0 .. n : k \in S
  <2> HIDE DEF S
  <2>1. QED
    BY <1>1, <1>4, <1>5, SetInduction
<1>7. QED
  BY <1>2, <1>3, <1>6

(* What holds of neighbours holds of any two. *)
LEMMA GrowsByOne ==
  ASSUME NEW n \in Nat, NEW F \in [0 .. n -> Int], \A j \in 0 .. n - 1 : F[j] <= F[j + 1]
  PROVE  \A k \in 0 .. n : \A i \in 0 .. k : F[i] <= F[k]
<1> DEFINE S == {k \in 0 .. n : \A i \in 0 .. k : F[i] <= F[k]}
<1>1. 0 \in S
  OBVIOUS
<1>2. \A k \in 0 .. n - 1 : k \in S => k + 1 \in S
  <2>1. SUFFICES ASSUME NEW k \in 0 .. n - 1, k \in S, NEW i \in 0 .. k + 1
                 PROVE  F[i] <= F[k + 1]
    OBVIOUS
  <2>2. F[k] \in Int /\ F[k + 1] \in Int /\ F[i] \in Int /\ F[k] <= F[k + 1]
    OBVIOUS
  <2>3. CASE i = k + 1
    BY <2>2, <2>3
  <2>4. CASE i # k + 1
    <3>1. i \in 0 .. k
      BY <2>4
    <3>2. F[i] <= F[k]
      BY <2>1, <3>1
    <3>3. QED
      BY <2>2, <3>2
  <2>5. QED
    BY <2>3, <2>4
<1>3. \A k \in 0 .. n : k \in S
  <2> HIDE DEF S
  <2>1. QED
    BY <1>1, <1>2, SetInduction
<1>4. QED
  BY <1>3

LEMMA DifferAtOne ==
  ASSUME NEW n \in Nat, NEW F \in [0 .. n -> Int], NEW G \in [0 .. n -> Int],
         NEW p \in 0 .. n - 1, NEW d \in Int, F[0] = G[0],
         F[p + 1] - F[p] = G[p + 1] - G[p] + d,
         \A j \in 0 .. n - 1 : j # p => F[j + 1] - F[j] = G[j + 1] - G[j]
  PROVE  F[n] = G[n] + d
<1> DEFINE S == {j \in 0 .. n : F[j] = G[j] + (IF j <= p THEN 0 ELSE d)}
<1>1. 0 \in S
  OBVIOUS
<1>2. \A j \in 0 .. n - 1 : j \in S => j + 1 \in S
  <2>1. SUFFICES ASSUME NEW j \in 0 .. n - 1, j \in S PROVE j + 1 \in S
    OBVIOUS
  <2>2. j \in 0 .. n /\ j + 1 \in 0 .. n
    OBVIOUS
  <2>3. F[j] \in Int /\ F[j + 1] \in Int /\ G[j] \in Int /\ G[j + 1] \in Int
    BY <2>2
  <2>4. F[j] = G[j] + (IF j <= p THEN 0 ELSE d)
    BY <2>1
  <2>5. CASE j = p
    <3>1. F[j + 1] - F[j] = G[j + 1] - G[j] + d
      BY <2>5
    <3>2. QED
      <4>1. F[j + 1] = G[j + 1] + d
        <5> DEFINE x == F[j]
                   y == F[j + 1]
                   u == G[j]
                   v == G[j + 1]
        <5>1. x \in Int /\ y \in Int /\ u \in Int /\ v \in Int /\ x = u + 0 /\ y - x = v - u + d
          BY <2>3, <2>4, <2>5, <3>1
        <5> HIDE DEF x, y, u, v
        <5>2. y = v + d
          BY <5>1
        <5>3. QED
          BY <5>2 DEF x, y, u, v
      <4>2. ~(j + 1 <= p)
        BY <2>5
      <4>3. QED
        BY <2>2, <4>1, <4>2
  <2>6. CASE j # p
    <3>1. F[j + 1] - F[j] = G[j + 1] - G[j]
      BY <2>6
    <3>2. (j + 1 <= p) = (j <= p)
      BY <2>6
    <3>3. QED
      <4>1. F[j + 1] = G[j + 1] + (IF j <= p THEN 0 ELSE d)
        <5> DEFINE e == IF j <= p THEN 0 ELSE d
        <5>1. e \in Int /\ F[j] = G[j] + e
          BY <2>4
        <5> HIDE DEF e
        <5>2. F[j + 1] = G[j + 1] + e
          <6> DEFINE a == F[j + 1]
                     b == F[j]
                     c == G[j + 1]
                     g == G[j]
          <6>1. a \in Int /\ b \in Int /\ c \in Int /\ g \in Int
            BY <2>3
          <6>2. a - b = c - g /\ b = g + e
            BY <3>1, <5>1
          <6> HIDE DEF a, b, c, g
          <6>3. a = c + e
            BY <6>1, <6>2, <5>1
          <6>4. QED
            BY <6>3 DEF a, c
        <5>3. QED
          BY <5>2 DEF e
      <4>2. QED
        BY <2>2, <4>1, <3>2
  <2>7. QED
    BY <2>5, <2>6
<1>3. \A k \in 0 .. n : k \in S
  <2> HIDE DEF S
  <2>1. QED
    BY <1>1, <1>2, SetInduction
<1>4. QED
  BY <1>3

(* Sums grow with the numbers and with their count. *)
LEMMA SumsMono ==
  ASSUME NEW w \in Seq(Nat)
  PROVE  \A k \in 0 .. Len(w) : \A i \in 0 .. k : Sums(w)[i] <= Sums(w)[k] /\ Sums(w)[i] \in Nat
<1>1. Len(w) \in Nat /\ w \in Seq(Int) /\ \A j \in 1 .. Len(w) : w[j] \in Nat
  OBVIOUS
<1>2. Sums(w) \in [0 .. Len(w) -> Int]
  BY <1>1, SumsDef, SumsExist
<1>3. \A j \in 0 .. Len(w) - 1 : Sums(w)[j] <= Sums(w)[j + 1]
  <2>1. SUFFICES ASSUME NEW j \in 0 .. Len(w) - 1 PROVE Sums(w)[j] <= Sums(w)[j + 1]
    OBVIOUS
  <2>2. j + 1 \in 1 .. Len(w) /\ j + 1 - 1 = j /\ Sums(w)[j] \in Int
    BY <1>1, <1>2
  <2>3. Sums(w)[j + 1] = Sums(w)[j] + w[j + 1] /\ w[j + 1] \in Nat
    BY <1>1, <2>2, SumsDef
  <2>4. QED
    BY <2>2, <2>3
<1>4. \A k \in 0 .. Len(w) : \A i \in 0 .. k : Sums(w)[i] <= Sums(w)[k]
  BY <1>1, <1>2, <1>3, GrowsByOne
<1>5. Sums(w)[0] = 0
  BY <1>1, SumsDef
<1>6. \A i \in 0 .. Len(w) : Sums(w)[i] \in Nat
  BY <1>1, <1>2, <1>4, <1>5
<1>7. QED
  BY <1>1, <1>4, <1>6

(* Two lists that differ in one number have sums that differ by as much. *)
LEMMA SumsDiffer ==
  ASSUME NEW v \in Seq(Int), NEW w \in Seq(Int), NEW n \in Nat, Len(v) = n, Len(w) = n,
         NEW p \in 1 .. n, \A k \in 1 .. n : k # p => v[k] = w[k]
  PROVE  Sums(v)[n] - Sums(w)[n] = v[p] - w[p]
<1>1. \A j \in 1 .. n : v[j] \in Int /\ w[j] \in Int
  OBVIOUS
<1>2. Sums(v) \in [0 .. n -> Int] /\ Sums(w) \in [0 .. n -> Int]
  BY SumsDef, SumsExist
<1>3. /\ Sums(v)[0] = Sums(w)[0]
      /\ \A k \in 1 .. n : Sums(v)[k] = Sums(v)[k - 1] + v[k]
      /\ \A k \in 1 .. n : Sums(w)[k] = Sums(w)[k - 1] + w[k]
  BY SumsDef
<1>4. \A j \in 0 .. n - 1 : /\ Sums(v)[j + 1] - Sums(v)[j] = v[j + 1]
                            /\ Sums(w)[j + 1] - Sums(w)[j] = w[j + 1]
  <2>1. SUFFICES ASSUME NEW j \in 0 .. n - 1
                 PROVE  /\ Sums(v)[j + 1] - Sums(v)[j] = v[j + 1]
                        /\ Sums(w)[j + 1] - Sums(w)[j] = w[j + 1]
    OBVIOUS
  <2>2. j + 1 \in 1 .. n /\ j + 1 - 1 = j /\ Sums(v)[j] \in Int /\ Sums(w)[j] \in Int
    BY <1>2
  <2>3. Sums(v)[j + 1] = Sums(v)[j + 1 - 1] + v[j + 1] /\ Sums(w)[j + 1] = Sums(w)[j + 1 - 1] + w[j + 1]
    BY <2>2, <1>3
  <2>4. v[j + 1] \in Int /\ w[j + 1] \in Int
    BY <2>2, <1>1
  <2>5. QED
    BY <2>2, <2>3, <2>4
<1>5. \A j \in 0 .. n - 1 : j # p - 1 => v[j + 1] = w[j + 1]
  <2>1. SUFFICES ASSUME NEW j \in 0 .. n - 1, j # p - 1 PROVE v[j + 1] = w[j + 1]
    OBVIOUS
  <2>2. j + 1 \in 1 .. n /\ j + 1 # p
    BY <2>1
  <2>3. QED
    BY <2>2
<1>6. v[p] \in Int /\ w[p] \in Int /\ p - 1 \in 0 .. n - 1 /\ (p - 1) + 1 = p
  BY <1>1
<1>7. Sums(v)[n] = Sums(w)[n] + (v[p] - w[p])
  <2> DEFINE F == Sums(v)
             G == Sums(w)
             q == p - 1
             d == v[p] - w[p]
  <2>1. F[q + 1] - F[q] = G[q + 1] - G[q] + d
    BY <1>4, <1>6
  <2>2. \A j \in 0 .. n - 1 : j # q => F[j + 1] - F[j] = G[j + 1] - G[j]
    BY <1>4, <1>5
  <2>3. q \in 0 .. n - 1 /\ d \in Int
    BY <1>6
  <2> HIDE DEF q, d
  <2>4. F[n] = G[n] + d
    <3> HIDE DEF F, G
    <3>1. F \in [0 .. n -> Int] /\ G \in [0 .. n -> Int] /\ F[0] = G[0]
      BY <1>2, <1>3 DEF F, G
    <3>2. QED
      BY <2>1, <2>2, <2>3, <3>1, DifferAtOne
  <2>5. QED
    BY <2>4 DEF d
<1>8. QED
  BY <1>2, <1>6, <1>7

-----------------------------------------------------------------------------
(* Where a frame of the edit is. *)

LEMMA SegmentFacts ==
  ASSUME NEW s \in Seq(Segment)
  PROVE  /\ Len(s) \in Nat
         /\ \A k \in 1 .. Len(s) : /\ s[k].start \in Nat /\ s[k].masked \in BOOLEAN
                                   /\ s[k].count \in Nat /\ s[k].count > 0
<1>1. \A k \in 1 .. Len(s) : s[k] \in Segment
  OBVIOUS
<1>2. QED
  BY <1>1 DEF Segment

(* Each segment begins where the one before it ends. *)
LEMMA OffsetFacts ==
  ASSUME NEW s \in Seq(Segment)
  PROVE  /\ Offset(s, 1) = 0
         /\ \A k \in 1 .. Len(s) : Offset(s, k + 1) = Offset(s, k) + s[k].count
         /\ \A k \in 1 .. Len(s) + 1 : Offset(s, k) \in Nat
         /\ \A k \in 1 .. Len(s) + 1 : \A i \in 1 .. k : Offset(s, i) <= Offset(s, k)
<1> DEFINE w == [j \in 1 .. Len(s) |-> s[j].count]
           n == Len(s)
<1>1. n \in Nat /\ w \in Seq(Nat) /\ w \in Seq(Int) /\ Len(w) = n /\ \A k \in 1 .. n : w[k] = s[k].count
  BY SegmentFacts
<1>2. \A k : Offset(s, k) = Sums(w)[k - 1]
  BY DEF Offset
<1> HIDE DEF w
<1>3. Sums(w)[0] = 0 /\ \A k \in 1 .. n : Sums(w)[k] = Sums(w)[k - 1] + w[k]
  BY <1>1, SumsDef
<1>4. \A k \in 0 .. n : \A i \in 0 .. k : Sums(w)[i] <= Sums(w)[k] /\ Sums(w)[i] \in Nat
  BY <1>1, SumsMono
<1>5. ASSUME NEW k \in 1 .. n PROVE Offset(s, k + 1) = Offset(s, k) + s[k].count
  <2>1. (k + 1) - 1 = k
    OBVIOUS
  <2>2. QED
    BY <1>1, <1>2, <1>3, <2>1
<1>6. ASSUME NEW k \in 1 .. n + 1, NEW i \in 1 .. k
      PROVE  Offset(s, i) <= Offset(s, k) /\ Offset(s, k) \in Nat
  <2>1. k - 1 \in 0 .. n /\ i - 1 \in 0 .. k - 1 /\ k - 1 \in 0 .. k - 1
    BY <1>1
  <2>2. QED
    BY <1>2, <1>4, <2>1
<1>7. Offset(s, 1) = 0
  BY <1>2, <1>3
<1>8. \A k \in 1 .. n + 1 : Offset(s, k) \in Nat
  BY <1>1, <1>6
<1>9. QED
  BY <1>5, <1>6, <1>7, <1>8

(* Where segment k of the edit is. *)
Within(s, k, f) == Offset(s, k) <= f /\ f < Offset(s, k) + s[k].count

(* Every frame of the edit is in a segment. *)
LEMMA Locate ==
  ASSUME NEW s \in Seq(Segment), NEW f \in Nat, f < Total(s)
  PROVE  \E k \in 1 .. Len(s) : Within(s, k, f)
<1> DEFINE n == Len(s)
           S == {k \in 0 .. n : Offset(s, k + 1) <= f}
<1>1. n \in Nat
  BY SegmentFacts
<1>2. SUFFICES ASSUME \A k \in 1 .. n : ~Within(s, k, f) PROVE FALSE
  OBVIOUS
<1>3. 0 \in S
  BY <1>1, OffsetFacts
<1>4. \A k \in 0 .. n - 1 : k \in S => k + 1 \in S
  <2> SUFFICES ASSUME NEW k \in 0 .. n - 1, k \in S PROVE k + 1 \in S
    OBVIOUS
  <2>1. k + 1 \in 1 .. n /\ k + 1 \in 0 .. n /\ k + 1 \in 1 .. n + 1 /\ k + 1 + 1 \in 1 .. n + 1
    BY <1>1
  <2>2. Offset(s, k + 1) <= f /\ ~Within(s, k + 1, f)
    BY <1>2, <2>1
  <2>3. Offset(s, k + 1 + 1) = Offset(s, k + 1) + s[k + 1].count
    BY <2>1, OffsetFacts
  <2>4. Offset(s, k + 1) \in Nat /\ Offset(s, k + 1 + 1) \in Nat
    BY <2>1, OffsetFacts
  <2>5. Offset(s, k + 1 + 1) <= f
    BY <2>2, <2>3, <2>4 DEF Within
  <2>6. QED
    BY <2>1, <2>5
<1>5. n \in S
  <2> HIDE DEF S, n
  <2>1. \A k \in 0 .. n : k \in S
    BY <1>1, <1>3, <1>4, SetInduction
  <2>2. QED
    BY <1>1, <2>1
<1>6. Offset(s, n + 1) <= f /\ Offset(s, n + 1) \in Nat
  BY <1>1, <1>5, OffsetFacts
<1>7. QED
  BY <1>6 DEF Total

(* A frame is in one segment, behind those before it and before those after. *)
LEMMA OneSegment ==
  ASSUME NEW s \in Seq(Segment), NEW k \in 1 .. Len(s), NEW f \in Nat, Within(s, k, f)
  PROVE  /\ \A j \in 1 .. Len(s) : j < k => Offset(s, j) + s[j].count <= Offset(s, k)
         /\ \A j \in 1 .. Len(s) : j > k => Offset(s, k) + s[k].count <= Offset(s, j)
         /\ \A j \in 1 .. Len(s) : Within(s, j, f) => j = k
<1> DEFINE n == Len(s)
<1>1. n \in Nat /\ \A j \in 1 .. n : s[j].count \in Nat /\ Offset(s, j) \in Nat
  BY SegmentFacts, OffsetFacts
<1>2. ASSUME NEW j \in 1 .. n, NEW i \in 1 .. n, j < i
      PROVE  Offset(s, j) + s[j].count <= Offset(s, i)
  <2>1. i \in 1 .. n + 1 /\ j + 1 \in 1 .. i
    BY <1>1, <1>2
  <2>2. Offset(s, j + 1) <= Offset(s, i)
    BY <2>1, OffsetFacts
  <2>3. Offset(s, j + 1) = Offset(s, j) + s[j].count
    BY OffsetFacts
  <2>4. QED
    BY <2>2, <2>3
<1>3. ASSUME NEW j \in 1 .. n, Within(s, j, f) PROVE j = k
  <2>1. CASE j < k
    BY <1>1, <1>2, <1>3, <2>1 DEF Within
  <2>2. CASE k < j
    BY <1>1, <1>2, <1>3, <2>2 DEF Within
  <2>3. QED
    BY <1>1, <2>1, <2>2
<1>4. QED
  BY <1>2, <1>3

-----------------------------------------------------------------------------
(* The seconds of the edit before a frame. *)

LEMMA MinOfTwo == \A a, b \in Int : Min({a, b}) = IF a <= b THEN a ELSE b
<1>1. SUFFICES ASSUME NEW a \in Int, NEW b \in Int PROVE Min({a, b}) = IF a <= b THEN a ELSE b
  OBVIOUS
<1> DEFINE m == IF a <= b THEN a ELSE b
<1>2. m \in {a, b} /\ \A y \in {a, b} : m <= y
  OBVIOUS
<1>3. \A x \in {a, b} : (\A y \in {a, b} : x <= y) => x = m
  OBVIOUS
<1> HIDE DEF m
<1>4. Min({a, b}) = m
  BY <1>2, <1>3 DEF Min
<1>5. QED
  BY <1>4 DEF m

LEMMA MaxOfTwo == \A a, b \in Int : Max({a, b}) = IF a >= b THEN a ELSE b
<1>1. SUFFICES ASSUME NEW a \in Int, NEW b \in Int PROVE Max({a, b}) = IF a >= b THEN a ELSE b
  OBVIOUS
<1> DEFINE m == IF a >= b THEN a ELSE b
<1>2. m \in {a, b} /\ \A y \in {a, b} : m >= y
  OBVIOUS
<1>3. \A x \in {a, b} : (\A y \in {a, b} : x >= y) => x = m
  OBVIOUS
<1> HIDE DEF m
<1>4. Max({a, b}) = m
  BY <1>2, <1>3 DEF Max
<1>5. QED
  BY <1>4 DEF m

(* The greatest number of a set is the one that bounds the others. *)
LEMMA MaxIs ==
  ASSUME NEW S \in SUBSET Int, NEW m \in S, \A y \in S : y <= m
  PROVE  Max(S) = m
<1>1. m \in S /\ \A y \in S : m >= y
  OBVIOUS
<1>2. \A x \in S : (\A y \in S : x >= y) => x = m
  OBVIOUS
<1>3. QED
  BY <1>1, <1>2 DEF Max

LEMMA MinIs ==
  ASSUME NEW S \in SUBSET Int, NEW m \in S, \A y \in S : m <= y
  PROVE  Min(S) = m
<1>1. \A x \in S : (\A y \in S : x <= y) => x = m
  OBVIOUS
<1>2. QED
  BY <1>1 DEF Min

(* Every segment is in the source. *)
Sound(s) ==
  /\ s \in Seq(Segment)
  /\ \A k \in 1 .. Len(s) : s[k].start + s[k].count < Len(Elapsed)

(* The source's clock runs forwards. *)
LEMMA ElapsedFacts ==
  /\ Len(Elapsed) \in Nat
  /\ \A k \in 1 .. Len(Elapsed) : Elapsed[k] \in Nat
  /\ \A k \in 1 .. Len(Elapsed) - 1 : Elapsed[k] < Elapsed[k + 1]
<1>1. Len(Elapsed) \in Nat /\ \A k \in 1 .. Len(Elapsed) : Elapsed[k] \in Nat
  BY ServerAssumption
<1>2. ASSUME NEW k \in 1 .. Len(Elapsed) - 1 PROVE Elapsed[k] < Elapsed[k + 1]
  <2>1. k + 1 \in 2 .. Len(Elapsed) /\ k + 1 - 1 = k
    BY <1>1
  <2>2. Elapsed[k + 1 - 1] < Elapsed[k + 1]
    BY <2>1, ServerAssumption
  <2>3. QED
    BY <2>1, <2>2
<1>3. QED
  BY <1>1, <1>2

(* How much of segment k is over before frame f, and the time that takes. *)
Played(s, f, k) == Max({0, Min({s[k].count, f - Offset(s, k)})})
Times(s, f) ==
  [k \in 1 .. Len(s) |-> Elapsed[s[k].start + Played(s, f, k) + 1] - Elapsed[s[k].start + 1]]

LEMMA EditTimeIs == \A s, f : EditTime(s, f) = Sums(Times(s, f))[Len(s)]
  BY DEF EditTime, Times, Played

(* A segment before the frame is over, one behind it has not begun. *)
LEMMA PlayedIs ==
  ASSUME NEW s \in Seq(Segment), NEW f \in Nat, NEW k \in 1 .. Len(s)
  PROVE  /\ Played(s, f, k) \in 0 .. s[k].count
         /\ f <= Offset(s, k) => Played(s, f, k) = 0
         /\ f >= Offset(s, k) + s[k].count => Played(s, f, k) = s[k].count
         /\ f >= Offset(s, k) /\ f <= Offset(s, k) + s[k].count => Played(s, f, k) = f - Offset(s, k)
<1> DEFINE o == Offset(s, k)
           n == s[k].count
           m == IF n <= f - o THEN n ELSE f - o
<1>1. o \in Nat /\ n \in Nat
  BY SegmentFacts, OffsetFacts
<1> HIDE DEF o, n
<1>2. m \in Int /\ Min({n, f - o}) = m
  BY <1>1, MinOfTwo
<1>3. Max({0, m}) = IF 0 >= m THEN 0 ELSE m
  BY <1>2, MaxOfTwo
<1>4. Played(s, f, k) = IF 0 >= m THEN 0 ELSE m
  BY <1>2, <1>3 DEF Played, o, n
<1>5. QED
  BY <1>1, <1>4 DEF o, n

(* Only the segment of a frame makes a difference between it and the next. *)
LEMMA TimesFacts ==
  ASSUME NEW s, Sound(s), NEW f \in Nat
  PROVE  Times(s, f) \in Seq(Int) /\ Len(Times(s, f)) = Len(s)
<1>1. Len(s) \in Nat
  BY SegmentFacts DEF Sound
<1>2. ASSUME NEW k \in 1 .. Len(s) PROVE Times(s, f)[k] \in Int
  <2>1. s[k].start \in Nat /\ s[k].count \in Nat /\ s[k].start + s[k].count < Len(Elapsed)
    BY SegmentFacts DEF Sound
  <2>2. Played(s, f, k) \in 0 .. s[k].count
    BY PlayedIs DEF Sound
  <2>3. s[k].start + Played(s, f, k) + 1 \in 1 .. Len(Elapsed) /\ s[k].start + 1 \in 1 .. Len(Elapsed)
    <3> DEFINE b == s[k].start
               t == s[k].count
               q == Played(s, f, k)
               l == Len(Elapsed)
    <3>1. b \in Nat /\ t \in Nat /\ l \in Nat /\ b + t < l /\ q \in 0 .. t
      BY <2>1, <2>2, ElapsedFacts
    <3> HIDE DEF b, t, q, l
    <3>2. b + q + 1 \in 1 .. l /\ b + 1 \in 1 .. l
      BY <3>1
    <3>3. QED
      BY <3>2 DEF b, t, q, l
  <2>4. Elapsed[s[k].start + Played(s, f, k) + 1] \in Nat /\ Elapsed[s[k].start + 1] \in Nat
    BY <2>3, ElapsedFacts
  <2>5. QED
    BY <2>4 DEF Times
<1>3. Times(s, f) = [k \in 1 .. Len(s) |-> Times(s, f)[k]]
  BY DEF Times
<1> HIDE DEF Times
<1>4. QED
  BY <1>1, <1>2, <1>3

(* A frame adds the time between its own beginning and the next frame's. *)
LEMMA EditTimeStep ==
  ASSUME NEW s, Sound(s), NEW f \in Nat, NEW k \in 1 .. Len(s), Within(s, k, f),
         NEW g, g = s[k].start + f - Offset(s, k)
  PROVE  /\ EditTime(s, f) \in Int /\ EditTime(s, f + 1) \in Int
         /\ EditTime(s, f + 1) - EditTime(s, f) = Elapsed[g + 2] - Elapsed[g + 1]
<1> DEFINE n == Len(s)
<1>1. s \in Seq(Segment) /\ n \in Nat /\ f + 1 \in Nat
  BY SegmentFacts DEF Sound
<1>2. /\ Times(s, f) \in Seq(Int) /\ Len(Times(s, f)) = n
      /\ Times(s, f + 1) \in Seq(Int) /\ Len(Times(s, f + 1)) = n
  BY <1>1, TimesFacts
<1>3. ASSUME NEW j \in 1 .. n, j # k PROVE Times(s, f + 1)[j] = Times(s, f)[j]
  <2>1. Offset(s, j) \in Nat /\ s[j].count \in Nat /\ Offset(s, k) \in Nat /\ s[k].count \in Nat
    BY <1>1, SegmentFacts, OffsetFacts
  <2>2. CASE j < k
    <3>1. Offset(s, j) + s[j].count <= f
      <4>1. Offset(s, j) + s[j].count <= Offset(s, k)
        BY <1>1, <2>2, OneSegment
      <4> DEFINE e == Offset(s, j) + s[j].count
                 o == Offset(s, k)
      <4>2. o <= f
        BY DEF Within
      <4>3. e \in Nat /\ o \in Nat /\ e <= o
        BY <2>1, <4>1
      <4> HIDE DEF e, o
      <4>4. e <= f
        BY <4>2, <4>3
      <4>5. QED
        BY <4>4 DEF e
    <3>2. f >= Offset(s, j) + s[j].count /\ f + 1 >= Offset(s, j) + s[j].count
      BY <2>1, <3>1
    <3>3. Played(s, f, j) = s[j].count /\ Played(s, f + 1, j) = s[j].count
      BY <1>1, <3>2, PlayedIs
    <3>4. QED
      BY <3>3 DEF Times
  <2>3. CASE j > k
    <3>1. f + 1 <= Offset(s, j)
      BY <1>1, <2>1, <2>3, OneSegment DEF Within
    <3>2. Played(s, f, j) = 0 /\ Played(s, f + 1, j) = 0
      BY <1>1, <2>1, <3>1, PlayedIs
    <3>3. QED
      BY <3>2 DEF Times
  <2>4. QED
    BY <1>3, <2>2, <2>3
<1>4. Times(s, f + 1)[k] - Times(s, f)[k] = Elapsed[g + 2] - Elapsed[g + 1]
  <2>1. /\ Offset(s, k) \in Nat /\ s[k].count \in Nat /\ s[k].start \in Nat
        /\ s[k].start + s[k].count < Len(Elapsed)
    BY <1>1, SegmentFacts, OffsetFacts DEF Sound
  <2>2. Played(s, f, k) = f - Offset(s, k) /\ Played(s, f + 1, k) = f + 1 - Offset(s, k)
    <3>1. /\ f >= Offset(s, k) /\ f <= Offset(s, k) + s[k].count
          /\ f + 1 >= Offset(s, k) /\ f + 1 <= Offset(s, k) + s[k].count
      BY <2>1 DEF Within
    <3>2. \A h \in Nat : h >= Offset(s, k) /\ h <= Offset(s, k) + s[k].count
                          => Played(s, h, k) = h - Offset(s, k)
      BY <1>1, PlayedIs
    <3>3. QED
      BY <1>1, <2>1, <3>1, <3>2
  <2> DEFINE o == Offset(s, k)
             b == s[k].start
             c == s[k].count
             l == Len(Elapsed)
  <2>3. /\ s[k].start + Played(s, f, k) + 1 = g + 1 /\ s[k].start + Played(s, f + 1, k) + 1 = g + 2
        /\ g + 1 \in 1 .. Len(Elapsed) /\ g + 2 \in 1 .. Len(Elapsed) /\ s[k].start + 1 \in 1 .. Len(Elapsed)
    <3>1. /\ f < o + c /\ o <= f /\ o \in Nat /\ b \in Nat /\ c \in Nat /\ l \in Nat /\ b + c < l
          /\ g = b + f - o
      BY <2>1, ElapsedFacts DEF Within
    <3> HIDE DEF o, b, c, l
    <3>2. /\ b + (f - o) + 1 = g + 1 /\ b + (f + 1 - o) + 1 = g + 2
          /\ g + 1 \in 1 .. l /\ g + 2 \in 1 .. l /\ b + 1 \in 1 .. l
      BY <3>1
    <3>3. QED
      BY <2>2, <3>2 DEF o, b, c, l
  <2>4. /\ Times(s, f)[k] = Elapsed[g + 1] - Elapsed[s[k].start + 1]
        /\ Times(s, f + 1)[k] = Elapsed[g + 2] - Elapsed[s[k].start + 1]
    BY <2>3 DEF Times
  <2>5. Elapsed[g + 1] \in Nat /\ Elapsed[g + 2] \in Nat /\ Elapsed[s[k].start + 1] \in Nat
    BY <2>3, ElapsedFacts
  <2>6. QED
    <3> DEFINE x == Elapsed[g + 1]
               y == Elapsed[g + 2]
               z == Elapsed[s[k].start + 1]
    <3>1. x \in Int /\ y \in Int /\ z \in Int
      BY <2>5
    <3> HIDE DEF x, y, z
    <3>2. (y - z) - (x - z) = y - x
      BY <3>1
    <3>3. QED
      BY <2>4, <3>2 DEF x, y, z
<1>5. Sums(Times(s, f + 1))[n] - Sums(Times(s, f))[n] = Times(s, f + 1)[k] - Times(s, f)[k]
  BY <1>1, <1>2, <1>3, SumsDiffer
<1>6. Sums(Times(s, f + 1))[n] \in Int /\ Sums(Times(s, f))[n] \in Int
  BY <1>1, <1>2, SumsDef
<1>7. QED
  BY <1>4, <1>5, <1>6, EditTimeIs

-----------------------------------------------------------------------------
(* The frames of the edit, and the picture each shows. *)

(* FlattenSeq appends one list after the other. *)
LEMMA FlattenIs ==
  ASSUME NEW T, NEW p \in Seq(Seq(T)), NEW n \in Nat, n > 0, Len(p) = n
  PROVE  \E F : /\ FlattenSeq(p) = F[n] /\ F[1] = p[1]
                /\ \A i \in 2 .. n : F[i] = F[i - 1] \o p[i]
<1> DEFINE IsFlat(F, m) == F[1] = p[1] /\ \A i \in 2 .. m : F[i] = F[i - 1] \o p[i]
           S == {m \in 0 .. n - 1 : \E F \in [1 .. m + 1 -> Seq(T)] : IsFlat(F, m + 1)}
<1>1. \A i \in 1 .. n : p[i] \in Seq(T)
  OBVIOUS
<1>2. 0 \in S
  <2> DEFINE z == [i \in 1 .. 0 + 1 |-> p[1]]
  <2>1. z \in [1 .. 0 + 1 -> Seq(T)] /\ IsFlat(z, 0 + 1)
    BY <1>1
  <2>2. 0 \in 0 .. n - 1
    OBVIOUS
  <2> HIDE DEF z, IsFlat
  <2>3. QED
    BY <2>1, <2>2
<1>3. \A m \in 0 .. n - 1 - 1 : m \in S => m + 1 \in S
  <2> SUFFICES ASSUME NEW m \in 0 .. n - 1 - 1, m \in S PROVE m + 1 \in S
    OBVIOUS
  <2>1. PICK F \in [1 .. m + 1 -> Seq(T)] : IsFlat(F, m + 1)
    OBVIOUS
  <2> DEFINE l == m + 1 + 1
             x == F[m + 1] \o p[l]
             G == [i \in 1 .. l |-> IF i = l THEN x ELSE F[i]]
  <2>2. m \in Nat /\ l \in 2 .. n /\ l \in Nat /\ l - 1 = m + 1 /\ m + 1 \in 0 .. n - 1
    OBVIOUS
  <2>3. x \in Seq(T)
    BY <1>1, <2>2
  <2> HIDE DEF x
  <2>4. G \in [1 .. l -> Seq(T)]
    BY <2>2, <2>3
  <2>5. G[1] = p[1]
    BY <2>1, <2>2
  <2>6. ASSUME NEW i \in 2 .. l PROVE G[i] = G[i - 1] \o p[i]
    <3>1. CASE i = l
      <4>1. G[i] = x /\ G[i - 1] = F[m + 1]
        BY <3>1, <2>2
      <4>2. QED
        BY <3>1, <4>1 DEF x
    <3>2. CASE i # l
      <4>1. i \in 2 .. m + 1 /\ i - 1 \in 1 .. m + 1 /\ i - 1 # l
        BY <3>2, <2>2
      <4>2. G[i] = F[i] /\ G[i - 1] = F[i - 1]
        BY <3>2, <4>1, <2>2
      <4>3. QED
        BY <4>1, <4>2, <2>1
    <3>3. QED
      BY <3>1, <3>2
  <2>7. IsFlat(G, l)
    BY <2>5, <2>6
  <2> HIDE DEF G, IsFlat
  <2>8. QED
    BY <2>2, <2>4, <2>7
<1>4. n - 1 \in S
  <2> HIDE DEF S
  <2>1. n - 1 \in Nat
    OBVIOUS
  <2>2. \A k \in 0 .. n - 1 : k \in S
    BY <2>1, <1>2, <1>3, SetInduction
  <2>3. QED
    BY <2>1, <2>2
<1>5. PICK F \in [1 .. n -> Seq(T)] : IsFlat(F, n)
  <2>1. n - 1 + 1 = n
    OBVIOUS
  <2>2. QED
    BY <1>4, <2>1
<1> DEFINE Flat(G) == G = [i \in 1 .. n |-> IF i = 1 THEN p[i] ELSE G[i - 1] \o p[i]]
<1>6. Flat(F)
  <2>1. ASSUME NEW i \in 1 .. n PROVE F[i] = IF i = 1 THEN p[i] ELSE F[i - 1] \o p[i]
    <3>1. CASE i = 1
      BY <1>5, <3>1
    <3>2. CASE i # 1
      <4>1. i \in 2 .. n
        BY <3>2
      <4>2. QED
        BY <1>5, <3>2, <4>1
    <3>3. QED
      BY <3>1, <3>2
  <2>2. QED
    BY <2>1
<1> DEFINE H == CHOOSE G : Flat(G)
<1>7. Flat(H)
  BY <1>6
<1>8. FlattenSeq(p) = H[n]
  BY DEF FlattenSeq
<1> HIDE DEF H
<1>9. H[1] = p[1]
  BY <1>7
<1>10. ASSUME NEW i \in 2 .. n PROVE H[i] = H[i - 1] \o p[i]
  <2>1. i \in 1 .. n /\ i # 1
    OBVIOUS
  <2>2. QED
    BY <2>1, <1>7
<1>11. QED
  BY <1>8, <1>9, <1>10
(* The list without its last list, and that list behind it. *)
LEMMA Joined ==
  ASSUME NEW T, NEW a \in Seq(T), NEW b \in Seq(T)
  PROVE  /\ a \o b \in Seq(T) /\ Len(a \o b) = Len(a) + Len(b)
         /\ \A i \in 1 .. Len(a) : (a \o b)[i] = a[i]
         /\ \A i \in 1 .. Len(b) : (a \o b)[Len(a) + i] = b[i]
  OBVIOUS

(* Frame i of segment k of the edit. *)
Item(s, k, i) == [source |-> s[k].start + i - 1, masked |-> s[k].masked, head |-> s[k].start]

(* Frame f of the edit is the item of the segment it is in. *)
LEMMA FramesFacts ==
  ASSUME NEW c, c.segments \in Seq(Segment), Len(c.segments) > 0
  PROVE  /\ Len(Frames(c)) = Total(c.segments)
         /\ \A k \in 1 .. Len(c.segments) : \A i \in 1 .. c.segments[k].count :
              Frames(c)[Offset(c.segments, k) + i] = Item(c.segments, k, i)
<1> DEFINE s == c.segments
           n == Len(s)
           T == [source : Int, masked : BOOLEAN, head : Int]
           p == [k \in 1 .. n |-> [i \in 1 .. s[k].count |-> Item(s, k, i)]]
<1>1. /\ n \in Nat /\ n > 0 /\ n - 1 \in Nat /\ n - 1 + 1 = n
      /\ \A k \in 1 .. n : s[k].start \in Nat /\ s[k].masked \in BOOLEAN /\ s[k].count \in Nat
  BY SegmentFacts
<1>2. Frames(c) = FlattenSeq(p)
  BY DEF Frames, Item
<1>3. ASSUME NEW k \in 1 .. n
      PROVE  /\ p[k] \in Seq(T) /\ Len(p[k]) = s[k].count
             /\ \A i \in 1 .. s[k].count : p[k][i] = Item(s, k, i)
  <2>1. \A i \in 1 .. s[k].count : Item(s, k, i) \in T
    BY <1>1 DEF Item
  <2> DEFINE m == s[k].count
  <2>2. m \in Nat /\ p[k] = [i \in 1 .. m |-> Item(s, k, i)]
    BY <1>1
  <2> HIDE DEF T, p, Item, m
  <2>3. \A i \in 1 .. m : Item(s, k, i) \in T
    BY <2>1 DEF m
  <2>4. p[k] \in Seq(T) /\ Len(p[k]) = m /\ \A i \in 1 .. m : p[k][i] = Item(s, k, i)
    BY <2>2, <2>3
  <2>5. QED
    BY <2>4 DEF m
<1>4. p \in Seq(Seq(T)) /\ Len(p) = n
  <2>1. p = [k \in 1 .. n |-> p[k]]
    OBVIOUS
  <2> HIDE DEF T, p, n
  <2>2. QED
    BY <1>1, <1>3, <2>1
<1>5. /\ Offset(s, 1) = 0
      /\ \A k \in 1 .. n : Offset(s, k + 1) = Offset(s, k) + s[k].count
      /\ \A k \in 1 .. n + 1 : Offset(s, k) \in Nat
      /\ \A k \in 1 .. n + 1 : \A i \in 1 .. k : Offset(s, i) <= Offset(s, k)
  BY OffsetFacts
<1>6. Total(s) = Offset(s, n + 1)
  BY DEF Total
<1> HIDE DEF s, n, T, p
<1>7. PICK F : /\ FlattenSeq(p) = F[n] /\ F[1] = p[1]
               /\ \A k \in 2 .. n : F[k] = F[k - 1] \o p[k]
  BY <1>1, <1>4, FlattenIs
<1> DEFINE Flat(m) == /\ F[m] \in Seq(T) /\ Len(F[m]) = Offset(s, m + 1)
                      /\ \A k \in 1 .. m : \A i \in 1 .. s[k].count :
                           F[m][Offset(s, k) + i] = Item(s, k, i)
           S == {m \in 0 .. n - 1 : Flat(m + 1)}
<1>8. 0 \in S
  <2>1. Flat(1)
    <3>1. F[1] \in Seq(T) /\ Len(F[1]) = s[1].count /\ Offset(s, 1 + 1) = s[1].count
      BY <1>1, <1>3, <1>5, <1>7
    <3>2. \A i \in 1 .. s[1].count : F[1][Offset(s, 1) + i] = Item(s, 1, i)
      BY <1>1, <1>3, <1>5, <1>7
    <3>3. QED
      BY <3>1, <3>2
  <2>2. 0 \in 0 .. n - 1 /\ 0 + 1 = 1
    BY <1>1
  <2> HIDE DEF Flat
  <2>3. QED
    BY <2>1, <2>2
<1>9. \A m \in 0 .. n - 1 - 1 : m \in S => m + 1 \in S
  <2> SUFFICES ASSUME NEW m \in 0 .. n - 1 - 1, m \in S PROVE m + 1 \in S
    OBVIOUS
  <2> DEFINE q == m + 1
             l == m + 1 + 1
  <2>1. Flat(q)
    OBVIOUS
  <2>2. m + 1 \in 0 .. n - 1
    BY <1>1
  <2>3. q \in 1 .. n /\ l \in 2 .. n /\ l \in 1 .. n /\ l - 1 = q /\ l = q + 1
    BY <1>1
  <2>4. S = {i \in 0 .. n - 1 : Flat(i + 1)} /\ m + 1 + 1 = l
    OBVIOUS
  <2> HIDE DEF q, l, S
  <2>5. F[l] = F[q] \o p[l]
    BY <1>7, <2>3
  <2>6. F[q] \in Seq(T) /\ Len(F[q]) = Offset(s, l) /\ p[l] \in Seq(T) /\ Len(p[l]) = s[l].count
    BY <1>3, <2>1, <2>3
  <2>7. /\ F[l] \in Seq(T) /\ Len(F[l]) = Offset(s, l) + s[l].count
        /\ \A i \in 1 .. Offset(s, l) : F[l][i] = F[q][i]
        /\ \A i \in 1 .. s[l].count : F[l][Offset(s, l) + i] = p[l][i]
    <3> DEFINE a == F[q]
               b == p[l]
    <3>1. a \in Seq(T) /\ b \in Seq(T)
      BY <2>6
    <3> HIDE DEF a, b
    <3>2. /\ a \o b \in Seq(T) /\ Len(a \o b) = Len(a) + Len(b)
          /\ \A i \in 1 .. Len(a) : (a \o b)[i] = a[i]
          /\ \A i \in 1 .. Len(b) : (a \o b)[Len(a) + i] = b[i]
      BY <3>1, Joined
    <3>3. F[l] = a \o b /\ Len(a) = Offset(s, l) /\ Len(b) = s[l].count
      BY <2>5, <2>6 DEF a, b
    <3>4. QED
      BY <3>2, <3>3 DEF a, b
  <2>a. \A k \in 1 .. l : k # l => k \in 1 .. q /\ k \in 1 .. n /\ k + 1 \in 1 .. l /\ l \in 1 .. n + 1
    <3>1. n \in Nat /\ q \in Nat /\ 1 <= q /\ q <= n /\ l = q + 1 /\ l <= n
      BY <1>1, <2>3
    <3>2. QED
      BY <3>1
  <2>8. ASSUME NEW k \in 1 .. l, NEW i \in 1 .. s[k].count
        PROVE  F[l][Offset(s, k) + i] = Item(s, k, i)
    <3>1. CASE k = l
      BY <3>1, <2>3, <2>7, <1>3
    <3>2. CASE k # l
      <4>1. k \in 1 .. q /\ k \in 1 .. n /\ k + 1 \in 1 .. l /\ l \in 1 .. n + 1
        BY <3>2, <2>a
      <4>2. Offset(s, k + 1) <= Offset(s, l) /\ Offset(s, k + 1) = Offset(s, k) + s[k].count
        BY <4>1, <1>5
      <4>3. Offset(s, k) \in Nat /\ Offset(s, l) \in Nat /\ s[k].count \in Nat
        BY <4>1, <1>1, <1>5
      <4>4. Offset(s, k) + i \in 1 .. Offset(s, l)
        <5> DEFINE x == Offset(s, k)
                   y == Offset(s, l)
                   t == s[k].count
        <5>1. x \in Nat /\ y \in Nat /\ t \in Nat /\ x + t <= y /\ i \in 1 .. t
          BY <4>2, <4>3
        <5> HIDE DEF x, y, t
        <5>2. x + i \in 1 .. y
          BY <5>1
        <5>3. QED
          BY <5>2 DEF x, y, t
      <4>5. F[q][Offset(s, k) + i] = Item(s, k, i)
        BY <2>1, <4>1
      <4>6. QED
        BY <2>7, <4>4, <4>5
    <3>3. QED
      BY <3>1, <3>2
  <2>9. Flat(l)
    BY <1>5, <2>3, <2>7, <2>8
  <2> HIDE DEF Flat
  <2>10. QED
    BY <2>2, <2>4, <2>9
<1>10. n - 1 \in S
  <2> HIDE DEF S
  <2>1. \A k \in 0 .. n - 1 : k \in S
    BY <1>1, <1>8, <1>9, SetInduction
  <2>2. QED
    BY <1>1, <2>1
<1>11. Flat(n)
  BY <1>1, <1>10
<1>12. QED
  BY <1>2, <1>6, <1>7, <1>11 DEF s, n

(* A set of numbers with a bound has a greatest member. *)
LEMMA Greatest ==
  ASSUME NEW S \in SUBSET Int, S # {}, NEW b \in Int, \A x \in S : x <= b
  PROVE  Max(S) \in S /\ \A y \in S : y <= Max(S)
<1> DEFINE T == {b - x : x \in S}
<1>1. T \in SUBSET Nat /\ T # {}
  <2>1. \A x \in S : b - x \in Nat
    OBVIOUS
  <2>2. PICK x \in S : TRUE
    OBVIOUS
  <2>3. b - x \in T
    OBVIOUS
  <2>4. QED
    BY <2>1, <2>3
<1>2. PICK t \in T : \A y \in T : t <= y
  <2> HIDE DEF T
  <2>1. QED
    BY <1>1, Least
<1>3. PICK m \in S : t = b - m
  BY <1>2
<1>4. ASSUME NEW y \in S PROVE y <= m
  <2>1. b - y \in T
    OBVIOUS
  <2>2. b - m <= b - y
    BY <1>2, <1>3, <2>1
  <2>3. QED
    BY <2>2
<1>5. Max(S) = m
  BY <1>4, MaxIs
<1>6. QED
  BY <1>4, <1>5

(* The segment a frame is in is the one SourceFrame looks for. *)
LEMMA SegmentAt ==
  ASSUME NEW s \in Seq(Segment), NEW f \in Nat, NEW k \in 1 .. Len(s), Within(s, k, f)
  PROVE  SourceFrame(s, f) =
           LET held == {j \in 1 .. k - 1 : ~s[j].masked}
           IN IF ~s[k].masked THEN s[k].start + f - Offset(s, k)
              ELSE IF held = {} THEN s[k].start
              ELSE s[Max(held)].start + s[Max(held)].count - 1
<1> DEFINE At(j) == Offset(s, j) <= f /\ f < Offset(s, j) + s[j].count
           K == CHOOSE j \in 1 .. Len(s) : At(j)
<1>1. At(k) /\ \A j \in 1 .. Len(s) : At(j) => j = k
  BY OneSegment DEF Within
<1>2. K = k
  <2> HIDE DEF At
  <2>1. QED
    BY <1>1
<1>3. SourceFrame(s, f) =
        IF ~s[K].masked THEN s[K].start + f - Offset(s, K)
        ELSE IF {j \in 1 .. K - 1 : ~s[j].masked} = {} THEN s[K].start
        ELSE s[Max({j \in 1 .. K - 1 : ~s[j].masked})].start
               + s[Max({j \in 1 .. K - 1 : ~s[j].masked})].count - 1
  BY Zenon DEF SourceFrame
<1> HIDE DEF K
<1>4. QED
  BY <1>2, <1>3

(* Walking the segments back from a mask finds the last picture before it. *)
LEMMA PictureIs ==
  ASSUME NEW c, Sound(c.segments), Len(c.segments) > 0, NEW f \in Nat, f < Total(c.segments)
  PROVE  /\ SourceFrame(c.segments, f) = Picture(Frames(c), f)
         /\ SourceFrame(c.segments, f) \in 0 .. Len(Elapsed) - 2
<1> DEFINE s == c.segments
           n == Len(s)
           items == Frames(c)
           visible == {x \in 1 .. f + 1 : ~items[x].masked}
<1>1. s \in Seq(Segment) /\ n \in Nat
  BY SegmentFacts DEF Sound
<1>2. \A j \in 1 .. n : /\ s[j].start \in Nat /\ s[j].masked \in BOOLEAN /\ s[j].count \in Nat
                        /\ s[j].count > 0 /\ Offset(s, j) \in Nat
                        /\ s[j].start + s[j].count < Len(Elapsed)
  BY <1>1, SegmentFacts, OffsetFacts DEF Sound
<1>3. \A j \in 1 .. n : \A i \in 1 .. s[j].count : items[Offset(s, j) + i] = Item(s, j, i)
  BY <1>1, FramesFacts
<1>4. PICK k \in 1 .. n : Within(s, k, f)
  BY <1>1, Locate
<1>5. Picture(items, f) = IF visible = {} THEN items[f + 1].head ELSE items[Max(visible)].source
  BY DEF Picture
<1>6. /\ \A j \in 1 .. n : j < k => Offset(s, j) + s[j].count <= Offset(s, k)
      /\ \A j \in 1 .. n : j > k => Offset(s, k) + s[k].count <= Offset(s, j)
  BY <1>1, <1>4, OneSegment
<1> HIDE DEF s, n, items
<1>7. /\ f + 1 = Offset(s, k) + (f - Offset(s, k) + 1)
      /\ f - Offset(s, k) + 1 \in 1 .. s[k].count
  BY <1>2, <1>4 DEF Within
<1>8. items[f + 1] = Item(s, k, f - Offset(s, k) + 1)
  BY <1>3, <1>7
<1>9. CASE ~s[k].masked
  <2>1. SourceFrame(s, f) = s[k].start + f - Offset(s, k)
    BY <1>1, <1>4, <1>9, SegmentAt DEF n
  <2>2. f + 1 \in visible
    BY <1>8, <1>9 DEF Item
  <2>3. Max(visible) = f + 1
    <3>1. visible \in SUBSET Int /\ \A y \in visible : y <= f + 1
      OBVIOUS
    <3> HIDE DEF visible
    <3>2. QED
      BY <2>2, <3>1, MaxIs
  <2>4. items[f + 1].source = s[k].start + (f - Offset(s, k) + 1) - 1
    BY <1>8 DEF Item
  <2>5. Picture(items, f) = items[f + 1].source
    BY <1>5, <2>2, <2>3
  <2>6. SourceFrame(s, f) = Picture(items, f) /\ SourceFrame(s, f) \in 0 .. Len(Elapsed) - 2
    <3> DEFINE o == Offset(s, k)
               b == s[k].start
               t == s[k].count
               l == Len(Elapsed)
    <3>1. /\ o \in Nat /\ b \in Nat /\ t \in Nat /\ l \in Nat /\ b + t < l /\ o <= f /\ f < o + t
      BY <1>2, <1>4, ElapsedFacts DEF Within
    <3>2. Picture(items, f) = b + (f - o + 1) - 1 /\ SourceFrame(s, f) = b + f - o
      BY <2>1, <2>4, <2>5
    <3> HIDE DEF o, b, t, l
    <3>3. b + (f - o + 1) - 1 = b + f - o /\ b + f - o \in 0 .. l - 2
      BY <3>1
    <3>4. QED
      BY <3>2, <3>3 DEF l
  <2>7. QED
    BY <2>6 DEF s, items
(* Where a frame up to this one comes from. *)
<1>10. ASSUME NEW x \in 1 .. f + 1
       PROVE  \E j \in 1 .. k : /\ items[x].masked = s[j].masked
                                /\ x <= Offset(s, j) + s[j].count
  <2>1. x - 1 \in Nat /\ x - 1 <= f /\ x - 1 < Total(s)
    <3>1. Total(s) \in Nat
      BY <1>1, OffsetFacts DEF Total, n
    <3>2. f < Total(s)
      BY DEF s
    <3>3. QED
      BY <3>1, <3>2
  <2>2. PICK j \in 1 .. n : Within(s, j, x - 1)
    BY <1>1, <2>1, Locate DEF n
  <2>3. /\ x = Offset(s, j) + (x - Offset(s, j)) /\ x - Offset(s, j) \in 1 .. s[j].count
        /\ x <= Offset(s, j) + s[j].count
    <3>1. /\ Offset(s, j) \in Nat /\ s[j].count \in Nat
          /\ Offset(s, j) <= x - 1 /\ x - 1 < Offset(s, j) + s[j].count
      BY <1>2, <2>2 DEF Within
    <3>2. QED
      <4> DEFINE o == Offset(s, j)
                 t == s[j].count
      <4>1. o \in Nat /\ t \in Nat /\ x \in Int /\ o <= x - 1 /\ x - 1 < o + t
        BY <3>1
      <4> HIDE DEF o, t
      <4>2. x = o + (x - o) /\ x - o \in 1 .. t /\ x <= o + t
        BY <4>1
      <4>3. QED
        BY <4>2 DEF o, t
  <2>4. items[x] = Item(s, j, x - Offset(s, j))
    BY <1>3, <2>3
  <2>5. j <= k
    BY <1>2, <1>4, <1>6, <2>1, <2>2 DEF Within
  <2>6. QED
    BY <1>1, <2>3, <2>4, <2>5 DEF Item
<1> DEFINE held == {j \in 1 .. k - 1 : ~s[j].masked}
<1>11. CASE s[k].masked /\ held = {}
  <2>1. SourceFrame(s, f) = s[k].start
    BY <1>1, <1>4, <1>11, SegmentAt DEF n
  <2>2. ASSUME NEW x \in 1 .. f + 1 PROVE items[x].masked
    <3>1. PICK j \in 1 .. k : items[x].masked = s[j].masked
      BY <1>10
    <3>2. s[j].masked
      BY <1>1, <1>11
    <3>3. QED
      BY <3>1, <3>2
  <2>3. items[f + 1].head = s[k].start
    BY <1>8 DEF Item
  <2>4. Picture(items, f) = s[k].start
    BY <1>5, <2>2, <2>3
  <2>5. s[k].start \in 0 .. Len(Elapsed) - 2
    <3>1. s[k].start \in Nat /\ s[k].count \in Nat /\ s[k].count > 0 /\ s[k].start + s[k].count < Len(Elapsed)
      BY <1>2
    <3>2. QED
      BY <3>1, ElapsedFacts
  <2>6. QED
    BY <2>1, <2>4, <2>5 DEF s, items
<1>12. CASE s[k].masked /\ held # {}
  <2> DEFINE m == Max(held)
             M == Offset(s, m) + s[m].count
  <2>1. SourceFrame(s, f) = s[m].start + s[m].count - 1
    BY <1>1, <1>4, <1>12, SegmentAt DEF n
  <2>2. m \in held /\ \A j \in held : j <= m
    <3>1. held \in SUBSET Int /\ k - 1 \in Int /\ \A j \in held : j <= k - 1
      OBVIOUS
    <3> HIDE DEF held
    <3>2. QED
      BY <3>1, <1>12, Greatest
  <2> HIDE DEF m
  <2>3. m \in 1 .. k - 1 /\ ~s[m].masked /\ m \in 1 .. n /\ m < k
    BY <1>1, <2>2
  <2>4. M \in 1 .. f + 1 /\ items[M] = Item(s, m, s[m].count)
    <3>1. M <= Offset(s, k)
      BY <1>6, <2>3
    <3>2. s[m].count \in 1 .. s[m].count /\ Offset(s, m) \in Nat /\ s[m].count \in Nat /\ s[m].count > 0
      BY <1>2, <2>3
    <3>3. Offset(s, k) <= f /\ Offset(s, k) \in Nat
      BY <1>2, <1>4 DEF Within
    <3>4. M \in 1 .. f + 1
      <4> DEFINE o == Offset(s, m)
                 t == s[m].count
                 q == Offset(s, k)
      <4>1. o \in Nat /\ t \in Nat /\ q \in Nat /\ f \in Nat /\ t > 0 /\ o + t <= q /\ q <= f
        BY <3>1, <3>2, <3>3
      <4> HIDE DEF o, t, q
      <4>2. o + t \in 1 .. f + 1
        BY <4>1
      <4>3. QED
        BY <4>2 DEF o, t, q
    <3>5. QED
      BY <1>3, <2>3, <3>2, <3>4
  <2>5. M \in visible
    BY <2>3, <2>4 DEF Item
  <2>6. ASSUME NEW x \in visible PROVE x <= M
    <3>1. PICK j \in 1 .. k : items[x].masked = s[j].masked /\ x <= Offset(s, j) + s[j].count
      BY <1>10
    <3>2. j \in held
      BY <1>12, <3>1
    <3>3. j <= m /\ j \in 1 .. n
      BY <1>1, <2>2, <3>2
    <3>4. Offset(s, j) + s[j].count <= M
      <4>1. CASE j = m
        BY <4>1, <1>2, <3>3
      <4>2. CASE j < m
        <5>1. Within(s, m, Offset(s, m)) /\ Offset(s, m) \in Nat
          BY <1>2, <2>3 DEF Within
        <5>2. Offset(s, j) + s[j].count <= Offset(s, m)
          BY <1>1, <2>3, <3>3, <4>2, <5>1, OneSegment DEF n
        <5>3. /\ Offset(s, j) \in Nat /\ s[j].count \in Nat /\ Offset(s, m) \in Nat
              /\ s[m].count \in Nat
          BY <1>2, <2>3, <3>3
        <5>4. QED
          <6> DEFINE e == Offset(s, j) + s[j].count
                     o == Offset(s, m)
                     t == s[m].count
          <6>1. e \in Nat /\ o \in Nat /\ t \in Nat /\ e <= o
            BY <5>2, <5>3
          <6> HIDE DEF e, o, t
          <6>2. e <= o + t
            BY <6>1
          <6>3. QED
            BY <6>2 DEF e, o, t
      <4>3. j = m \/ j < m
        BY <2>3, <3>3
      <4>4. QED
        BY <4>1, <4>2, <4>3
    <3>5. Offset(s, j) \in Nat /\ s[j].count \in Nat /\ M \in Nat /\ x \in Nat
      <4>1. Offset(s, m) \in Nat /\ s[m].count \in Nat
        BY <1>2, <2>3
      <4>2. M \in Nat
        BY <4>1
      <4>3. Offset(s, j) \in Nat /\ s[j].count \in Nat
        BY <1>2, <3>3
      <4>4. x \in Nat
        BY <2>6
      <4>5. QED
        BY <4>2, <4>3, <4>4
    <3>6. QED
      <4> DEFINE e == Offset(s, j) + s[j].count
      <4>1. e \in Nat /\ M \in Nat /\ x \in Nat /\ x <= e /\ e <= M
        BY <3>1, <3>4, <3>5
      <4> HIDE DEF e, M
      <4>2. x <= M
        BY <4>1
      <4>3. QED
        BY <4>2 DEF M
  <2>7. Max(visible) = M
    <3>1. visible \in SUBSET Int
      OBVIOUS
    <3> HIDE DEF visible, M
    <3>2. QED
      BY <2>5, <2>6, <3>1, MaxIs
  <2>8. Picture(items, f) = s[m].start + s[m].count - 1
    BY <1>5, <2>4, <2>5, <2>7 DEF Item
  <2>9. s[m].start + s[m].count - 1 \in 0 .. Len(Elapsed) - 2
    <3>1. s[m].start \in Nat /\ s[m].count \in Nat /\ s[m].count > 0 /\ s[m].start + s[m].count < Len(Elapsed)
      BY <1>2, <2>3
    <3>2. QED
      <4> DEFINE b == s[m].start
                 t == s[m].count
                 l == Len(Elapsed)
      <4>1. b \in Nat /\ t \in Nat /\ l \in Nat /\ t > 0 /\ b + t < l
        BY <3>1, ElapsedFacts
      <4> HIDE DEF b, t, l
      <4>2. b + t - 1 \in 0 .. l - 2
        BY <4>1
      <4>3. QED
        BY <4>2 DEF b, t, l
  <2>10. QED
    BY <2>1, <2>8, <2>9 DEF s, items
<1>13. QED
  BY <1>2, <1>9, <1>11, <1>12

-----------------------------------------------------------------------------
(* What can be served, and when its frames begin. *)

LEMMA ProductPositive == \A a, b \in Nat : a > 0 /\ b > 0 => a * b \in Nat /\ a * b > 0
  OBVIOUS

LEMMA Distributes == \A a, x, y \in Int : a * (x - y) = a * x - a * y
  OBVIOUS

(* What can be served has a rate. *)
LEMMA ConfigFacts ==
  ASSUME NEW c \in Configs
  PROVE  /\ Sound(c.segments)
         /\ c.first \in Nat /\ c.last \in Nat /\ c.custom \in Nat /\ c.phases \in Nat /\ c.phases > 0
         /\ c.preserve \in BOOLEAN
         /\ SourcePeriod(c) \in Nat /\ SourcePeriod(c) > 0 /\ NativePeriod \in Nat /\ NativePeriod > 0
         /\ Step(c) \in Nat /\ Step(c) > 0
         /\ OutputPeriod(c) \in Nat /\ OutputPeriod(c) > 0
<1>1. c \in Config /\ NativePeriod \in Nat /\ NativePeriod > 0 /\ (c.convert => c.custom > 0)
  BY ServerAssumption
<1>2. /\ c.segments \in Seq(Segment) /\ c.first \in Nat /\ c.last \in Nat /\ c.custom \in Nat
      /\ c.phases \in Nat /\ c.phases > 0 /\ c.preserve \in BOOLEAN /\ c.convert \in BOOLEAN
      /\ c.step \in Nat /\ c.step > 0
  BY <1>1 DEF Config
<1>3. Sound(c.segments)
  BY <1>2, ServerAssumption DEF Sound
<1>4. SourcePeriod(c) \in Nat /\ SourcePeriod(c) > 0
  BY <1>1, <1>2 DEF SourcePeriod
<1>5. Step(c) \in Nat /\ Step(c) > 0
  BY <1>2 DEF Step
<1>6. OutputPeriod(c) \in Nat /\ OutputPeriod(c) > 0
  <2> DEFINE x == IF c.convert THEN c.custom ELSE SourcePeriod(c) * Step(c)
  <2>1. x \in Nat /\ x > 0
    BY <1>1, <1>2, <1>4, <1>5, ProductPositive
  <2>2. OutputPeriod(c) = NativePeriod * x
    BY DEF OutputPeriod
  <2> HIDE DEF x
  <2>3. QED
    BY <1>1, <2>1, <2>2, ProductPositive
<1>7. QED
  BY <1>1, <1>2, <1>3, <1>4, <1>5, <1>6

(* The time before a frame, in units of SourcePeriod. *)
Clock(c, f) == IF c.preserve THEN EditTime(c.segments, f) ELSE NativePeriod * f

LEMMA ClockIsInt ==
  ASSUME NEW c \in Configs, NEW f \in Nat
  PROVE  Clock(c, f) \in Int
<1> DEFINE s == c.segments
<1>1. Sound(s) /\ NativePeriod \in Nat /\ Len(s) \in Nat
  BY ConfigFacts, SegmentFacts DEF Sound
<1>2. Times(s, f) \in Seq(Int) /\ Len(Times(s, f)) = Len(s)
  BY <1>1, TimesFacts
<1>3. Sums(Times(s, f))[Len(s)] \in Int
  BY <1>1, <1>2, SumsDef
<1>4. EditTime(s, f) \in Int
  BY <1>3, EditTimeIs
<1>5. NativePeriod * f \in Int
  BY <1>1
<1>6. QED
  BY <1>4, <1>5 DEF Clock

(* A frame stays until the clock shows the next. *)
LEMMA StaysIs ==
  ASSUME NEW c \in Configs, NEW f \in Nat, f < Total(c.segments), Len(c.segments) > 0
  PROVE  /\ Stays(c, f) = SourcePeriod(c) * (Clock(c, f + 1) - Clock(c, f))
         /\ Stays(c, f) \in Nat /\ Stays(c, f) > 0
<1> DEFINE s == c.segments
<1>1. Sound(s) /\ SourcePeriod(c) \in Nat /\ SourcePeriod(c) > 0 /\ NativePeriod \in Nat /\ NativePeriod > 0
  BY ConfigFacts
<1>2. SUFFICES \E x \in Nat : /\ x > 0 /\ Stays(c, f) = SourcePeriod(c) * x
                              /\ Clock(c, f + 1) - Clock(c, f) = x
  BY <1>1, ProductPositive
<1>3. CASE c.preserve
  <2>1. s \in Seq(Segment)
    BY <1>1 DEF Sound
  <2>2. PICK k \in 1 .. Len(s) : Within(s, k, f)
    BY <2>1, Locate
  <2>3. /\ s[k].start \in Nat /\ s[k].count \in Nat /\ Offset(s, k) \in Nat
        /\ s[k].start + s[k].count < Len(Elapsed)
        /\ Offset(s, k) <= f /\ f < Offset(s, k) + s[k].count
    <3>1. s[k].start \in Nat /\ s[k].count \in Nat
      BY <2>1, SegmentFacts
    <3>2. Offset(s, k) \in Nat
      BY <2>1, OffsetFacts
    <3>3. s[k].start + s[k].count < Len(Elapsed)
      BY <1>1 DEF Sound
    <3>4. QED
      BY <2>2, <3>1, <3>2, <3>3 DEF Within
  <2> DEFINE i == f - Offset(s, k) + 1
             g == s[k].start + f - Offset(s, k)
  <2>4. /\ i \in 1 .. s[k].count /\ f + 1 = Offset(s, k) + i /\ g = s[k].start + i - 1 /\ g \in Nat
        /\ g + 1 \in 1 .. Len(Elapsed) - 1 /\ g + 1 + 1 = g + 2 /\ g + 2 \in 1 .. Len(Elapsed)
        /\ g + 1 \in 1 .. Len(Elapsed)
    <3> DEFINE o == Offset(s, k)
               b == s[k].start
               t == s[k].count
               l == Len(Elapsed)
    <3>1. /\ o \in Nat /\ b \in Nat /\ t \in Nat /\ l \in Nat /\ b + t < l /\ o <= f /\ f < o + t
          /\ i = f - o + 1 /\ g = b + f - o
      BY <2>3, ElapsedFacts
    <3> HIDE DEF o, b, t, l, i, g
    <3>2. /\ i \in 1 .. t /\ f + 1 = o + i /\ g = b + i - 1 /\ g \in Nat
          /\ g + 1 \in 1 .. l - 1 /\ g + 1 + 1 = g + 2 /\ g + 2 \in 1 .. l /\ g + 1 \in 1 .. l
      BY <3>1
    <3>3. QED
      BY <3>2 DEF o, b, t, l
  <2> HIDE DEF i
  <2>5. Frames(c)[f + 1].source = g
    <3>1. Frames(c)[f + 1] = Item(s, k, i)
      BY <2>1, <2>4, FramesFacts
    <3>2. QED
      BY <2>4, <3>1 DEF Item
  <2>6. EditTime(s, f + 1) - EditTime(s, f) = Elapsed[g + 2] - Elapsed[g + 1]
    BY <1>1, <2>2, EditTimeStep
  <2> HIDE DEF g
  <2>7. Elapsed[g + 2] \in Nat /\ Elapsed[g + 1] \in Nat /\ Elapsed[g + 1] < Elapsed[g + 2]
    BY <2>4, ElapsedFacts
  <2>8. Stays(c, f) = SourcePeriod(c) * (Elapsed[g + 2] - Elapsed[g + 1])
    BY <1>3, <2>5 DEF Stays
  <2>9. Elapsed[g + 2] - Elapsed[g + 1] \in Nat /\ Elapsed[g + 2] - Elapsed[g + 1] > 0
    BY <2>7
  <2>10. QED
    BY <1>3, <2>6, <2>8, <2>9 DEF Clock
<1>4. CASE ~c.preserve
  <2>1. NativePeriod * (f + 1) - NativePeriod * f = NativePeriod
    BY <1>1
  <2>2. QED
    BY <1>1, <1>4, <2>1 DEF Clock, Stays
<1>5. QED
  BY <1>3, <1>4

(* A selection lies in the edit. *)
LEMMA RangeFacts ==
  ASSUME NEW c \in Configs, InRange(c)
  PROVE  /\ c.first <= c.last /\ c.last < Total(c.segments)
         /\ Len(c.segments) > 0 /\ Total(c.segments) \in Nat
<1>1. c.segments \in Seq(Segment) /\ c.last \in Nat
  BY ConfigFacts DEF Sound
<1>2. Len(c.segments) = 0 => Total(c.segments) = 0
  BY <1>1, OffsetFacts DEF Total
<1>3. Len(c.segments) \in Nat
  BY <1>1
<1>4. Total(c.segments) \in Nat
  BY <1>1, <1>3, OffsetFacts DEF Total
<1>5. QED
  BY <1>1, <1>2, <1>3, <1>4 DEF InRange

(* A frame of the selection begins when the clock has advanced that far. *)
LEMMA BeginsIs ==
  ASSUME NEW c \in Configs, InRange(c)
  PROVE  \A f \in c.first .. c.last + 1 :
           Begins(c, f) = SourcePeriod(c) * (Clock(c, f) - Clock(c, c.first))
<1> DEFINE a == c.first
           n == c.last + 1 - c.first
           w == [j \in 1 .. n |-> Stays(c, a + j - 1)]
           S == {i \in 0 .. n : Sums(w)[i] = SourcePeriod(c) * (Clock(c, a + i) - Clock(c, a))}
<1>1. /\ a \in Nat /\ n \in Nat /\ c.last \in Nat /\ c.last < Total(c.segments)
      /\ Len(c.segments) > 0 /\ SourcePeriod(c) \in Nat /\ Total(c.segments) \in Nat
  BY ConfigFacts, RangeFacts
<1>2. \A f \in a .. c.last : /\ Stays(c, f) = SourcePeriod(c) * (Clock(c, f + 1) - Clock(c, f))
                             /\ Stays(c, f) \in Nat
  <2>1. SUFFICES ASSUME NEW f \in a .. c.last
                 PROVE  /\ Stays(c, f) = SourcePeriod(c) * (Clock(c, f + 1) - Clock(c, f))
                        /\ Stays(c, f) \in Nat
    OBVIOUS
  <2>2. f \in Nat /\ f < Total(c.segments)
    BY <1>1
  <2>3. QED
    BY <1>1, <2>2, StaysIs
<1>3. \A i \in 0 .. n : Clock(c, a + i) \in Int
  <2>1. \A i \in 0 .. n : a + i \in Nat
    BY <1>1
  <2> HIDE DEF a, n
  <2>2. QED
    BY <2>1, ClockIsInt
<1>4. w \in Seq(Int) /\ Len(w) = n
  <2>1. \A j \in 1 .. n : a + j - 1 \in a .. c.last
    <3> DEFINE l == c.last
    <3>1. a \in Nat /\ l \in Nat /\ n = l + 1 - a
      BY <1>1
    <3> HIDE DEF a, l, n
    <3>2. \A j \in 1 .. n : a + j - 1 \in a .. l
      BY <3>1
    <3>3. QED
      BY <3>2 DEF l
  <2>2. \A j \in 1 .. n : w[j] \in Int
    BY <1>2, <2>1
  <2> HIDE DEF n
  <2>3. QED
    BY <1>1, <2>2
<1>5. /\ Sums(w)[0] = 0
      /\ \A k \in 1 .. n : Sums(w)[k] = Sums(w)[k - 1] + w[k]
  BY <1>1, <1>4, SumsDef
<1>6. 0 \in S
  <2>1. Clock(c, a + 0) = Clock(c, a) /\ Clock(c, a) \in Int
    BY <1>1, <1>3
  <2>2. SourcePeriod(c) * (Clock(c, a) - Clock(c, a)) = 0
    BY <1>1, <2>1
  <2>3. QED
    BY <1>1, <1>5, <2>1, <2>2
<1>7. \A i \in 0 .. n - 1 : i \in S => i + 1 \in S
  <2> SUFFICES ASSUME NEW i \in 0 .. n - 1, i \in S PROVE i + 1 \in S
    OBVIOUS
  <2>1. /\ i + 1 \in 1 .. n /\ i + 1 \in 0 .. n /\ i \in 0 .. n /\ i + 1 - 1 = i
        /\ a + (i + 1) - 1 = a + i /\ a + i \in a .. c.last /\ a + i + 1 = a + (i + 1)
    <3> DEFINE l == c.last
    <3>1. a \in Nat /\ l \in Nat /\ n = l + 1 - a /\ n \in Nat /\ i \in Nat /\ i < n
      BY <1>1
    <3> HIDE DEF a, l, n
    <3>2. /\ i + 1 \in 1 .. n /\ i + 1 \in 0 .. n /\ i \in 0 .. n /\ i + 1 - 1 = i
          /\ a + (i + 1) - 1 = a + i /\ a + i \in a .. l /\ a + i + 1 = a + (i + 1)
      BY <3>1
    <3>3. QED
      BY <3>2 DEF l
  <2> DEFINE x == Clock(c, a + i)
             y == Clock(c, a + (i + 1))
             z == Clock(c, a)
             p == SourcePeriod(c)
  <2>2. x \in Int /\ y \in Int /\ z \in Int /\ p \in Int
    <3>1. z \in Int
      BY <1>1, ClockIsInt
    <3>2. p \in Int
      BY <1>1
    <3>3. x \in Int /\ y \in Int
      <4> HIDE DEF a, n
      <4>1. QED
        BY <1>3, <2>1
    <3>4. QED
      BY <3>1, <3>2, <3>3
  <2>3. Sums(w)[i + 1] = Sums(w)[i] + w[i + 1]
    BY <1>5, <2>1
  <2>4. w[i + 1] = Stays(c, a + i)
    BY <2>1
  <2>5. Stays(c, a + i) = p * (y - x)
    BY <1>2, <2>1
  <2>6. Sums(w)[i] = p * (x - z)
    OBVIOUS
  <2> HIDE DEF w, x, y, z, p
  <2>7. p * (x - z) + p * (y - x) = p * (y - z)
    BY <2>2
  <2>8. Sums(w)[i + 1] = p * (y - z)
    BY <2>3, <2>4, <2>5, <2>6, <2>7
  <2>9. QED
    BY <2>1, <2>8 DEF p, y, z
<1>8. \A i \in 0 .. n : i \in S
  <2> HIDE DEF S, n
  <2>1. QED
    BY <1>1, <1>6, <1>7, SetInduction
<1>9. ASSUME NEW f \in a .. c.last + 1
      PROVE  Begins(c, f) = SourcePeriod(c) * (Clock(c, f) - Clock(c, a))
  <2>1. f - a \in 0 .. n /\ a + (f - a) = f
    BY <1>1
  <2>2. Begins(c, f) = Sums(w)[f - a]
    BY DEF Begins
  <2>3. f - a \in S
    BY <1>8, <2>1
  <2>4. QED
    BY <2>1, <2>2, <2>3
<1>10. QED
  BY <1>9

(* Where a round ends. *)
LEMMA ChunkFacts ==
  ASSUME NEW c \in Configs, InRange(c), NEW f \in c.first .. c.last
  PROVE  /\ ChunkEnd(c, f) \in f + 1 .. c.last + 1 /\ ChunkEnd(c, f) \in c.first .. c.last + 1
         /\ ChunkEnd(c, f) = IF f + Step(c) > c.last THEN c.last + 1 ELSE f + Step(c)
<1> DEFINE d == Step(c)
<1>1. c.first \in Nat /\ c.last \in Nat /\ d \in Nat /\ d > 0
  BY ConfigFacts
<1>2. ChunkEnd(c, f) = IF c.last + 1 <= f + d THEN c.last + 1 ELSE f + d
  BY <1>1, MinOfTwo DEF ChunkEnd
<1> HIDE DEF d
<1>3. QED
  BY <1>1, <1>2 DEF d

(* What is added up round by round is the time between two frames. *)
LEMMA DurationIs ==
  ASSUME NEW c \in Configs, InRange(c), NEW f \in c.first .. c.last
  PROVE  Duration(c, f) = Begins(c, ChunkEnd(c, f)) - Begins(c, f)
<1> DEFINE e == ChunkEnd(c, f)
           p == SourcePeriod(c)
           x == Clock(c, f)
           y == Clock(c, e)
           z == Clock(c, c.first)
<1>1. c.first \in Nat /\ c.last \in Nat /\ p \in Nat /\ NativePeriod \in Nat
  BY ConfigFacts
<1>2. e \in c.first .. c.last + 1 /\ f \in c.first .. c.last + 1 /\ e \in Nat /\ f \in Nat
  BY <1>1, ChunkFacts
<1>3. x \in Int /\ y \in Int /\ z \in Int
  BY <1>1, <1>2, ClockIsInt
<1>4. Begins(c, e) = p * (y - z) /\ Begins(c, f) = p * (x - z)
  BY <1>2, BeginsIs
<1>5. Duration(c, f) = p * (y - x)
  <2>1. CASE c.preserve
    BY <2>1 DEF Duration, Clock
  <2>2. CASE ~c.preserve
    <3>1. Duration(c, f) = p * NativePeriod * (e - f)
      BY <2>2 DEF Duration
    <3>2. x = NativePeriod * f /\ y = NativePeriod * e
      BY <2>2 DEF Clock
    <3> HIDE DEF x, y, e, p
    <3>3. p * NativePeriod * (e - f) = p * (NativePeriod * e - NativePeriod * f)
      BY <1>1, <1>2
    <3>4. QED
      BY <3>1, <3>2, <3>3
  <2>3. QED
    BY <2>1, <2>2
<1> HIDE DEF x, y, z, p
<1>6. p * (y - z) - p * (x - z) = p * (y - x)
  BY <1>1, <1>3
<1>7. QED
  BY <1>4, <1>5, <1>6

(* Later frames begin later. *)
LEMMA BeginsFacts ==
  ASSUME NEW c \in Configs, InRange(c)
  PROVE  /\ Begins(c, c.first) = 0
         /\ \A f \in c.first .. c.last + 1 : Begins(c, f) \in Nat
         /\ \A e \in c.first .. c.last + 1 : \A f \in c.first .. e : Begins(c, f) <= Begins(c, e)
         /\ \A e \in c.first .. c.last + 1 : \A f \in c.first .. e - 1 : Begins(c, f) < Begins(c, e)
<1> DEFINE a == c.first
           b == c.last + 1
           B(f) == Begins(c, f)
           n == b - a
           F == [i \in 0 .. n |-> B(a + i)]
<1>1. /\ a \in Nat /\ b \in Nat /\ a <= b - 1 /\ c.last = b - 1 /\ b - 1 < Total(c.segments)
      /\ Len(c.segments) > 0 /\ SourcePeriod(c) \in Nat /\ Total(c.segments) \in Nat
  BY ConfigFacts, RangeFacts
<1>2. \A f \in a .. b : Clock(c, f) \in Int
  BY <1>1, ClockIsInt
<1>3. \A f \in a .. b : B(f) = SourcePeriod(c) * (Clock(c, f) - Clock(c, a))
  BY BeginsIs
<1>4. \A f \in a .. b : B(f) \in Int
  <2>1. SUFFICES ASSUME NEW f \in a .. b PROVE B(f) \in Int
    OBVIOUS
  <2>2. Clock(c, f) \in Int /\ Clock(c, a) \in Int
    BY <1>1, <1>2
  <2>3. SourcePeriod(c) * (Clock(c, f) - Clock(c, a)) \in Int
    BY <1>1, <2>2
  <2>4. QED
    BY <1>3, <2>3
<1>5. \A f \in a .. b - 1 : B(f) < B(f + 1)
  <2>1. SUFFICES ASSUME NEW f \in a .. b - 1 PROVE B(f) < B(f + 1)
    OBVIOUS
  <2>2. f \in Nat /\ f < Total(c.segments) /\ f \in a .. b /\ f + 1 \in a .. b
    BY <1>1
  <2> DEFINE p == SourcePeriod(c)
             x == Clock(c, f)
             y == Clock(c, f + 1)
             z == Clock(c, a)
  <2>3. p \in Nat /\ x \in Int /\ y \in Int /\ z \in Int
    <3>1. a \in a .. b
      BY <1>1
    <3> HIDE DEF a, b
    <3>2. QED
      BY <1>1, <1>2, <2>2, <3>1
  <2>4. B(f) = p * (x - z) /\ B(f + 1) = p * (y - z)
    BY <1>3, <2>2
  <2>5. Stays(c, f) = p * (y - x) /\ Stays(c, f) > 0
    BY <1>1, <2>2, StaysIs
  <2>6. p * (y - x) > 0
    BY <2>5
  <2> HIDE DEF p, x, y, z, B
  <2>7. p * (y - z) - p * (x - z) = p * (y - x)
    BY <2>3
  <2>8. p * (y - z) \in Int /\ p * (x - z) \in Int
    BY <2>3
  <2>9. QED
    BY <2>4, <2>6, <2>7, <2>8
<1>6. B(a) = 0
  <2> DEFINE p == SourcePeriod(c)
             z == Clock(c, a)
  <2>1. p \in Nat /\ z \in Int /\ B(a) = p * (z - z)
    <3>1. a \in a .. b
      BY <1>1
    <3> HIDE DEF a, b
    <3>2. QED
      BY <1>1, <1>2, <1>3, <3>1
  <2> HIDE DEF p, z, B
  <2>2. p * (z - z) = 0
    BY <2>1
  <2>3. QED
    BY <2>1, <2>2
<1> HIDE DEF a, b, B
<1>7. n \in Nat /\ F \in [0 .. n -> Int] /\ \A i \in 0 .. n - 1 : F[i] <= F[i + 1]
  <2>1. n \in Nat
    BY <1>1
  <2>2. \A i \in 0 .. n : a + i \in a .. b
    BY <1>1
  <2>3. F \in [0 .. n -> Int]
    BY <1>4, <2>2
  <2>4. ASSUME NEW i \in 0 .. n - 1 PROVE F[i] <= F[i + 1]
    <3>1. a + i \in a .. b - 1 /\ (a + i) + 1 = a + (i + 1) /\ i \in 0 .. n /\ i + 1 \in 0 .. n
      BY <1>1
    <3>2. B(a + i) < B((a + i) + 1) /\ B(a + i) \in Int /\ B(a + (i + 1)) \in Int
      BY <1>4, <1>5, <2>2, <3>1
    <3>3. F[i] = B(a + i) /\ F[i + 1] = B(a + (i + 1))
      BY <3>1
    <3>4. QED
      BY <3>1, <3>2, <3>3
  <2>5. QED
    BY <2>1, <2>3, <2>4
<1>8. \A k \in 0 .. n : \A i \in 0 .. k : F[i] <= F[k]
  <2> HIDE DEF n, F
  <2>1. QED
    BY <1>7, GrowsByOne
<1>9. ASSUME NEW e \in a .. b, NEW f \in a .. e PROVE B(f) <= B(e)
  <2>1. e - a \in 0 .. n /\ f - a \in 0 .. e - a /\ f - a \in 0 .. n /\ a + (e - a) = e /\ a + (f - a) = f
    BY <1>1
  <2>2. F[f - a] <= F[e - a]
    BY <1>8, <2>1
  <2>3. F[f - a] = B(f) /\ F[e - a] = B(e)
    BY <2>1
  <2>4. QED
    BY <2>2, <2>3
<1>10. \A f \in a .. b : B(f) \in Nat
  <2>1. SUFFICES ASSUME NEW f \in a .. b PROVE B(f) \in Nat
    OBVIOUS
  <2>2. a \in a .. f
    BY <1>1
  <2>3. B(a) <= B(f)
    BY <1>9, <2>2
  <2>4. QED
    BY <1>4, <1>6, <2>3
<1>11. ASSUME NEW e \in a .. b, NEW f \in a .. e - 1 PROVE B(f) < B(e)
  <2>1. f \in a .. b - 1 /\ f + 1 \in a .. e /\ f + 1 \in a .. b /\ f \in a .. b
    BY <1>1
  <2>2. B(f) < B(f + 1) /\ B(f + 1) <= B(e)
    BY <1>5, <1>9, <2>1
  <2>3. B(f) \in Nat /\ B(f + 1) \in Nat /\ B(e) \in Nat
    BY <1>10, <2>1
  <2>4. QED
    BY <2>2, <2>3
<1>12. QED
  BY <1>6, <1>9, <1>10, <1>11 DEF a, b, B

-----------------------------------------------------------------------------
(* Rounding up to the output's clock. *)

LEMMA ProductMono == \A a, x, y \in Int : a >= 0 /\ x <= y => a * x <= a * y
<1>1. SUFFICES ASSUME NEW a \in Int, NEW x \in Int, NEW y \in Int, a >= 0, x <= y PROVE a * x <= a * y
  OBVIOUS
<1>2. a * (y - x) >= 0
  BY <1>1
<1>3. a * (y - x) = a * y - a * x
  OBVIOUS
<1>4. QED
  BY <1>2, <1>3

LEMMA Quotient ==
  ASSUME NEW x \in Nat, NEW d \in Nat, d > 0
  PROVE  x \div d \in Nat /\ d * (x \div d) <= x /\ x < d * (x \div d) + d
  OBVIOUS

(* As many numbers k have k * d < t as t / d, rounded up. *)
LEMMA CeilIs ==
  ASSUME NEW t \in Nat, NEW d \in Nat, d > 0
  PROVE  /\ (t + d - 1) \div d \in Nat
         /\ \A k \in Nat : (k + 1 <= (t + d - 1) \div d) <=> (k * d < t)
<1> DEFINE x == t + d - 1
           q == x \div d
<1>1. x \in Nat
  OBVIOUS
<1>2. q \in Nat /\ d * q <= x /\ x < d * q + d
  <2> HIDE DEF x
  <2>1. QED
    BY <1>1, Quotient
<1> HIDE DEF q
<1>3. ASSUME NEW k \in Nat PROVE (k + 1 <= q) <=> (k * d < t)
  <2>1. k * d \in Nat /\ k * d = d * k /\ d * (k + 1) = d * k + d
    OBVIOUS
  <2>2. CASE k + 1 <= q
    <3>1. d * (k + 1) <= d * q
      BY <1>2, <2>2, ProductMono
    <3>2. QED
      BY <1>2, <2>1, <2>2, <3>1
  <2>3. CASE q <= k
    <3>1. d * q <= d * k
      BY <1>2, <2>3, ProductMono
    <3>2. d * q \in Nat
      BY <1>2
    <3>3. QED
      BY <1>2, <2>1, <2>3, <3>1, <3>2
  <2>4. QED
    BY <1>2, <2>2, <2>3
<1>4. QED
  BY <1>2, <1>3 DEF q

(* A later time has no fewer ticks before it. *)
LEMMA CeilMono ==
  ASSUME NEW t \in Nat, NEW u \in Nat, t <= u, NEW d \in Nat, d > 0
  PROVE  (t + d - 1) \div d <= (u + d - 1) \div d
<1> DEFINE p == (t + d - 1) \div d
           q == (u + d - 1) \div d
<1>1. /\ p \in Nat /\ \A k \in Nat : (k + 1 <= p) <=> (k * d < t)
      /\ q \in Nat /\ \A k \in Nat : (k + 1 <= q) <=> (k * d < u)
  BY CeilIs
<1> HIDE DEF p, q
<1>2. CASE p = 0
  BY <1>1, <1>2 DEF p, q
<1>3. CASE p > 0
  <2> DEFINE k == p - 1
  <2>1. k \in Nat /\ k + 1 = p /\ k * d \in Int
    BY <1>1, <1>3
  <2> HIDE DEF k
  <2>2. k * d < t
    BY <1>1, <2>1
  <2>3. k * d < u
    BY <2>1, <2>2
  <2>4. k + 1 <= q
    BY <1>1, <2>1, <2>3
  <2>5. QED
    BY <2>1, <2>4 DEF p, q
<1>4. QED
  BY <1>1, <1>2, <1>3

(* Two multiples of a number are at least that number apart. *)
LEMMA MultiplesApart ==
  ASSUME NEW x \in Nat, NEW y \in Nat, NEW d \in Nat, d > 0, x % d = 0, y % d = 0, x < y
  PROVE  x + d <= y
<1> DEFINE p == x \div d
           q == y \div d
<1>1. p \in Nat /\ q \in Nat /\ x = d * p /\ y = d * q
  OBVIOUS
<1> HIDE DEF p, q
<1>2. p + 1 <= q
  <2>1. SUFFICES ASSUME q <= p PROVE FALSE
    BY <1>1
  <2>2. d * q <= d * p
    BY <1>1, <2>1, ProductMono
  <2>3. QED
    BY <1>1, <2>2
<1>3. d * (p + 1) <= d * q
  BY <1>1, <1>2, ProductMono
<1>4. d * (p + 1) = d * p + d
  BY <1>1
<1>5. QED
  BY <1>1, <1>3, <1>4

(* The next frame that is kept is a step further. *)
LEMMA NextMultiple ==
  ASSUME NEW x \in Nat, NEW d \in Nat, d > 0, x % d = 0
  PROVE  (x + d) % d = 0
<1> DEFINE q == x \div d
           z == x + d
           p == z \div d
           r == z % d
           m == q + 1 - p
<1>1. q \in Nat /\ x = d * q /\ z \in Nat
  OBVIOUS
<1>2. p \in Nat /\ r \in Nat /\ r < d /\ z = d * p + r
  <2> HIDE DEF z
  <2>1. QED
    BY <1>1
<1>3. z = d * (q + 1)
  <2> HIDE DEF q
  <2>1. QED
    BY <1>1
<1> HIDE DEF q, z, p, r
<1>4. m \in Int /\ d * m = d * (q + 1) - d * p
  BY <1>1, <1>2
<1>5. d * m = r
  BY <1>1, <1>2, <1>3, <1>4
<1> HIDE DEF m
<1>6. m < 1
  <2>1. m >= 1 => d * 1 <= d * m
    BY <1>4, ProductMono
  <2>2. QED
    BY <1>2, <1>4, <1>5, <2>1
<1>7. m > -1
  <2>1. m <= -1 => d * m <= d * (-1)
    BY <1>4, ProductMono
  <2>2. QED
    BY <1>2, <1>4, <1>5, <2>1
<1>8. m = 0
  BY <1>4, <1>6, <1>7
<1>9. QED
  BY <1>5, <1>8 DEF r, z

(* The ticks of the stream are those before the end of the selection. *)
LEMMA TicksAre ==
  ASSUME NEW c \in Configs, InRange(c)
  PROVE  Ticks(c) = BoundaryFrames(c, Begins(c, c.last + 1) * c.phases)
<1> DEFINE end == Begins(c, c.last + 1) * c.phases
           P == OutputPeriod(c)
           q == (end + P - 1) \div P
<1>1. end \in Nat /\ P \in Nat /\ P > 0
  <2>1. c.first \in Nat /\ c.last \in Nat /\ c.first <= c.last /\ c.phases \in Nat /\ P \in Nat /\ P > 0
    BY ConfigFacts, RangeFacts
  <2>2. c.last + 1 \in c.first .. c.last + 1
    BY <2>1
  <2>3. Begins(c, c.last + 1) \in Nat
    BY <2>2, BeginsFacts
  <2>4. QED
    BY <2>1, <2>3
<1>2. Ticks(c) = Cardinality({j \in 0 .. end : j * P < end})
  BY DEF Ticks
<1>3. BoundaryFrames(c, end) = q
  BY DEF BoundaryFrames
<1> HIDE DEF end, P
<1>4. q \in Nat /\ \A k \in Nat : (k + 1 <= q) <=> (k * P < end)
  BY <1>1, CeilIs
<1> HIDE DEF q
<1>5. {j \in 0 .. end : j * P < end} = 0 .. q - 1
  <2>1. ASSUME NEW j \in Nat, j * P < end PROVE j \in 0 .. end
    <3>1. P * j >= 1 * j
      BY <1>1
    <3>2. P * j = j * P
      BY <1>1
    <3>3. QED
      BY <1>1, <2>1, <3>1, <3>2
  <2>2. \A j \in 0 .. q - 1 : j \in Nat /\ j + 1 <= q
    BY <1>4
  <2>3. \A j \in 0 .. end : j * P < end => j \in 0 .. q - 1
    BY <1>1, <1>4
  <2>4. QED
    BY <1>4, <2>1, <2>2, <2>3
<1>6. Cardinality(0 .. q - 1) = q
  BY <1>4, FS_Interval
<1>7. QED
  BY <1>2, <1>3, <1>5, <1>6 DEF end

-----------------------------------------------------------------------------
(* The picture of a tick, and the pictures of a round. *)

(* A frame kept is followed by another, or it is the last. *)
LEMMA KeptFacts ==
  ASSUME NEW c \in Configs, InRange(c)
  PROVE  /\ c.first \in Kept(c) /\ Kept(c) \subseteq c.first .. c.last
         /\ \A o \in Kept(c) : o + Step(c) \in Kept(c) \/ o + Step(c) > c.last
         /\ \A o, f \in Kept(c) : o < f => ChunkEnd(c, o) <= f
<1> DEFINE a == c.first
           b == c.last
           d == Step(c)
<1>1. a \in Nat /\ b \in Nat /\ d \in Nat /\ d > 0 /\ a <= b
  BY ConfigFacts, RangeFacts
<1>2. Kept(c) = {f \in a .. b : (f - a) % d = 0}
  BY DEF Kept
<1>3. \A o \in a .. b : ChunkEnd(c, o) = IF o + d > b THEN b + 1 ELSE o + d
  BY ChunkFacts
<1> HIDE DEF a, b, d
<1>4. a \in Kept(c)
  <2>1. a - a = 0 /\ 0 % d = 0
    BY <1>1
  <2>2. QED
    BY <1>1, <1>2, <2>1
<1>5. ASSUME NEW o \in Kept(c) PROVE o + d \in Kept(c) \/ o + d > b
  <2>1. o \in a .. b /\ (o - a) % d = 0 /\ o - a \in Nat
    BY <1>1, <1>2
  <2>2. ((o - a) + d) % d = 0
    BY <1>1, <2>1, NextMultiple
  <2>3. (o - a) + d = (o + d) - a /\ o + d \in Nat /\ a <= o + d
    BY <1>1, <2>1
  <2>4. QED
    BY <1>1, <1>2, <2>2, <2>3
<1>6. ASSUME NEW o \in Kept(c), NEW f \in Kept(c), o < f PROVE ChunkEnd(c, o) <= f
  <2>1. /\ o \in a .. b /\ (o - a) % d = 0 /\ o - a \in Nat
        /\ f \in a .. b /\ (f - a) % d = 0 /\ f - a \in Nat /\ o - a < f - a
    BY <1>1, <1>2, <1>6
  <2>2. (o - a) + d <= f - a
    BY <1>1, <2>1, MultiplesApart
  <2>3. o + d <= f /\ f <= b /\ o + d \in Nat
    BY <1>1, <2>1, <2>2
  <2>4. QED
    BY <1>1, <1>3, <2>1, <2>3
<1>7. QED
  BY <1>2, <1>4, <1>5, <1>6 DEF a, b, d

(* The picture of a tick is a frame's as long as the frame is shown. *)
LEMMA DueIs ==
  ASSUME NEW c \in Configs, InRange(c), NEW o \in Kept(c), NEW k \in Nat,
         Begins(c, o) * c.phases <= k * OutputPeriod(c),
         k * OutputPeriod(c) < Begins(c, ChunkEnd(c, o)) * c.phases
  PROVE  Due(c, k) = <<Picture(Frames(c), o),
                       (k * OutputPeriod(c) - Begins(c, o) * c.phases) \div Lasts(c, o) + 1>>
<1> DEFINE time == k * OutputPeriod(c)
           S == {f \in Kept(c) : Begins(c, f) * c.phases <= time}
           e == ChunkEnd(c, o)
<1>1. /\ c.first \in Nat /\ c.last \in Nat /\ c.phases \in Nat
      /\ Kept(c) \subseteq c.first .. c.last /\ o \in c.first .. c.last
  BY ConfigFacts, KeptFacts
<1>2. o \in S /\ S \in SUBSET Int
  BY <1>1
<1>3. ASSUME NEW f \in S PROVE f <= o
  <2>1. SUFFICES ASSUME o < f PROVE FALSE
    BY <1>1
  <2>2. f \in Kept(c) /\ e <= f
    BY <2>1, KeptFacts
  <2>3. e \in c.first .. c.last + 1 /\ f \in c.first .. c.last + 1 /\ e \in c.first .. f
    BY <1>1, <2>2, ChunkFacts
  <2>4. Begins(c, e) <= Begins(c, f) /\ Begins(c, e) \in Nat /\ Begins(c, f) \in Nat
    BY <2>3, BeginsFacts
  <2>5. c.phases * Begins(c, e) <= c.phases * Begins(c, f)
    BY <1>1, <2>4, ProductMono
  <2>6. Begins(c, e) * c.phases <= Begins(c, f) * c.phases
    BY <1>1, <2>4, <2>5
  <2>7. Begins(c, f) * c.phases <= time /\ time < Begins(c, e) * c.phases
    OBVIOUS
  <2>8. OutputPeriod(c) \in Nat
    BY ConfigFacts
  <2>9. time \in Nat /\ Begins(c, f) * c.phases \in Nat /\ Begins(c, e) * c.phases \in Nat
    BY <1>1, <2>4, <2>8
  <2> HIDE DEF time, e
  <2>10. QED
    BY <2>6, <2>7, <2>9
<1>4. Max(S) = o
  <2> HIDE DEF S
  <2>1. QED
    BY <1>2, <1>3, MaxIs
<1>5. QED
  BY <1>4 DEF Due

(* Which phase of a frame a time falls into. *)
LEMMA PhaseIs ==
  ASSUME NEW x \in Nat, NEW d \in Nat, d > 0, NEW n \in Nat, x < d * n
  PROVE  Min({p \in 1 .. n : x < d * p}) = x \div d + 1 /\ x \div d + 1 \in 1 .. n
<1> DEFINE q == x \div d
           S == {p \in 1 .. n : x < d * p}
<1>1. q \in Nat /\ d * q <= x /\ x < d * q + d
  BY Quotient
<1> HIDE DEF q
<1>2. d * (q + 1) = d * q + d
  BY <1>1
<1>3. ASSUME NEW p \in Nat, x < d * p PROVE q + 1 <= p
  <2>1. p <= q => d * p <= d * q
    BY <1>1, ProductMono
  <2>2. d * p \in Nat /\ d * q \in Nat
    BY <1>1
  <2>3. QED
    BY <1>1, <1>3, <2>1, <2>2
<1>4. q + 1 \in 1 .. n
  BY <1>1, <1>3
<1>5. x < d * (q + 1)
  BY <1>1, <1>2
<1>6. q + 1 \in S /\ \A p \in S : q + 1 <= p
  BY <1>3, <1>4, <1>5
<1>7. Min(S) = q + 1
  <2>1. S \in SUBSET Int
    OBVIOUS
  <2> HIDE DEF S
  <2>2. QED
    BY <1>6, <2>1, MinIs
<1>8. QED
  BY <1>4, <1>7 DEF q

(* The pictures of a round are the next that are due. *)
LEMMA RoundIs ==
  ASSUME NEW c \in Configs, InRange(c), NEW r, r.ordinal \in Kept(c),
         r.elapsed = Begins(c, r.ordinal), r.written \in Seq(Shown),
         Len(r.written) = BoundaryFrames(c, Begins(c, r.ordinal) * c.phases)
  PROVE  /\ Round(c, r) \in Seq(Shown)
         /\ \A j \in 1 .. Len(Round(c, r)) : Round(c, r)[j] = Due(c, Len(r.written) + j - 1)
         /\ Len(r.written) + Len(Round(c, r))
              = BoundaryFrames(c, Begins(c, ChunkEnd(c, r.ordinal)) * c.phases)
<1> DEFINE o == r.ordinal
           e == ChunkEnd(c, o)
           n == c.phases
           P == OutputPeriod(c)
           b == Begins(c, o)
           D == Begins(c, e) - b
           L == Len(r.written)
           T(p) == Through(c, r, p)
           N == T(n)
           Phases(k) == {p \in 1 .. n : L + k <= T(p)}
           src == SourceFrame(c.segments, o)
<1>1. /\ c.first \in Nat /\ c.last \in Nat /\ n \in Nat /\ n > 0 /\ P \in Nat /\ P > 0
      /\ o \in c.first .. c.last /\ c.last < Total(c.segments) /\ Len(c.segments) > 0
      /\ Sound(c.segments) /\ Total(c.segments) \in Nat
  BY ConfigFacts, KeptFacts, RangeFacts
<1>2. e \in c.first .. c.last + 1 /\ o \in c.first .. e - 1 /\ o \in c.first .. c.last + 1
  BY <1>1, ChunkFacts
<1>3. b \in Nat /\ Begins(c, e) \in Nat /\ b < Begins(c, e)
  BY <1>2, BeginsFacts
<1>4. D \in Nat /\ D > 0 /\ Duration(c, o) = D /\ Lasts(c, o) = D
  <2> DEFINE y == Begins(c, e)
  <2>1. Duration(c, o) = D /\ Lasts(c, o) = D
    BY <1>1, DurationIs DEF Lasts
  <2>2. b \in Nat /\ y \in Nat /\ b < y
    BY <1>3
  <2> HIDE DEF b, y
  <2>3. y - b \in Nat /\ y - b > 0
    BY <2>2
  <2>4. QED
    BY <2>1, <2>3 DEF y
<1>5. \A p : T(p) = (b * n + D * p + P - 1) \div P
  BY <1>4 DEF Through, BoundaryFrames
<1>6. L = (b * n + P - 1) \div P /\ L \in Nat
  BY DEF BoundaryFrames
<1>7. b * n + D * n = Begins(c, e) * n
  <2> DEFINE y == Begins(c, e)
  <2>1. b \in Nat /\ y \in Nat /\ n \in Nat /\ D = y - b
    BY <1>1, <1>3
  <2> HIDE DEF b, y, n, D
  <2>2. b * n + (y - b) * n = y * n
    BY <2>1
  <2>3. QED
    BY <2>1, <2>2 DEF y
<1>8. BoundaryFrames(c, Begins(c, e) * n) = N
  <2>1. BoundaryFrames(c, Begins(c, e) * n) = (Begins(c, e) * n + P - 1) \div P
    BY DEF BoundaryFrames
  <2> HIDE DEF n, P, e, b, D, T
  <2>2. QED
    BY <1>5, <1>7, <2>1
<1>9. src = Picture(Frames(c), o) /\ src \in 0 .. Len(Elapsed) - 2
  <2>1. o \in Nat /\ o < Total(c.segments)
    BY <1>1
  <2>2. QED
    BY <1>1, <2>1, PictureIs
<1>10. Round(c, r) = [j \in 1 .. N - L |-> <<src, Min(Phases(j))>>]
  <2>1. Round(c, r) = [j \in 1 .. Through(c, r, c.phases) - Len(r.written) |->
          <<SourceFrame(c.segments, r.ordinal),
            Min({p \in 1 .. c.phases : Len(r.written) + j <= Through(c, r, p)})>>]
    BY DEF Round
  <2>2. QED
    BY <2>1
<1>11. ASSUME NEW k \in Nat, k * P < Begins(c, e) * n, ~(k * P < b * n)
       PROVE  Due(c, k) = <<src, (k * P - b * n) \div D + 1>>
  <2>1. k * P \in Nat /\ b * n \in Nat
    <3>1. k \in Nat /\ P \in Nat /\ b \in Nat /\ n \in Nat
      BY <1>1, <1>3
    <3> HIDE DEF P, b, n
    <3>2. QED
      BY <3>1
  <2>2. b * n <= k * P
    <3> DEFINE x == b * n
               y == k * P
    <3>1. x \in Nat /\ y \in Nat /\ ~(y < x)
      BY <1>11, <2>1
    <3> HIDE DEF x, y
    <3>2. x <= y
      BY <3>1
    <3>3. QED
      BY <3>2 DEF x, y
  <2>3. QED
    BY <1>4, <1>9, <1>11, <2>2, DueIs
<1> HIDE DEF T, o, e, n, P, b, D, src
<1>12. \A p \in Nat : b * n + D * p \in Nat
  BY <1>1, <1>3, <1>4
<1>13. \A p \in Nat : T(p) \in Nat /\ \A k \in Nat : (k + 1 <= T(p)) <=> (k * P < b * n + D * p)
  <2>1. SUFFICES ASSUME NEW p \in Nat
                 PROVE  T(p) \in Nat /\ \A k \in Nat : (k + 1 <= T(p)) <=> (k * P < b * n + D * p)
    OBVIOUS
  <2> DEFINE t == b * n + D * p
  <2>2. t \in Nat /\ T(p) = (t + P - 1) \div P
    BY <1>5, <1>12
  <2> HIDE DEF t, T
  <2>3. /\ (t + P - 1) \div P \in Nat
        /\ \A k \in Nat : (k + 1 <= (t + P - 1) \div P) <=> (k * P < t)
    BY <1>1, <2>2, CeilIs
  <2>4. T(p) \in Nat /\ \A k \in Nat : (k + 1 <= T(p)) <=> (k * P < t)
    BY <2>2, <2>3, Zenon
  <2>5. QED
    BY <2>4 DEF t
<1>14. b * n \in Nat /\ \A k \in Nat : (k + 1 <= L) <=> (k * P < b * n)
  <2> DEFINE t == b * n
  <2>1. t \in Nat /\ L = (t + P - 1) \div P
    BY <1>1, <1>3, <1>6
  <2> HIDE DEF t, L
  <2>2. \A k \in Nat : (k + 1 <= L) <=> (k * P < t)
    BY <1>1, <2>1, CeilIs
  <2>3. QED
    BY <2>1, <2>2 DEF t
<1> HIDE DEF L
<1>15. N \in Nat /\ L <= N
  <2>1. N \in Nat
    BY <1>1, <1>13
  <2>2. L <= N
    <3> DEFINE t == b * n
               u == b * n + D * n
    <3>1. D * n \in Nat /\ b * n \in Nat
      BY <1>1, <1>4, <1>14
    <3>2. t \in Nat /\ u \in Nat /\ t <= u
      BY <3>1
    <3>3. L = (t + P - 1) \div P /\ N = (u + P - 1) \div P
      BY <1>5, <1>6
    <3> HIDE DEF t, u, N
    <3>4. QED
      BY <1>1, <3>2, <3>3, CeilMono
  <2>3. QED
    BY <2>1, <2>2
<1>16. ASSUME NEW j \in 1 .. N - L
       PROVE  <<src, Min(Phases(j))>> = Due(c, L + j - 1) /\ Min(Phases(j)) \in Nat \ {0}
  <2> DEFINE k == L + j - 1
             x == k * P - b * n
  <2>1. k \in Nat /\ k + 1 = L + j /\ k + 1 <= N /\ ~(k + 1 <= L)
    BY <1>6, <1>15
  <2> HIDE DEF k, N
  <2>2. k * P < b * n + D * n /\ ~(k * P < b * n) /\ k * P \in Nat
    BY <1>1, <1>13, <1>14, <2>1 DEF N
  <2>3. x \in Nat /\ x < D * n
    <3> DEFINE y == k * P
               z == b * n
               w == D * n
    <3>1. w \in Nat /\ y \in Nat /\ z \in Nat /\ y < z + w /\ ~(y < z) /\ x = y - z
      BY <1>1, <1>4, <1>14, <2>2
    <3> HIDE DEF x, y, z, w
    <3>2. x \in Nat /\ x < w
      BY <3>1
    <3>3. QED
      BY <3>2 DEF w
  <2>4. ASSUME NEW p \in 1 .. n PROVE (L + j <= T(p)) <=> (x < D * p)
    <3>1. p \in Nat /\ D * p \in Nat
      BY <1>1, <1>4
    <3>2. (k + 1 <= T(p)) <=> (k * P < b * n + D * p)
      BY <1>13, <2>1, <3>1
    <3>3. (k * P < b * n + D * p) <=> (x < D * p)
      <4> DEFINE y == k * P
                 z == b * n
                 w == D * p
      <4>1. w \in Nat /\ y \in Nat /\ z \in Nat /\ x = y - z
        BY <1>14, <2>2, <3>1
      <4> HIDE DEF x, y, z, w
      <4>2. (y < z + w) <=> (x < w)
        BY <4>1
      <4>3. QED
        BY <4>2 DEF y, z, w
    <3>4. QED
      BY <2>1, <3>2, <3>3
  <2>5. Phases(j) = {p \in 1 .. n : x < D * p}
    BY <2>4
  <2> HIDE DEF x, Phases
  <2>6. Min(Phases(j)) = x \div D + 1 /\ x \div D + 1 \in 1 .. n
    BY <1>1, <1>4, <2>3, <2>5, PhaseIs
  <2>7. Due(c, k) = <<src, x \div D + 1>>
    BY <1>7, <1>11, <2>1, <2>2 DEF x
  <2>8. QED
    BY <2>6, <2>7 DEF k
<1> DEFINE R == Round(c, r)
<1>17. R = [j \in 1 .. N - L |-> <<src, Min(Phases(j))>>] /\ N - L \in Nat
  BY <1>6, <1>10, <1>15
<1>18. ASSUME NEW j \in 1 .. N - L PROVE R[j] \in Shown /\ R[j] = Due(c, L + j - 1)
  BY <1>9, <1>16, <1>17 DEF Shown
<1> HIDE DEF R, Phases, N
<1>19. Len(R) = N - L
  BY <1>17
<1>20. R \in Seq(Shown)
  <2>1. R = [j \in 1 .. N - L |-> R[j]]
    BY <1>17
  <2>2. QED
    BY <1>17, <1>18, <2>1
<1>21. L + Len(R) = N
  BY <1>6, <1>15, <1>19
<1>22. QED
  BY <1>8, <1>18, <1>19, <1>20, <1>21 DEF R, L, e, o, n

-----------------------------------------------------------------------------
(* The invariant of a run: what is written is always the beginning of what is due,
   and between two rounds exactly as much as is due before the frame reached. *)

(* The places after the last look at ffmpeg. *)
Over == {"remove", "report", "leave"}

(* The pictures that are due before frame f. *)
Before(c, f) == BoundaryFrames(c, Begins(c, f) * c.phases)

(* The frame a round is about to begin with, or the end of the selection. *)
Reached(r) == IF r.ordinal > r.config.last THEN r.config.last + 1 ELSE r.ordinal

Muxer == [at : {"none", "inputs", "output", "waiting", "muxing", "storing", "done", "failed"},
          sound : Sounds \cup {None}, taken : Nat, muxed : Nat]

(* The types of the window's variables, and of a run's. *)
WindowTypes ==
  /\ gui \in {"events", "preparing", "stopping", "releasing"}
  /\ source \in BOOLEAN /\ starts \in 0 .. MaxStarts
  /\ sound \in Sounds \cup {None} /\ sounds \in SUBSET Sounds
  /\ reports \in Seq(Errors)
  /\ wanted \in Configs \cup {NoRun} /\ (gui = "preparing") = (wanted # NoRun)
  /\ cancel \in BOOLEAN
  /\ entry \in {"none", "fifo", "file", "swapped"} /\ reader \in {"absent", "reading", "gone"}

RunTypes ==
  /\ thread \in Places \cup {"ended"} /\ run \in Locals \cup {NoRun}
  /\ IsRunning = (run # NoRun) /\ muxer \in Muxer

(* Every picture written is the one due at its tick, and none is past the end. *)
WrittenInv ==
  IsRunning =>
    /\ \A i \in 1 .. Len(run.written) : run.written[i] = Due(run.config, i - 1)
    /\ IF InRange(run.config) THEN Len(run.written) <= Ticks(run.config) ELSE run.written = <<>>

(* Until ffmpeg is started nothing is written. *)
StartInv ==
  thread \in {"index", "probe"} =>
    /\ run.written = <<>> /\ run.ordinal = run.config.first /\ run.elapsed = 0
    /\ muxer = NoMuxer

(* A range outside the timeline is never served. *)
RangeInv ==
  thread \in {"probe", "serve", "write", "settle", "drain"} => InRange(run.config)

(* Between two rounds the time and the number of pictures are those of the frame
   reached: no rounding error is carried along. *)
BetweenInv ==
  thread \in {"serve", "drain"} =>
    /\ run.ordinal \in Kept(run.config) \/ run.ordinal > run.config.last
    /\ run.elapsed = Begins(run.config, Reached(run))
    /\ Len(run.written) = Before(run.config, Reached(run))
    /\ thread = "drain" => run.ordinal > run.config.last

(* Within a round what is left to write leads up to the next frame kept. *)
RoundInv ==
  thread \in {"write", "settle"} =>
    /\ run.ordinal \in Kept(run.config) /\ run.elapsed = Begins(run.config, run.ordinal)
    /\ Len(run.written) + Len(run.todo) = Before(run.config, ChunkEnd(run.config, run.ordinal))
    /\ \A j \in 1 .. Len(run.todo) : run.todo[j] = Due(run.config, Len(run.written) + j - 1)

(* A run without an error is over when ffmpeg is done with all of it. *)
OverInv ==
  /\ thread \in Over /\ run.error = "" =>
       muxer.at = "done" /\ InRange(run.config) /\ Len(run.written) = Ticks(run.config)
  /\ thread \in Places \ Over => run.error = ""

(* What ffmpeg has: a part of what is written, no less than that but for its buffer,
   and all of it when it is done. *)
MuxInv ==
  /\ thread = "ended" => muxer = NoMuxer
  /\ IsRunning => muxer.muxed <= muxer.taken /\ muxer.taken <= Len(run.written)
  /\ muxer.at = "done" => thread \in Over \cup {"drain"} /\ muxer.muxed = Len(run.written)
  /\ thread \in {"serve", "write", "drain"} => buffered <= BufferLimit
  /\ thread = "settle" => buffered <= BufferLimit + 1

StreamInv ==
  RunTypes /\ WrittenInv /\ StartInv /\ RangeInv /\ BetweenInv /\ RoundInv /\ OverInv /\ MuxInv

-----------------------------------------------------------------------------
(* Nothing is due before the selection, everything before its end. *)
LEMMA BeforeFacts ==
  ASSUME NEW c \in Configs, InRange(c)
  PROVE  /\ Before(c, c.first) = 0 /\ Before(c, c.last + 1) = Ticks(c)
         /\ \A f \in c.first .. c.last + 1 : Before(c, f) \in Nat /\ Before(c, f) <= Ticks(c)
<1> DEFINE P == OutputPeriod(c)
           n == c.phases
           B(f) == Begins(c, f)
           a == c.first
           b == c.last + 1
<1>1. a \in Nat /\ b \in Nat /\ a <= b /\ n \in Nat /\ P \in Nat /\ P > 0
  BY ConfigFacts, RangeFacts
<1>2. B(a) = 0 /\ \A f \in a .. b : B(f) \in Nat /\ B(f) <= B(b)
  BY <1>1, BeginsFacts
<1>3. Ticks(c) = Before(c, b)
  BY TicksAre DEF Before
<1>4. \A f : Before(c, f) = (B(f) * n + P - 1) \div P
  BY DEF Before, BoundaryFrames
<1> HIDE DEF P, n, B, a, b
<1>5. ASSUME NEW f \in a .. b PROVE Before(c, f) \in Nat /\ Before(c, f) <= Before(c, b)
  <2> DEFINE t == B(f) * n
             u == B(b) * n
  <2>1. b \in a .. b
    BY <1>1
  <2>2. B(f) \in Nat /\ B(b) \in Nat /\ B(f) <= B(b)
    BY <1>2, <2>1
  <2>3. n * B(f) <= n * B(b) /\ n * B(f) = t /\ n * B(b) = u /\ t \in Nat /\ u \in Nat
    BY <1>1, <2>2, ProductMono
  <2>4. Before(c, f) = (t + P - 1) \div P /\ Before(c, b) = (u + P - 1) \div P
    BY <1>4
  <2> HIDE DEF t, u
  <2>5. QED
    BY <1>1, <2>3, <2>4, CeilIs, CeilMono
<1>6. Before(c, a) = 0
  <2>1. B(a) * n = 0 /\ 0 \in Nat
    BY <1>1, <1>2
  <2>2. Before(c, a) = (0 + P - 1) \div P
    BY <1>4, <2>1
  <2> DEFINE q == (0 + P - 1) \div P
  <2>3. q \in Nat /\ \A k \in Nat : (k + 1 <= q) <=> (k * P < 0)
    BY <1>1, <2>1, CeilIs
  <2> HIDE DEF q
  <2>4. ~(0 + 1 <= q)
    BY <1>1, <2>3
  <2>5. QED
    BY <2>2, <2>3, <2>4 DEF q
<1>7. QED
  BY <1>3, <1>5, <1>6 DEF a, b

(* The types of a run. *)
LEMMA RunFacts ==
  ASSUME StreamInv, IsRunning
  PROVE  /\ run \in Locals /\ run.config \in Configs /\ thread \in Places
         /\ run.written \in Seq(Shown) /\ run.todo \in Seq(Shown) /\ run.ordinal \in Nat
         /\ run.elapsed \in Nat /\ Len(run.written) \in Nat /\ Len(run.todo) \in Nat
<1>1. run \in Locals /\ thread \in Places
  BY DEF StreamInv, RunTypes, IsRunning
<1>2. /\ run.config \in Configs /\ run.written \in Seq(Shown) /\ run.todo \in Seq(Shown)
      /\ run.ordinal \in Nat /\ run.elapsed \in Nat
  BY <1>1 DEF Locals
<1>3. Len(run.written) \in Nat /\ Len(run.todo) \in Nat
  BY <1>2
<1>4. QED
  BY <1>1, <1>2, <1>3

(* The types of a run survive a change of its locals. *)
LEMMA RunTypesKept ==
  ASSUME run' \in Locals, thread' \in Places, muxer' \in Muxer
  PROVE  RunTypes'
  BY NoRunAssumption DEF RunTypes, IsRunning, Places

LEMMA NothingIsLess == 0 <= 0 /\ \A n \in Nat : 0 <= n
  OBVIOUS

(* A run that is given up has written nothing wrong. *)
LEMMA AbandonKeeps ==
  ASSUME StreamInv, thread \in Places \ Over, NEW error \in Errors \ {""}, Abandon(error)
  PROVE  StreamInv'
<1>1. IsRunning
  BY DEF IsRunning, Places
<1>2. run \in Locals /\ WrittenInv
  BY <1>1, RunFacts DEF StreamInv
<1>3. /\ thread' = "remove" /\ run' = [run EXCEPT !.error = error] /\ muxer' = NoMuxer
      /\ run' \in Locals /\ run'.error = error /\ run'.written = run.written
      /\ run'.config = run.config
  BY <1>2 DEF Abandon, Locals
<1>4. NoMuxer \in Muxer /\ NoMuxer.at = "none" /\ NoMuxer.taken = 0 /\ NoMuxer.muxed = 0
  BY DEF NoMuxer, Muxer, None
<1>5. RunTypes'
  BY <1>3, <1>4, RunTypesKept DEF Places
<1>6. WrittenInv'
  BY <1>1, <1>2, <1>3 DEF WrittenInv
<1>7. StartInv' /\ RangeInv' /\ BetweenInv' /\ RoundInv'
  BY <1>3 DEF StartInv, RangeInv, BetweenInv, RoundInv
<1>8. OverInv'
  BY <1>3 DEF OverInv, Over
<1>9. MuxInv'
  <2>1. Len(run.written) \in Nat
    BY <1>1, RunFacts
  <2>2. /\ thread' = "remove" /\ Len(run'.written) \in Nat
        /\ muxer'.at = "none" /\ muxer'.taken = 0 /\ muxer'.muxed = 0
    BY <1>3, <1>4, <2>1
  <2>3. muxer'.muxed <= muxer'.taken /\ muxer'.taken <= Len(run'.written)
    BY <2>2, NothingIsLess
  <2>4. QED
    BY <2>2, <2>3 DEF MuxInv
<1>10. QED
  BY <1>5, <1>6, <1>7, <1>8, <1>9 DEF StreamInv

LEMMA IndexKeeps == ASSUME StreamInv, Index PROVE StreamInv'
<1>1. thread = "index" /\ thread \in Places \ Over /\ IsRunning
  BY DEF Index, Places, Over, IsRunning
<1>2. CASE InRange(run.config) /\ thread' = "probe" /\ UNCHANGED <<run, muxer>>
  <2>1. RunTypes'
    BY <1>1, <1>2, RunFacts, RunTypesKept DEF StreamInv, RunTypes, Places
  <2>2. WrittenInv' /\ StartInv' /\ RangeInv' /\ BetweenInv' /\ RoundInv'
    BY <1>1, <1>2 DEF StreamInv, WrittenInv, StartInv, RangeInv, BetweenInv, RoundInv, IsRunning
  <2>3. OverInv'
    BY <1>1, <1>2 DEF StreamInv, OverInv, Over, Places
  <2>4. MuxInv'
    BY <1>1, <1>2 DEF StreamInv, MuxInv, IsRunning, Over
  <2>5. QED
    BY <2>1, <2>2, <2>3, <2>4 DEF StreamInv
<1>3. CASE Abandon("failed") \/ Abandon("cancelled")
  BY <1>1, <1>3, AbandonKeeps DEF Errors
<1>4. QED
  BY <1>2, <1>3 DEF Index

LEMMA ProbeKeeps == ASSUME StreamInv, WindowTypes, Probe PROVE StreamInv'
<1> DEFINE c == run.config
<1>1. thread = "probe" /\ thread \in Places \ Over /\ IsRunning
  BY DEF Probe, Places, Over, IsRunning
<1>2. CASE Abandon("failed")
  BY <1>1, <1>2, AbandonKeeps DEF Errors
<1>3. CASE /\ thread' = "serve" /\ UNCHANGED run
           /\ muxer' = [NoMuxer EXCEPT !.at = "inputs",
                          !.sound = IF run.sound \in sounds THEN run.sound ELSE None]
  <2>1. /\ run.written = <<>> /\ run.ordinal = c.first /\ run.elapsed = 0
        /\ InRange(c) /\ c \in Configs /\ run.error = ""
    BY <1>1, RunFacts DEF StreamInv, StartInv, RangeInv, OverInv, Over
  <2>2. muxer' \in Muxer /\ muxer'.at = "inputs" /\ muxer'.taken = 0 /\ muxer'.muxed = 0
    BY <1>3 DEF NoMuxer, Muxer, None, WindowTypes
  <2>3. RunTypes'
    BY <1>1, <1>3, <2>2, RunFacts, RunTypesKept DEF Places
  <2>4. WrittenInv' /\ StartInv' /\ RangeInv' /\ RoundInv' /\ OverInv'
    BY <1>1, <1>3, <2>1 DEF StreamInv, WrittenInv, StartInv, RangeInv, RoundInv, OverInv,
       IsRunning, Over
  <2>5. BetweenInv'
    <3>1. c.first \in Nat /\ c.last \in Nat /\ c.first <= c.last /\ c.first \in Kept(c)
      BY <2>1, ConfigFacts, RangeFacts, KeptFacts
    <3>2. Reached(run) = c.first
      <4>1. ~(c.first > c.last)
        BY <3>1
      <4>2. QED
        BY <2>1, <4>1 DEF Reached
    <3>3. Begins(c, c.first) = 0 /\ Before(c, c.first) = 0
      BY <2>1, BeginsFacts, BeforeFacts
    <3>4. QED
      BY <1>3, <2>1, <3>1, <3>2, <3>3 DEF BetweenInv
  <2>6. MuxInv'
    <3>1. BufferLimit \in Nat
      BY ServerAssumption
    <3>2. Len(run'.written) = 0 /\ thread' = "serve"
      BY <1>3, <2>1
    <3>3. buffered' <= BufferLimit
      BY <2>2, <3>1, <3>2 DEF buffered
    <3>4. QED
      BY <2>2, <3>2, <3>3 DEF MuxInv
  <2>7. QED
    BY <2>3, <2>4, <2>5, <2>6 DEF StreamInv
<1>4. QED
  BY <1>2, <1>3 DEF Probe

LEMMA ServeFrameKeeps == ASSUME StreamInv, ServeFrame PROVE StreamInv'
<1> DEFINE c == run.config
           o == run.ordinal
<1>1. thread = "serve" /\ thread \in Places \ Over /\ IsRunning /\ o <= c.last
  BY DEF ServeFrame, Places, Over, IsRunning
<1>2. CASE Abandon("failed") \/ Abandon("stopped")
  BY <1>1, <1>2, AbandonKeeps DEF Errors
<1>3. CASE thread' = "write" /\ run' = [run EXCEPT !.todo = Round(run.config, run)] /\ UNCHANGED muxer
  <2>1. /\ c \in Configs /\ InRange(c) /\ run \in Locals /\ o \in Nat /\ run.error = ""
        /\ run.written \in Seq(Shown)
    BY <1>1, RunFacts DEF StreamInv, RangeInv, OverInv
  <2>2. c.last \in Nat /\ o \in Kept(c) /\ Reached(run) = o
    <3>1. c.last \in Nat
      BY <2>1, ConfigFacts
    <3>2. ~(o > c.last)
      <4> HIDE DEF c, o
      <4>1. o \in Nat /\ o <= c.last
        BY <1>1, <2>1
      <4>2. QED
        BY <3>1, <4>1
    <3>3. QED
      BY <1>1, <3>1, <3>2 DEF StreamInv, BetweenInv, Reached
  <2>3. run.elapsed = Begins(c, o) /\ Len(run.written) = Before(c, o)
    BY <1>1, <2>2 DEF StreamInv, BetweenInv
  <2> DEFINE R == Round(c, run)
  <2>4. /\ R \in Seq(Shown)
        /\ \A j \in 1 .. Len(R) : R[j] = Due(c, Len(run.written) + j - 1)
        /\ Len(run.written) + Len(R) = Before(c, ChunkEnd(c, o))
    BY <2>1, <2>2, <2>3, RoundIs DEF Before
  <2> HIDE DEF R
  <2>5. /\ run' \in Locals /\ run'.todo = R /\ run'.written = run.written /\ run'.config = c
        /\ run'.ordinal = o /\ run'.elapsed = run.elapsed /\ run'.error = ""
    BY <1>3, <2>1, <2>4 DEF Locals, R
  <2> HIDE DEF c, o
  <2>6. RunTypes'
    BY <1>3, <2>5, RunTypesKept DEF StreamInv, RunTypes, Places
  <2>7. WrittenInv'
    BY <1>1, <2>5 DEF StreamInv, WrittenInv, c
  <2>8. StartInv' /\ RangeInv' /\ BetweenInv' /\ OverInv'
    BY <1>3, <2>1, <2>5 DEF StartInv, RangeInv, BetweenInv, OverInv, Over
  <2>9. RoundInv'
    BY <2>2, <2>3, <2>4, <2>5 DEF RoundInv
  <2>10. MuxInv'
    BY <1>1, <1>3, <2>5 DEF StreamInv, MuxInv, IsRunning, Over, buffered
  <2>11. QED
    BY <2>6, <2>7, <2>8, <2>9, <2>10 DEF StreamInv
<1>4. QED
  BY <1>2, <1>3 DEF ServeFrame

(* One picture goes from what is left to what is written. *)
LEMMA MoveOne ==
  ASSUME NEW T, NEW w \in Seq(T), NEW u \in Seq(T), u # <<>>
  PROVE  /\ Append(w, Head(u)) \in Seq(T) /\ Tail(u) \in Seq(T)
         /\ Len(Append(w, Head(u))) = Len(w) + 1 /\ Len(Tail(u)) = Len(u) - 1 /\ Len(u) > 0
         /\ Append(w, Head(u))[Len(w) + 1] = u[1]
         /\ \A i \in 1 .. Len(w) : Append(w, Head(u))[i] = w[i]
         /\ \A j \in 1 .. Len(Tail(u)) : Tail(u)[j] = u[j + 1]
<1>1. Len(u) > 0 /\ Len(u) \in Nat /\ Head(u) = u[1] /\ u[1] \in T
  OBVIOUS
<1>2. Tail(u) \in Seq(T) /\ Len(Tail(u)) = Len(u) - 1
  BY <1>1
<1>3. \A j \in 1 .. Len(Tail(u)) : Tail(u)[j] = u[j + 1]
  BY <1>1, <1>2
<1>4. QED
  BY <1>1, <1>2, <1>3

LEMMA WritePictureKeeps == ASSUME StreamInv, WritePicture PROVE StreamInv'
<1> DEFINE c == run.config
           o == run.ordinal
           w == run.written
           todo == run.todo
<1>1. thread = "write" /\ thread \in Places \ Over /\ IsRunning /\ todo # <<>>
  BY DEF WritePicture, Places, Over, IsRunning
<1>2. CASE Abandon("stopped")
  BY <1>1, <1>2, AbandonKeeps DEF Errors
<1>3. CASE /\ thread' = "settle"
           /\ run' = [run EXCEPT !.written = Append(@, Head(run.todo)), !.todo = Tail(@)]
           /\ UNCHANGED muxer
  <2>1. /\ c \in Configs /\ InRange(c) /\ run \in Locals /\ run.error = ""
        /\ w \in Seq(Shown) /\ todo \in Seq(Shown) /\ Len(w) \in Nat /\ Len(todo) \in Nat
    BY <1>1, RunFacts DEF StreamInv, RangeInv, OverInv
  <2>2. /\ o \in Kept(c) /\ run.elapsed = Begins(c, o)
        /\ Len(w) + Len(todo) = Before(c, ChunkEnd(c, o))
        /\ \A j \in 1 .. Len(todo) : todo[j] = Due(c, Len(w) + j - 1)
    BY <1>1 DEF StreamInv, RoundInv
  <2>3. \A i \in 1 .. Len(w) : w[i] = Due(c, i - 1)
    BY <1>1 DEF StreamInv, WrittenInv
  <2>4. Before(c, ChunkEnd(c, o)) <= Ticks(c) /\ Before(c, ChunkEnd(c, o)) \in Nat /\ Ticks(c) \in Nat
    <3>1. o \in c.first .. c.last /\ c.first \in Nat /\ c.last \in Nat /\ c.first <= c.last
      BY <2>1, <2>2, KeptFacts, ConfigFacts, RangeFacts
    <3>2. ChunkEnd(c, o) \in c.first .. c.last + 1 /\ c.last + 1 \in c.first .. c.last + 1
      <4>1. c.last + 1 \in c.first .. c.last + 1
        BY <3>1
      <4>2. QED
        BY <2>1, <3>1, <4>1, ChunkFacts
    <3>3. QED
      BY <2>1, <3>2, BeforeFacts
  <2> DEFINE v == Append(w, Head(todo))
             t == Tail(todo)
  <2>5. /\ v \in Seq(Shown) /\ t \in Seq(Shown) /\ Len(v) = Len(w) + 1 /\ Len(t) = Len(todo) - 1
        /\ Len(todo) > 0 /\ v[Len(w) + 1] = todo[1]
        /\ \A i \in 1 .. Len(w) : v[i] = w[i]
        /\ \A j \in 1 .. Len(t) : t[j] = todo[j + 1]
    <3> HIDE DEF w, todo
    <3>1. w \in Seq(Shown) /\ todo \in Seq(Shown) /\ todo # <<>>
      BY <1>1, <2>1
    <3>2. QED
      BY <3>1, MoveOne
  <2>6. v \in Seq(Shown) /\ t \in Seq(Shown)
    BY <2>5
  <2>8. /\ run' = [run EXCEPT !.written = v, !.todo = t]
        /\ run' \in Locals /\ run'.todo = t /\ run'.written = v /\ run'.config = c
        /\ run'.ordinal = o /\ run'.elapsed = run.elapsed /\ run'.error = ""
    BY <1>3, <2>1, <2>6 DEF Locals
  <2> HIDE DEF v, t, c, o, w, todo
  <2>9. RunTypes'
    BY <1>3, <2>8, RunTypesKept DEF StreamInv, RunTypes, Places
  <2> DEFINE n == Len(w)
             m == Len(todo)
             q == Before(c, ChunkEnd(c, o))
  <2>7. n \in Nat /\ m \in Nat /\ m > 0 /\ Len(v) = n + 1 /\ Len(t) = m - 1 /\ n + m = q
    BY <2>1, <2>2, <2>5
  <2>10. \A i \in 1 .. Len(v) : v[i] = Due(c, i - 1)
    <3> HIDE DEF n, m, q
    <3>1. v[n + 1] = Due(c, n)
      <4>1. 1 \in 1 .. m /\ n + 1 - 1 = n
        BY <2>7
      <4>2. QED
        BY <2>2, <2>5, <4>1 DEF n, m
    <3>2. \A i \in 1 .. n + 1 : (i = n + 1 /\ i - 1 = n) \/ i \in 1 .. n
      BY <2>7
    <3>3. \A i \in 1 .. n : v[i] = Due(c, i - 1)
      BY <2>3, <2>5 DEF n
    <3>4. QED
      BY <2>7, <3>1, <3>2, <3>3
  <2>11. Len(v) <= Ticks(c)
    <3> HIDE DEF n, m, q
    <3>1. n + 1 <= q /\ q \in Nat
      BY <2>7
    <3>2. q <= Ticks(c) /\ Ticks(c) \in Nat
      BY <2>4 DEF q
    <3>3. QED
      BY <2>7, <3>1, <3>2
  <2>12. WrittenInv'
    BY <2>1, <2>8, <2>10, <2>11 DEF WrittenInv
  <2>13. StartInv' /\ RangeInv' /\ BetweenInv' /\ OverInv'
    BY <1>3, <2>1, <2>8 DEF StartInv, RangeInv, BetweenInv, OverInv, Over
  <2>14. RoundInv'
    <3> HIDE DEF n, m, q
    <3>1. Len(v) + Len(t) = q
      BY <2>7
    <3>2. ASSUME NEW j \in 1 .. Len(t) PROVE t[j] = Due(c, Len(v) + j - 1)
      <4>1. j + 1 \in 1 .. Len(todo) /\ Len(w) + (j + 1) - 1 = Len(v) + j - 1
        <5>1. \A i \in 1 .. m - 1 : i + 1 \in 1 .. m /\ n + (i + 1) - 1 = (n + 1) + i - 1
          BY <2>7
        <5>2. QED
          BY <2>7, <5>1 DEF n, m
      <4>2. QED
        BY <2>2, <2>5, <4>1
    <3>3. QED
      BY <2>2, <2>8, <3>1, <3>2 DEF RoundInv, q
  <2>15. MuxInv'
    <3>1. /\ muxer.muxed <= muxer.taken /\ muxer.taken <= Len(w) /\ muxer.at # "done"
          /\ Len(w) - muxer.taken <= BufferLimit
      BY <1>1 DEF StreamInv, MuxInv, buffered, Over, w
    <3>2. muxer.taken \in Nat /\ muxer.muxed \in Nat /\ BufferLimit \in Nat
      BY ServerAssumption DEF StreamInv, RunTypes, Muxer
    <3>3. muxer.taken <= Len(v) /\ Len(v) - muxer.taken <= BufferLimit + 1
      <4> DEFINE k == muxer.taken
      <4>1. k \in Nat /\ BufferLimit \in Nat /\ k <= n /\ n - k <= BufferLimit
        BY <3>1, <3>2
      <4> HIDE DEF n, m, q, k
      <4>2. k <= n + 1 /\ (n + 1) - k <= BufferLimit + 1
        BY <2>7, <4>1
      <4>3. QED
        <5>1. Len(v) = n + 1
          BY <2>7
        <5>2. k <= Len(v) /\ Len(v) - k <= BufferLimit + 1
          BY <4>2, <5>1
        <5>3. QED
          BY <5>2 DEF k
    <3>4. QED
      BY <1>3, <2>8, <3>1, <3>3 DEF MuxInv, buffered
  <2>16. QED
    BY <2>9, <2>12, <2>13, <2>14, <2>15 DEF StreamInv
<1>4. QED
  BY <1>2, <1>3 DEF WritePicture

LEMMA NextFrameKeeps == ASSUME StreamInv, NextFrame PROVE StreamInv'
<1> DEFINE c == run.config
           o == run.ordinal
           w == run.written
           e == ChunkEnd(c, o)
           d == Duration(c, o)
<1>1. /\ thread = "write" /\ IsRunning /\ run.todo = <<>> /\ thread' = "serve" /\ UNCHANGED muxer
      /\ run' = [run EXCEPT !.ordinal = o + Step(c), !.elapsed = @ + d]
  BY DEF NextFrame, IsRunning
<1>2. /\ c \in Configs /\ InRange(c) /\ run \in Locals /\ run.error = "" /\ o \in Nat
      /\ w \in Seq(Shown) /\ Len(w) \in Nat
  BY <1>1, RunFacts DEF StreamInv, RangeInv, OverInv, Places, Over
<1>3. o \in Kept(c) /\ run.elapsed = Begins(c, o) /\ Len(w) + Len(run.todo) = Before(c, e)
  BY <1>1 DEF StreamInv, RoundInv
<1>4. Len(w) = Before(c, e)
  <2>1. Len(run.todo) = 0
    BY <1>1
  <2> DEFINE n == Len(w)
             b == Before(c, e)
  <2>2. n \in Nat /\ n + 0 = b
    BY <1>2, <1>3, <2>1
  <2> HIDE DEF n, b
  <2>3. n = b
    BY <2>2
  <2>4. QED
    BY <2>3 DEF n, b
<1>5. /\ c.first \in Nat /\ c.last \in Nat /\ Step(c) \in Nat /\ o \in c.first .. c.last
      /\ o + Step(c) \in Kept(c) \/ o + Step(c) > c.last
      /\ e = IF o + Step(c) > c.last THEN c.last + 1 ELSE o + Step(c)
      /\ e \in c.first .. c.last + 1 /\ d = Begins(c, e) - Begins(c, o)
  BY <1>2, <1>3, ConfigFacts, KeptFacts, ChunkFacts, DurationIs
<1>6. Begins(c, o) \in Nat /\ Begins(c, e) \in Nat
  <2>1. o \in c.first .. c.last + 1
    BY <1>5
  <2>2. QED
    BY <1>2, <1>5, <2>1, BeginsFacts
<1>7. run.elapsed + d = Begins(c, e) /\ o + Step(c) \in Nat
  BY <1>3, <1>5, <1>6
<1> HIDE DEF d
<1>8. /\ run' \in Locals /\ run'.todo = run.todo /\ run'.written = w /\ run'.config = c
      /\ run'.ordinal = o + Step(c) /\ run'.elapsed = Begins(c, e) /\ run'.error = ""
  BY <1>1, <1>2, <1>6, <1>7 DEF Locals
<1>9. Reached(run') = e
  BY <1>5, <1>8 DEF Reached
<1> HIDE DEF c, o, w, e
<1>10. RunTypes'
  BY <1>1, <1>8, RunTypesKept DEF StreamInv, RunTypes, Places
<1>11. WrittenInv'
  BY <1>1, <1>8 DEF StreamInv, WrittenInv, c, w
<1>12. StartInv' /\ RangeInv' /\ RoundInv' /\ OverInv'
  BY <1>1, <1>2, <1>8 DEF StartInv, RangeInv, RoundInv, OverInv, Over
<1>13. BetweenInv'
  BY <1>1, <1>4, <1>5, <1>8, <1>9 DEF BetweenInv
<1>14. MuxInv'
  BY <1>1, <1>8 DEF StreamInv, MuxInv, IsRunning, Over, buffered, w
<1>15. QED
  BY <1>10, <1>11, <1>12, <1>13, <1>14 DEF StreamInv

LEMMA SettleKeeps == ASSUME StreamInv, Settle PROVE StreamInv'
<1>1. thread = "settle" /\ thread \in Places \ Over /\ IsRunning
  BY DEF Settle, Places, Over, IsRunning
<1>2. CASE Abandon("stopped") \/ Abandon("failed")
  BY <1>1, <1>2, AbandonKeeps DEF Errors
<1>3. CASE buffered <= BufferLimit /\ thread' = "write" /\ UNCHANGED <<run, muxer>>
  <2>1. RunTypes'
    BY <1>1, <1>3, RunFacts, RunTypesKept DEF StreamInv, RunTypes, Places
  <2>2. WrittenInv' /\ StartInv' /\ RangeInv' /\ BetweenInv' /\ RoundInv' /\ OverInv'
    BY <1>1, <1>3 DEF StreamInv, WrittenInv, StartInv, RangeInv, BetweenInv, RoundInv, OverInv,
       IsRunning, Over
  <2>3. MuxInv'
    BY <1>1, <1>3 DEF StreamInv, MuxInv, IsRunning, Over, buffered
  <2>4. QED
    BY <2>1, <2>2, <2>3 DEF StreamInv
<1>4. QED
  BY <1>2, <1>3 DEF Settle

LEMMA CloseInputKeeps == ASSUME StreamInv, CloseInput PROVE StreamInv'
<1>1. /\ thread = "serve" /\ IsRunning /\ run.ordinal > run.config.last /\ thread' = "drain"
      /\ UNCHANGED <<run, muxer>>
  BY DEF CloseInput, IsRunning
<1>2. RunTypes'
  BY <1>1, RunFacts, RunTypesKept DEF StreamInv, RunTypes, Places
<1>3. WrittenInv' /\ StartInv' /\ RangeInv' /\ RoundInv'
  BY <1>1 DEF StreamInv, WrittenInv, StartInv, RangeInv, RoundInv, IsRunning
<1>4. BetweenInv' /\ OverInv' /\ MuxInv'
  <2>1. BetweenInv'
    BY <1>1 DEF StreamInv, BetweenInv, Reached
  <2>2. OverInv'
    BY <1>1 DEF StreamInv, OverInv, Over, Places
  <2>3. MuxInv'
    BY <1>1 DEF StreamInv, MuxInv, IsRunning, Over, buffered
  <2>4. QED
    BY <2>1, <2>2, <2>3
<1>5. QED
  BY <1>2, <1>3, <1>4 DEF StreamInv

LEMMA DrainKeeps == ASSUME StreamInv, Drain PROVE StreamInv'
<1>1. thread = "drain" /\ thread \in Places \ Over /\ IsRunning
  BY DEF Drain, Places, Over, IsRunning
<1>2. CASE Abandon("stopped") \/ Abandon("failed")
  BY <1>1, <1>2, AbandonKeeps DEF Errors
<1>3. CASE muxer.at = "done" /\ thread' = "remove" /\ UNCHANGED <<run, muxer>>
  <2>1. RunTypes'
    BY <1>1, <1>3, RunFacts, RunTypesKept DEF StreamInv, RunTypes, Places
  <2>2. WrittenInv' /\ StartInv' /\ RangeInv' /\ BetweenInv' /\ RoundInv'
    BY <1>1, <1>3 DEF StreamInv, WrittenInv, StartInv, RangeInv, BetweenInv, RoundInv, IsRunning
  <2>3. OverInv'
    <3>1. /\ InRange(run.config) /\ run.config \in Configs /\ run.ordinal > run.config.last
          /\ Len(run.written) = Before(run.config, Reached(run))
      BY <1>1, RunFacts DEF StreamInv, RangeInv, BetweenInv
    <3>2. Len(run.written) = Ticks(run.config)
      BY <3>1, BeforeFacts DEF Reached
    <3>3. QED
      BY <1>3, <3>1, <3>2 DEF OverInv, Over
  <2>4. MuxInv'
    BY <1>1, <1>3 DEF StreamInv, MuxInv, IsRunning, Over
  <2>5. QED
    BY <2>1, <2>2, <2>3, <2>4 DEF StreamInv
<1>4. QED
  BY <1>2, <1>3 DEF Drain

LEMMA OverKeeps ==
  ASSUME StreamInv, thread \in Over, thread' \in Over, UNCHANGED <<run, muxer>>
  PROVE  StreamInv'
<1>1. IsRunning /\ thread \in Places
  BY DEF IsRunning, Over, Places
<1>2. RunTypes'
  BY <1>1, RunFacts, RunTypesKept DEF StreamInv, RunTypes, Over, Places
<1>3. WrittenInv' /\ StartInv' /\ RangeInv' /\ BetweenInv' /\ RoundInv'
  BY <1>1 DEF StreamInv, WrittenInv, StartInv, RangeInv, BetweenInv, RoundInv, Over
<1>4. OverInv' /\ MuxInv'
  BY <1>1 DEF StreamInv, OverInv, MuxInv, Over, IsRunning
<1>5. QED
  BY <1>2, <1>3, <1>4 DEF StreamInv

LEMMA NoThread == ASSUME thread' = "ended", run' = NoRun, muxer' = NoMuxer PROVE StreamInv'
<1>1. NoMuxer \in Muxer /\ NoMuxer.at = "none"
  BY DEF NoMuxer, Muxer, None
<1>2. RunTypes'
  BY <1>1 DEF RunTypes, IsRunning
<1>3. WrittenInv' /\ StartInv' /\ RangeInv' /\ BetweenInv' /\ RoundInv' /\ OverInv' /\ MuxInv'
  BY <1>1 DEF WrittenInv, StartInv, RangeInv, BetweenInv, RoundInv, OverInv, MuxInv, IsRunning,
     Over, Places
<1>4. QED
  BY <1>2, <1>3 DEF StreamInv

-----------------------------------------------------------------------------
(* The steps of the thread, and those of ffmpeg. *)

LEMMA WorkerKeeps == ASSUME StreamInv, WindowTypes, Worker PROVE StreamInv'
<1>1. CASE RemovePipe
  <2>1. thread \in Over /\ thread' \in Over /\ UNCHANGED <<run, muxer>>
    BY <1>1 DEF RemovePipe, Over
  <2>2. QED
    BY <2>1, OverKeeps
<1>2. CASE Report
  <2>1. thread \in Over /\ thread' \in Over /\ UNCHANGED <<run, muxer>>
    BY <1>2 DEF Report, Over
  <2>2. QED
    BY <2>1, OverKeeps
<1>3. CASE Leave
  BY <1>3, NoThread DEF Leave
<1>4. CASE NextFrame \/ Settle \/ CloseInput \/ Drain
  BY <1>4, NextFrameKeeps, SettleKeeps, CloseInputKeeps, DrainKeeps
<1>5. CASE Index \/ Probe \/ ServeFrame \/ WritePicture
  BY <1>5, IndexKeeps, ProbeKeeps, ServeFrameKeeps, WritePictureKeeps
<1>6. QED
  BY <1>1, <1>2, <1>3, <1>4, <1>5 DEF Worker

(* What ffmpeg may do with what it is given. *)
LEMMA ChildIsSound ==
  ASSUME StreamInv, Child, ffmpegRuns, muxer' \in Muxer,
         muxer.taken <= muxer'.taken, muxer'.taken <= Len(run.written),
         muxer'.muxed <= muxer'.taken,
         muxer'.at = "done" => thread = "drain" /\ muxer'.muxed = Len(run.written)
  PROVE  StreamInv'
<1>1. /\ muxer \in Muxer /\ muxer # NoMuxer /\ muxer.at # "done" /\ thread' = thread /\ run' = run
      /\ BufferLimit \in Nat
  BY ServerAssumption DEF StreamInv, RunTypes, ffmpegRuns, Child, NoMuxer
<1>2. thread # "ended" /\ IsRunning
  BY <1>1 DEF StreamInv, MuxInv, IsRunning
<1>3. run \in Locals /\ Len(run.written) \in Nat /\ thread \in Places
  BY <1>2, RunFacts
<1>4. RunTypes'
  BY <1>1, <1>3, RunTypesKept
<1>5. WrittenInv' /\ StartInv' /\ RangeInv' /\ BetweenInv' /\ RoundInv'
  BY <1>1, <1>2 DEF StreamInv, WrittenInv, StartInv, RangeInv, BetweenInv, RoundInv, IsRunning
<1>6. OverInv'
  BY <1>1 DEF StreamInv, OverInv
<1>7. MuxInv'
  <2>1. buffered' = Len(run.written) - muxer'.taken /\ buffered = Len(run.written) - muxer.taken
    BY <1>1 DEF buffered
  <2> DEFINE w == Len(run.written)
             t == muxer.taken
             u == muxer'.taken
             L == BufferLimit
  <2>2. w \in Nat /\ t \in Nat /\ u \in Nat /\ t <= u /\ L \in Nat
    BY <1>1, <1>3 DEF Muxer
  <2> HIDE DEF w, t, u, L
  <2>3. (w - t <= L => w - u <= L) /\ (w - t <= L + 1 => w - u <= L + 1)
    BY <2>2
  <2>4. /\ buffered <= BufferLimit => buffered' <= BufferLimit
        /\ buffered <= BufferLimit + 1 => buffered' <= BufferLimit + 1
    BY <2>1, <2>3 DEF w, t, u, L
  <2>5. thread \in {"serve", "write", "drain"} => buffered' <= BufferLimit
    BY <2>4 DEF StreamInv, MuxInv
  <2>6. thread = "settle" => buffered' <= BufferLimit + 1
    BY <2>4 DEF StreamInv, MuxInv
  <2>7. QED
    BY <1>1, <1>2, <2>5, <2>6 DEF MuxInv
<1>8. QED
  BY <1>4, <1>5, <1>6, <1>7 DEF StreamInv

LEMMA ffmpegKeeps == ASSUME StreamInv, ffmpegStep \/ ffmpegDies PROVE StreamInv'
<1>1. muxer \in Muxer /\ ffmpegRuns /\ Child
  BY DEF StreamInv, RunTypes, ffmpegStep, ffmpegDies, Take, OpenInputs, OpenOutput, MeetReader, Mux,
     EndOfInput, ffmpegRuns
<1>2. IsRunning
  BY <1>1 DEF StreamInv, MuxInv, IsRunning, ffmpegRuns, NoMuxer
<1>3. /\ muxer.muxed <= muxer.taken /\ muxer.taken <= Len(run.written)
      /\ muxer.muxed \in Nat /\ muxer.taken \in Nat /\ Len(run.written) \in Nat
  BY <1>1, <1>2, RunFacts DEF StreamInv, MuxInv, Muxer
<1>4. CASE Take
  <2>1. /\ muxer' = [muxer EXCEPT !.taken = @ + 1] /\ muxer.taken < Len(run.written)
        /\ muxer' \in Muxer /\ muxer'.at = muxer.at /\ muxer'.muxed = muxer.muxed
        /\ muxer'.taken = muxer.taken + 1
    BY <1>1, <1>4 DEF Take, Muxer
  <2>2. muxer.at # "done"
    BY <1>1 DEF ffmpegRuns
  <2> DEFINE w == Len(run.written)
             t == muxer.taken
             m == muxer.muxed
  <2>3. w \in Nat /\ t \in Nat /\ m \in Nat /\ t < w /\ m <= t
    BY <1>3, <2>1
  <2> HIDE DEF w, t, m
  <2>4. t <= t + 1 /\ t + 1 <= w /\ m <= t + 1
    BY <2>3
  <2>5. muxer.taken <= muxer'.taken /\ muxer'.taken <= Len(run.written) /\ muxer'.muxed <= muxer'.taken
    BY <2>1, <2>4 DEF w, t, m
  <2>6. QED
    BY <1>1, <2>1, <2>2, <2>5, ChildIsSound
<1>5. ASSUME NEW place \in {"output", "waiting", "failed", "muxing", "storing"}, muxer' = [muxer EXCEPT !.at = place]
      PROVE  StreamInv'
  <2>1. muxer' \in Muxer /\ muxer'.at # "done" /\ muxer'.taken = muxer.taken /\ muxer'.muxed = muxer.muxed
    BY <1>1, <1>5 DEF Muxer
  <2>2. QED
    BY <1>1, <1>3, <2>1, ChildIsSound
<1>6. CASE OpenInputs \/ OpenOutput \/ MeetReader \/ ffmpegDies
  BY <1>5, <1>6 DEF OpenInputs, OpenOutput, MeetReader, ffmpegDies
<1>7. CASE Mux
  <2>1. CASE muxer.at = "storing" \/ reader = "reading"
    <3>1. /\ muxer.muxed < muxer.taken /\ muxer' \in Muxer /\ muxer'.at = muxer.at
          /\ muxer'.taken = muxer.taken /\ muxer'.muxed = muxer.muxed + 1 /\ muxer.at # "done"
      BY <1>1, <1>7, <2>1 DEF Mux, Muxer
    <3>2. muxer'.muxed <= muxer'.taken
      BY <1>3, <3>1
    <3>3. QED
      BY <1>1, <1>3, <3>1, <3>2, ChildIsSound
  <2>2. CASE ~(muxer.at = "storing" \/ reader = "reading")
    BY <1>5, <1>7, <2>2 DEF Mux
  <2>3. QED
    BY <2>1, <2>2
<1>8. CASE EndOfInput
  <2>1. /\ muxer' \in Muxer /\ muxer'.taken = muxer.taken /\ muxer'.muxed = muxer.muxed
        /\ thread = "drain" /\ muxer.muxed = Len(run.written)
    BY <1>1, <1>8 DEF EndOfInput, Muxer
  <2>2. QED
    BY <1>1, <1>3, <2>1, ChildIsSound
<1>9. QED
  BY <1>4, <1>6, <1>7, <1>8 DEF ffmpegStep

-----------------------------------------------------------------------------
(* The window begins a run, or leaves it alone. *)

(* A run begins with nothing written. *)
LEMMA RunKeeps ==
  ASSUME StreamInv, thread = "ended", NEW c \in Configs, NEW audio \in Sounds \cup {None},
         Run(c, audio), UNCHANGED muxer
  PROVE  StreamInv'
<1>1. c.first \in Nat
  BY ConfigFacts
<1>2. /\ run' \in Locals /\ run'.config = c /\ run'.written = <<>> /\ run'.ordinal = c.first
      /\ run'.elapsed = 0 /\ run'.error = "" /\ thread' = "index"
  <2>1. run' = Begin(c, audio) /\ thread' = "index"
    BY DEF Run
  <2>2. Begin(c, audio) \in Locals
    <3>1. "" \in Errors /\ 0 \in Nat /\ <<>> \in Seq(Shown)
      BY DEF Errors
    <3>2. QED
      BY <1>1, <3>1, Zenon DEF Begin, Locals
  <2>3. QED
    BY <2>1, <2>2 DEF Begin
<1>3. muxer' = NoMuxer /\ NoMuxer \in Muxer /\ NoMuxer.at = "none" /\ NoMuxer.taken = 0 /\ NoMuxer.muxed = 0
  BY DEF StreamInv, MuxInv, NoMuxer, Muxer, None
<1>4. RunTypes'
  BY <1>2, <1>3, RunTypesKept DEF Places
<1>5. WrittenInv'
  <2>1. Len(run'.written) = 0
    BY <1>2
  <2>2. InRange(c) => 0 <= Ticks(c)
    <3>1. ASSUME InRange(c) PROVE 0 <= Ticks(c)
      <4>1. c.last + 1 \in c.first .. c.last + 1
        BY <3>1, <1>1, ConfigFacts, RangeFacts
      <4>2. Ticks(c) \in Nat
        BY <3>1, <4>1, BeforeFacts
      <4>3. QED
        BY <4>2
    <3>2. QED
      BY <3>1
  <2>3. \A i \in 1 .. Len(run'.written) : run'.written[i] = Due(run'.config, i - 1)
    BY <2>1
  <2>4. QED
    BY <1>2, <2>1, <2>2, <2>3 DEF WrittenInv
<1>6. StartInv' /\ RangeInv' /\ BetweenInv' /\ RoundInv' /\ OverInv'
  BY <1>2, <1>3 DEF StartInv, RangeInv, BetweenInv, RoundInv, OverInv, Over
<1>7. MuxInv'
  <2>1. Len(run'.written) = 0
    BY <1>2
  <2>2. QED
    BY <1>2, <1>3, <2>1, NothingIsLess DEF MuxInv
<1>8. QED
  BY <1>4, <1>5, <1>6, <1>7 DEF StreamInv

(* Nobody else touches a run. *)
LEMMA AloneKeeps == ASSUME StreamInv, UNCHANGED <<thread, run, muxer>> PROVE StreamInv'
  BY DEF StreamInv, RunTypes, WrittenInv, StartInv, RangeInv, BetweenInv, RoundInv, OverInv,
     MuxInv, IsRunning, buffered

LEMMA LaunchStreams ==
  ASSUME StreamInv, thread = "ended", NEW c \in Configs, NEW audio \in Sounds \cup {None},
         Launch(c, audio), UNCHANGED muxer
  PROVE  StreamInv'
  BY RunKeeps, AloneKeeps DEF Launch, Discard

LEMMA StartServerStreams ==
  ASSUME StreamInv, NEW c \in Configs, StartServer(c)
  PROVE  StreamInv'
<1>1. thread = "ended" /\ UNCHANGED muxer /\ None \in Sounds \cup {None}
  BY DEF StartServer, IsRunning
<1>2. CASE Launch(c, None)
  BY <1>1, <1>2, LaunchStreams
<1>3. CASE UNCHANGED <<thread, run>>
  BY <1>1, <1>3, AloneKeeps
<1>4. QED
  BY <1>2, <1>3 DEF StartServer

LEMMA PreparedStreams ==
  ASSUME StreamInv, WindowTypes, gui = "preparing" => thread = "ended", Prepared
  PROVE  StreamInv'
<1>1. thread = "ended" /\ UNCHANGED muxer /\ wanted \in Configs /\ sound \in Sounds \cup {None}
  BY DEF Prepared, WindowTypes
<1>2. CASE Launch(wanted, sound)
  BY <1>1, <1>2, LaunchStreams
<1>3. CASE Discard
  BY <1>1, <1>3, AloneKeeps DEF Discard
<1>4. QED
  BY <1>2, <1>3 DEF Prepared

(* Everybody else leaves the thread, its locals and ffmpeg alone. *)
LEMMA StreamStep ==
  ASSUME IInv, WindowTypes, StreamInv, [Next]_vars
  PROVE  StreamInv'
<1>1. CASE Worker
  BY <1>1, WorkerKeeps
<1>2. CASE ffmpegStep \/ ffmpegDies
  BY <1>2, ffmpegKeeps
<1>3. CASE \E c \in Configs : StartServer(c)
  BY <1>3, StartServerStreams
<1>4. CASE Prepared
  BY <1>4, PreparedStreams DEF IInv
<1>5. CASE OpenSource \/ StopServer \/ ReleaseSource \/ Stopped \/ Finished
  BY <1>5, AloneKeeps DEF OpenSource, StopServer, ReleaseSource, Stop, Stopped, Finished
<1>6. CASE ReaderComes \/ ReaderLeaves \/ FileAppears \/ FileGoes \/ FifoSwapped
  BY <1>6, AloneKeeps DEF ReaderComes, ReaderLeaves, FileAppears, FileGoes, FifoSwapped, Elsewhere
<1>7. CASE UNCHANGED vars
  BY <1>7, AloneKeeps DEF vars
<1>8. QED
  BY <1>1, <1>2, <1>3, <1>4, <1>5, <1>6, <1>7 DEF Next

-----------------------------------------------------------------------------
(* The types of what the window keeps. *)

LEMMA LaunchTypes ==
  ASSUME WindowTypes, NEW c, NEW audio \in Sounds \cup {None}, Launch(c, audio),
         gui' = "events", wanted' = NoRun, starts' \in 0 .. MaxStarts,
         UNCHANGED <<source, reports, reader>>
  PROVE  WindowTypes'
  BY DEF WindowTypes, Launch, Run, Discard, None

LEMMA StartServerTypes == ASSUME WindowTypes, NEW c \in Configs, StartServer(c) PROVE WindowTypes'
<1>1. MaxStarts \in Nat /\ starts \in Nat /\ starts' = starts + 1 /\ starts < MaxStarts
  BY ServerAssumption DEF StartServer, WindowTypes
<1>2. starts' \in 0 .. MaxStarts /\ starts' \in Sounds
  BY <1>1 DEF Sounds
<1>3. gui = "events" /\ wanted = NoRun /\ UNCHANGED <<source, reports, reader>> /\ None \in Sounds \cup {None}
  BY DEF StartServer, WindowTypes
<1>4. CASE Launch(c, None) /\ UNCHANGED <<gui, wanted>>
  BY <1>2, <1>3, <1>4, LaunchTypes
<1>5. CASE /\ gui' = "preparing" /\ wanted' = c
           /\ sounds' = sounds \ {sound} /\ sound' = starts'
           /\ UNCHANGED <<cancel, thread, run, entry>>
  <2>1. wanted' # NoRun
    BY <1>5, NoRunAssumption
  <2>2. QED
    BY <1>2, <1>3, <1>5, <2>1 DEF WindowTypes
<1>6. QED
  BY <1>4, <1>5 DEF StartServer

LEMMA PreparedTypes == ASSUME WindowTypes, Prepared PROVE WindowTypes'
<1>1. /\ gui' = "events" /\ wanted' = NoRun /\ starts' \in 0 .. MaxStarts
      /\ UNCHANGED <<source, reports, reader>> /\ sound \in Sounds \cup {None}
  BY DEF Prepared, WindowTypes
<1>2. CASE Launch(wanted, sound)
  BY <1>1, <1>2, LaunchTypes
<1>3. CASE Discard
  BY <1>1, <1>3 DEF WindowTypes, Discard, None
<1>4. QED
  BY <1>2, <1>3 DEF Prepared

LEMMA TypesStep ==
  ASSUME IInv, WindowTypes, StreamInv, [Next]_vars
  PROVE  WindowTypes'
<1>1. CASE Worker
  <2>1. CASE Report
    <3>1. run.error \in Errors
      BY <2>1, RunFacts DEF Report, IsRunning, Locals
    <3>2. reports' \in Seq(Errors)
      BY <2>1, <3>1 DEF Report, WindowTypes
    <3>3. QED
      BY <2>1, <3>2 DEF WindowTypes, Report, window, world
  <2>2. CASE RemovePipe \/ Leave
    BY <2>2 DEF WindowTypes, RemovePipe, Leave, window
  <2>3. CASE Local
    BY <2>3 DEF WindowTypes, Local, window, world
  <2>4. QED
    BY <1>1, <2>1, <2>2, <2>3 DEF Worker, Index, Probe, ServeFrame, WritePicture, NextFrame,
       Settle, CloseInput, Drain
<1>2. CASE ffmpegStep \/ ffmpegDies
  <2>1. Child
    BY <1>2 DEF ffmpegStep, ffmpegDies, Take, OpenInputs, OpenOutput, MeetReader, Mux, EndOfInput
  <2>2. QED
    BY <2>1 DEF Child, WindowTypes, window, world
<1>3. CASE \E c \in Configs : StartServer(c)
  BY <1>3, StartServerTypes
<1>4. CASE Prepared
  BY <1>4, PreparedTypes
<1>5. CASE OpenSource \/ StopServer \/ ReleaseSource \/ Stopped
  BY <1>5 DEF WindowTypes, OpenSource, StopServer, ReleaseSource, Stop, Stopped, world
<1>6. CASE Finished
  <2>1. reports \in Seq(Errors) /\ reports # <<>>
    BY <1>6 DEF Finished, WindowTypes
  <2>2. reports' \in Seq(Errors)
    BY <1>6, <2>1 DEF Finished
  <2>3. QED
    BY <1>6, <2>2 DEF Finished, WindowTypes, world, None
<1>7. CASE ReaderComes \/ ReaderLeaves \/ FileAppears \/ FileGoes \/ FifoSwapped
  BY <1>7 DEF WindowTypes, ReaderComes, ReaderLeaves, FileAppears, FileGoes, FifoSwapped, Elsewhere, window
<1>8. CASE UNCHANGED vars
  BY <1>8 DEF vars, WindowTypes
<1>9. QED
  BY <1>1, <1>2, <1>3, <1>4, <1>5, <1>6, <1>7, <1>8 DEF Next

LEMMA BeginsWithNothing == Init => WindowTypes /\ StreamInv
<1>1. ASSUME Init PROVE WindowTypes
  <2>1. <<>> \in Seq(Errors) /\ 0 \in 0 .. MaxStarts
    BY ServerAssumption
  <2>2. QED
    BY <1>1, <2>1 DEF Init, WindowTypes
<1>2. ASSUME Init PROVE StreamInv
  <2>1. NoMuxer \in Muxer /\ NoMuxer.at = "none"
    BY DEF NoMuxer, Muxer, None
  <2>2. QED
    BY <1>2, <2>1 DEF Init, StreamInv, RunTypes, WrittenInv, StartInv, RangeInv, BetweenInv,
       RoundInv, OverInv, MuxInv, IsRunning, Over, Places
<1>3. QED
  BY <1>1, <1>2

(* The state of a run at each place of the serve loop: what it has written is the
   beginning of what is due, and the time it carries from frame to frame has no
   rounding error in it (VDQtFrameServer.cpp:318-354). *)
THEOREM StreamInvariant == Spec => [](WindowTypes /\ StreamInv)
<1>1. Init => IInv /\ WindowTypes /\ StreamInv
  BY Initially, BeginsWithNothing
<1>2. IInv /\ WindowTypes /\ StreamInv /\ [Next]_vars => (IInv /\ WindowTypes /\ StreamInv)'
  BY StepKeeps, StreamStep, TypesStep
<1>3. QED
  BY <1>1, <1>2, PTL DEF Spec

(* Every variable keeps its type, a run's locals exist while its thread does, and
   the server never holds more than a picture over its limit, however slow the
   reader is (VDQtFrameServer.cpp:29-61). *)
THEOREM TypeCorrect == Spec => []TypeOK
<1>1. ASSUME WindowTypes, StreamInv PROVE TypeOK
  <2>1. thread \in {"serve", "write", "settle", "drain"} => buffered <= BufferLimit + 1
    <3>1. ASSUME thread \in {"serve", "write", "drain"} PROVE buffered <= BufferLimit + 1
      <4>1. IsRunning /\ buffered <= BufferLimit
        BY <1>1, <3>1 DEF StreamInv, MuxInv, IsRunning
      <4>2. buffered \in Int /\ BufferLimit \in Nat
        <5>1. Len(run.written) \in Nat /\ muxer.taken \in Nat
          BY <1>1, <4>1, RunFacts DEF StreamInv, RunTypes, Muxer
        <5>2. QED
          BY <5>1, ServerAssumption DEF buffered
      <4>3. QED
        BY <4>1, <4>2
    <3>2. QED
      BY <1>1, <3>1 DEF StreamInv, MuxInv
  <2>2. QED
    BY <1>1, <2>1 DEF TypeOK, WindowTypes, StreamInv, RunTypes, Muxer
<1>2. QED
  BY <1>1, StreamInvariant, PTL

(* A list that agrees with the beginning of another is a prefix of it. *)
LEMMA PrefixIs ==
  ASSUME NEW S, NEW s \in Seq(S), NEW t \in Seq(S), Len(s) <= Len(t),
         \A i \in 1 .. Len(s) : s[i] = t[i]
  PROVE  IsPrefix(s, t)
<1> DEFINE n == Len(s)
           u == SubSeq(s, 1, n)
           v == SubSeq(t, 1, n)
<1>1. n \in Nat /\ Len(t) \in Nat
  OBVIOUS
<1>2. u \in Seq(S) /\ Len(u) = n /\ \A i \in 1 .. n : u[i] = s[i]
  BY <1>1, SubSeqProperties
<1>3. v \in Seq(S) /\ Len(v) = n /\ \A i \in 1 .. n : v[i] = t[i]
  BY <1>1, SubSeqProperties
<1>4. u = v
  BY <1>2, <1>3, SeqEqual
<1>5. QED
  BY <1>4 DEF IsPrefix

(* The stream has a picture for every tick, and none if the range is wrong. *)
LEMMA StreamIs ==
  ASSUME NEW c \in Configs
  PROVE  /\ Streams[c] = Stream(c)
         /\ ~InRange(c) => Stream(c) = <<>>
         /\ InRange(c) => /\ Ticks(c) \in Nat /\ Len(Stream(c)) = Ticks(c)
                          /\ \A i \in 1 .. Ticks(c) : Stream(c)[i] = Due(c, i - 1)
<1>1. Streams[c] = Stream(c) /\ (~InRange(c) => Stream(c) = <<>>)
  BY DEF Streams, Stream
<1>2. ASSUME InRange(c)
      PROVE  /\ Ticks(c) \in Nat /\ Len(Stream(c)) = Ticks(c)
             /\ \A i \in 1 .. Ticks(c) : Stream(c)[i] = Due(c, i - 1)
  <2>1. Ticks(c) \in Nat
    <3>1. c.last + 1 \in c.first .. c.last + 1
      BY <1>2, ConfigFacts, RangeFacts
    <3>2. QED
      BY <1>2, <3>1, BeforeFacts
  <2>2. Stream(c) = [k \in 1 .. Ticks(c) |-> Due(c, k - 1)]
    BY <1>2 DEF Stream
  <2>3. QED
    BY <2>1, <2>2
<1>3. QED
  BY <1>1, <1>2

(* What is written to ffmpeg is what is due, tick by tick, for every edit with its
   masks, rate, decimation, number of phases and variable duration, and a run that
   reports no error has passed all of it on (VDQtFrameServer.cpp:318-354, 357-369). *)
THEOREM EveryPictureIsDue == Spec => []StreamIsTimeline
<1>1. ASSUME StreamInv, IsRunning PROVE IsPrefix(run.written, Streams[run.config])
  <2> DEFINE c == run.config
             s == run.written
             t == Streams[c]
  <2>1. c \in Configs /\ s \in Seq(Shown) /\ Len(s) \in Nat
    BY <1>1, RunFacts
  <2>2. CASE InRange(c)
    <3>1. /\ Len(t) = Ticks(c) /\ Ticks(c) \in Nat /\ Len(s) <= Len(t)
          /\ \A i \in 1 .. Ticks(c) : t[i] = Due(c, i - 1)
          /\ \A i \in 1 .. Len(s) : s[i] = Due(c, i - 1)
      BY <1>1, <2>1, <2>2, StreamIs DEF StreamInv, WrittenInv
    <3>2. t = [k \in 1 .. Ticks(c) |-> Due(c, k - 1)]
      BY <2>1, <2>2, StreamIs DEF Stream
    <3> DEFINE S == Shown \cup {Due(c, k - 1) : k \in 1 .. Ticks(c)}
    <3>3. s \in Seq(S)
      BY <2>1
    <3>4. t \in Seq(S)
      BY <3>1, <3>2
    <3>5. \A i \in 1 .. Len(s) : s[i] = t[i]
      <4> DEFINE m == Len(s)
                 n == Ticks(c)
      <4>1. m \in Nat /\ n \in Nat /\ m <= n
        BY <2>1, <3>1
      <4> HIDE DEF m, n
      <4>2. \A i \in 1 .. m : i \in 1 .. n
        BY <4>1
      <4>3. \A i \in 1 .. Len(s) : i \in 1 .. Ticks(c)
        BY <4>2 DEF m, n
      <4>4. QED
        BY <3>1, <4>3
    <3> HIDE DEF S
    <3>6. QED
      BY <3>1, <3>3, <3>4, <3>5, PrefixIs
  <2>3. CASE ~InRange(c)
    <3>1. s = <<>> /\ t = <<>>
      BY <1>1, <2>1, <2>3, StreamIs DEF StreamInv, WrittenInv
    <3> HIDE DEF s, t
    <3>2. IsPrefix(s, t)
      BY <3>1 DEF IsPrefix
    <3>3. QED
      BY <3>2 DEF s, t, c
  <2>4. QED
    BY <2>2, <2>3
<1>2. ASSUME StreamInv, thread \in Over, run.error = ""
      PROVE  muxer.muxed = Len(Streams[run.config])
  <2>1. IsRunning
    BY <1>2 DEF IsRunning, Over
  <2>2. /\ muxer.muxed = Len(run.written) /\ InRange(run.config)
        /\ Len(run.written) = Ticks(run.config)
    BY <1>2 DEF StreamInv, OverInv, MuxInv
  <2>3. QED
    BY <1>2, <2>1, <2>2, RunFacts, StreamIs
<1>3. StreamInv => StreamIsTimeline
  BY <1>1, <1>2 DEF StreamIsTimeline, Over
<1>4. QED
  BY <1>3, StreamInvariant, PTL
=============================================================================
