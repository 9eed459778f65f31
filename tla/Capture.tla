------------------------------- MODULE Capture -------------------------------
(***************************************************************************)
(* onCaptureVideo(): an ffmpeg child records a camera into a staging file,  *)
(* or into several when the recording is split, while the window waits for  *)
(* it in rounds of 100 ms and dispatches events in between.  A stop, by the *)
(* user or by the time limit, is a "q" on the child's input; a child that   *)
(* has not ended after a while gets SIGTERM, and then SIGKILL.  What was    *)
(* recorded is installed if ffmpeg says that all went well, over a file     *)
(* somebody else may have put there during the hours of recording.         *)
(***************************************************************************)
EXTENDS Integers, FiniteSets

CONSTANTS
  Part,      \* where the parts of a split recording go
  First,     \* the one destination of a recording that is not split
  OtherFile, \* files of other programs
  Limit,     \* how many rounds a timed capture lasts
  Grace      \* how many rounds a child has to heed a stop (2000 ms)

Nothing  == "nothing"
Recorded == "recorded"

ASSUME CaptureAssumption ==
  /\ First \in Part /\ IsFiniteSet(OtherFile) /\ {Nothing, Recorded} \cap OtherFile = {}
  /\ {Limit, Grace} \subseteq Nat \ {0}

VARIABLES
  place,      \* where onCaptureVideo() is
  split,      \* splitCapture is checked
  timed,      \* timedStop is checked
  elapsed,    \* rounds since the start (not counted beyond Limit)
  stop,       \* stopRequested
  since,      \* rounds since the stop was written, or -1 (not beyond Grace + 1)
  camera,     \* pictures arrive, or the device is stalled
  child,      \* ffmpeg: recording, finishing its files, or ended
  signal,     \* what it was told: nothing, "q", SIGTERM
  exit,       \* exitStatus() and exitCode()
  recording,  \* what is staged: nothing, something, or complete files
  disk,       \* the destinations
  inspected,  \* the destinations as the transaction inspected them
  consented,  \* files the user agreed to replace
  told        \* what the user was told last

settings == <<split, timed>>
asked    == <<stop, since>>
ffmpeg   == <<child, signal, exit, recording>>
files    == <<disk, inspected, consented>>
captureVars ==
  <<place, split, timed, elapsed, stop, since, camera, child, signal, exit, recording, disk,
    inspected, consented, told>>

Used  == IF split THEN Part ELSE {First}
Ended == child = "ended"
Loop  == {"waiting", "pumping", "acting", "terminating"}

CaptureInit ==
  /\ place = "idle" /\ split = FALSE /\ timed = FALSE /\ elapsed = 0
  /\ stop = FALSE /\ since = -1
  /\ camera = "flows" /\ child = "ended" /\ signal = "none" /\ exit = "ok"
  /\ recording = "empty"
  /\ disk \in [Part -> {Nothing} \cup OtherFile]
  /\ \A t, u \in Part : disk[t] = disk[u] => t = u \/ disk[t] = Nothing
  /\ inspected = disk /\ consented = {} /\ told = "none"

-----------------------------------------------------------------------------
(* The dialog.  The user is asked about the file that has the chosen name. *)
Choose ==
  /\ place = "idle"
  /\ split' \in BOOLEAN /\ timed' \in BOOLEAN
  /\ consented' = {disk[First]} \ {Nothing}
  /\ told' = "none"
  /\ place' = "starting"
  /\ UNCHANGED <<elapsed, asked, camera, ffmpeg, disk, inspected>>

Start ==
  /\ place = "starting"
  /\ place' = "waiting" /\ elapsed' = 0 /\ stop' = FALSE /\ since' = -1
  /\ child' = "recording" /\ signal' = "none" /\ exit' = "ok" /\ recording' = "empty"
  /\ UNCHANGED <<settings, camera, files, told>>

StartFails ==
  /\ place = "starting" /\ place' = "idle" /\ told' = "failed"
  /\ UNCHANGED <<settings, elapsed, asked, camera, ffmpeg, files>>

(* waitForFinished(100) *)
WaitedInVain ==
  /\ place = "waiting" /\ ~Ended /\ place' = "pumping"
  /\ elapsed' = IF elapsed < Limit THEN elapsed + 1 ELSE elapsed
  /\ since' = IF since \in 0 .. Grace THEN since + 1 ELSE since
  /\ UNCHANGED <<settings, stop, camera, ffmpeg, files, told>>

ChildEnded ==
  /\ place = "waiting" /\ Ended /\ place' = "judging"
  /\ UNCHANGED <<settings, elapsed, asked, camera, ffmpeg, files, told>>

(* The button, or closing the dialog. *)
UserStops ==
  /\ place = "pumping" /\ ~stop /\ stop' = TRUE
  /\ UNCHANGED <<place, settings, elapsed, since, camera, ffmpeg, files, told>>

(* VDQtCaptureTimeExpired() *)
Expired == timed /\ elapsed >= Limit

Pumped ==
  /\ place = "pumping" /\ place' = "acting"
  /\ stop' = (stop \/ Expired)
  /\ UNCHANGED <<settings, elapsed, since, camera, ffmpeg, files, told>>

Late == stop /\ since > Grace

(* Mutant of Act: a stop that was asked for is asked for again. *)
ActAgain ==
  /\ place = "acting"
  /\ since' = IF stop THEN 0 ELSE since
  /\ signal' = IF stop THEN "q" ELSE signal
  /\ place' = "waiting"
  /\ UNCHANGED <<settings, elapsed, stop, camera, child, exit, recording, files, told>>

(* The rest of the round: "q" once, SIGTERM when that did not help. *)
Act ==
  /\ place = "acting"
  /\ since' = IF stop /\ since = -1 THEN 0 ELSE since
  /\ signal' = IF Late /\ ~Ended THEN "term"
               ELSE IF stop /\ since = -1 /\ signal = "none" THEN "q" ELSE signal
  /\ place' = IF Late THEN "terminating" ELSE "waiting"
  /\ UNCHANGED <<settings, elapsed, stop, camera, child, exit, recording, files, told>>

(* waitForFinished(1500), and kill() when that is not enough. *)
Terminated ==
  /\ place = "terminating" /\ place' = "waiting"
  /\ \/ Ended /\ UNCHANGED <<child, exit>>
     \/ ~Ended /\ child' = "ended" /\ exit' = "crash"
  /\ UNCHANGED <<settings, elapsed, asked, camera, signal, recording, files, told>>

-----------------------------------------------------------------------------
(* What was recorded is installed, or thrown away. *)
Captured == exit = "ok" /\ recording # "empty"

Finish(o) ==
  /\ place' = "idle" /\ told' = o /\ recording' = "empty"
  /\ UNCHANGED <<settings, elapsed, asked, camera, child, signal, exit>>

Install ==
  /\ disk' = [t \in Part |-> IF t \in Used THEN Recorded ELSE disk[t]]
  /\ UNCHANGED <<inspected, consented>>

Discard == place = "judging" /\ ~Captured /\ Finish("failed") /\ UNCHANGED files

(* sourceSafety, then replaceWithStagedFile(): a file that came meanwhile goes. *)
InstallOne ==
  /\ place = "judging" /\ Captured /\ ~split
  /\ \/ Install /\ Finish("saved")
     \/ UNCHANGED files /\ Finish("failed")

(* The transaction inspects the paths of the parts, and the user is asked. *)
InspectParts ==
  /\ place = "judging" /\ Captured /\ split
  /\ place' = "asking" /\ inspected' = disk
  /\ UNCHANGED <<settings, elapsed, asked, camera, ffmpeg, disk, consented, told>>

Approve ==
  /\ place = "asking" /\ place' = "installing"
  /\ consented' = {inspected[t] : t \in Part} \ {Nothing}
  /\ UNCHANGED <<settings, elapsed, asked, camera, ffmpeg, disk, inspected, told>>

Refuse ==
  /\ place = "asking" /\ {inspected[t] : t \in Part} # {Nothing}
  /\ Finish("failed") /\ UNCHANGED files

(* Mutant of InstallParts: the destinations are not compared again. *)
InstallPartsOver ==
  /\ place = "installing" /\ Install /\ Finish("saved")

(* commit(): all parts, over what was inspected, or none (see OutputTransaction). *)
InstallParts ==
  /\ place = "installing"
  /\ \/ disk = inspected /\ Install /\ Finish("saved")
     \/ UNCHANGED files /\ Finish("failed")

Window ==
  \/ WaitedInVain \/ ChildEnded \/ Pumped \/ Act \/ Terminated \/ Discard \/ InstallOne
  \/ InspectParts \/ InstallParts

-----------------------------------------------------------------------------
(* ffmpeg, the camera, and other programs. *)
Around == UNCHANGED <<place, settings, elapsed, asked, files, told>>

Record ==
  /\ child = "recording" /\ camera = "flows" /\ recording' = "partial"
  /\ UNCHANGED <<child, signal, exit, camera>> /\ Around

(* It notices the end of its own time, a "q" (not while a read hangs) or SIGTERM. *)
Heed ==
  /\ child = "recording" /\ child' = "finishing"
  /\ \/ camera = "flows" /\ (signal = "q" \/ Expired)
     \/ signal = "term"
  /\ UNCHANGED <<signal, exit, recording, camera>> /\ Around

(* The files are complete; after SIGTERM the exit code is 255 all the same. *)
Finalize ==
  /\ child = "finishing" /\ child' = "ended"
  /\ recording' = IF recording = "empty" THEN "empty" ELSE "whole"
  /\ exit' = IF signal = "term" THEN "error" ELSE "ok"
  /\ UNCHANGED <<signal, camera>> /\ Around

ChildFails ==
  /\ ~Ended /\ child' = "ended" /\ exit' \in {"error", "crash"}
  /\ UNCHANGED <<signal, recording, camera>> /\ Around

Stall  == camera = "flows" /\ camera' = "stalled" /\ UNCHANGED ffmpeg /\ Around
Resume == camera = "stalled" /\ camera' = "flows" /\ UNCHANGED ffmpeg /\ Around

OthersWrite ==
  \E t \in Part, f \in OtherFile :
    /\ \A u \in Part : disk[u] # f
    /\ disk' = [disk EXCEPT ![t] = f]
    /\ UNCHANGED <<place, settings, elapsed, asked, camera, ffmpeg, inspected, consented,
                   told>>

OthersDelete ==
  \E t \in Part :
    /\ disk[t] # Nothing /\ disk' = [disk EXCEPT ![t] = Nothing]
    /\ UNCHANGED <<place, settings, elapsed, asked, camera, ffmpeg, inspected, consented,
                   told>>

CaptureNext ==
  \/ Choose \/ Start \/ StartFails \/ UserStops \/ Approve \/ Refuse \/ Window
  \/ Record \/ Heed \/ Finalize \/ ChildFails \/ Stall \/ Resume \/ OthersWrite \/ OthersDelete

CaptureSpec == CaptureInit /\ [][CaptureNext]_captureVars

(* The window's own steps go on: its waits end.  Nothing is assumed of ffmpeg,
   the camera, the user or other programs. *)
FairSpec == CaptureSpec /\ WF_captureVars(Window)

-----------------------------------------------------------------------------
CaptureTypes ==
  /\ place \in Loop \cup {"idle", "starting", "judging", "asking", "installing"}
  /\ split \in BOOLEAN /\ timed \in BOOLEAN /\ stop \in BOOLEAN
  /\ elapsed \in 0 .. Limit /\ since \in -1 .. Grace + 1
  /\ camera \in {"flows", "stalled"}
  /\ child \in {"recording", "finishing", "ended"}
  /\ place \notin Loop => Ended
  /\ signal \in {"none", "q", "term"} /\ exit \in {"ok", "error", "crash"}
  /\ recording \in {"empty", "partial", "whole"}
  /\ disk \in [Part -> OtherFile \cup {Nothing, Recorded}]
  /\ inspected \in [Part -> OtherFile \cup {Nothing, Recorded}]
  /\ consented \subseteq OtherFile \cup {Recorded}
  /\ told \in {"none", "failed", "saved"}

(* What comes to a destination is a recording that ffmpeg finished, never the
   remains of a child that failed, was killed or ran full; and a part of a split
   recording replaces only what the user was asked about, whoever writes there
   between the question and the answer (9052-9063, 9083-9098). *)
InstallationIsOwed ==
  [][\A t \in Part : disk[t] # Recorded /\ disk'[t] = Recorded =>
       /\ recording = "whole"
       /\ split => disk[t] \in consented \cup {Nothing}]_captureVars

(* A stop, or the end of the time, ends the recording: with a camera that
   stalls, a child that does not read its input and one that ignores signals
   (9028-9043). *)
CaptureEnds == (place \in Loop /\ (stop \/ timed)) ~> (place \notin Loop)
=============================================================================
