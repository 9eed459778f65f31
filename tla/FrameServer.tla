----------------------------- MODULE FrameServer -----------------------------
(***************************************************************************)
(* VDQtFrameServer and the main window that runs it: a thread indexes the   *)
(* source, maps the edited timeline onto a constant frame rate, and writes  *)
(* the pictures to an ffmpeg child, which muxes them with a sound file into *)
(* a FIFO that some other program reads, slowly, late or not at all.  The   *)
(* GUI thread makes the sound file, creates the FIFO, starts the thread,    *)
(* may stop it (a flag and a blocking wait), and removes the sound file     *)
(* when the thread's last signal, serverFinished, is dispatched.  Pictures  *)
(* are written whole; times are whole ticks.                                *)
(***************************************************************************)
EXTENDS Integers, Sequences, SequencesExt, FiniteSets, FiniteSetsExt

CONSTANTS
  Elapsed,       \* when each source frame begins, and when the last one ends
  NativePeriod,  \* the source's nominal time per frame
  Configs,       \* what can be served
  BufferLimit,   \* 2 MiB: the pictures QProcess may hold before the writer waits
  MaxStarts,     \* bound: how many times serving is asked for
  NoRun          \* no thread is running

Segment == [start : Nat, count : Nat \ {0}, masked : BOOLEAN]

(* custom is the frame time the user set, or 0; it replaces the source's clock,
   or resamples it if duration is kept (convertFpsPreserveDuration). *)
Config == [segments : Seq(Segment), first : Nat, last : Nat, step : Nat \ {0},
           phases : Nat \ {0}, preserve : BOOLEAN, custom : Nat, convert : BOOLEAN]

ASSUME ServerAssumption ==
  /\ Elapsed \in Seq(Nat) /\ Len(Elapsed) > 1 /\ Elapsed[1] = 0
  /\ \A k \in 2 .. Len(Elapsed) : Elapsed[k - 1] < Elapsed[k]
  /\ {NativePeriod, BufferLimit, MaxStarts} \subseteq Nat \ {0}
  /\ Configs \subseteq Config
  /\ \A c \in Configs :
       /\ \A k \in 1 .. Len(c.segments) : c.segments[k].start + c.segments[k].count < Len(Elapsed)
       /\ c.convert => c.custom > 0

VARIABLES
  gui,       \* the GUI thread: events, preparing a sound file, blocked in stop()
  source,    \* a source is open
  sound,     \* mFrameServerAudioPath
  sounds,    \* the sound files in the session's temporary directory
  reports,   \* serverFinished signals posted to the GUI thread, not yet dispatched
  wanted,    \* the Config being prepared
  starts,    \* how often serving was asked for (bound by MaxStarts)
  cancel,    \* mCancelRequested
  thread,    \* where run() is; "ended" when mThread is not running
  run,       \* run()'s locals
  muxer,     \* the ffmpeg child
  entry,     \* what is at the FIFO's path; "swapped": others removed or replaced the FIFO
  reader     \* a program that reads the FIFO

window == <<gui, source, sound, sounds, wanted, starts>>
world  == <<entry, reader>>
vars   == <<gui, source, sound, sounds, reports, wanted, starts, cancel, thread, run,
            muxer, entry, reader>>

None    == 0
NoMuxer == [at |-> "none", sound |-> None, taken |-> 0, muxed |-> 0]

-----------------------------------------------------------------------------
(* The timeline's clock, as serving sees it. *)

(* Sums(w)[k] is the sum of the first k of the numbers w. *)
Sums(w) ==
  LET sum[k \in 0 .. Len(w)] == IF k = 0 THEN 0 ELSE sum[k - 1] + w[k]
  IN sum

Offset(s, k) == Sums([j \in 1 .. Len(s) |-> s[j].count])[k - 1]
Total(s)     == Offset(s, Len(s) + 1)

InRange(c) == c.first <= c.last /\ c.last < Total(c.segments)

(* VDQtFilterContextForFrame(): the seconds of the edit before frame f. *)
EditTime(s, f) ==
  LET played(k) == Max({0, Min({s[k].count, f - Offset(s, k)})})
      time      == [k \in 1 .. Len(s) |->
                     Elapsed[s[k].start + played(k) + 1] - Elapsed[s[k].start + 1]]
  IN Sums(time)[Len(s)]

(* mapOutputToSource() *)
SourceFrame(s, f) ==
  LET k    == CHOOSE j \in 1 .. Len(s) : Offset(s, j) <= f /\ f < Offset(s, j) + s[j].count
      held == {j \in 1 .. k - 1 : ~s[j].masked}
  IN IF ~s[k].masked THEN s[k].start + f - Offset(s, k)
     ELSE IF held = {} THEN s[k].start
     ELSE s[Max(held)].start + s[Max(held)].count - 1

(* sourceFps and step, and outputFps (without the factor for phases).  Times are
   multiplied by NativePeriod from here on, so that they stay whole. *)
SourcePeriod(c) == IF c.custom > 0 /\ ~c.convert THEN c.custom ELSE NativePeriod
Step(c)         == IF c.convert THEN 1 ELSE c.step
OutputPeriod(c) == NativePeriod * (IF c.convert THEN c.custom ELSE SourcePeriod(c) * Step(c))

ChunkEnd(c, ordinal) == Min({c.last + 1, ordinal + Step(c)})

Duration(c, ordinal) ==
  IF c.preserve
  THEN SourcePeriod(c) * (EditTime(c.segments, ChunkEnd(c, ordinal)) - EditTime(c.segments, ordinal))
  ELSE SourcePeriod(c) * NativePeriod * (ChunkEnd(c, ordinal) - ordinal)

(* VDQtCfrBoundaryFrames(): how many output frames begin before a time, given
   as a numerator over the number of phases. *)
BoundaryFrames(c, t) == (t + OutputPeriod(c) - 1) \div OutputPeriod(c)

(* Mutant of Through: each source frame is rounded for itself. *)
ThroughRounded(c, r, phase) ==
  Len(r.written) + BoundaryFrames(c, Duration(c, r.ordinal) * phase)

(* The pictures one round of the serve loop writes, after `emitted' others. *)
Through(c, r, phase) == BoundaryFrames(c, r.elapsed * c.phases + Duration(c, r.ordinal) * phase)

Round(c, r) ==
  LET picture(k) == Min({p \in 1 .. c.phases : k <= Through(c, r, p)})
  IN [j \in 1 .. Through(c, r, c.phases) - Len(r.written) |->
       <<SourceFrame(c.segments, r.ordinal), picture(Len(r.written) + j)>>]

-----------------------------------------------------------------------------
Init ==
  /\ gui = "events" /\ source = FALSE
  /\ sound = None /\ sounds = {} /\ reports = <<>> /\ wanted = NoRun /\ starts = 0
  /\ cancel = FALSE /\ thread = "ended" /\ run = NoRun /\ muxer = NoMuxer
  /\ entry = "none" /\ reader = "absent"

IsRunning == thread # "ended"

Begin(c, audio) ==
  [config |-> c, sound |-> audio, error |-> "", ordinal |-> c.first,
   elapsed |-> 0, todo |-> <<>>, written |-> <<>>]

(* VDQtFrameServer::start() *)
Run(c, audio) ==
  /\ cancel' = FALSE /\ thread' = "index" /\ run' = Begin(c, audio)
  /\ sounds' = sounds \cup ({audio} \ {None}) /\ UNCHANGED sound

(* startFrameServerAtPath(), when there is no ffmpeg or the path is taken. *)
Discard ==
  sound' = None /\ sounds' = sounds \ {sound} /\ UNCHANGED <<cancel, thread, run, entry>>

(* Mutant of Launch: the path is not looked at again, whatever came there is replaced. *)
LaunchOver(c, audio) ==
  \/ entry \in {"none", "file"} /\ entry' = "fifo" /\ Run(c, audio)
  \/ Discard

Launch(c, audio) ==
  \/ entry = "none" /\ entry' = "fifo" /\ Run(c, audio)
  \/ Discard

(* startFrameServerAtPath(): without sound it goes straight to start(); the sound
   file gets a new name, and the one an earlier run used is removed. *)
StartServer(c) ==
  /\ gui = "events" /\ source /\ ~IsRunning /\ entry = "none" /\ starts < MaxStarts
  /\ starts' = starts + 1
  /\ \/ Launch(c, None) /\ UNCHANGED <<gui, wanted>>
     \/ /\ gui' = "preparing" /\ wanted' = c
        /\ sounds' = sounds \ {sound} /\ sound' = starts'
        /\ UNCHANGED <<cancel, thread, run, entry>>
  /\ UNCHANGED <<source, reports, muxer, reader>>

(* Mutant of Prepared: the preparation dispatches nothing. *)
PreparedQuietly ==
  /\ gui = "preparing"
  /\ gui' = "events" /\ wanted' = NoRun
  /\ sound # None /\ Launch(wanted, sound)
  /\ UNCHANGED <<source, reports, starts, muxer, reader>>

(* exportAudioRangesToFile() reports its progress, at the latest just before it
   installs the file, and what is posted is dispatched there.  It is given the
   path by reference: if that was cleared meanwhile, nothing can be installed. *)
Prepared ==
  /\ gui = "preparing" /\ reports = <<>>
  /\ gui' = "events" /\ wanted' = NoRun
  /\ \/ sound # None /\ Launch(wanted, sound)
     \/ Discard
  /\ UNCHANGED <<source, reports, starts, muxer, reader>>

(* The serverFinished handler. *)
Finished ==
  /\ gui \in {"events", "preparing"} /\ reports # <<>>
  /\ reports' = Tail(reports)
  /\ sounds' = sounds \ {sound} /\ sound' = None
  /\ UNCHANGED <<gui, source, wanted, starts, cancel, thread, run, muxer, world>>

OpenSource ==
  /\ gui = "events" /\ ~source
  /\ source' = TRUE
  /\ UNCHANGED <<gui, sound, sounds, reports, wanted, starts, cancel, thread, run, muxer, world>>

(* stop(), for the user and for releaseVideoSource(). *)
Stop(place) ==
  /\ gui = "events"
  /\ gui' = place /\ cancel' = TRUE
  /\ UNCHANGED <<source, sound, sounds, reports, wanted, starts, thread, run, muxer, world>>

StopServer    == IsRunning /\ Stop("stopping")
ReleaseSource == source /\ Stop("releasing")

Stopped ==
  /\ gui \in {"stopping", "releasing"} /\ ~IsRunning
  /\ gui' = "events"
  /\ source' = (source /\ gui = "stopping")
  /\ UNCHANGED <<sound, sounds, reports, wanted, starts, cancel, thread, run, muxer, world>>

-----------------------------------------------------------------------------
(* run().  Cancellation is looked at in the scan, before a frame, before a
   picture and between the waits, of 100 ms, for ffmpeg. *)
ffmpegRuns == muxer.at \in {"inputs", "output", "waiting", "muxing", "storing"}

Local == UNCHANGED <<window, reports, cancel, world>>

(* The tail of run() after an error: ffmpeg, if it was started, is killed. *)
Abandon(error) ==
  /\ thread' = "remove" /\ run' = [run EXCEPT !.error = error] /\ muxer' = NoMuxer

(* ensureFrameIndex() and the checks of the range.  The scan polls the flag. *)
Index ==
  /\ thread = "index"
  /\ \/ InRange(run.config) /\ thread' = "probe" /\ UNCHANGED <<run, muxer>>
     \/ Abandon("failed")
     \/ cancel /\ Abandon("cancelled")
  /\ Local

(* The first frame is rendered, and ffmpeg started if that went well. *)
Probe ==
  /\ thread = "probe"
  /\ \/ /\ thread' = "serve"
        /\ muxer' = [NoMuxer EXCEPT !.at = "inputs",
                       !.sound = IF run.sound \in sounds THEN run.sound ELSE None]
        /\ UNCHANGED run
     \/ Abandon("failed")
  /\ Local

(* One frame of the timeline: decoded, filtered and put on the output's clock. *)
ServeFrame ==
  /\ thread = "serve" /\ run.ordinal <= run.config.last
  /\ \/ /\ ~cancel
        /\ thread' = "write"
        /\ run' = [run EXCEPT !.todo = Round(run.config, run)]
        /\ UNCHANGED muxer
     \/ ~cancel /\ Abandon("failed")
     \/ cancel /\ Abandon("stopped")
  /\ Local

(* writeImage(): the whole picture goes into QProcess's buffer. *)
WritePicture ==
  /\ thread = "write" /\ run.todo # <<>>
  /\ \/ /\ ~cancel
        /\ thread' = "settle"
        /\ run' = [run EXCEPT !.written = Append(@, Head(run.todo)), !.todo = Tail(@)]
        /\ UNCHANGED muxer
     \/ cancel /\ Abandon("stopped")
  /\ Local

NextFrame ==
  /\ thread = "write" /\ run.todo = <<>>
  /\ thread' = "serve"
  /\ run' = [run EXCEPT !.ordinal = @ + Step(run.config),
                        !.elapsed = @ + Duration(run.config, run.ordinal)]
  /\ UNCHANGED muxer /\ Local

(* writeImage(): back-pressure.  A dead ffmpeg is noticed only in these waits. *)
buffered == Len(run.written) - muxer.taken

(* Mutants of Settle: no limit; no look at the flag; none at ffmpeg. *)
SettleAtOnce ==
  /\ thread = "settle" /\ thread' = "write"
  /\ UNCHANGED <<run, muxer>> /\ Local

SettleStubbornly ==
  /\ thread = "settle"
  /\ \/ /\ buffered <= BufferLimit
        /\ thread' = "write" /\ UNCHANGED <<run, muxer>>
     \/ buffered > BufferLimit /\ ~ffmpegRuns /\ Abandon("failed")
  /\ Local

SettleTrustingly ==
  /\ thread = "settle"
  /\ \/ /\ buffered <= BufferLimit
        /\ thread' = "write" /\ UNCHANGED <<run, muxer>>
     \/ buffered > BufferLimit /\ cancel /\ Abandon("stopped")
  /\ Local

Settle ==
  /\ thread = "settle"
  /\ \/ /\ buffered <= BufferLimit
        /\ thread' = "write" /\ UNCHANGED <<run, muxer>>
     \/ buffered > BufferLimit /\ cancel /\ Abandon("stopped")
     \/ buffered > BufferLimit /\ ~cancel /\ ~ffmpegRuns /\ Abandon("failed")
  /\ Local

(* closeWriteChannel() and the wait for ffmpeg to finish the stream. *)
CloseInput ==
  /\ thread = "serve" /\ run.ordinal > run.config.last
  /\ thread' = "drain" /\ UNCHANGED <<run, muxer>> /\ Local

Drain ==
  /\ thread = "drain"
  /\ \/ /\ muxer.at = "done"
        /\ thread' = "remove" /\ UNCHANGED <<run, muxer>>
     \/ muxer.at = "failed" /\ Abandon("failed")
     \/ ffmpegRuns /\ cancel /\ Abandon("stopped")
  /\ Local

(* QFile::remove() of the path, whatever is there by now. *)
RemovePipe ==
  /\ thread = "remove"
  /\ thread' = "report" /\ entry' = "none"
  /\ UNCHANGED <<window, reports, cancel, run, muxer, reader>>

Report ==
  /\ thread = "report"
  /\ thread' = "leave" /\ reports' = Append(reports, run.error)
  /\ UNCHANGED <<window, cancel, run, muxer, world>>

(* The thread ends, its locals with it; a reader has seen the end of the stream. *)
Leave ==
  /\ thread = "leave"
  /\ thread' = "ended" /\ run' = NoRun /\ muxer' = NoMuxer /\ reader' = "absent"
  /\ UNCHANGED <<window, reports, cancel, entry>>

Worker ==
  \/ Index \/ Probe \/ ServeFrame \/ WritePicture \/ NextFrame \/ Settle \/ CloseInput
  \/ Drain \/ RemovePipe \/ Report \/ Leave

-----------------------------------------------------------------------------
(* ffmpeg.  It opens its inputs, for which it needs the first picture, then its
   output, and passes on one picture at a time.  To open the FIFO is to wait for a
   reader of it; in its place -y makes, or overwrites, a file, which has none. *)
Child == UNCHANGED <<window, reports, cancel, thread, run, world>>

Feeding == thread \in {"settle", "drain"}

(* QProcess hands its buffer on only while it is waited for. *)
Take ==
  /\ ffmpegRuns /\ Feeding
  /\ muxer.taken = muxer.muxed /\ muxer.taken < Len(run.written)
  /\ muxer' = [muxer EXCEPT !.taken = @ + 1] /\ Child

OpenInputs ==
  /\ muxer.at = "inputs" /\ muxer.taken > 0
  /\ muxer' = [muxer EXCEPT !.at = IF muxer.sound \in sounds \cup {None}
                                   THEN "output" ELSE "failed"]
  /\ Child

OpenOutput ==
  /\ muxer.at = "output"
  /\ muxer' = [muxer EXCEPT !.at = IF entry = "fifo" THEN "waiting" ELSE "storing"]
  /\ Child

MeetReader ==
  /\ muxer.at = "waiting" /\ reader = "reading"
  /\ muxer' = [muxer EXCEPT !.at = "muxing"] /\ Child

Mux ==
  /\ muxer.at \in {"muxing", "storing"} /\ muxer.muxed < muxer.taken
  /\ muxer' = IF muxer.at = "storing" \/ reader = "reading"
              THEN [muxer EXCEPT !.muxed = @ + 1] ELSE [muxer EXCEPT !.at = "failed"]
  /\ Child

EndOfInput ==
  /\ muxer.at \in {"muxing", "storing"} /\ thread = "drain" /\ muxer.muxed = Len(run.written)
  /\ muxer' = [muxer EXCEPT !.at = "done"] /\ Child

ffmpegStep == Take \/ OpenInputs \/ OpenOutput \/ MeetReader \/ Mux \/ EndOfInput

ffmpegDies == ffmpegRuns /\ muxer' = [muxer EXCEPT !.at = "failed"] /\ Child

(* The reader, and others who use the path for something else. *)
Elsewhere == UNCHANGED <<window, reports, cancel, thread, run, muxer>>

ReaderComes  == entry = "fifo" /\ reader = "absent" /\ reader' = "reading" /\ Elsewhere /\ UNCHANGED entry
ReaderLeaves == muxer.at = "muxing" /\ reader = "reading" /\ reader' = "gone" /\ Elsewhere /\ UNCHANGED entry
FileAppears  == entry = "none" /\ entry' = "file" /\ Elsewhere /\ UNCHANGED reader
FileGoes     == entry = "file" /\ entry' = "none" /\ Elsewhere /\ UNCHANGED reader
FifoSwapped  == entry = "fifo" /\ entry' = "swapped" /\ Elsewhere /\ UNCHANGED reader

Next ==
  \/ OpenSource \/ StopServer \/ ReleaseSource \/ Stopped \/ Prepared \/ Finished
  \/ \E c \in Configs : StartServer(c)
  \/ Worker \/ ffmpegStep \/ ffmpegDies
  \/ ReaderComes \/ ReaderLeaves \/ FileAppears \/ FileGoes \/ FifoSwapped

Spec == Init /\ [][Next]_vars

(* The thread gets on with what it does: decoding and each wait end by themselves. *)
FairSpec == Spec /\ WF_vars(Worker) /\ WF_vars(Stopped)

-----------------------------------------------------------------------------
(* The picture that is due at every tick of the output's clock, from the frames
   of the edit and the time each stays: no list of segments is walked for it. *)
Frames(c) ==
  FlattenSeq([k \in 1 .. Len(c.segments) |->
    LET g == c.segments[k]
    IN [j \in 1 .. g.count |->
         [source |-> g.start + j - 1, masked |-> g.masked, head |-> g.start]]])

(* A mask shows the last picture before it, or where there is none its own first. *)
Picture(items, f) ==
  LET visible == {k \in 1 .. f + 1 : ~items[k].masked}
  IN IF visible = {} THEN items[f + 1].head ELSE items[Max(visible)].source

Stays(c, f) ==
  SourcePeriod(c) * (IF c.preserve
                     THEN LET g == Frames(c)[f + 1].source IN Elapsed[g + 2] - Elapsed[g + 1]
                     ELSE NativePeriod)

(* Decimation keeps every Step-th frame of the selection, until the next. *)
Kept(c)      == {f \in c.first .. c.last : (f - c.first) % Step(c) = 0}
Begins(c, f) == Sums([j \in 1 .. c.last + 1 - c.first |-> Stays(c, c.first + j - 1)])[f - c.first]
Lasts(c, f)  == Begins(c, ChunkEnd(c, f)) - Begins(c, f)

(* Tick k is at k * OutputPeriod / phases. *)
Due(c, k) ==
  LET time  == k * OutputPeriod(c)
      frame == Max({f \in Kept(c) : Begins(c, f) * c.phases <= time})
      phase == (time - Begins(c, frame) * c.phases) \div Lasts(c, frame)
  IN <<Picture(Frames(c), frame), phase + 1>>

Ticks(c) ==
  LET end == Begins(c, c.last + 1) * c.phases
  IN Cardinality({j \in 0 .. end : j * OutputPeriod(c) < end})

(* A range outside the timeline is not served. *)
Stream(c) == IF InRange(c) THEN [k \in 1 .. Ticks(c) |-> Due(c, k - 1)] ELSE <<>>

Streams == [c \in Configs |-> Stream(c)]

-----------------------------------------------------------------------------
Places  == {"index", "probe", "serve", "write", "settle", "drain", "remove", "report", "leave"}
Errors  == {"", "stopped", "cancelled", "failed"}
Sounds  == 1 .. MaxStarts
Shown   == (0 .. Len(Elapsed) - 2) \X (Nat \ {0})

Locals == [config : Configs, sound : Sounds \cup {None}, error : Errors, ordinal : Nat,
           elapsed : Nat, todo : Seq(Shown), written : Seq(Shown)]

ASSUME NoRunAssumption == NoRun \notin Configs \cup Locals

(* Types, that a run's locals exist while its thread does, and that a slow reader
   holds the server up instead of filling the memory (VDQtFrameServer.cpp:33-34). *)
TypeOK ==
  /\ gui \in {"events", "preparing", "stopping", "releasing"}
  /\ source \in BOOLEAN /\ starts \in 0 .. MaxStarts
  /\ sound \in Sounds \cup {None} /\ sounds \in SUBSET Sounds
  /\ reports \in Seq(Errors)
  /\ wanted \in Configs \cup {NoRun} /\ (gui = "preparing") = (wanted # NoRun)
  /\ cancel \in BOOLEAN
  /\ thread \in Places \cup {"ended"} /\ run \in Locals \cup {NoRun}
  /\ IsRunning = (run # NoRun)
  /\ muxer \in [at : {"none", "inputs", "output", "waiting", "muxing", "storing", "done", "failed"},
                sound : Sounds \cup {None}, taken : Nat, muxed : Nat]
  /\ entry \in {"none", "fifo", "file", "swapped"} /\ reader \in {"absent", "reading", "gone"}
  /\ thread \in {"serve", "write", "settle", "drain"} => buffered <= BufferLimit + 1

(* What is written to ffmpeg is what is due, tick by tick, for every rate,
   decimation, mask and variable duration (VDQtFrameServer.cpp:318-354); and a run
   that reports no error has passed all of it on: no picture is left in a buffer,
   and ffmpeg did not die with some (357-369). *)
StreamIsTimeline ==
  /\ IsRunning => IsPrefix(run.written, Streams[run.config])
  /\ thread \in {"remove", "report", "leave"} /\ run.error = ""
       => muxer.muxed = Len(Streams[run.config])

(* The sound file of a run exists until the run has reported, although the end
   of an earlier run may be dispatched while this one is being started: that
   signal removes the sound file of whichever run is current
   (VDQtMainWindow.cpp:700-705). *)
SoundIsKept ==
  thread \in Places \ {"leave"} /\ run.sound # None => run.sound \in sounds

(* Sound files do not pile up: at most the current one exists, and none once
   everything is over (VDQtMainWindow.cpp:702-705, 5193, 5213, 5225). *)
SoundIsRemoved ==
  /\ sounds \subseteq {sound}
  /\ gui = "events" /\ ~IsRunning /\ reports = <<>> => sound = None

(* The path is a run's from mkfifo() to the end of its work: no FIFO is left behind,
   and it is no other run, nor a second removal, that takes it away (111, 375). *)
PipeIsTheRuns == (entry \in {"fifo", "swapped"}) = (thread \in Places \ {"report", "leave"})

(* Releasing a source, which may delete a temporary file, waits for the server
   that reads it (VDQtMainWindow.cpp:1649). *)
SourceOutlivesRun == IsRunning => source

(* A run has its files, the sound, the FIFO and the source, exactly as long as
   it needs them, however the ends of runs and the starts of others interleave. *)
RunHasItsFiles == SoundIsKept /\ SoundIsRemoved /\ PipeIsTheRuns /\ SourceOutlivesRun

(* A file that is at the path before a run has it is neither replaced nor removed,
   though it may come between the user's choice of the path and mkfifo(), while the
   sound file is made, or right after the clean-up of an earlier run (105-111,
   VDQtMainWindow.cpp:5123).  What others put in the place of a run's FIFO is not such
   a file: the clean-up removes it by name (375). *)
FileIsKept == [][entry = "file" /\ entry' # "file" => UNCHANGED <<gui, thread>>]_vars

(* stop() returns whatever the reader and ffmpeg do: a reader that never comes,
   one that stops reading, a child that hangs or died. *)
StopReturns == (gui \in {"stopping", "releasing"}) ~> (gui = "events")

(* If somebody reads, ffmpeg works or dies and the FIFO is left alone, serving ends by
   itself. *)
ServingEnds ==
  WF_vars(ffmpegStep) /\ WF_vars(ReaderComes) => (IsRunning ~> ~IsRunning \/ entry = "swapped")
=============================================================================
