---------------------------- MODULE FramePreview ----------------------------
(***************************************************************************)
(* The interactive preview: VDQtMainWindow's playhead, transport and       *)
(* playback clock, and VDQtFrameDecodeWorker, which decodes on a thread of *)
(* its own.  The GUI leaves the newest request in a mutex-protected slot   *)
(* and posts at most one event; the worker drains the slot and sends each  *)
(* picture back with the generation of its request.  Opening, closing and  *)
(* long operations cancel what is pending and then wait for the worker in  *)
(* a blocking queued call, because a native AviSynth source is decoded by  *)
(* the main window's own decoder, which the operation is about to use.     *)
(* A GUI handler is one action, unless it waits for the worker inside.     *)
(***************************************************************************)
EXTENDS Integers, Sequences, FiniteSets, FiniteSetsExt

CONSTANTS
  Source,         \* media that can be opened
  Indexed,        \* those whose verified length is known as soon as they are open
  Native,         \* AviSynth graphs: the worker borrows the main decoder
  Length,         \* how many frames every source really has
  Estimate,       \* how many a container claims before its end was seen
  Damaged,        \* source frames that do not decode
  Cuts,           \* edited timelines: sequences of source frames
  MaxFrame,       \* bound: playback and stepping stop discovering frames here
  MaxGeneration   \* bound: the user and the clock ask for nothing new beyond this

ASSUME PreviewAssumption ==
  /\ IsFiniteSet(Source) /\ Native \subseteq Indexed /\ Indexed \subseteq Source
  /\ {Length, Estimate, MaxFrame, MaxGeneration} \subseteq Nat \ {0}
  /\ Damaged \subseteq 0 .. Length - 1
  /\ Cuts \subseteq Seq(0 .. Length - 1)

VARIABLES
  main,           \* the source open in mVideoDecoder
  timeline,       \* VDQtTimeline: its source count and the user's cut
  control,        \* VDQtPositionControlWidget
  clock,          \* mPlaybackClockFrame while mPlaybackTimer is active, else None
  request,        \* mFrameRequestGeneration, ...Pending, mQueuedPlaybackFrame, ...
  shown,          \* the picture in the input pane
  label,          \* mDecodedPreviewTimelineFrame
  phase,          \* what the GUI thread is doing: its event loop, or a blocking call
  operation,      \* the workflow that holds an OperationScope
  target,         \* the source a transition is about to install
  mailbox,        \* the worker's request slot and flags, behind mRequestMutex
  worker,         \* where processPendingRequest() is
  workerSource,   \* the source the worker decodes
  job,            \* the request the worker took
  results         \* signals on their way to the GUI thread

gui  == <<main, timeline, control, clock, request, shown, label, phase, operation, target>>
back == <<worker, workerSource, job>>
vars == <<main, timeline, control, clock, request, shown, label, phase, operation,
          target, mailbox, worker, workerSource, job, results>>

None   == -1
Closed == "closed"
Blank  == [source |-> Closed, frame |-> None]
Empty  == [frame |-> None, generation |-> 0]

playing == clock # None

Larger(m, n) == IF m > n THEN m ELSE n

-----------------------------------------------------------------------------
(* VDQtTimeline, as far as the preview sees it. *)
Frames(t)    == IF t.identity THEN t.count ELSE Len(t.cut)
LastFrame(t) == Larger(0, Frames(t) - 1)

(* setSourceFrameCount() *)
WithCount(t, n, isExact) == [t EXCEPT !.count = n, !.exact = isExact]

(* mapOutputToSource(): only a verified end bounds an unedited source. *)
SourceFrame(t, f) ==
  IF t.identity THEN IF ~t.exact \/ f < t.count THEN f ELSE None
  ELSE IF f < Len(t.cut) THEN t.cut[f + 1] ELSE None

Opened(s) == [identity |-> TRUE, cut |-> <<>>, exact |-> s \in Indexed \cup {Closed},
              count |-> IF s = Closed THEN 0 ELSE IF s \in Indexed THEN Length ELSE Estimate]

DecoderCount == IF timeline.exact THEN Length ELSE Estimate

(* VDQtPositionControlWidget: a slider that is cut short moves, and reports
   the move through the debounce of user scrubbing. *)
Ranged(c, hi) ==
  IF c.position <= hi THEN [c EXCEPT !.range = hi]
  ELSE [range |-> hi, position |-> hi, scrub |-> hi]

(* SetPosition(): nothing at all when the position stays the same. *)
Moved(c, f) == IF c.position = f THEN c ELSE [c EXCEPT !.position = f, !.scrub = None]

-----------------------------------------------------------------------------
(* Requests.  A preview state is the GUI's bookkeeping with the worker's slot. *)
Preview == [rq |-> request, mb |-> mailbox]
Become(p) == request' = p.rq /\ mailbox' = p.mb

(* requestFrame(): replace the slot, post an event unless one is on its way. *)
Put(mb, f, g) ==
  [mb EXCEPT !.slot = [frame |-> f, generation |-> g], !.latest = g,
             !.scheduled = TRUE, !.posted = @ \/ ~mb.scheduled]

(* updateFrameDisplay(f) with a source open *)
Ask(p, f, isPlaying, t) ==
  IF isPlaying /\ p.rq.pending THEN [p EXCEPT !.rq.queued = f]
  ELSE IF SourceFrame(t, f) = None THEN p
  ELSE LET g == p.rq.generation + 1
       IN [rq |-> [p.rq EXCEPT !.generation = g, !.asked = f, !.pending = TRUE],
           mb |-> Put(p.mb, SourceFrame(t, f), g)]

(* positionChanged is emitted only when SetPosition(f) moves the control. *)
AskIfMoved(p, c, f, isPlaying, t) == IF c.position = f THEN p ELSE Ask(p, f, isPlaying, t)

(* cancelPending(++generation), and the flags that go with it *)
Cancelled ==
  LET g == request.generation + 1
  IN [rq |-> [request EXCEPT !.generation = g, !.pending = FALSE, !.queued = None],
      mb |-> [mailbox EXCEPT !.slot = Empty, !.latest = g]]

Init ==
  /\ main = Closed /\ timeline = Opened(Closed)
  /\ control = [position |-> 0, range |-> 0, scrub |-> None]
  /\ clock = None
  /\ request = [generation |-> 0, pending |-> FALSE, queued |-> None, asked |-> 0]
  /\ shown = Blank /\ label = None
  /\ phase = "events" /\ operation = "none" /\ target = Closed
  /\ mailbox = [slot |-> Empty, latest |-> 0, scheduled |-> FALSE, posted |-> FALSE]
  /\ worker = "idle" /\ workerSource = Closed /\ job = Empty
  /\ results = <<>>

Dispatching == phase = "events"
Editing     == Dispatching /\ operation = "none"
Fresh       == request.generation < MaxGeneration

(* The worker's event loop reaches a blocking call queued behind everything
   that was posted before it. *)
WorkerFree == worker = "idle" /\ ~mailbox.posted

-----------------------------------------------------------------------------
(* Transport. *)

(* Start, End, Backward, Forward, the keyframe buttons and a jump: stop the
   clock and set the position, which may be where the playhead is already. *)
Seek(f) ==
  /\ Editing /\ Fresh /\ main # Closed
  /\ f \in 0 .. control.range
  /\ clock' = None
  /\ control' = Moved(control, f)
  /\ Become(AskIfMoved(Preview, control, f, FALSE, timeline))
  /\ UNCHANGED <<main, timeline, shown, label, phase, operation, target, back, results>>

(* Forward beyond a length that is only an estimate. *)
StepForward ==
  /\ Editing /\ Fresh /\ main # Closed
  /\ ~timeline.exact /\ timeline.identity
  /\ control.position < MaxFrame
  /\ LET f == control.position + 1
     IN /\ control' = Moved(Ranged(control, Larger(f, DecoderCount - 1)), f)
        /\ Become(Ask(Preview, f, FALSE, timeline))
  /\ clock' = None
  /\ UNCHANGED <<main, timeline, shown, label, phase, operation, target, back, results>>

(* The user drags the slider: the position follows at once, the request after
   the debounce. *)
Drag(f) ==
  /\ Editing /\ Fresh /\ main # Closed
  /\ f \in 0 .. control.range /\ f # control.position
  /\ clock' = None
  /\ control' = [control EXCEPT !.position = f, !.scrub = f]
  /\ UNCHANGED <<main, timeline, request, shown, label, phase, operation, target,
                 mailbox, back, results>>

(* The scrub timer.  onPositionChanged() ignores it while actions are blocked. *)
DispatchScrub ==
  /\ Dispatching
  /\ control.scrub # None
  /\ control' = [control EXCEPT !.scrub = None]
  /\ Become(IF Editing /\ main # Closed THEN Ask(Preview, control.scrub, playing, timeline)
            ELSE Preview)
  /\ UNCHANGED <<main, timeline, clock, shown, label, phase, operation, target,
                 back, results>>

(* Stop, or Play pressed again: ask for the frame where the playhead stands. *)
Stop ==
  /\ Editing /\ Fresh /\ main # Closed
  /\ clock' = None
  /\ Become(Ask(Preview, control.position, FALSE, timeline))
  /\ UNCHANGED <<main, timeline, control, shown, label, phase, operation, target,
                 back, results>>

(* Play first hands the filter chain to the worker, waiting for what it is
   decoding; in the middle of a source it needs the frame index. *)
BeginPlay ==
  /\ Editing /\ Fresh /\ main # Closed
  /\ ~playing
  /\ Frames(timeline) > 0
  /\ control.position = 0 \/ timeline.exact
  /\ phase' = "play"
  /\ UNCHANGED <<main, timeline, control, clock, request, shown, label, operation,
                 target, mailbox, back, results>>

FinishPlay ==
  /\ phase = "play"
  /\ WorkerFree
  /\ phase' = "events"
  /\ clock' = control.position
  /\ label' = None
  /\ Become(Ask(Preview, control.position, TRUE, timeline))
  /\ UNCHANGED <<main, timeline, control, shown, operation, target, back, results>>

(* onPlaybackTick() at a verified end: stop on the last frame. *)
TickToEnd(n) ==
  /\ ~timeline.identity \/ timeline.exact
  /\ clock + n >= Frames(timeline)
  /\ LET last == LastFrame(timeline)
         c    == Ranged(control, last)
     IN /\ control' = Moved(c, last)
        /\ Become(AskIfMoved(Preview, c, last, FALSE, timeline))
  /\ clock' = None

(* onPlaybackTick() before it, n frames later: late frames are skipped. *)
TickForward(n) ==
  /\ clock + n < Frames(timeline) \/ (timeline.identity /\ ~timeline.exact)
  /\ clock + n <= MaxFrame
  /\ clock' = clock + n
  /\ LET c == IF timeline.identity /\ ~timeline.exact /\ clock' >= DecoderCount
              THEN Ranged(control, clock') ELSE control
     IN /\ control' = Moved(c, clock')
        /\ Become(AskIfMoved(Preview, c, clock', TRUE, timeline))

Tick(n) ==
  /\ Dispatching /\ Fresh
  /\ playing
  /\ TickToEnd(n) \/ TickForward(n)
  /\ UNCHANGED <<main, timeline, shown, label, phase, operation, target, back, results>>

-----------------------------------------------------------------------------
(* Editing.  updateTimelineView() after an edit, an undo or a reset: whatever
   was asked before is obsolete, even at the same position. *)
UpdateTimelineView(t, preferred) ==
  LET last == LastFrame(t)
      f    == IF preferred > last THEN last ELSE preferred
  IN /\ timeline' = t
     /\ clock' = None
     /\ label' = None
     /\ control' = Moved(Ranged(control, last), f)
     /\ IF Frames(t) = 0
        THEN Become(Cancelled) /\ shown' = Blank
        ELSE Become(Ask(Cancelled, f, FALSE, t)) /\ UNCHANGED shown

(* The cuts that edits, undo and redo reach; Reset returns to the source. *)
EditTimeline(cut, preferred) ==
  /\ Editing \/ (Dispatching /\ operation = "replace")
  /\ Fresh /\ main # Closed
  /\ timeline.exact
  /\ preferred \in {0, control.position}
  /\ \/ UpdateTimelineView([timeline EXCEPT !.identity = FALSE, !.cut = cut], preferred)
     \/ ~timeline.identity /\ UpdateTimelineView([timeline EXCEPT !.identity = TRUE, !.cut = <<>>], preferred)
  /\ UNCHANGED <<main, phase, operation, target, back, results>>

-----------------------------------------------------------------------------
(* Operations.  An OperationScope stops playback, cancels, and waits for the
   worker before the operation uses the main decoder. *)
BeginOperation(kind) ==
  /\ Editing /\ Fresh
  /\ operation' = kind
  /\ clock' = None
  /\ Become(Cancelled)
  /\ phase' = "join"
  /\ UNCHANGED <<main, timeline, control, shown, label, target, back, results>>

(* Mutant of Join: cancellation alone, without the barrier. *)
JoinAtOnce ==
  /\ phase = "join"
  /\ phase' = "events"
  /\ UNCHANGED <<main, timeline, control, clock, request, shown, label, operation,
                 target, mailbox, back, results>>

Join ==
  /\ phase = "join"
  /\ WorkerFree
  /\ phase' = "events"
  /\ UNCHANGED <<main, timeline, control, clock, request, shown, label, operation,
                 target, mailbox, back, results>>

(* ensureExactFrameRange(): a scan that reached the end of the source. *)
IndexSource ==
  /\ Dispatching /\ operation = "borrow"
  /\ main # Closed /\ ~timeline.exact
  /\ timeline' = WithCount(timeline, Length, TRUE)
  /\ control' = Ranged(control, LastFrame(timeline'))
  /\ UNCHANGED <<main, clock, request, shown, label, phase, operation, target,
                 mailbox, back, results>>

(* Mutant of EndOperation: the preview is left as the operation left it. *)
EndOperationQuietly ==
  /\ Dispatching /\ operation # "none"
  /\ operation' = "none"
  /\ UNCHANGED <<main, timeline, control, clock, request, shown, label, phase, target,
                 mailbox, back, results>>

(* ~OperationScope(): the playhead's frame is asked for again. *)
EndOperation ==
  /\ Dispatching /\ operation # "none"
  /\ operation' = "none"
  /\ Become(IF main # Closed THEN Ask(Preview, control.position, FALSE, timeline) ELSE Preview)
  /\ UNCHANGED <<main, timeline, control, clock, shown, label, phase, target,
                 back, results>>

(* Opening another source and closing, from the menu or inside a workflow that
   replaces the session.  The worker closes before the main decoder does. *)
BeginTransition(s) ==
  /\ Editing \/ (Dispatching /\ operation = "replace")
  /\ Fresh
  /\ s # Closed \/ main # Closed
  /\ target' = s
  /\ clock' = None
  /\ Become(Cancelled)
  /\ phase' = "close"
  /\ UNCHANGED <<main, timeline, control, shown, label, operation, back, results>>

(* The rest of openVideoFileImpl(): nothing else can happen in between, for the
   GUI thread is busy and the worker idle.  The new source may fail to open in
   the main decoder or in the worker's; both are then closed. *)
FinishTransition(s) ==
  /\ phase = "close"
  /\ WorkerFree
  /\ s \in {target, Closed}
  /\ phase' = "events" /\ target' = Closed
  /\ main' = s /\ workerSource' = s
  /\ timeline' = Opened(s)
  /\ shown' = Blank /\ label' = None
  /\ LET released == Moved(Ranged(control, 0), 0)
         first    == Ask(Preview, 0, FALSE, timeline')
     IN /\ control' = Ranged(released, LastFrame(timeline'))
        /\ Become(IF s = Closed THEN Preview
                  ELSE IF operation = "none" THEN Ask(first, 0, FALSE, timeline') ELSE first)
  /\ UNCHANGED <<clock, operation, worker, job, results>>

-----------------------------------------------------------------------------
(* The worker. *)

(* processPendingRequest(), the top of its loop: take what is in the slot, or
   return when there is nothing. *)
TakeRequest ==
  /\ worker = "loop" \/ (worker = "idle" /\ mailbox.posted)
  /\ job' = mailbox.slot
  /\ mailbox' = [mailbox EXCEPT !.slot = Empty, !.posted = FALSE,
                                !.scheduled = mailbox.slot # Empty]
  /\ worker' = IF mailbox.slot = Empty THEN "idle" ELSE "decode"
  /\ UNCHANGED <<gui, workerSource, results>>

Decodable(f) == f \in 0 .. Length - 1 \ Damaged

(* What the decoder can answer: whether it knows the verified length by now,
   and whether it ran into the end. *)
Answers ==
  {r \in [generation : {job.generation}, source : {workerSource}, frame : {job.frame},
          ready : {Decodable(job.frame)}, exact : BOOLEAN, eof : BOOLEAN] :
     /\ workerSource \in Indexed => r.exact
     /\ r.eof => job.frame >= Length}

(* Without the mutex: decoding and filtering, then a last look at the newest
   generation, for an obsolete result is not sent.  With no decoder open the
   worker gives up instead, and does not look at the slot again. *)
FinishDecode ==
  /\ worker = "decode"
  /\ IF workerSource = Closed
     THEN /\ worker' = "idle"
          /\ mailbox' = [mailbox EXCEPT !.scheduled = FALSE]
          /\ UNCHANGED results
     ELSE /\ worker' = "loop"
          /\ IF job.generation = mailbox.latest
             THEN \E r \in Answers : results' = Append(results, r)
             ELSE UNCHANGED results
          /\ UNCHANGED mailbox
  /\ UNCHANGED <<gui, workerSource, job>>

-----------------------------------------------------------------------------
(* Results on the GUI thread. *)

(* Mutant of Current: only the state of the window is looked at. *)
CurrentIfOpen(r) == operation = "none" /\ main # Closed

(* The early return of both handlers. *)
Current(r) ==
  /\ operation = "none"
  /\ r.generation = request.generation
  /\ main # Closed

Drop(r) == UNCHANGED gui /\ UNCHANGED mailbox

(* What both handlers end with: the frame that playback asked for meanwhile. *)
FollowUp(p, answered, isPlaying, t) ==
  LET f    == p.rq.queued
      rest == [p EXCEPT !.rq.queued = None]
  IN IF isPlaying /\ f # None /\ f # answered THEN Ask(rest, f, TRUE, t) ELSE rest

Answered == [Preview EXCEPT !.rq.pending = FALSE]

(* onDecodedFrameReady() *)
FrameReady(r) ==
  LET isExact == r.exact \/ timeline.exact
      known   == IF r.exact THEN Length
                 ELSE IF timeline.exact THEN timeline.count
                 ELSE Max({Estimate, timeline.count, r.frame + 1})
      t       == WithCount(timeline, known, isExact)
      hi      == IF isExact \/ ~t.identity THEN LastFrame(t)
                 ELSE Max({control.range, LastFrame(t), request.asked})
  IN /\ r.ready
     /\ shown' = [source |-> r.source, frame |-> r.frame]
     /\ label' = request.asked
     /\ timeline' = t
     /\ control' = IF control.range = hi THEN control ELSE Ranged(control, hi)
     /\ Become(FollowUp(Answered, request.asked, playing, t))
     /\ UNCHANGED <<main, clock, phase, operation, target>>

(* onDecodedFrameUnavailable() while playing, when the end has been verified:
   the playhead goes to the last frame. *)
StopAtVerifiedEnd(r) ==
  LET t == WithCount(timeline, Length, TRUE)
      c == Ranged(control, LastFrame(t))
  IN /\ playing /\ r.exact
     /\ clock' = None
     /\ timeline' = t
     /\ control' = Moved(c, LastFrame(t))
     /\ Become(FollowUp(AskIfMoved(Answered, c, LastFrame(t), FALSE, t), None, FALSE, t))

(* The same at an end that is not verified: the playhead returns to the picture
   on display, quietly. *)
StopAtObservedEnd(r) ==
  /\ playing /\ ~r.exact /\ r.eof
  /\ clock' = None
  /\ control' = IF label = None THEN control ELSE Moved(control, label)
  /\ Become(FollowUp(Answered, None, FALSE, timeline))
  /\ UNCHANGED timeline

(* Mutant of PassOver: a failure is not an answer. *)
PassOverSilently(r) ==
  /\ ~playing \/ (~r.exact /\ ~r.eof)
  /\ Become(FollowUp(Preview, None, playing, timeline))
  /\ UNCHANGED <<timeline, control, clock>>

(* A frame that does not decode stops nothing. *)
PassOver(r) ==
  /\ ~playing \/ (~r.exact /\ ~r.eof)
  /\ Become(FollowUp(Answered, None, playing, timeline))
  /\ UNCHANGED <<timeline, control, clock>>

FrameUnavailable(r) ==
  /\ ~r.ready
  /\ StopAtVerifiedEnd(r) \/ StopAtObservedEnd(r) \/ PassOver(r)
  /\ UNCHANGED <<main, shown, label, phase, operation, target>>

Deliver ==
  /\ Dispatching
  /\ results # <<>>
  /\ results' = Tail(results)
  /\ LET r == Head(results)
     IN IF Current(r) THEN FrameReady(r) \/ FrameUnavailable(r) ELSE Drop(r)
  /\ UNCHANGED back

-----------------------------------------------------------------------------
UserStep ==
  \/ \E f \in 0 .. MaxFrame : Seek(f) \/ Drag(f)
  \/ StepForward \/ Stop \/ BeginPlay
  \/ \E cut \in Cuts, f \in 0 .. MaxFrame : EditTimeline(cut, f)
  \/ \E kind \in {"borrow", "replace"} : BeginOperation(kind)
  \/ \E s \in Source \cup {Closed} : BeginTransition(s)

WorkerStep == TakeRequest \/ FinishDecode

(* What the GUI thread does by itself. *)
Unblock  == FinishPlay \/ Join \/ \E s \in Source \cup {Closed} : FinishTransition(s)
Dispatch == DispatchScrub \/ Deliver \/ \E n \in 1 .. 2 : Tick(n)

Next == UserStep \/ WorkerStep \/ Unblock \/ Dispatch \/ IndexSource \/ EndOperation

Spec == Init /\ [][Next]_vars

(* Decoding ends, the event loops of both threads turn, and an operation ends. *)
FairSpec == Spec /\ WF_vars(WorkerStep) /\ WF_vars(Unblock) /\ SF_vars(Deliver) /\ WF_vars(EndOperation)

-----------------------------------------------------------------------------
(* Types, and what the threads and the slider always agree on: the worker knows
   the newest generation, no answer is newer, and the playhead is in range. *)
TypeOK ==
  /\ {main, workerSource, target} \subseteq Source \cup {Closed}
  /\ timeline \in [identity : BOOLEAN, cut : Seq(0 .. Length - 1), exact : BOOLEAN, count : Nat]
  /\ control \in [position : Nat, range : Nat, scrub : Nat \cup {None}]
  /\ control.position <= control.range
  /\ request \in [generation : Nat, pending : BOOLEAN, queued : Nat \cup {None}, asked : Nat]
  /\ shown \in [source : Source \cup {Closed}, frame : Nat \cup {None}]
  /\ {clock, label, job.frame, mailbox.slot.frame} \subseteq Nat \cup {None}
  /\ phase \in {"events", "play", "join", "close"}
  /\ operation \in {"none", "borrow", "replace"}
  /\ worker \in {"idle", "loop", "decode"}
  /\ mailbox.latest = request.generation
  /\ \A i \in DOMAIN results : results[i].generation <= request.generation

(* The label under the picture tells the truth: the picture comes from the open
   source, and it is the frame which the timeline, as it is now, has at the
   labelled place.  The handlers never compare sources or timelines; they trust
   the generation. *)
PictureIsLabelled ==
  label # None => /\ shown.source = main
                  /\ SourceFrame(timeline, label) \in {shown.frame, None}

(* A decoder is never used by two threads: while an operation works with the
   main decoder the worker is at rest, and a worker that decodes a native graph
   borrows a decoder which is still open. *)
DecoderIsNotShared ==
  /\ operation = "borrow" /\ phase = "events" => WorkerFree
  /\ worker = "decode" /\ workerSource \in Native => main = workerSource

AtRest == /\ Editing /\ main # Closed /\ ~playing /\ control.scrub = None
          /\ ~request.pending /\ Frames(timeline) > 0

(* When the preview has come to rest it shows the frame that was asked for last,
   unless that frame does not decode. *)
RestShowsLastRequest ==
  AtRest => label = request.asked \/ ~Decodable(SourceFrame(timeline, request.asked))

(* Every request is answered, unless a newer one or a cancellation replaces it. *)
RequestIsAnswered ==
  \A g \in 1 .. MaxGeneration :
    request.pending /\ request.generation = g ~> ~(request.pending /\ request.generation = g)

=============================================================================
