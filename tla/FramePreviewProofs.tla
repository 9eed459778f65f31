-------------------------- MODULE FramePreviewProofs --------------------------
(***************************************************************************)
(* Proofs about FramePreview, for all sources, lengths, damage and edited  *)
(* timelines: the label under the picture is true, although the handlers   *)
(* compare nothing but generations; the decoder that a native graph shares *)
(* with the worker is used by one thread at a time; and a preview at rest  *)
(* shows what was asked for last.  There are two inductive invariants, one *)
(* on top of the other: IInv is about requests, answers and the picture,   *)
(* RInv about the playhead, the clock and what they still owe the user.    *)
(***************************************************************************)
EXTENDS FramePreview, TLAPS

Media    == Source \cup {Closed}
Place    == Nat \cup {None}
Views    == [identity : BOOLEAN, cut : Seq(0 .. Length - 1), exact : BOOLEAN, count : Nat]
Requests == [generation : Nat, pending : BOOLEAN, queued : Place, asked : Nat]
Slots    == [frame : Place, generation : Nat]
Boxes    == [slot : Slots, latest : Nat, scheduled : BOOLEAN, posted : BOOLEAN]
Controls == [position : Nat, range : Nat, scrub : Place]
Pictures ==
  {r \in [generation : Nat, source : Media, frame : Place,
          ready : BOOLEAN, exact : BOOLEAN, eof : BOOLEAN] :
     /\ r.ready = Decodable(r.frame)
     /\ r.eof => r.frame >= Length}

(* Types, without the bounds that the runs put on frames and generations. *)
Types ==
  /\ main \in Media /\ workerSource \in Media /\ target \in Media
  /\ timeline \in Views /\ control \in Controls /\ clock \in Place
  /\ request \in Requests /\ mailbox \in Boxes
  /\ mailbox.latest = request.generation
  /\ job \in Slots /\ results \in Seq(Pictures)
  /\ label \in Place /\ shown \in [source : Media, frame : Place]
  /\ phase \in {"events", "play", "join", "close"}
  /\ operation \in {"none", "borrow", "replace"}
  /\ worker \in {"idle", "loop", "decode"}

(* Source frame x is what the timeline t has at place f, whether or not that is
   within the length that is known. *)
About(t, f, x) == IF t.identity THEN x = f ELSE f < Len(t.cut) /\ x = t.cut[f + 1]

(* A request or an answer of generation g about frame x: an old one, or about
   the frame that was asked for last. *)
Obsolete(g) == g < request.generation
Latest(g, x) == g = request.generation /\ About(timeline, request.asked, x)

SlotInv   == mailbox.slot = Empty \/ Obsolete(mailbox.slot.generation)
               \/ Latest(mailbox.slot.generation, mailbox.slot.frame)
JobInv    == worker = "decode" => Obsolete(job.generation) \/ Latest(job.generation, job.frame)
ResultInv == \A i \in DOMAIN results :
               \/ Obsolete(results[i].generation)
               \/ Latest(results[i].generation, results[i].frame) /\ results[i].source = main

(* While the source is being replaced every request and answer is obsolete. *)
BarrierInv ==
  phase = "close" =>
    /\ mailbox.slot = Empty
    /\ worker = "decode" => Obsolete(job.generation)
    /\ \A i \in DOMAIN results : Obsolete(results[i].generation)

(* Both threads have the same source, and a verified length is the length. *)
SourceInv ==
  /\ workerSource = main
  /\ main # Closed /\ timeline.exact => timeline.count = Length

(* What works with the main decoder has stopped playback and the worker. *)
OperationInv ==
  /\ operation = "borrow" => clock = None /\ phase \in {"events", "join"}
  /\ operation = "borrow" /\ phase = "events" => WorkerFree
  /\ phase = "play" => operation = "none"

(* The picture on display decoded, and is what its label says. *)
DisplayInv ==
  label # None => /\ shown.source = main
                  /\ About(timeline, label, shown.frame)
                  /\ Decodable(shown.frame)

IInv == /\ Types /\ SlotInv /\ JobInv /\ ResultInv
        /\ BarrierInv /\ SourceInv /\ OperationInv /\ DisplayInv

-----------------------------------------------------------------------------
(* Requests that are put, passed on or cancelled. *)
Previews == [rq : Requests, mb : Boxes]
Sound(p) == p \in Previews /\ p.mb.latest = p.rq.generation

(* Either nothing new was asked for, or all earlier requests are obsolete and
   the slot is empty or has the new one. *)
Follows(p, q, t) ==
  \/ /\ q.rq.generation = p.rq.generation
     /\ q.rq.asked = p.rq.asked /\ q.mb.slot = p.mb.slot
  \/ /\ q.rq.generation > p.rq.generation
     /\ \/ q.mb.slot = Empty
        \/ /\ q.mb.slot.generation = q.rq.generation
           /\ About(t, q.rq.asked, q.mb.slot.frame)

LEMMA FrameFacts ==
  ASSUME NEW t \in Views, NEW f \in Nat
  PROVE  /\ SourceFrame(t, f) \in Place
         /\ SourceFrame(t, f) # None => About(t, f, SourceFrame(t, f))
  BY PreviewAssumption DEF Views, Place, SourceFrame, None, About

LEMMA PutFacts ==
  ASSUME NEW mb \in Boxes, NEW f \in Place, NEW g \in Nat
  PROVE  /\ Put(mb, f, g) \in Boxes
         /\ Put(mb, f, g).latest = g
         /\ Put(mb, f, g).slot = [frame |-> f, generation |-> g]
  BY DEF Put, Boxes, Slots

LEMMA AskFacts ==
  ASSUME NEW p, Sound(p), NEW f \in Nat, NEW isPlaying \in BOOLEAN, NEW t \in Views
  PROVE  Sound(Ask(p, f, isPlaying, t)) /\ Follows(p, Ask(p, f, isPlaying, t), t)
<1>1. CASE isPlaying /\ p.rq.pending
  <2>1. Ask(p, f, isPlaying, t) = [p EXCEPT !.rq.queued = f]
    BY <1>1 DEF Ask
  <2> QED  BY <2>1 DEF Sound, Previews, Requests, Place, Follows
<1>2. CASE ~(isPlaying /\ p.rq.pending) /\ SourceFrame(t, f) = None
  <2>1. Ask(p, f, isPlaying, t) = p
    BY <1>2 DEF Ask
  <2> QED  BY <2>1 DEF Follows
<1>3. CASE ~(isPlaying /\ p.rq.pending) /\ SourceFrame(t, f) # None
  <2> DEFINE g == p.rq.generation + 1
             rq == [p.rq EXCEPT !.generation = g, !.asked = f, !.pending = TRUE]
             mb == Put(p.mb, SourceFrame(t, f), g)
  <2>1. Ask(p, f, isPlaying, t) = [rq |-> rq, mb |-> mb]
    BY <1>3 DEF Ask
  <2>2. p.rq \in Requests /\ p.mb \in Boxes /\ g \in Nat /\ g > p.rq.generation
    BY DEF Sound, Previews, Requests
  <2>3. rq \in Requests /\ rq.generation = g /\ rq.asked = f
    BY <2>2 DEF Requests
  <2>4. /\ mb \in Boxes /\ mb.latest = g
        /\ mb.slot = [frame |-> SourceFrame(t, f), generation |-> g]
    BY <2>2, FrameFacts, PutFacts
  <2>5. About(t, rq.asked, mb.slot.frame)
    BY <1>3, <2>3, <2>4, FrameFacts
  <2> HIDE DEF g, rq, mb
  <2> QED  BY <2>1, <2>2, <2>3, <2>4, <2>5 DEF Sound, Previews, Follows
<1> QED  BY <1>1, <1>2, <1>3

LEMMA AskIfMovedFacts ==
  ASSUME NEW p, Sound(p), NEW c, NEW f \in Nat, NEW isPlaying \in BOOLEAN, NEW t \in Views
  PROVE  /\ Sound(AskIfMoved(p, c, f, isPlaying, t))
         /\ Follows(p, AskIfMoved(p, c, f, isPlaying, t), t)
  BY AskFacts DEF AskIfMoved, Follows

LEMMA FollowsTwice ==
  ASSUME NEW p, NEW q, NEW r, NEW t, Sound(p), Sound(q), Sound(r),
         Follows(p, q, t), Follows(q, r, t)
  PROVE  Follows(p, r, t)
  BY DEF Follows, Sound, Previews, Requests

LEMMA FollowsGrows ==
  ASSUME NEW p, NEW q, NEW t, Sound(p), Sound(q), Follows(p, q, t)
  PROVE  q.rq.generation >= p.rq.generation
  BY DEF Follows, Sound, Previews, Requests

LEMMA FollowUpFacts ==
  ASSUME NEW p, Sound(p), NEW answered, NEW isPlaying \in BOOLEAN, NEW t \in Views
  PROVE  /\ Sound(FollowUp(p, answered, isPlaying, t))
         /\ Follows(p, FollowUp(p, answered, isPlaying, t), t)
<1> DEFINE f == p.rq.queued
           rest == [p EXCEPT !.rq.queued = None]
<1>1. Sound(rest) /\ Follows(p, rest, t) /\ f \in Place
  BY DEF Sound, Previews, Requests, Place, Follows
<1>2. CASE isPlaying /\ f # None /\ f # answered
  <2>1. f \in Nat
    BY <1>1, <1>2 DEF Place
  <2>2. FollowUp(p, answered, isPlaying, t) = Ask(rest, f, TRUE, t)
    BY <1>2 DEF FollowUp
  <2> HIDE DEF f, rest
  <2>3. Sound(Ask(rest, f, TRUE, t)) /\ Follows(rest, Ask(rest, f, TRUE, t), t)
    BY <1>1, <2>1, AskFacts
  <2> QED  BY <1>1, <2>2, <2>3, FollowsTwice
<1>3. CASE ~(isPlaying /\ f # None /\ f # answered)
  BY <1>1, <1>3 DEF FollowUp
<1> QED  BY <1>2, <1>3

(* Cancelling leaves nothing that is not obsolete. *)
LEMMA CancelledFacts ==
  ASSUME Types
  PROVE  /\ Sound(Preview) /\ Sound(Answered) /\ Follows(Preview, Answered, timeline)
         /\ Answered.rq.generation = request.generation /\ Answered.rq.asked = request.asked
         /\ Answered.mb = mailbox
         /\ Sound(Cancelled)
         /\ Cancelled.rq.generation = request.generation + 1
         /\ Cancelled.mb.slot = Empty
<1>1. request \in Requests /\ mailbox \in Boxes /\ mailbox.latest = request.generation
  BY DEF Types
<1>2. Sound(Preview)
  BY <1>1 DEF Sound, Previews, Preview
<1>3. [request EXCEPT !.pending = FALSE] \in Requests
  BY <1>1 DEF Requests
<1>4. Answered = [rq |-> [request EXCEPT !.pending = FALSE], mb |-> mailbox]
  <2>1. Preview.rq = request /\ Preview = [rq |-> request, mb |-> mailbox]
    BY DEF Preview
  <2> DEFINE rq == [request EXCEPT !.pending = FALSE]
  <2>2. Answered = [Preview EXCEPT !.rq = rq]
    BY <2>1, Zenon DEF Answered
  <2> HIDE DEF rq
  <2>3. Answered = [rq |-> rq, mb |-> mailbox]
    BY <2>1, <2>2
  <2> QED  BY <2>3 DEF rq
<1>5. /\ Answered.rq.generation = request.generation /\ Answered.rq.asked = request.asked
      /\ Answered.mb = mailbox
  BY <1>1, <1>4 DEF Requests
<1>6. Sound(Answered) /\ Follows(Preview, Answered, timeline)
  BY <1>1, <1>3, <1>4, <1>5 DEF Sound, Previews, Follows, Preview
<1>7. /\ Sound(Cancelled) /\ Cancelled.rq.generation = request.generation + 1
      /\ Cancelled.mb.slot = Empty
  <2> DEFINE g == request.generation + 1
             rq == [request EXCEPT !.generation = g, !.pending = FALSE, !.queued = None]
             mb == [mailbox EXCEPT !.slot = Empty, !.latest = g]
  <2>0. g \in Nat /\ g > request.generation
    BY <1>1 DEF Requests
  <2>1. Cancelled = [rq |-> rq, mb |-> mb]
    BY DEF Cancelled
  <2>2. rq \in Requests /\ rq.generation = g
    BY <1>1, <2>0 DEF Requests, Place
  <2>3. Empty \in Slots
    BY DEF Empty, Slots, Place
  <2>4. mb \in Boxes /\ mb.latest = g /\ mb.slot = Empty
    BY <1>1, <2>0, <2>3 DEF Boxes
  <2> HIDE DEF rq, mb
  <2> QED  BY <2>0, <2>1, <2>2, <2>4 DEF Sound, Previews
<1> QED  BY <1>2, <1>5, <1>6, <1>7

(* What is known of requests and answers is still true when the length of the
   source becomes known, and when everything is obsolete. *)
LEMMA Carry ==
  ASSUME Types, Types', SlotInv, JobInv, ResultInv,
         UNCHANGED <<worker, job, main>>,
         results' = results \/ (results # <<>> /\ results' = Tail(results)),
         Follows(Preview, [rq |-> request', mb |-> mailbox'], timeline'),
         \/ request'.generation > request.generation
         \/ \A f \in Nat, x \in Place : About(timeline, f, x) => About(timeline', f, x)
  PROVE  SlotInv' /\ JobInv' /\ ResultInv'
<1>1. /\ request.generation \in Nat /\ request'.generation \in Nat
      /\ request.asked \in Nat /\ job.frame \in Place /\ job.generation \in Nat
      /\ mailbox.slot.generation \in Nat /\ mailbox.slot.frame \in Place
  BY DEF Types, Requests, Slots, Boxes
<1>2. \A g \in Nat, x \in Place :
        Obsolete(g) \/ Latest(g, x) =>
          \/ g < request'.generation
          \/ /\ request'.generation = request.generation /\ request'.asked = request.asked
             /\ g = request'.generation /\ About(timeline', request'.asked, x)
  BY <1>1 DEF Obsolete, Latest, Follows, Preview
<1>3. SlotInv'
  <2>1. CASE request'.generation = request.generation
    BY <1>1, <1>2, <2>1 DEF SlotInv, Follows, Preview, Obsolete, Latest
  <2>2. CASE request'.generation # request.generation
    BY <1>1, <2>2 DEF SlotInv, Follows, Preview, Obsolete, Latest
  <2> QED  BY <2>1, <2>2
<1>4. JobInv'
  BY <1>1, <1>2 DEF JobInv, Obsolete, Latest
<1>5. ResultInv'
  <2>0. \A i \in DOMAIN results : results[i] \in Pictures
    BY DEF Types
  <2>1. \A i \in DOMAIN results : results[i].generation \in Nat /\ results[i].frame \in Place
    BY <2>0 DEF Pictures
  <2>2. \A i \in DOMAIN results' : \E j \in DOMAIN results : results'[i] = results[j]
    BY DEF Types
  <2>3. \A j \in DOMAIN results :
          \/ results[j].generation < request'.generation
          \/ /\ results[j].generation = request'.generation /\ results[j].source = main
             /\ About(timeline', request'.asked, results[j].frame)
    <3> SUFFICES ASSUME NEW j \in DOMAIN results
                 PROVE  \/ results[j].generation < request'.generation
                        \/ /\ results[j].generation = request'.generation
                           /\ results[j].source = main
                           /\ About(timeline', request'.asked, results[j].frame)
      OBVIOUS
    <3>1. results[j].generation \in Nat /\ results[j].frame \in Place
      BY <2>1
    <3>2. \/ Obsolete(results[j].generation)
          \/ Latest(results[j].generation, results[j].frame) /\ results[j].source = main
      BY DEF ResultInv
    <3>3. CASE Obsolete(results[j].generation)
      BY <1>1, <3>1, <3>3 DEF Obsolete, Follows, Preview
    <3>4. CASE Latest(results[j].generation, results[j].frame) /\ results[j].source = main
      BY <1>1, <3>1, <3>4 DEF Latest, Follows, Preview
    <3> QED  BY <3>2, <3>3, <3>4
  <2> QED  BY <2>2, <2>3 DEF ResultInv, Obsolete, Latest
<1> QED  BY <1>3, <1>4, <1>5

(* What the GUI thread becomes is what an operator of requests answers. *)
LEMMA BecomeFacts ==
  ASSUME NEW p, NEW t, Sound(p), Follows(Preview, p, t), Become(p)
  PROVE  /\ request' \in Requests /\ mailbox' \in Boxes /\ mailbox'.latest = request'.generation
         /\ Follows(Preview, [rq |-> request', mb |-> mailbox'], t)
  BY DEF Sound, Previews, Follows, Become

LEMMA SameFacts ==
  ASSUME Types, UNCHANGED <<request, mailbox>>, NEW t
  PROVE  /\ request' \in Requests /\ mailbox' \in Boxes /\ mailbox'.latest = request'.generation
         /\ Follows(Preview, [rq |-> request', mb |-> mailbox'], t)
  BY DEF Types, Follows, Preview

(* Lengths and positions are natural numbers. *)
LEMMA ViewFacts ==
  ASSUME NEW t \in Views
  PROVE  /\ Frames(t) \in Nat /\ LastFrame(t) \in Nat
         /\ \A n \in Nat, e \in BOOLEAN : WithCount(t, n, e) \in Views
<1>1. Frames(t) \in Nat
  BY DEF Frames, Views
<1>2. LastFrame(t) \in Nat
  BY <1>1 DEF LastFrame, Larger
<1>3. \A n \in Nat, e \in BOOLEAN : WithCount(t, n, e) \in Views
  BY DEF WithCount, Views
<1> QED  BY <1>1, <1>2, <1>3

LEMMA OpenedFacts ==
  ASSUME NEW s \in Media
  PROVE  /\ Opened(s) \in Views
         /\ s # Closed /\ Opened(s).exact => Opened(s).count = Length
<1>1. /\ (s \in Indexed \cup {Closed}) \in BOOLEAN
      /\ (IF s = Closed THEN 0 ELSE IF s \in Indexed THEN Length ELSE Estimate) \in Nat
  BY PreviewAssumption
<1>2. <<>> \in Seq(0 .. Length - 1)
  OBVIOUS
<1>3. Opened(s) \in Views
  BY <1>1, <1>2, Zenon DEF Opened, Views
<1>4. s # Closed /\ Opened(s).exact => Opened(s).count = Length
  BY DEF Opened
<1> QED  BY <1>3, <1>4

LEMMA ControlFacts ==
  ASSUME NEW c \in Controls, NEW f \in Nat
  PROVE  Ranged(c, f) \in Controls /\ Moved(c, f) \in Controls
  BY DEF Ranged, Moved, Controls, Place

LEMMA CountFacts ==
  ASSUME Types
  PROVE  Length \in Nat \ {0} /\ Estimate \in Nat /\ DecoderCount \in Nat /\ MaxFrame \in Nat
  BY PreviewAssumption DEF DecoderCount

(* A length that becomes known takes places away and changes none. *)
LEMMA CountKeeps ==
  ASSUME NEW t \in Views, NEW n \in Nat, NEW e \in BOOLEAN,
         t.exact => e /\ n = t.count
  PROVE  \A f \in Nat, x \in Place : About(t, f, x) => About(WithCount(t, n, e), f, x)
  BY DEF Views, WithCount, About

(* A step of the GUI thread that keeps the source. *)
LEMMA QuietStep ==
  ASSUME IInv, Types',
         UNCHANGED <<main, workerSource, worker, job>>,
         results' = results \/ (results # <<>> /\ results' = Tail(results)),
         Follows(Preview, [rq |-> request', mb |-> mailbox'], timeline'),
         \/ request'.generation > request.generation /\ label' = None
         \/ /\ \A f \in Nat, x \in Place : About(timeline, f, x) => About(timeline', f, x)
            /\ \/ UNCHANGED <<shown, label>>
               \/ label' = None
               \/ /\ shown'.source = main /\ Decodable(shown'.frame)
                  /\ About(timeline', label', shown'.frame),
         main # Closed /\ timeline'.exact => timeline'.count = Length,
         phase' # "close",
         OperationInv'
  PROVE  IInv'
<1>1. SlotInv' /\ JobInv' /\ ResultInv'
  BY Carry DEF IInv
<1>2. BarrierInv'
  BY DEF BarrierInv
<1>3. SourceInv'
  BY DEF IInv, SourceInv
<1>4. DisplayInv'
  BY DEF IInv, Types, DisplayInv, About, Place
<1> QED  BY <1>1, <1>2, <1>3, <1>4 DEF IInv

-----------------------------------------------------------------------------
(* One lemma per handler of the GUI thread. *)

LEMMA SeekStep ==
  ASSUME IInv, NEW f \in 0 .. MaxFrame, Seek(f)
  PROVE  IInv'
<1>1. Types  BY DEF IInv
<1>2. f \in Nat /\ timeline' = timeline  BY <1>1, CountFacts DEF Seek
<1> DEFINE p == AskIfMoved(Preview, control, f, FALSE, timeline)
<1>3. /\ Sound(p) /\ Follows(Preview, p, timeline')
      /\ Become(p)
  BY <1>1, <1>2, AskIfMovedFacts, CancelledFacts DEF Seek, Types
<1>4. /\ request' \in Requests /\ mailbox' \in Boxes /\ mailbox'.latest = request'.generation
      /\ Follows(Preview, [rq |-> request', mb |-> mailbox'], timeline')
  BY <1>3, BecomeFacts
<1>5. Types'
  BY <1>1, <1>4, <1>2, ControlFacts DEF Types, Place, Seek, back
<1>6. OperationInv'
  BY DEF IInv, OperationInv, Seek, Editing, Dispatching
<1> QED
  BY <1>1, <1>4, <1>5, <1>6, QuietStep DEF Seek, Types, IInv, SourceInv, Editing,
     Dispatching, back

LEMMA DragStep ==
  ASSUME IInv, NEW f \in 0 .. MaxFrame, Drag(f)
  PROVE  IInv'
<1>1. Types  BY DEF IInv
<1>2. f \in Nat /\ timeline' = timeline  BY <1>1, CountFacts DEF Drag
<1>3. UNCHANGED <<request, mailbox>>  BY DEF Drag
<1>4. /\ request' \in Requests /\ mailbox' \in Boxes /\ mailbox'.latest = request'.generation
      /\ Follows(Preview, [rq |-> request', mb |-> mailbox'], timeline')
  BY <1>1, <1>3, SameFacts
<1>5. Types'
  BY <1>1, <1>4, <1>2 DEF Types, Place, Drag, Controls, back
<1>6. OperationInv'
  BY DEF IInv, OperationInv, Drag, Editing, Dispatching
<1> QED
  BY <1>1, <1>4, <1>5, <1>6, QuietStep DEF Drag, IInv, SourceInv, Editing,
     Dispatching, back

LEMMA StepForwardStep ==
  ASSUME IInv, StepForward
  PROVE  IInv'
<1>1. Types  BY DEF IInv
<1>2. /\ control.position + 1 \in Nat /\ timeline' = timeline
      /\ Larger(control.position + 1, DecoderCount - 1) \in Nat
  BY <1>1, CountFacts DEF StepForward, Types, Controls, Larger
<1> DEFINE p == Ask(Preview, control.position + 1, FALSE, timeline)
<1>3. /\ Sound(p) /\ Follows(Preview, p, timeline')
      /\ Become(p)
  BY <1>1, <1>2, AskFacts, CancelledFacts DEF StepForward, Types
<1>4. /\ request' \in Requests /\ mailbox' \in Boxes /\ mailbox'.latest = request'.generation
      /\ Follows(Preview, [rq |-> request', mb |-> mailbox'], timeline')
  BY <1>3, BecomeFacts
<1>5. Types'
  BY <1>1, <1>4, <1>2, ControlFacts DEF Types, Place, StepForward, back
<1>6. OperationInv'
  BY DEF IInv, OperationInv, StepForward, Editing, Dispatching
<1> QED
  BY <1>1, <1>4, <1>5, <1>6, QuietStep DEF StepForward, Types, IInv, SourceInv,
     Editing, Dispatching, back

LEMMA DispatchScrubStep ==
  ASSUME IInv, DispatchScrub
  PROVE  IInv'
<1>1. Types  BY DEF IInv
<1>2. control.scrub \in Nat /\ playing \in BOOLEAN /\ timeline' = timeline
  BY <1>1 DEF DispatchScrub, Types, Controls, Place, playing
<1> DEFINE p == IF Editing /\ main # Closed THEN Ask(Preview, control.scrub, playing, timeline)
                 ELSE Preview
<1>3. /\ Sound(p) /\ Follows(Preview, p, timeline')
      /\ Become(p)
  BY <1>1, <1>2, AskFacts, CancelledFacts DEF DispatchScrub, Types, Follows
<1>4. /\ request' \in Requests /\ mailbox' \in Boxes /\ mailbox'.latest = request'.generation
      /\ Follows(Preview, [rq |-> request', mb |-> mailbox'], timeline')
  BY <1>3, BecomeFacts
<1>5. Types'
  BY <1>1, <1>4, <1>2 DEF Types, Place, DispatchScrub, back, Controls
<1>6. OperationInv'
  BY DEF IInv, OperationInv, DispatchScrub, WorkerFree, Editing, Dispatching,
     Become, Preview, back
<1> QED
  BY <1>1, <1>4, <1>5, <1>6, QuietStep DEF DispatchScrub, Types, Follows, IInv,
     SourceInv, Editing, Dispatching, back

LEMMA StopStep ==
  ASSUME IInv, Stop
  PROVE  IInv'
<1>1. Types  BY DEF IInv
<1>2. control.position \in Nat /\ timeline' = timeline
  BY <1>1 DEF Stop, Types, Controls
<1> DEFINE p == Ask(Preview, control.position, FALSE, timeline)
<1>3. /\ Sound(p) /\ Follows(Preview, p, timeline')
      /\ Become(p)
  BY <1>1, <1>2, AskFacts, CancelledFacts DEF Stop, Types
<1>4. /\ request' \in Requests /\ mailbox' \in Boxes /\ mailbox'.latest = request'.generation
      /\ Follows(Preview, [rq |-> request', mb |-> mailbox'], timeline')
  BY <1>3, BecomeFacts
<1>5. Types'
  BY <1>1, <1>4 DEF Types, Place, Stop, back
<1>6. OperationInv'
  BY DEF IInv, OperationInv, Stop, Editing, Dispatching
<1> QED
  BY <1>1, <1>4, <1>5, <1>6, QuietStep DEF Stop, Types, IInv, SourceInv, Editing,
     Dispatching, back

LEMMA BeginPlayStep ==
  ASSUME IInv, BeginPlay
  PROVE  IInv'
<1>1. Types  BY DEF IInv
<1>2. UNCHANGED <<request, mailbox>>  BY DEF BeginPlay
<1>3. /\ request' \in Requests /\ mailbox' \in Boxes /\ mailbox'.latest = request'.generation
      /\ Follows(Preview, [rq |-> request', mb |-> mailbox'], timeline')
  BY <1>1, <1>2, SameFacts
<1>4. Types'
  BY <1>1, <1>3 DEF Types, Place, BeginPlay, back
<1>5. OperationInv'
  BY DEF IInv, OperationInv, BeginPlay, Editing, Dispatching
<1> QED
  BY <1>1, <1>3, <1>4, <1>5, QuietStep DEF BeginPlay, IInv, SourceInv, Editing,
     Dispatching, back

LEMMA FinishPlayStep ==
  ASSUME IInv, FinishPlay
  PROVE  IInv'
<1>1. Types  BY DEF IInv
<1>2. control.position \in Nat /\ timeline' = timeline
  BY <1>1 DEF FinishPlay, Types, Controls
<1> DEFINE p == Ask(Preview, control.position, TRUE, timeline)
<1>3. /\ Sound(p) /\ Follows(Preview, p, timeline')
      /\ Become(p)
  BY <1>1, <1>2, AskFacts, CancelledFacts DEF FinishPlay, Types
<1>4. /\ request' \in Requests /\ mailbox' \in Boxes /\ mailbox'.latest = request'.generation
      /\ Follows(Preview, [rq |-> request', mb |-> mailbox'], timeline')
  BY <1>3, BecomeFacts
<1>5. Types'
  BY <1>1, <1>4, <1>2 DEF Types, Place, FinishPlay, back
<1>6. OperationInv'
  BY DEF IInv, OperationInv, FinishPlay
<1> QED
  BY <1>1, <1>4, <1>5, <1>6, QuietStep DEF FinishPlay, Types, IInv, SourceInv,
     Editing, Dispatching, back

LEMMA JoinStep ==
  ASSUME IInv, Join
  PROVE  IInv'
<1>1. Types  BY DEF IInv
<1>2. UNCHANGED <<request, mailbox>>  BY DEF Join
<1>3. /\ request' \in Requests /\ mailbox' \in Boxes /\ mailbox'.latest = request'.generation
      /\ Follows(Preview, [rq |-> request', mb |-> mailbox'], timeline')
  BY <1>1, <1>2, SameFacts
<1>4. Types'
  BY <1>1, <1>3 DEF Types, Place, Join, back
<1>5. OperationInv'
  BY DEF IInv, OperationInv, Join, WorkerFree, back
<1> QED
  BY <1>1, <1>3, <1>4, <1>5, QuietStep DEF Join, IInv, SourceInv, Editing,
     Dispatching, back

LEMMA EndOperationStep ==
  ASSUME IInv, EndOperation
  PROVE  IInv'
<1>1. Types  BY DEF IInv
<1>2. control.position \in Nat /\ timeline' = timeline
  BY <1>1 DEF EndOperation, Types, Controls
<1> DEFINE p == IF main # Closed THEN Ask(Preview, control.position, FALSE, timeline)
                 ELSE Preview
<1>3. /\ Sound(p) /\ Follows(Preview, p, timeline')
      /\ Become(p)
  BY <1>1, <1>2, AskFacts, CancelledFacts DEF EndOperation, Types, Follows
<1>4. /\ request' \in Requests /\ mailbox' \in Boxes /\ mailbox'.latest = request'.generation
      /\ Follows(Preview, [rq |-> request', mb |-> mailbox'], timeline')
  BY <1>3, BecomeFacts
<1>5. Types'
  BY <1>1, <1>4 DEF Types, Place, EndOperation, back
<1>6. OperationInv'
  BY DEF IInv, OperationInv, EndOperation, Dispatching
<1> QED
  BY <1>1, <1>4, <1>5, <1>6, QuietStep DEF EndOperation, Types, Follows, IInv,
     SourceInv, Editing, Dispatching, back

LEMMA BeginOperationStep ==
  ASSUME IInv, NEW kind \in {"borrow", "replace"}, BeginOperation(kind)
  PROVE  IInv'
<1>1. Types  BY DEF IInv
<1>2. /\ Sound(Cancelled) /\ Follows(Preview, Cancelled, timeline')
      /\ Become(Cancelled)
  BY <1>1, CancelledFacts DEF BeginOperation, Follows, Sound, Previews, Preview,
     Requests, Types
<1>3. /\ request' \in Requests /\ mailbox' \in Boxes /\ mailbox'.latest = request'.generation
      /\ Follows(Preview, [rq |-> request', mb |-> mailbox'], timeline')
  BY <1>2, BecomeFacts
<1>4. Types'
  BY <1>1, <1>3 DEF Types, Place, BeginOperation, back
<1>5. OperationInv'
  BY DEF IInv, OperationInv, BeginOperation
<1> QED
  BY <1>1, <1>3, <1>4, <1>5, QuietStep DEF BeginOperation, Follows, Sound, Previews,
     Preview, Requests, Types, IInv, SourceInv, Editing, Dispatching, back

LEMMA IndexSourceStep ==
  ASSUME IInv, IndexSource
  PROVE  IInv'
<1>1. Types  BY DEF IInv
<1>2. /\ timeline' = WithCount(timeline, Length, TRUE) /\ ~timeline.exact
      /\ UNCHANGED <<request, mailbox>>
  BY DEF IndexSource
<1>3. /\ request' \in Requests /\ mailbox' \in Boxes /\ mailbox'.latest = request'.generation
      /\ Follows(Preview, [rq |-> request', mb |-> mailbox'], timeline')
  BY <1>1, <1>2, SameFacts
<1>4. /\ timeline' \in Views /\ timeline'.count = Length
      /\ \A f \in Nat, x \in Place : About(timeline, f, x) => About(timeline', f, x)
  <2>1. timeline \in Views /\ Length \in Nat
    BY <1>1, CountFacts DEF Types
  <2>2. timeline' \in Views /\ timeline'.count = Length
    BY <1>2, <2>1, ViewFacts DEF WithCount, Views
  <2> QED  BY <1>2, <2>1, <2>2, CountKeeps
<1>5. Types'
  BY <1>1, <1>3, <1>4, ViewFacts, ControlFacts DEF Types, IndexSource, back
<1>6. OperationInv'
  BY DEF IInv, OperationInv, IndexSource, Dispatching, WorkerFree, back
<1> QED  BY <1>1, <1>3, <1>4, <1>5, <1>6, QuietStep DEF IndexSource, Dispatching, back

(* A tick keeps the time line. *)
LEMMA TickStep ==
  ASSUME IInv, NEW n \in 1 .. 2, Tick(n)
  PROVE  IInv'
<1>1. Types  BY DEF IInv
<1>2. /\ clock \in Nat /\ clock + n \in Nat /\ timeline' = timeline /\ timeline \in Views
      /\ control \in Controls /\ Sound(Preview) /\ operation # "borrow" /\ phase = "events"
  BY <1>1, CancelledFacts DEF Tick, Types, Place, playing, IInv, OperationInv,
     Dispatching
<1> DEFINE Answer ==
        /\ control' \in Controls /\ clock' \in Place
        /\ request' \in Requests /\ mailbox' \in Boxes /\ mailbox'.latest = request'.generation
        /\ Follows(Preview, [rq |-> request', mb |-> mailbox'], timeline')
<1>3. ASSUME TickToEnd(n) PROVE Answer
  <2> DEFINE last == LastFrame(timeline)
             c == Ranged(control, last)
             p == AskIfMoved(Preview, c, last, FALSE, timeline)
  <2>1. last \in Nat /\ c \in Controls /\ Moved(c, last) \in Controls
    BY <1>2, ViewFacts, ControlFacts
  <2>2. Become(p) /\ control' = Moved(c, last) /\ clock' = None
    BY <1>3 DEF TickToEnd
  <2>3. Sound(p) /\ Follows(Preview, p, timeline')
    BY <1>2, <2>1, AskIfMovedFacts
  <2> HIDE DEF last, c, p
  <2> QED  BY <2>1, <2>2, <2>3, BecomeFacts DEF Place
<1>4. ASSUME TickForward(n) PROVE Answer
  <2> DEFINE c == IF timeline.identity /\ ~timeline.exact /\ clock' >= DecoderCount
                  THEN Ranged(control, clock') ELSE control
             p == AskIfMoved(Preview, c, clock', TRUE, timeline)
  <2>1. clock' \in Nat
    BY <1>2, <1>4 DEF TickForward
  <2>2. c \in Controls /\ Moved(c, clock') \in Controls
    BY <1>2, <2>1, ControlFacts
  <2>3. Become(p) /\ control' = Moved(c, clock')
    BY <1>4 DEF TickForward
  <2>4. Sound(p) /\ Follows(Preview, p, timeline')
    BY <1>2, <2>1, AskIfMovedFacts
  <2> HIDE DEF c, p
  <2> QED  BY <2>1, <2>2, <2>3, <2>4, BecomeFacts DEF Place
<1>5. Answer
  BY <1>3, <1>4 DEF Tick
<1>6. Types'
  BY <1>1, <1>5 DEF Types, Tick, back
<1>7. OperationInv'
  BY <1>2 DEF OperationInv, Tick
<1> QED  BY <1>1, <1>2, <1>5, <1>6, <1>7, QuietStep DEF Tick, IInv, SourceInv, back

(* An edit cancels first, so that nothing asked before it is current after it. *)
LEMMA UpdateFacts ==
  ASSUME Types, NEW t \in Views, NEW f \in Nat, UpdateTimelineView(t, f)
  PROVE  /\ timeline' = t /\ control' \in Controls /\ clock' = None /\ label' = None
         /\ shown' \in {shown, Blank}
         /\ request' \in Requests /\ mailbox' \in Boxes /\ mailbox'.latest = request'.generation
         /\ request'.generation > request.generation
         /\ Follows(Preview, [rq |-> request', mb |-> mailbox'], t)
<1> DEFINE last == LastFrame(t)
           g == IF f > last THEN last ELSE f
<1>1. last \in Nat /\ g \in Nat
  BY ViewFacts
<1>2. /\ Sound(Cancelled) /\ Cancelled.rq.generation > request.generation
      /\ Follows(Preview, Cancelled, t) /\ Sound(Preview)
  BY CancelledFacts DEF Follows, Preview, Types, Requests
<1> HIDE DEF g, last
<1>3. /\ Sound(Ask(Cancelled, g, FALSE, t))
      /\ Follows(Cancelled, Ask(Cancelled, g, FALSE, t), t)
  BY <1>1, <1>2, AskFacts
<1>4. /\ Follows(Preview, Ask(Cancelled, g, FALSE, t), t)
      /\ Ask(Cancelled, g, FALSE, t).rq.generation > request.generation
  <2>1. Follows(Preview, Ask(Cancelled, g, FALSE, t), t)
    BY <1>2, <1>3, FollowsTwice
  <2>2. request.generation \in Nat /\ Cancelled.rq.generation \in Nat
        /\ Ask(Cancelled, g, FALSE, t).rq.generation \in Nat
    BY <1>2, <1>3 DEF Sound, Previews, Requests, Types
  <2>3. Ask(Cancelled, g, FALSE, t).rq.generation >= Cancelled.rq.generation
    BY <1>2, <1>3, FollowsGrows
  <2> DEFINE i == request.generation
             j == Cancelled.rq.generation
             k == Ask(Cancelled, g, FALSE, t).rq.generation
  <2>4. i \in Nat /\ j \in Nat /\ k \in Nat /\ j > i /\ k >= j
    BY <1>2, <2>2, <2>3
  <2> HIDE DEF i, j, k
  <2>5. k > i
    BY <2>4
  <2> QED  BY <2>1, <2>5 DEF i, k
<1>5. Become(Cancelled) \/ Become(Ask(Cancelled, g, FALSE, t))
  BY DEF UpdateTimelineView, g, last
<1>6. /\ timeline' = t /\ clock' = None /\ label' = None /\ shown' \in {shown, Blank}
      /\ control' = Moved(Ranged(control, last), g)
  BY DEF UpdateTimelineView, g, last
<1>7. control' \in Controls
  BY <1>1, <1>6, ControlFacts DEF Types
<1>8. /\ request' \in Requests /\ mailbox' \in Boxes /\ mailbox'.latest = request'.generation
      /\ Follows(Preview, [rq |-> request', mb |-> mailbox'], t)
  BY <1>2, <1>3, <1>4, <1>5, BecomeFacts
<1>9. request'.generation > request.generation
  BY <1>2, <1>4, <1>5 DEF Become
<1> QED  BY <1>6, <1>7, <1>8, <1>9

LEMMA EditTimelineStep ==
  ASSUME IInv, NEW cut \in Cuts, NEW f \in 0 .. MaxFrame, EditTimeline(cut, f)
  PROVE  IInv'
<1>1. Types  BY DEF IInv
<1>2. /\ f \in Nat /\ timeline \in Views /\ timeline.exact
      /\ main # Closed /\ timeline.count = Length
      /\ operation # "borrow" /\ phase = "events"
  BY <1>1, CountFacts DEF EditTimeline, Types, IInv, SourceInv, Editing, Dispatching
<1>3. PICK t \in Views : t.count = Length /\ UpdateTimelineView(t, f)
  <2>1. cut \in Seq(0 .. Length - 1) /\ <<>> \in Seq(0 .. Length - 1)
    BY PreviewAssumption
  <2>2. \A b \in BOOLEAN, s \in Seq(0 .. Length - 1) :
          /\ [timeline EXCEPT !.identity = b, !.cut = s] \in Views
          /\ [timeline EXCEPT !.identity = b, !.cut = s].count = Length
    BY <1>2 DEF Views
  <2>3. \/ UpdateTimelineView([timeline EXCEPT !.identity = FALSE, !.cut = cut], f)
        \/ UpdateTimelineView([timeline EXCEPT !.identity = TRUE, !.cut = <<>>], f)
    BY Zenon DEF EditTimeline
  <2> QED  BY <2>1, <2>2, <2>3, Zenon
<1>4. /\ timeline' = t /\ control' \in Controls /\ clock' = None /\ label' = None
      /\ shown' \in {shown, Blank}
      /\ request' \in Requests /\ mailbox' \in Boxes /\ mailbox'.latest = request'.generation
      /\ request'.generation > request.generation
      /\ Follows(Preview, [rq |-> request', mb |-> mailbox'], timeline')
  BY <1>1, <1>2, <1>3, UpdateFacts
<1>5. Types'
  BY <1>1, <1>3, <1>4 DEF Types, EditTimeline, Place, Blank, Media, back
<1>6. OperationInv'
  BY <1>2 DEF IInv, OperationInv, EditTimeline
<1> QED  BY <1>2, <1>3, <1>4, <1>5, <1>6, QuietStep DEF EditTimeline, back

(* The replacement of the source: everything asked before it is obsolete. *)
LEMMA BeginTransitionStep ==
  ASSUME IInv, NEW s \in Media, BeginTransition(s)
  PROVE  IInv'
<1>1. Types  BY DEF IInv
<1>2. /\ request' \in Requests /\ mailbox' \in Boxes /\ mailbox'.latest = request'.generation
      /\ request'.generation = request.generation + 1 /\ mailbox'.slot = Empty
  BY <1>1, CancelledFacts DEF BeginTransition, Become, Sound, Previews
<1>3. Types'
  BY <1>1, <1>2 DEF Types, BeginTransition, Place, back
<1>4. /\ worker = "decode" => job.generation < request'.generation
      /\ \A i \in DOMAIN results : results[i].generation < request'.generation
  <2>1. request.generation \in Nat /\ job.generation \in Nat
        /\ \A i \in DOMAIN results : results[i] \in Pictures
    BY <1>1 DEF Types, Requests, Slots
  <2>2. \A i \in DOMAIN results : results[i].generation \in Nat
    BY <2>1 DEF Pictures
  <2>3. \A i \in DOMAIN results : results[i].generation <= request.generation
    BY <2>1, <2>2 DEF IInv, ResultInv, Obsolete, Latest
  <2>4. worker = "decode" => job.generation <= request.generation
    BY <2>1 DEF IInv, JobInv, Obsolete, Latest
  <2> QED  BY <1>2, <2>1, <2>2, <2>3, <2>4
<1>5. UNCHANGED <<main, timeline, shown, label, operation, worker, workerSource, job, results>>
      /\ phase' = "close"
  BY DEF BeginTransition, back
<1>6. SlotInv' /\ JobInv' /\ ResultInv' /\ BarrierInv'
  BY <1>2, <1>4, <1>5 DEF SlotInv, JobInv, ResultInv, BarrierInv, Obsolete
<1>7. SourceInv' /\ DisplayInv'
  BY <1>5 DEF IInv, SourceInv, DisplayInv, About
<1>8. OperationInv'
  BY <1>5 DEF OperationInv, BeginTransition, Editing
<1> QED  BY <1>3, <1>6, <1>7, <1>8 DEF IInv

LEMMA FinishTransitionStep ==
  ASSUME IInv, NEW s \in Media, FinishTransition(s)
  PROVE  IInv'
<1>1. Types  BY DEF IInv
<1> DEFINE released == Moved(Ranged(control, 0), 0)
           first == Ask(Preview, 0, FALSE, Opened(s))
           next == IF s = Closed THEN Preview
                   ELSE IF operation = "none" THEN Ask(first, 0, FALSE, Opened(s)) ELSE first
<1>2. /\ main' = s /\ workerSource' = s /\ timeline' = Opened(s)
      /\ label' = None /\ shown' = Blank
      /\ phase' = "events" /\ target' = Closed /\ worker = "idle"
      /\ control' = Ranged(released, LastFrame(Opened(s)))
      /\ UNCHANGED <<clock, operation, worker, job, results>>
  BY DEF FinishTransition, WorkerFree
<1>3. Become(next)
  BY <1>2 DEF FinishTransition
<1>4. Opened(s) \in Views /\ (s # Closed /\ Opened(s).exact => Opened(s).count = Length)
  BY OpenedFacts
<1>5. control' \in Controls
  BY <1>1, <1>2, <1>4, ControlFacts, ViewFacts DEF Types
<1>6. Sound(next) /\ Follows(Preview, next, Opened(s))
  <2>1. Sound(Preview) /\ Follows(Preview, Preview, Opened(s))
    BY <1>1, CancelledFacts DEF Follows
  <2>2. Sound(first) /\ Follows(Preview, first, Opened(s))
    BY <1>4, <2>1, AskFacts
  <2> HIDE DEF first
  <2>3. /\ Sound(Ask(first, 0, FALSE, Opened(s)))
        /\ Follows(first, Ask(first, 0, FALSE, Opened(s)), Opened(s))
    BY <1>4, <2>2, AskFacts
  <2>4. Follows(Preview, Ask(first, 0, FALSE, Opened(s)), Opened(s))
    BY <2>1, <2>2, <2>3, FollowsTwice
  <2> QED  BY <2>1, <2>2, <2>3, <2>4
<1> HIDE DEF released, next
<1>7. /\ request' \in Requests /\ mailbox' \in Boxes /\ mailbox'.latest = request'.generation
      /\ Follows(Preview, [rq |-> request', mb |-> mailbox'], Opened(s))
  BY <1>3, <1>6, BecomeFacts
<1>8. Types'
  BY <1>1, <1>2, <1>4, <1>5, <1>7 DEF Types, Media, Blank, Place
<1>9. /\ mailbox.slot = Empty /\ \A i \in DOMAIN results : Obsolete(results[i].generation)
      /\ operation # "borrow"
  BY DEF IInv, BarrierInv, OperationInv, FinishTransition
<1>10. /\ request.generation \in Nat /\ request'.generation \in Nat
       /\ request'.generation >= request.generation
       /\ \A i \in DOMAIN results : results[i] \in Pictures
  BY <1>1, <1>7 DEF Types, Requests, Follows, Preview
<1>11. SlotInv'
  BY <1>2, <1>7, <1>9 DEF SlotInv, Follows, Preview, Latest
<1>12. JobInv'
  BY <1>2 DEF JobInv
<1>13. ResultInv'
  <2>1. \A i \in DOMAIN results : results[i].generation \in Nat
    BY <1>10 DEF Pictures
  <2>2. \A i \in DOMAIN results : results[i].generation < request'.generation
    BY <1>9, <1>10, <2>1 DEF Obsolete
  <2> QED  BY <1>2, <2>2 DEF ResultInv, Obsolete
<1>14. BarrierInv' /\ SourceInv' /\ DisplayInv' /\ OperationInv'
  BY <1>2, <1>4, <1>9 DEF BarrierInv, SourceInv, DisplayInv, OperationInv
<1> QED  BY <1>8, <1>11, <1>12, <1>13, <1>14 DEF IInv

-----------------------------------------------------------------------------
(* The worker. *)
LEMMA TakeRequestStep ==
  ASSUME IInv, TakeRequest
  PROVE  IInv'
<1>1. Types  BY DEF IInv
<1>2. /\ job' = mailbox.slot
      /\ worker' = (IF mailbox.slot = Empty THEN "idle" ELSE "decode")
      /\ UNCHANGED <<main, timeline, control, clock, request, shown, label, phase,
                     operation, target, workerSource, results>>
  BY DEF TakeRequest, gui
<1>3. /\ mailbox' \in Boxes /\ mailbox'.slot = Empty /\ mailbox'.latest = mailbox.latest
  <2> DEFINE b == mailbox.slot # Empty
             mb == [mailbox EXCEPT !.slot = Empty, !.posted = FALSE, !.scheduled = b]
  <2>1. mailbox \in Boxes /\ Empty \in Slots /\ b \in BOOLEAN
    BY <1>1 DEF Types, Empty, Slots, Place
  <2>2. mailbox' = mb
    BY Zenon DEF TakeRequest
  <2> HIDE DEF b
  <2>3. mb \in Boxes /\ mb.slot = Empty /\ mb.latest = mailbox.latest
    BY <2>1 DEF Boxes
  <2> QED  BY <2>2, <2>3
<1>4. Types'
  BY <1>1, <1>2, <1>3 DEF Types, Boxes
<1>5. SlotInv' /\ JobInv' /\ ResultInv'
  BY <1>2, <1>3 DEF IInv, SlotInv, JobInv, ResultInv, Obsolete, Latest, About
<1>6. BarrierInv'
  BY <1>2, <1>3 DEF IInv, BarrierInv, Obsolete
<1>7. SourceInv' /\ DisplayInv'
  BY <1>2 DEF IInv, SourceInv, DisplayInv, About
<1>8. OperationInv'
  BY <1>2 DEF IInv, OperationInv, WorkerFree, TakeRequest
<1> QED  BY <1>4, <1>5, <1>6, <1>7, <1>8 DEF IInv

LEMMA FinishDecodeStep ==
  ASSUME IInv, FinishDecode
  PROVE  IInv'
<1>1. Types  BY DEF IInv
<1>2. /\ worker = "decode" /\ worker' \in {"idle", "loop"}
      /\ UNCHANGED <<main, timeline, control, clock, request, shown, label, phase,
                     operation, target, workerSource, job>>
  BY DEF FinishDecode, gui
<1>3. mailbox' \in Boxes /\ mailbox'.slot = mailbox.slot /\ mailbox'.latest = mailbox.latest
  <2>1. mailbox' = mailbox \/ mailbox' = [mailbox EXCEPT !.scheduled = FALSE]
    BY Zenon DEF FinishDecode
  <2> QED  BY <1>1, <2>1 DEF Types, Boxes
<1>4. \/ results' = results
      \/ /\ job.generation = mailbox.latest
         /\ \E r \in Answers : results' = Append(results, r)
  BY DEF FinishDecode
<1>5. \A r \in Answers : /\ r \in Pictures /\ r.generation = job.generation
                         /\ r.source = workerSource /\ r.frame = job.frame
  <2>1. Decodable(job.frame) \in BOOLEAN
    BY DEF Decodable
  <2>2. job.generation \in Nat /\ job.frame \in Place /\ workerSource \in Media
    BY <1>1 DEF Types, Slots
  <2> QED  BY <2>1, <2>2 DEF Answers, Pictures
<1>6. Types'
  BY <1>1, <1>2, <1>3, <1>4, <1>5 DEF Types
<1>7. SlotInv' /\ JobInv'
  BY <1>2, <1>3 DEF IInv, SlotInv, JobInv, Obsolete, Latest, About
<1>8. ResultInv'
  <2>1. CASE results' = results
    BY <1>2, <2>1 DEF IInv, ResultInv, Obsolete, Latest, About
  <2>2. ASSUME NEW r \in Answers, job.generation = mailbox.latest, results' = Append(results, r)
        PROVE  ResultInv'
    <3>1. results \in Seq(Pictures) /\ r \in Pictures
      BY <1>1, <1>5 DEF Types
    <3>2. \A i \in DOMAIN results' :
            results'[i] = r \/ (i \in DOMAIN results /\ results'[i] = results[i])
      BY <2>2, <3>1
    <3>3. ~Obsolete(job.generation)
      BY <1>1, <2>2 DEF Obsolete, Types, Requests
    <3>4. Latest(r.generation, r.frame) /\ r.source = main
      BY <1>2, <1>5, <3>3 DEF IInv, JobInv, SourceInv
    <3> QED
      BY <1>2, <3>2, <3>4 DEF IInv, ResultInv, Obsolete, Latest, About
  <2> QED  BY <1>4, <2>1, <2>2
<1>9. BarrierInv'
  <2>1. phase = "close" => results' = results
    BY <1>1, <1>2, <1>4 DEF IInv, BarrierInv, Obsolete, Types, Requests
  <2> QED  BY <1>2, <1>3, <2>1 DEF IInv, BarrierInv, Obsolete
<1>10. SourceInv' /\ DisplayInv'
  BY <1>2 DEF IInv, SourceInv, DisplayInv, About
<1>11. OperationInv'
  BY <1>2 DEF IInv, OperationInv, WorkerFree
<1> QED  BY <1>6, <1>7, <1>8, <1>9, <1>10, <1>11 DEF IInv

-----------------------------------------------------------------------------
(* Results on the GUI thread. *)
LEMMA MaxFacts ==
  ASSUME NEW a \in Nat, NEW b \in Nat, NEW c \in Nat
  PROVE  LET m == Max({a, b, c}) IN m \in Nat /\ m >= a /\ m >= b /\ m >= c
<1>1. \E x \in {a, b, c} : \A y \in {a, b, c} : x >= y
  <2>1. CASE a >= b /\ a >= c  BY <2>1
  <2>2. CASE b >= a /\ b >= c  BY <2>2
  <2>3. CASE c >= a /\ c >= b  BY <2>3
  <2> QED  BY <2>1, <2>2, <2>3
<1>2. Max({a, b, c}) \in {a, b, c} /\ \A y \in {a, b, c} : Max({a, b, c}) >= y
  BY <1>1 DEF Max
<1> QED  BY <1>2

LEMMA AnsweredFacts ==
  ASSUME Types, NEW t
  PROVE  Sound(Answered) /\ Follows(Preview, Answered, t) /\ Sound(Preview)
  BY CancelledFacts DEF Follows, Preview

LEMMA FrameReadyStep ==
  ASSUME IInv, Dispatching, operation = "none", main # Closed, UNCHANGED back,
         results # <<>>, results' = Tail(results),
         NEW r \in Pictures, r.source = main, About(timeline, request.asked, r.frame),
         FrameReady(r)
  PROVE  IInv'
<1>1. Types  BY DEF IInv
<1> DEFINE isExact == r.exact \/ timeline.exact
           known   == IF r.exact THEN Length
                      ELSE IF timeline.exact THEN timeline.count
                      ELSE Max({Estimate, timeline.count, r.frame + 1})
           t       == WithCount(timeline, known, isExact)
           hi      == IF isExact \/ ~t.identity THEN LastFrame(t)
                      ELSE Max({control.range, LastFrame(t), request.asked})
           p       == FollowUp(Answered, request.asked, playing, t)
<1>2. /\ shown' = [source |-> r.source, frame |-> r.frame]
      /\ label' = request.asked /\ timeline' = t
      /\ control' = (IF control.range = hi THEN control ELSE Ranged(control, hi))
      /\ UNCHANGED <<main, clock, phase, operation, target, workerSource, worker, job>>
  BY Zenon DEF FrameReady, back
<1>3. Become(p)
  BY Zenon DEF FrameReady
<1>4. /\ r.exact \in BOOLEAN /\ r.frame \in Place /\ timeline \in Views
      /\ timeline.exact \in BOOLEAN /\ timeline.count \in Nat
      /\ control \in Controls /\ control.range \in Nat
      /\ request.asked \in Nat /\ clock \in Place /\ label \in Place
  BY <1>1 DEF Types, Pictures, Views, Controls, Requests
<1>5. isExact \in BOOLEAN /\ known \in Nat
  <2>1. r.frame + 1 \in Nat
    BY <1>4 DEF Place, None
  <2>2. Max({Estimate, timeline.count, r.frame + 1}) \in Nat
    BY <1>1, <1>4, <2>1, CountFacts, MaxFacts
  <2> QED  BY <1>1, <1>4, <2>2, CountFacts
<1>6. timeline.exact => isExact /\ known = timeline.count
  BY DEF IInv, SourceInv
<1>7. t.exact => t.count = Length
  <2>1. t.exact = isExact /\ t.count = known
    BY <1>4 DEF WithCount, Views
  <2>2. isExact => known = Length
    BY DEF IInv, SourceInv
  <2> QED  BY <2>1, <2>2
<1> HIDE DEF isExact, known
<1>8. t \in Views
  BY <1>4, <1>5, ViewFacts
<1>9. \A f \in Nat, x \in Place : About(timeline, f, x) => About(t, f, x)
  BY <1>4, <1>5, <1>6, CountKeeps
<1> HIDE DEF t
<1>10. hi \in Nat
  <2>1. LastFrame(t) \in Nat
    BY <1>8, ViewFacts
  <2>2. Max({control.range, LastFrame(t), request.asked}) \in Nat
    BY <1>4, <2>1, MaxFacts
  <2> QED  BY <2>1, <2>2
<1> HIDE DEF hi
<1>11. control' \in Controls
  BY <1>2, <1>4, <1>10, ControlFacts
<1>12. Sound(p) /\ Follows(Preview, p, t)
  <2>1. playing \in BOOLEAN
    BY DEF playing
  <2>2. /\ Sound(Answered) /\ Follows(Preview, Answered, t) /\ Sound(Preview)
    BY <1>1, AnsweredFacts
  <2>3. Sound(p) /\ Follows(Answered, p, t)
    BY <1>8, <2>1, <2>2, FollowUpFacts
  <2> HIDE DEF p
  <2> QED  BY <2>2, <2>3, FollowsTwice
<1> HIDE DEF p
<1>13. /\ request' \in Requests /\ mailbox' \in Boxes /\ mailbox'.latest = request'.generation
       /\ Follows(Preview, [rq |-> request', mb |-> mailbox'], t)
  BY <1>3, <1>12, BecomeFacts
<1>14. Types'
  BY <1>1, <1>2, <1>4, <1>8, <1>11, <1>13 DEF Types, Place
<1>15. /\ shown'.source = main /\ Decodable(shown'.frame)
       /\ About(timeline', label', shown'.frame)
  <2>1. r.ready /\ Decodable(r.frame)
    BY DEF FrameReady, Pictures
  <2> QED  BY <1>2, <1>4, <1>9, <2>1
<1>16. OperationInv' /\ phase' # "close"
  BY <1>2 DEF OperationInv, Dispatching
<1> QED  BY <1>2, <1>7, <1>9, <1>13, <1>14, <1>15, <1>16, QuietStep

LEMMA FrameUnavailableStep ==
  ASSUME IInv, Dispatching, operation = "none", main # Closed, UNCHANGED back,
         results # <<>>, results' = Tail(results), NEW r, FrameUnavailable(r)
  PROVE  IInv'
<1>1. Types /\ timeline \in Views /\ control \in Controls  BY DEF IInv, Types
<1>2. UNCHANGED <<main, shown, label, phase, operation, target, workerSource, worker, job>>
  BY DEF FrameUnavailable, back
<1>3. OperationInv' /\ phase' # "close"
  BY <1>2 DEF OperationInv, Dispatching
<1>4. CASE StopAtVerifiedEnd(r)
  <2> DEFINE t == WithCount(timeline, Length, TRUE)
             c == Ranged(control, LastFrame(t))
             a == AskIfMoved(Answered, c, LastFrame(t), FALSE, t)
             p == FollowUp(a, None, FALSE, t)
  <2>1. clock' = None /\ timeline' = t /\ control' = Moved(c, LastFrame(t)) /\ Become(p)
    BY <1>4 DEF StopAtVerifiedEnd
  <2>2. /\ t \in Views /\ LastFrame(t) \in Nat
        /\ \A f \in Nat, x \in Place : About(timeline, f, x) => About(t, f, x)
        /\ t.count = Length
    <3>1. timeline.exact => TRUE /\ Length = timeline.count
      BY DEF IInv, SourceInv
    <3>2. t \in Views /\ Length \in Nat
      BY <1>1, CountFacts, ViewFacts
    <3>3. t.count = Length
      BY <1>1 DEF WithCount, Views
    <3>4. \A f \in Nat, x \in Place : About(timeline, f, x) => About(t, f, x)
      BY <1>1, <3>1, <3>2, CountKeeps
    <3> HIDE DEF t
    <3> QED  BY <3>2, <3>3, <3>4, ViewFacts
  <2> HIDE DEF t
  <2>3. control' \in Controls
    BY <1>1, <2>1, <2>2, ControlFacts
  <2> HIDE DEF c
  <2>4. Sound(p) /\ Follows(Preview, p, t)
    <3>1. Sound(Answered) /\ Follows(Preview, Answered, t) /\ Sound(Preview)
      BY <1>1, AnsweredFacts
    <3>2. Sound(a) /\ Follows(Answered, a, t)
      BY <2>2, <3>1, AskIfMovedFacts
    <3> HIDE DEF a
    <3>3. Sound(p) /\ Follows(a, p, t)
      BY <2>2, <3>2, FollowUpFacts
    <3> HIDE DEF p
    <3> QED  BY <3>1, <3>2, <3>3, FollowsTwice
  <2> HIDE DEF p
  <2>5. /\ request' \in Requests /\ mailbox' \in Boxes /\ mailbox'.latest = request'.generation
        /\ Follows(Preview, [rq |-> request', mb |-> mailbox'], t)
    BY <2>1, <2>4, BecomeFacts
  <2>6. Types'
    BY <1>1, <1>2, <2>1, <2>2, <2>3, <2>5 DEF Types, Place
  <2> QED  BY <1>2, <1>3, <2>1, <2>2, <2>5, <2>6, QuietStep
<1>5. ASSUME NEW isPlaying \in BOOLEAN,
             Become(FollowUp(Answered, None, isPlaying, timeline)),
             timeline' = timeline, clock' \in Place, control' \in Controls
      PROVE  IInv'
  <2> DEFINE p == FollowUp(Answered, None, isPlaying, timeline)
  <2>1. Sound(p) /\ Follows(Preview, p, timeline)
    <3>1. Sound(Answered) /\ Follows(Preview, Answered, timeline) /\ Sound(Preview)
      BY <1>1, AnsweredFacts
    <3>2. Sound(p) /\ Follows(Answered, p, timeline)
      BY <1>1, <3>1, FollowUpFacts
    <3> HIDE DEF p
    <3> QED  BY <3>1, <3>2, FollowsTwice
  <2>2. /\ request' \in Requests /\ mailbox' \in Boxes /\ mailbox'.latest = request'.generation
        /\ Follows(Preview, [rq |-> request', mb |-> mailbox'], timeline)
    <3> HIDE DEF p
    <3>1. Become(p)
      BY <1>5 DEF p
    <3> QED  BY <2>1, <3>1, BecomeFacts
  <2>3. Types'
    BY <1>1, <1>2, <1>5, <2>2 DEF Types
  <2>4. main # Closed /\ timeline'.exact => timeline'.count = Length
    BY <1>5 DEF IInv, SourceInv
  <2> QED  BY <1>2, <1>3, <1>5, <2>2, <2>3, <2>4, QuietStep
<1>6. CASE StopAtObservedEnd(r)
  <2>1. /\ Become(FollowUp(Answered, None, FALSE, timeline))
        /\ timeline' = timeline /\ clock' = None
        /\ control' = IF label = None THEN control ELSE Moved(control, label)
    BY <1>6 DEF StopAtObservedEnd
  <2>2. label # None => label \in Nat
    BY <1>1 DEF Types, Place
  <2>3. control' \in Controls
    BY <1>1, <2>1, <2>2, ControlFacts
  <2> QED  BY <1>5, <2>1, <2>3 DEF Place
<1>7. CASE PassOver(r)
  <2>1. /\ Become(FollowUp(Answered, None, playing, timeline))
        /\ timeline' = timeline /\ clock' = clock /\ control' = control
    BY <1>7 DEF PassOver
  <2>2. playing \in BOOLEAN
    BY DEF playing
  <2> QED  BY <1>1, <1>5, <2>1, <2>2 DEF Types
<1> QED  BY <1>4, <1>6, <1>7, Zenon DEF FrameUnavailable

LEMMA DeliverStep ==
  ASSUME IInv, Deliver
  PROVE  IInv'
<1>1. Types  BY DEF IInv
<1>2. Dispatching /\ results # <<>> /\ results' = Tail(results) /\ UNCHANGED back
  BY DEF Deliver
<1> DEFINE r == Head(results)
<1>3. r \in Pictures /\ 1 \in DOMAIN results /\ r = results[1]
  BY <1>1, <1>2 DEF Types
<1>4. CASE Current(r)
  <2>1. operation = "none" /\ main # Closed /\ r.generation = request.generation
    BY <1>4 DEF Current
  <2>2. r.source = main /\ About(timeline, request.asked, r.frame)
    <3>1. request.generation \in Nat
      BY <1>1 DEF Types, Requests
    <3>2. \/ Obsolete(r.generation)
          \/ Latest(r.generation, r.frame) /\ r.source = main
      BY <1>3 DEF IInv, ResultInv
    <3> QED  BY <2>1, <3>1, <3>2 DEF Obsolete, Latest
  <2>3. FrameReady(r) \/ FrameUnavailable(r)
    BY <1>4, Zenon DEF Deliver
  <2> HIDE DEF r
  <2> QED  BY <1>2, <1>3, <2>1, <2>2, <2>3, FrameReadyStep, FrameUnavailableStep
<1>5. CASE ~Current(r)
  <2>1. UNCHANGED gui /\ UNCHANGED mailbox
    BY <1>5, Zenon DEF Deliver, Drop
  <2>2. UNCHANGED <<main, timeline, control, clock, request, shown, label, phase, operation,
                    target, mailbox, worker, workerSource, job>>
    BY <1>2, <2>1 DEF gui, back
  <2>3. results' \in Seq(Pictures)
    BY <1>1, <1>2 DEF Types
  <2>4. Types'
    BY <1>1, <2>2, <2>3 DEF Types
  <2>5. Follows(Preview, [rq |-> request', mb |-> mailbox'], timeline')
    BY <2>2 DEF Follows, Preview
  <2>6. OperationInv' /\ phase' # "close"
    BY <1>2, <2>2 DEF IInv, OperationInv, WorkerFree, Dispatching
  <2>7. main # Closed /\ timeline'.exact => timeline'.count = Length
    BY <2>2 DEF IInv, SourceInv
  <2> QED  BY <1>2, <2>2, <2>4, <2>5, <2>6, <2>7, QuietStep
<1> QED  BY <1>4, <1>5

-----------------------------------------------------------------------------
(* Where the playhead and the clock are, and what is on display at rest. *)

(* The slider's range is the timeline, as soon as its length is verified. *)
ViewInv ==
  /\ main = Closed => timeline.exact
  /\ timeline.exact => control.range = LastFrame(timeline)
  /\ ~timeline.exact => timeline.identity /\ timeline.count >= Estimate
                                          /\ control.range >= Estimate - 1

PlaceInv == control.position <= control.range /\ control.scrub \in {None, control.position}

(* What playback has asked for, or is about to ask for, the clock has reached. *)
ClockInv ==
  /\ phase # "events" \/ operation # "none" => clock = None
  /\ clock # None =>
       /\ control.position <= clock /\ request.queued <= clock
       /\ ~timeline.exact => clock <= control.range
       /\ label # None => label = request.asked \/ request.asked <= clock

QueueInv == ~request.pending => request.queued = None

(* Without an operation or a transition, a request that is not pending has been
   answered: by its picture, or in vain. *)
RestInv ==
  /\ main # Closed /\ Frames(timeline) > 0
  /\ operation = "none" /\ phase # "close" /\ ~request.pending
  => label = request.asked \/ ~Decodable(SourceFrame(timeline, request.asked))

RInv == ViewInv /\ PlaceInv /\ ClockInv /\ QueueInv /\ RestInv

(* A request for frame f, or none, is what makes q of p. *)
Asks(p, q, f) ==
  /\ p.rq.pending => q.rq.pending
  /\ q.rq.asked \in {p.rq.asked, f} /\ q.rq.queued \in {p.rq.queued, f}
  /\ q.rq.pending \/ (q.rq.asked = p.rq.asked /\ q.rq.queued = p.rq.queued)

LEMMA AskAsks ==
  ASSUME NEW p, Sound(p), NEW f \in Nat, NEW isPlaying \in BOOLEAN, NEW t \in Views
  PROVE  /\ Asks(p, Ask(p, f, isPlaying, t), f)
         /\ SourceFrame(t, f) # None => Ask(p, f, isPlaying, t).rq.pending
         /\ isPlaying /\ p.rq.pending => Ask(p, f, isPlaying, t).rq.queued = f
         /\ ~(isPlaying /\ p.rq.pending) => Ask(p, f, isPlaying, t).rq.queued = p.rq.queued
<1>1. p.rq \in Requests
  BY DEF Sound, Previews
<1>2. CASE isPlaying /\ p.rq.pending
  <2>1. Ask(p, f, isPlaying, t) = [p EXCEPT !.rq.queued = f]
    BY <1>2 DEF Ask
  <2> QED  BY <1>1, <1>2, <2>1 DEF Sound, Previews, Requests, Asks
<1>3. CASE ~(isPlaying /\ p.rq.pending) /\ SourceFrame(t, f) = None
  BY <1>3 DEF Ask, Asks
<1>4. CASE ~(isPlaying /\ p.rq.pending) /\ SourceFrame(t, f) # None
  <2> DEFINE rq == [p.rq EXCEPT !.generation = p.rq.generation + 1, !.asked = f, !.pending = TRUE]
             mb == Put(p.mb, SourceFrame(t, f), p.rq.generation + 1)
  <2>1. Ask(p, f, isPlaying, t) = [rq |-> rq, mb |-> mb]
    BY <1>4 DEF Ask
  <2>2. rq.pending /\ rq.asked = f /\ rq.queued = p.rq.queued
    BY <1>1 DEF Requests
  <2> HIDE DEF rq, mb
  <2> QED  BY <1>4, <2>1, <2>2 DEF Asks
<1> QED  BY <1>2, <1>3, <1>4

LEMMA AskIfMovedAsks ==
  ASSUME NEW p, Sound(p), NEW c, NEW f \in Nat, NEW isPlaying \in BOOLEAN, NEW t \in Views
  PROVE  Asks(p, AskIfMoved(p, c, f, isPlaying, t), f)
  BY AskAsks DEF AskIfMoved, Asks

(* The follow-up of an answer empties the queue. *)
LEMMA FollowUpAsks ==
  ASSUME NEW p, Sound(p), NEW answered, NEW isPlaying \in BOOLEAN, NEW t \in Views,
         ~isPlaying \/ ~p.rq.pending
  PROVE  LET q == FollowUp(p, answered, isPlaying, t)
         IN /\ q.rq.queued = None
            /\ q.rq.asked \in {p.rq.asked, p.rq.queued} \/ q.rq.asked = p.rq.asked
            /\ q.rq.asked # p.rq.asked => isPlaying /\ q.rq.asked = p.rq.queued
            /\ q.rq.pending \/ q.rq.asked = p.rq.asked
            /\ p.rq.pending => q.rq.pending
<1> DEFINE f == p.rq.queued
           rest == [p EXCEPT !.rq.queued = None]
           q == FollowUp(p, answered, isPlaying, t)
<1>1. /\ Sound(rest) /\ f \in Place /\ rest.rq.queued = None
      /\ rest.rq.pending = p.rq.pending /\ rest.rq.asked = p.rq.asked
  BY DEF Sound, Previews, Requests, Place
<1>2. CASE isPlaying /\ f # None /\ f # answered
  <2>1. f \in Nat
    BY <1>1, <1>2 DEF Place
  <2>2. q = Ask(rest, f, TRUE, t)
    BY <1>2 DEF FollowUp
  <2> HIDE DEF f, rest, q
  <2>3. Asks(rest, q, f) /\ q.rq.queued = None
    BY <1>1, <1>2, <2>1, <2>2, AskAsks
  <2> QED  BY <1>1, <1>2, <2>3 DEF Asks, q, f
<1>3. CASE ~(isPlaying /\ f # None /\ f # answered)
  <2>1. q = rest
    BY <1>3 DEF FollowUp
  <2> QED  BY <1>1, <2>1
<1> QED  BY <1>2, <1>3

(* Sliders. *)
LEMMA SliderFacts ==
  ASSUME NEW c \in Controls, NEW n \in Nat, c.scrub \in {None, c.position}
  PROVE  /\ Ranged(c, n).range = n /\ Ranged(c, n).position <= n
         /\ Ranged(c, n).position <= c.position
         /\ Ranged(c, n).scrub \in {None, Ranged(c, n).position}
         /\ c.position <= n => Ranged(c, n).position = c.position
         /\ Moved(c, n).position = n /\ Moved(c, n).range = c.range
         /\ Moved(c, n).scrub \in {None, n}
  BY DEF Controls, Place, Ranged, Moved

(* A playhead within a timeline that is not empty has a frame. *)
LEMMA PlaceHasFrame ==
  ASSUME NEW t \in Views, NEW f \in Nat, Frames(t) > 0,
         t.exact \/ ~t.identity => f <= LastFrame(t)
  PROVE  SourceFrame(t, f) # None
<1>1. f < Frames(t) \/ (t.identity /\ ~t.exact)
  BY ViewFacts DEF LastFrame, Larger, Views
<1>2. CASE t.identity
  BY <1>1, <1>2 DEF SourceFrame, Frames, None, Views
<1>3. CASE ~t.identity
  <2>1. t.cut \in Seq(0 .. Length - 1) /\ f < Len(t.cut)
    BY <1>1, <1>3 DEF Frames, Views
  <2>2. f + 1 \in 1 .. Len(t.cut)
    BY <2>1
  <2>3. ASSUME NEW c \in Seq(0 .. Length - 1), NEW i \in 1 .. Len(c)
        PROVE  c[i] \in 0 .. Length - 1
    BY PreviewAssumption
  <2>4. t.cut[f + 1] \in 0 .. Length - 1
    BY <2>1, <2>2, <2>3
  <2> QED  BY <1>3, <2>1, <2>4, PreviewAssumption DEF SourceFrame, None
<1> QED  BY <1>2, <1>3

(* While the timeline and the label stay, only what is asked can disturb the
   rest of the preview. *)
LEMMA AskingKeeps ==
  ASSUME RInv, UNCHANGED <<main, timeline, label>>,
         operation' = "none" /\ phase' # "close" => operation = "none" /\ phase # "close",
         NEW f, Asks(Preview, [rq |-> request', mb |-> mailbox'], f)
  PROVE  QueueInv' /\ RestInv'
<1>1. /\ request'.pending \/ (request'.asked = request.asked /\ request'.queued = request.queued)
      /\ request.pending => request'.pending
  BY DEF Asks, Preview
<1>2. QueueInv'
  BY <1>1 DEF RInv, QueueInv
<1>3. RestInv'
  BY <1>1 DEF RInv, RestInv, Frames, SourceFrame
<1> QED  BY <1>2, <1>3

LEMMA BecomeAsks ==
  ASSUME NEW p, NEW f, Asks(Preview, p, f), Become(p)
  PROVE  Asks(Preview, [rq |-> request', mb |-> mailbox'], f)
  BY DEF Asks, Become

LEMMA SameAsks ==
  ASSUME UNCHANGED request, NEW f
  PROVE  Asks(Preview, [rq |-> request', mb |-> mailbox'], f)
  BY DEF Asks, Preview

LEMMA AskingKeepsQueue ==
  ASSUME RInv, NEW p, NEW f, Asks(Preview, p, f), Become(p)
  PROVE  QueueInv'
  BY DEF Asks, Become, Preview, RInv, QueueInv

(* A handler that asks for frame f and leaves the timeline and the label. *)
LEMMA AskStep ==
  ASSUME RInv, UNCHANGED <<main, timeline, label>>,
         operation' = "none" /\ phase' # "close" => operation = "none" /\ phase # "close",
         NEW p, NEW f, Asks(Preview, p, f), Become(p)
  PROVE  QueueInv' /\ RestInv'
  BY BecomeAsks, AskingKeeps

LEMMA Basics ==
  ASSUME IInv, RInv
  PROVE  /\ Types /\ timeline \in Views /\ control \in Controls /\ Sound(Preview)
         /\ control.position \in Nat /\ control.range \in Nat
         /\ control.scrub \in {None, control.position}
         /\ LastFrame(timeline) \in Nat /\ Length \in Nat \ {0} /\ Estimate \in Nat \ {0}
         /\ request \in Requests
<1>1. Types /\ timeline \in Views /\ control \in Controls /\ request \in Requests
  BY DEF IInv, Types
<1>2. Sound(Preview)
  BY <1>1, CancelledFacts
<1>3. LastFrame(timeline) \in Nat
  BY <1>1, ViewFacts
<1> QED  BY <1>1, <1>2, <1>3, PreviewAssumption DEF Controls, RInv, PlaceInv

LEMMA RangedFacts ==
  ASSUME IInv, RInv, NEW n \in Nat
  PROVE  LET c == Ranged(control, n)
         IN c \in Controls /\ c.range = n /\ c.scrub \in {None, c.position}
<1>1. Ranged(control, n) \in Controls
  BY Basics, ControlFacts
<1> QED  BY <1>1, Basics, SliderFacts

LEMMA SeekRest ==
  ASSUME IInv, RInv, NEW f \in 0 .. MaxFrame, Seek(f)
  PROVE  RInv'
<1> USE Basics
<1>1. f \in Nat /\ f <= control.range
  BY DEF Seek
<1>2. clock' = None /\ control' = Moved(control, f) /\ UNCHANGED <<main, timeline, label, phase, operation>>
  BY DEF Seek
<1>3. ViewInv' /\ PlaceInv'
  BY <1>1, <1>2, SliderFacts DEF RInv, ViewInv, PlaceInv
<1>4. QueueInv' /\ RestInv'
  <2> DEFINE p == AskIfMoved(Preview, control, f, FALSE, timeline)
  <2>1. Asks(Preview, p, f)
    BY <1>1, AskIfMovedAsks
  <2>2. Become(p)
    BY DEF Seek
  <2> HIDE DEF p
  <2> QED  BY <1>2, <2>1, <2>2, AskStep
<1> QED  BY <1>2, <1>3, <1>4 DEF RInv, ClockInv

LEMMA StepForwardRest ==
  ASSUME IInv, RInv, StepForward
  PROVE  RInv'
<1> USE Basics
<1> DEFINE f == control.position + 1
           n == Larger(f, DecoderCount - 1)
<1>1. /\ clock' = None /\ UNCHANGED <<main, timeline, label, phase, operation>>
      /\ control' = Moved(Ranged(control, n), f)
      /\ Become(Ask(Preview, f, FALSE, timeline)) /\ ~timeline.exact
  BY DEF StepForward
<1>2. f \in Nat /\ n \in Nat /\ n >= f /\ n >= Estimate - 1
  BY <1>1 DEF Larger, DecoderCount
<1> HIDE DEF f, n
<1>3. Ranged(control, n) \in Controls
  BY <1>2, ControlFacts
<1>4. ViewInv' /\ PlaceInv'
  BY <1>1, <1>2, <1>3, SliderFacts DEF RInv, ViewInv, PlaceInv
<1>5. QueueInv' /\ RestInv'
  <2>1. Asks(Preview, Ask(Preview, f, FALSE, timeline), f)
    BY <1>2, AskAsks
  <2> QED  BY <1>1, <2>1, AskStep
<1> QED  BY <1>1, <1>4, <1>5 DEF RInv, ClockInv

LEMMA DragRest ==
  ASSUME IInv, RInv, NEW f \in 0 .. MaxFrame, Drag(f)
  PROVE  RInv'
<1> USE Basics
<1>1. /\ clock' = None /\ UNCHANGED <<main, timeline, label, phase, operation, request>>
      /\ control' = [control EXCEPT !.position = f, !.scrub = f]
      /\ f \in Nat /\ f <= control.range
  BY DEF Drag
<1>2. ViewInv' /\ PlaceInv'
  BY <1>1 DEF RInv, ViewInv, PlaceInv, Controls
<1>3. QueueInv' /\ RestInv'
  BY <1>1, SameAsks, AskingKeeps
<1> QED  BY <1>1, <1>2, <1>3 DEF RInv, ClockInv

LEMMA DispatchScrubRest ==
  ASSUME IInv, RInv, DispatchScrub
  PROVE  RInv'
<1> USE Basics
<1> DEFINE f == control.scrub
           p == IF Editing /\ main # Closed THEN Ask(Preview, f, playing, timeline) ELSE Preview
<1>1. /\ UNCHANGED <<main, timeline, clock, label, phase, operation>>
      /\ control' = [control EXCEPT !.scrub = None]
      /\ f = control.position /\ f \in Nat /\ Become(p)
  BY DEF DispatchScrub
<1>2. ViewInv' /\ PlaceInv'
  BY <1>1 DEF RInv, ViewInv, PlaceInv, Controls
<1>3. Asks(Preview, p, f)
  <2>1. playing \in BOOLEAN
    BY DEF playing
  <2> HIDE DEF f
  <2>2. Asks(Preview, Ask(Preview, f, playing, timeline), f)
    BY <1>1, <2>1, AskAsks
  <2>3. Asks(Preview, Preview, f)
    BY DEF Asks
  <2> QED  BY <2>2, <2>3
<1> HIDE DEF p
<1>4. QueueInv' /\ RestInv'
  BY <1>1, <1>3, AskStep
<1>5. request'.asked \in {request.asked, f} /\ request'.queued \in {request.queued, f}
  BY <1>1, <1>3 DEF Asks, Become, Preview
<1>6. control'.position = control.position /\ control'.range = control.range
  BY <1>1 DEF Controls
<1> HIDE DEF f
<1>7. ClockInv'
  BY <1>1, <1>5, <1>6 DEF RInv, ClockInv
<1> QED  BY <1>2, <1>4, <1>7 DEF RInv

LEMMA StopRest ==
  ASSUME IInv, RInv, Stop
  PROVE  RInv'
<1> USE Basics
<1>1. /\ clock' = None /\ UNCHANGED <<main, timeline, control, label, phase, operation>>
      /\ Become(Ask(Preview, control.position, FALSE, timeline))
  BY DEF Stop
<1>2. ViewInv' /\ PlaceInv'
  BY <1>1 DEF RInv, ViewInv, PlaceInv
<1>3. Asks(Preview, Ask(Preview, control.position, FALSE, timeline), control.position)
  BY AskAsks
<1>4. QueueInv' /\ RestInv'
  BY <1>1, <1>3, AskStep
<1> QED  BY <1>1, <1>2, <1>4 DEF RInv, ClockInv

LEMMA BeginPlayRest ==
  ASSUME IInv, RInv, BeginPlay
  PROVE  RInv'
<1>1. /\ UNCHANGED <<main, timeline, control, clock, request, label, operation>>
      /\ clock = None /\ phase = "events" /\ phase' = "play"
  BY DEF BeginPlay, Editing, Dispatching, playing
<1>2. QueueInv' /\ RestInv'
  BY <1>1, SameAsks, AskingKeeps
<1> QED  BY <1>1, <1>2 DEF RInv, ViewInv, PlaceInv, ClockInv

(* Where the playhead stands there is a frame, unless the timeline is empty. *)
LEMMA PlayheadHasFrame ==
  ASSUME IInv, RInv, Frames(timeline) > 0
  PROVE  SourceFrame(timeline, control.position) # None
  BY Basics, PlaceHasFrame DEF RInv, ViewInv, PlaceInv

LEMMA FinishPlayRest ==
  ASSUME IInv, RInv, FinishPlay
  PROVE  RInv'
<1> USE Basics
<1> DEFINE f == control.position
           p == Ask(Preview, f, TRUE, timeline)
<1>1. /\ UNCHANGED <<main, timeline, control, operation>>
      /\ clock' = f /\ label' = None /\ phase' = "events" /\ Become(p)
      /\ operation = "none"
  BY DEF FinishPlay, IInv, OperationInv
<1>2. Asks(Preview, p, f)
  BY AskAsks
<1>3. request'.queued = f \/ request'.queued = None
  <2>1. request.pending => p.rq.queued = f
    BY AskAsks DEF Preview
  <2>2. ~request.pending => p.rq.queued = request.queued
    BY AskAsks DEF Preview
  <2> HIDE DEF p
  <2> QED  BY <1>1, <2>1, <2>2 DEF Become, RInv, QueueInv
<1>4. Frames(timeline) > 0 => request'.pending
  <2>1. Frames(timeline) > 0 => p.rq.pending
    BY PlayheadHasFrame, AskAsks
  <2> HIDE DEF p
  <2> QED  BY <1>1, <2>1 DEF Become
<1> HIDE DEF p
<1>5. QueueInv'
  BY <1>1, <1>2, AskingKeepsQueue
<1>6. RestInv'
  <2>1. Frames(timeline)' = Frames(timeline)
    BY <1>1
  <2> QED  BY <1>4, <2>1 DEF RestInv
<1>7. ClockInv'
  BY <1>1, <1>3 DEF RInv, PlaceInv, ClockInv, None
<1> QED  BY <1>1, <1>5, <1>6, <1>7 DEF RInv, ViewInv, PlaceInv

LEMMA JoinRest ==
  ASSUME IInv, RInv, Join
  PROVE  RInv'
<1>1. /\ UNCHANGED <<main, timeline, control, clock, request, label, operation>>
      /\ phase = "join" /\ phase' = "events"
  BY DEF Join
<1>2. QueueInv' /\ RestInv'
  BY <1>1, SameAsks, AskingKeeps
<1> QED  BY <1>1, <1>2 DEF RInv, ViewInv, PlaceInv, ClockInv

LEMMA EndOperationRest ==
  ASSUME IInv, RInv, EndOperation
  PROVE  RInv'
<1> USE Basics
<1> DEFINE f == control.position
           p == IF main # Closed THEN Ask(Preview, f, FALSE, timeline) ELSE Preview
<1>1. /\ UNCHANGED <<main, timeline, control, clock, label, phase>>
      /\ operation # "none" /\ Become(p)
  BY DEF EndOperation
<1>2. clock' = None
  BY <1>1 DEF RInv, ClockInv
<1>3. Asks(Preview, p, f)
  <2>1. Asks(Preview, Ask(Preview, f, FALSE, timeline), f)
    BY AskAsks
  <2>2. Asks(Preview, Preview, f)
    BY DEF Asks
  <2> QED  BY <2>1, <2>2
<1>4. main # Closed /\ Frames(timeline) > 0 => request'.pending
  <2>1. Frames(timeline) > 0 => Ask(Preview, f, FALSE, timeline).rq.pending
    BY PlayheadHasFrame, AskAsks
  <2> QED  BY <1>1, <2>1 DEF Become
<1> HIDE DEF p
<1>5. QueueInv'
  BY <1>1, <1>3, AskingKeepsQueue
<1>6. RestInv'
  <2>1. Frames(timeline)' = Frames(timeline)
    BY <1>1
  <2> QED  BY <1>1, <1>4, <2>1 DEF RestInv
<1> QED  BY <1>1, <1>2, <1>5, <1>6 DEF RInv, ViewInv, PlaceInv, ClockInv

LEMMA CancelledRests ==
  ASSUME IInv
  PROVE  Cancelled.rq.queued = None /\ ~Cancelled.rq.pending
<1>1. request \in Requests
  BY DEF IInv, Types
<1> QED  BY <1>1 DEF Cancelled, Requests

LEMMA BeginOperationRest ==
  ASSUME IInv, RInv, NEW kind \in {"borrow", "replace"}, BeginOperation(kind)
  PROVE  RInv'
<1>1. /\ UNCHANGED <<main, timeline, control, label>>
      /\ clock' = None /\ operation' # "none" /\ Become(Cancelled)
  BY DEF BeginOperation
<1>2. request'.queued = None
  BY <1>1, CancelledRests DEF Become
<1> QED  BY <1>1, <1>2 DEF RInv, ViewInv, PlaceInv, ClockInv, QueueInv, RestInv

LEMMA IndexSourceRest ==
  ASSUME IInv, RInv, IndexSource
  PROVE  RInv'
<1> USE Basics
<1>1. /\ UNCHANGED <<main, clock, request, label, phase, operation>>
      /\ operation = "borrow" /\ timeline' = WithCount(timeline, Length, TRUE)
      /\ control' = Ranged(control, LastFrame(timeline'))
  BY DEF IndexSource
<1>2. timeline'.exact /\ LastFrame(timeline') \in Nat
  BY <1>1, ViewFacts DEF WithCount, Views
<1>3. ViewInv' /\ PlaceInv'
  <2> DEFINE last == LastFrame(timeline')
  <2>1. /\ Ranged(control, last).range = last /\ Ranged(control, last).position <= last
        /\ Ranged(control, last).scrub \in {None, Ranged(control, last).position}
    <3> HIDE DEF last
    <3>1. last \in Nat
      BY <1>2 DEF last
    <3> QED  BY <3>1, SliderFacts
  <2> QED  BY <1>1, <1>2, <2>1 DEF ViewInv, PlaceInv
<1>4. ClockInv' /\ QueueInv' /\ RestInv'
  BY <1>1 DEF RInv, ClockInv, QueueInv, RestInv
<1> QED  BY <1>3, <1>4 DEF RInv

LEMMA TickRest ==
  ASSUME IInv, RInv, NEW n \in 1 .. 2, Tick(n)
  PROVE  RInv'
<1> USE Basics
<1>1. /\ UNCHANGED <<main, timeline, label, phase, operation>>
      /\ clock \in Nat /\ control.position <= clock
  BY DEF Tick, playing, Types, Place, RInv, ClockInv
<1>2. CASE TickToEnd(n)
  <2> DEFINE last == LastFrame(timeline)
             c == Ranged(control, last)
             p == AskIfMoved(Preview, c, last, FALSE, timeline)
  <2>1. /\ timeline.exact /\ control' = Moved(c, last) /\ Become(p) /\ clock' = None
    BY <1>2 DEF TickToEnd, RInv, ViewInv
  <2>2. Asks(Preview, p, last)
    BY AskIfMovedAsks
  <2>3. c \in Controls /\ last \in Nat /\ c.range = last /\ c.scrub \in {None, c.position}
    BY ControlFacts, SliderFacts
  <2> HIDE DEF last, c, p
  <2>4. QueueInv' /\ RestInv'
    BY <1>1, <2>1, <2>2, AskStep
  <2>5. ViewInv' /\ PlaceInv'
    <3>1. control'.range = last /\ control'.position = last
          /\ control'.scrub \in {None, control'.position}
      BY <2>1, <2>3, SliderFacts
    <3> QED  BY <1>1, <2>1, <2>3, <3>1 DEF RInv, ViewInv, PlaceInv, last
  <2> QED  BY <2>1, <2>4, <2>5 DEF RInv, ClockInv
<1>3. CASE TickForward(n)
  <2> DEFINE isRanged == timeline.identity /\ ~timeline.exact /\ clock' >= DecoderCount
             c == IF isRanged THEN Ranged(control, clock') ELSE control
             p == AskIfMoved(Preview, c, clock', TRUE, timeline)
  <2>1. /\ clock' = clock + n /\ control' = Moved(c, clock') /\ Become(p)
        /\ clock' < Frames(timeline) \/ (timeline.identity /\ ~timeline.exact)
    BY <1>3 DEF TickForward
  <2>2. clock' \in Nat /\ clock' > clock
    BY <1>1, <2>1
  <2>3. Asks(Preview, p, clock')
    BY <2>2, AskIfMovedAsks
  <2>4. /\ c \in Controls /\ c.scrub \in {None, c.position}
        /\ isRanged => c.range = clock'
        /\ ~isRanged => c.range = control.range
    BY <2>2, ControlFacts, SliderFacts
  <2>5. /\ ~timeline.exact => timeline.identity /\ control.range >= Estimate - 1
                              /\ (isRanged <=> clock' >= Estimate)
        /\ timeline.exact => ~isRanged /\ control.range = LastFrame(timeline)
    BY DEF RInv, ViewInv, DecoderCount
  <2> HIDE DEF c, p, isRanged
  <2>6. /\ control'.range = c.range /\ control'.position = clock'
        /\ control'.scrub \in {None, control'.position}
    BY <2>1, <2>2, <2>4, SliderFacts
  <2>7. QueueInv' /\ RestInv'
    BY <1>1, <2>1, <2>3, AskStep
  <2>8. clock' <= control'.range /\ (~timeline.exact => control'.range >= Estimate - 1)
    <3>1. timeline.exact => clock' <= LastFrame(timeline)
      BY <2>1, <2>2, ViewFacts DEF LastFrame, Larger
    <3> QED  BY <2>2, <2>4, <2>5, <2>6, <3>1
  <2>9. ViewInv' /\ PlaceInv'
    BY <1>1, <2>4, <2>5, <2>6, <2>8 DEF RInv, ViewInv, PlaceInv
  <2>10. request'.asked \in {request.asked, clock'} /\ request'.queued \in {request.queued, clock'}
    BY <2>1, <2>3 DEF Asks, Become, Preview
  <2>11. ClockInv'
    <3>1. /\ request.queued \in Place /\ request.asked \in Nat
          /\ request.queued <= clock
          /\ label # None => label = request.asked \/ request.asked <= clock
          /\ clock # None
      BY <1>1 DEF RInv, ClockInv, Requests, None
    <3>2. /\ request'.queued <= clock'
          /\ label # None => label = request'.asked \/ request'.asked <= clock'
      BY <1>1, <2>2, <2>10, <3>1 DEF Place, None
    <3>3. phase = "events" /\ operation = "none"
      BY <3>1 DEF RInv, ClockInv
    <3> QED  BY <1>1, <2>2, <2>6, <2>8, <3>2, <3>3 DEF ClockInv
  <2> QED  BY <2>7, <2>9, <2>11 DEF RInv
<1> QED  BY <1>2, <1>3 DEF Tick

LEMMA UpdateRest ==
  ASSUME IInv, RInv, NEW t \in Views, t.exact, NEW preferred \in Nat,
         UpdateTimelineView(t, preferred), UNCHANGED <<main, phase, operation>>
  PROVE  RInv'
<1> USE Basics
<1> DEFINE last == LastFrame(t)
           f == IF preferred > last THEN last ELSE preferred
           p == Ask(Cancelled, f, FALSE, t)
<1>1. /\ timeline' = t /\ clock' = None /\ label' = None
      /\ control' = Moved(Ranged(control, last), f)
      /\ Frames(t) = 0 => Become(Cancelled)
      /\ Frames(t) # 0 => Become(p)
  BY DEF UpdateTimelineView
<1>2. last \in Nat /\ f \in Nat /\ f <= last
  BY ViewFacts
<1>3. Ranged(control, last) \in Controls /\ Ranged(control, last).range = last
      /\ Ranged(control, last).scrub \in {None, Ranged(control, last).position}
  <2> HIDE DEF last
  <2> QED  BY <1>2, RangedFacts
<1>4. Sound(Cancelled) /\ Cancelled.rq.queued = None
  BY CancelledFacts, CancelledRests
<1>5. Frames(t) # 0 => p.rq.pending
  <2>1. Frames(t) # 0 => SourceFrame(t, f) # None
    BY <1>2, ViewFacts, PlaceHasFrame
  <2> HIDE DEF f
  <2> QED  BY <1>2, <1>4, <2>1, AskAsks
<1> HIDE DEF f, p
<1>6. ViewInv' /\ PlaceInv'
  <2>1. control'.range = last /\ control'.position = f /\ control'.scrub \in {None, f}
    BY <1>1, <1>2, <1>3, SliderFacts
  <2> QED  BY <1>1, <1>2, <2>1 DEF ViewInv, PlaceInv
<1>7. QueueInv' /\ RestInv'
  <2>1. CASE Frames(t) = 0
    <3>1. request'.queued = None /\ Frames(timeline') = 0
      BY <1>1, <1>4, <2>1 DEF Become
    <3> QED  BY <3>1 DEF QueueInv, RestInv
  <2>2. CASE Frames(t) # 0
    BY <1>1, <1>5, <2>2 DEF Become, QueueInv, RestInv
  <2> QED  BY <2>1, <2>2
<1> QED  BY <1>1, <1>6, <1>7 DEF RInv, ClockInv

LEMMA EditTimelineRest ==
  ASSUME IInv, RInv, NEW cut \in Cuts, NEW f \in 0 .. MaxFrame, EditTimeline(cut, f)
  PROVE  RInv'
<1>1. timeline \in Views /\ timeline.exact /\ f \in Nat /\ UNCHANGED <<main, phase, operation>>
  BY Basics DEF EditTimeline
<1>2. PICK t \in Views : t.exact /\ UpdateTimelineView(t, f)
  <2>1. cut \in Seq(0 .. Length - 1) /\ <<>> \in Seq(0 .. Length - 1)
    BY PreviewAssumption
  <2>2. \A b \in BOOLEAN, s \in Seq(0 .. Length - 1) :
          /\ [timeline EXCEPT !.identity = b, !.cut = s] \in Views
          /\ [timeline EXCEPT !.identity = b, !.cut = s].exact
    BY <1>1 DEF Views
  <2>3. \/ UpdateTimelineView([timeline EXCEPT !.identity = FALSE, !.cut = cut], f)
        \/ UpdateTimelineView([timeline EXCEPT !.identity = TRUE, !.cut = <<>>], f)
    BY Zenon DEF EditTimeline
  <2> QED  BY <2>1, <2>2, <2>3, Zenon
<1> QED  BY <1>1, <1>2, UpdateRest

LEMMA BeginTransitionRest ==
  ASSUME IInv, RInv, NEW s \in Media, BeginTransition(s)
  PROVE  RInv'
<1>1. /\ UNCHANGED <<main, timeline, control, label, operation>>
      /\ clock' = None /\ phase' = "close" /\ Become(Cancelled)
  BY DEF BeginTransition
<1>2. request'.queued = None
  BY <1>1, CancelledRests DEF Become
<1> QED  BY <1>1, <1>2 DEF RInv, ViewInv, PlaceInv, ClockInv, QueueInv, RestInv

LEMMA FinishTransitionRest ==
  ASSUME IInv, RInv, NEW s \in Media, FinishTransition(s)
  PROVE  RInv'
<1> USE Basics
<1> DEFINE t == Opened(s)
           c == Ranged(control, 0)
           released == Moved(c, 0)
           first == Ask(Preview, 0, FALSE, t)
           second == Ask(first, 0, FALSE, t)
           p == IF s = Closed THEN Preview ELSE IF operation = "none" THEN second ELSE first
<1>1. /\ main' = s /\ timeline' = t /\ label' = None
      /\ UNCHANGED <<clock, operation>> /\ phase = "close"
      /\ control' = Ranged(released, LastFrame(t)) /\ Become(p)
  BY DEF FinishTransition
<1>2. /\ t \in Views /\ LastFrame(t) \in Nat
      /\ s = Closed => t.exact
      /\ ~t.exact => t.identity /\ t.count = Estimate
  BY OpenedFacts, ViewFacts DEF Opened
<1>3. ~t.exact => LastFrame(t) >= Estimate - 1
  BY <1>2 DEF LastFrame, Frames, Larger
<1>4. Sound(first) /\ Asks(Preview, first, 0) /\ Asks(first, second, 0)
  BY <1>2, AskFacts, AskAsks
<1>5. s # Closed /\ Frames(t) > 0 => first.rq.pending /\ second.rq.pending
  <2>1. Frames(t) > 0 => SourceFrame(t, 0) # None
    BY <1>2, PlaceHasFrame
  <2>2. Frames(t) > 0 => first.rq.pending
    BY <1>2, <2>1, AskAsks
  <2> HIDE DEF first
  <2>3. first.rq.pending => second.rq.pending
    BY <1>4 DEF Asks
  <2> QED  BY <2>2, <2>3
<1> HIDE DEF first, second
<1>6. Asks(Preview, p, 0)
  <2>1. Asks(Preview, Preview, 0) /\ Asks(Preview, second, 0)
    BY <1>4 DEF Asks
  <2> QED  BY <1>4, <2>1
<1>7. s # Closed /\ Frames(t) > 0 => p.rq.pending
  BY <1>5
<1> HIDE DEF p, t
<1>8. QueueInv'
  BY <1>1, <1>6, AskingKeepsQueue
<1>9. RestInv'
  <2>1. main' # Closed /\ Frames(timeline') > 0 => request'.pending
    BY <1>1, <1>7 DEF Become
  <2> QED  BY <2>1 DEF RestInv
<1>10. ViewInv' /\ PlaceInv'
  <2>1. /\ released \in Controls /\ released.position = 0
        /\ released.scrub \in {None, released.position}
    <3>1. c \in Controls /\ c.scrub \in {None, c.position} /\ 0 \in Nat
      BY RangedFacts
    <3> HIDE DEF c
    <3> QED  BY <3>1, ControlFacts, SliderFacts
  <2> HIDE DEF released
  <2>2. /\ control'.range = LastFrame(t) /\ control'.position <= control'.range
        /\ control'.scrub \in {None, control'.position}
    BY <1>1, <1>2, <2>1, SliderFacts
  <2> QED  BY <1>1, <1>2, <1>3, <2>2 DEF ViewInv, PlaceInv
<1>11. ClockInv'
  BY <1>1 DEF RInv, ClockInv
<1> QED  BY <1>8, <1>9, <1>10, <1>11 DEF RInv

(* An answer about a frame that does not decode is one about the request. *)
LEMMA InVain ==
  ASSUME NEW t \in Views, NEW f \in Nat, NEW x, About(t, f, x), ~Decodable(x)
  PROVE  ~Decodable(SourceFrame(t, f))
  BY DEF About, SourceFrame, Decodable, None

(* What an answer leaves of the request. *)
LEMMA AnsweredRests ==
  ASSUME IInv, RInv
  PROVE  /\ Sound(Answered) /\ ~Answered.rq.pending
         /\ Answered.rq.asked = request.asked /\ Answered.rq.queued = request.queued
<1> DEFINE rq == [request EXCEPT !.pending = FALSE]
<1>1. /\ ~rq.pending /\ rq.asked = request.asked /\ rq.queued = request.queued
  BY Basics DEF Requests
<1>2. Answered.rq = rq
  BY DEF Answered, Preview
<1> HIDE DEF rq
<1> QED  BY <1>1, <1>2, Basics, AnsweredFacts

LEMMA FrameReadyRest ==
  ASSUME IInv, RInv, operation = "none", main # Closed, NEW r \in Pictures, FrameReady(r)
  PROVE  RInv'
<1> USE Basics
<1> DEFINE isExact == r.exact \/ timeline.exact
           known == IF r.exact THEN Length
                    ELSE IF timeline.exact THEN timeline.count
                    ELSE Max({Estimate, timeline.count, r.frame + 1})
           t == WithCount(timeline, known, isExact)
           hi == IF isExact \/ ~t.identity THEN LastFrame(t)
                 ELSE Max({control.range, LastFrame(t), request.asked})
           p == FollowUp(Answered, request.asked, playing, t)
<1>1. /\ label' = request.asked /\ timeline' = t /\ Become(p)
      /\ control' = (IF control.range = hi THEN control ELSE Ranged(control, hi))
      /\ UNCHANGED <<main, clock, phase, operation>>
      /\ r.ready
  BY DEF FrameReady
<1>2. known \in Nat /\ (~isExact => known >= Estimate)
  <2>1. r.frame + 1 \in Nat
    <3>1. Decodable(r.frame)
      BY <1>1 DEF Pictures
    <3> QED  BY <3>1 DEF Decodable
  <2>2. timeline.count \in Nat
    BY DEF Views
  <2>3. LET m == Max({Estimate, timeline.count, r.frame + 1}) IN m \in Nat /\ m >= Estimate
    BY <2>1, <2>2, MaxFacts
  <2> QED  BY <2>2, <2>3
<1> HIDE DEF known
<1>3. isExact \in BOOLEAN
  BY DEF Pictures, Views
<1>4. /\ t \in Views /\ LastFrame(t) \in Nat /\ (t.exact <=> isExact)
      /\ t.identity = timeline.identity /\ t.count = known
  <2>1. t \in Views
    BY <1>2, <1>3, ViewFacts
  <2>2. (t.exact <=> isExact) /\ t.identity = timeline.identity /\ t.count = known
    <3> HIDE DEF isExact
    <3> QED  BY <1>3 DEF WithCount, Views
  <2> HIDE DEF t
  <2> QED  BY <2>1, <2>2, ViewFacts
<1>5. ~t.exact => /\ ~timeline.exact /\ t.identity /\ t.count >= Estimate
                  /\ LastFrame(t) >= Estimate - 1
  <2>1. ~t.exact => ~timeline.exact /\ ~isExact
    BY <1>4
  <2> HIDE DEF t
  <2>2. ~t.exact => t.identity /\ t.count >= Estimate
    BY <1>2, <1>4, <2>1 DEF RInv, ViewInv
  <2> QED  BY <1>4, <2>1, <2>2 DEF LastFrame, Frames, Larger, Views
<1>6. /\ hi \in Nat
      /\ t.exact => hi = LastFrame(t)
      /\ ~t.exact => hi >= control.range /\ hi >= LastFrame(t)
  <2> HIDE DEF t
  <2>1. LET m == Max({control.range, LastFrame(t), request.asked})
        IN m \in Nat /\ m >= control.range /\ m >= LastFrame(t)
    BY <1>4, MaxFacts DEF Requests
  <2> QED  BY <1>4, <1>5, <2>1
<1> HIDE DEF t, hi, isExact
<1>7. /\ control'.range = hi /\ control'.position <= hi
      /\ control'.position <= control.position
      /\ control'.scrub \in {None, control'.position}
  <2>1. CASE control.range = hi
    BY <1>1, <2>1 DEF RInv, PlaceInv
  <2>2. CASE control.range # hi
    BY <1>1, <1>6, <2>2, SliderFacts
  <2> QED  BY <2>1, <2>2
<1>8. /\ request'.queued = None
      /\ request'.asked # request.asked => playing /\ request'.asked = request.queued
      /\ request'.pending \/ request'.asked = request.asked
  <2>1. playing \in BOOLEAN
    BY DEF playing
  <2>2. /\ p.rq.queued = None
        /\ p.rq.asked # request.asked => playing /\ p.rq.asked = request.queued
        /\ p.rq.pending \/ p.rq.asked = request.asked
    BY <1>4, <2>1, AnsweredRests, FollowUpAsks
  <2> HIDE DEF p
  <2> QED  BY <1>1, <2>2 DEF Become
<1> HIDE DEF p
<1>9. ViewInv' /\ PlaceInv'
  <2>1. LastFrame(timeline)' = LastFrame(t)
    BY <1>1
  <2>2. PlaceInv'
    BY <1>7 DEF PlaceInv
  <2>3. ViewInv'
    BY <1>1, <1>4, <1>5, <1>6, <1>7, <2>1 DEF ViewInv
  <2> QED  BY <2>2, <2>3
<1>10. QueueInv' /\ RestInv'
  BY <1>1, <1>8 DEF QueueInv, RestInv
<1>11. ClockInv'
  <2>1. phase' # "events" \/ operation' # "none" => clock' = None
    BY <1>1 DEF RInv, ClockInv
  <2>2. ASSUME clock # None
        PROVE  /\ control'.position <= clock /\ request'.queued <= clock
               /\ ~t.exact => clock <= control'.range
               /\ label' = request'.asked \/ request'.asked <= clock
    <3>1. /\ clock \in Nat /\ control.position <= clock /\ request.queued <= clock
          /\ ~timeline.exact => clock <= control.range
      BY <2>2 DEF RInv, ClockInv, Types, Place
    <3>2. control'.position <= clock /\ request'.queued <= clock
      <4>1. control'.position \in Nat
        BY <1>1, <1>6, ControlFacts DEF Controls
      <4> QED  BY <1>7, <1>8, <3>1, <4>1 DEF None
    <3>3. ~t.exact => clock <= control'.range
      BY <1>5, <1>6, <1>7, <3>1
    <3>4. label' = request'.asked \/ request'.asked <= clock
      BY <1>1, <1>8, <3>1
    <3> QED  BY <3>2, <3>3, <3>4
  <2>3. timeline' = t /\ clock' = clock
    BY <1>1
  <2> QED  BY <2>1, <2>2, <2>3 DEF ClockInv
<1> QED  BY <1>9, <1>10, <1>11 DEF RInv

LEMMA StopAtVerifiedEndRest ==
  ASSUME IInv, RInv, NEW r, StopAtVerifiedEnd(r), ~Decodable(r.frame),
         About(timeline, request.asked, r.frame), r.frame \in Place,
         UNCHANGED <<main, label, phase, operation>>
  PROVE  RInv'
<1> USE Basics
<1> DEFINE t == WithCount(timeline, Length, TRUE)
           last == LastFrame(t)
           c == Ranged(control, last)
           a == AskIfMoved(Answered, c, last, FALSE, t)
           p == FollowUp(a, None, FALSE, t)
<1>1. clock' = None /\ timeline' = t /\ control' = Moved(c, last) /\ Become(p)
  BY DEF StopAtVerifiedEnd
<1>2. t \in Views /\ last \in Nat /\ t.exact /\ request.asked \in Nat
  BY ViewFacts DEF WithCount, Views, Requests
<1>3. ~Decodable(SourceFrame(t, request.asked))
  <2>1. About(t, request.asked, r.frame)
    BY <1>2, CountKeeps DEF WithCount, Views, About
  <2> HIDE DEF t
  <2> QED  BY <1>2, <2>1, InVain
<1> HIDE DEF t, last
<1>4. ViewInv' /\ PlaceInv'
  <2>1. c \in Controls /\ c.range = last /\ c.scrub \in {None, c.position}
    BY <1>2, RangedFacts
  <2> HIDE DEF c
  <2>2. /\ control'.range = last /\ control'.position = last
        /\ control'.scrub \in {None, last}
    BY <1>1, <1>2, <2>1, SliderFacts
  <2> QED  BY <1>1, <1>2, <2>2 DEF ViewInv, PlaceInv, last
<1>5. Sound(a) /\ Asks(Answered, a, last)
  BY <1>2, AnsweredRests, AskIfMovedFacts, AskIfMovedAsks
<1> HIDE DEF c, a
<1>6. /\ p.rq.queued = None /\ (p.rq.pending \/ p.rq.asked = a.rq.asked)
      /\ a.rq.pending => p.rq.pending
  <2>1. ASSUME NEW b \in BOOLEAN, ~b
        PROVE  LET q == FollowUp(a, None, b, t)
               IN /\ q.rq.queued = None /\ (q.rq.pending \/ q.rq.asked = a.rq.asked)
                  /\ a.rq.pending => q.rq.pending
    BY <1>2, <1>5, <2>1, FollowUpAsks
  <2> QED  BY <2>1
<1>7. request'.queued = None /\ (request'.pending \/ request'.asked = request.asked)
  <2>1. a.rq.pending \/ a.rq.asked = request.asked
    BY <1>5, AnsweredRests DEF Asks
  <2> HIDE DEF p
  <2> QED  BY <1>1, <1>6, <2>1 DEF Become
<1> HIDE DEF p
<1>8. QueueInv' /\ RestInv'
  BY <1>1, <1>3, <1>7 DEF QueueInv, RestInv
<1> QED  BY <1>1, <1>4, <1>8 DEF RInv, ClockInv

(* The picture on display is within the range of the slider when the end is met. *)
LEMMA LabelIsInRange ==
  ASSUME IInv, RInv, clock # None, label # None, main # Closed, NEW r \in Pictures,
         r.eof, ~r.ready, About(timeline, request.asked, r.frame)
  PROVE  label \in Nat /\ label <= control.range
<1> USE Basics
<1>1. /\ label \in Nat /\ request.asked \in Nat /\ clock \in Nat
      /\ ~Decodable(r.frame) /\ r.frame >= Length /\ r.frame \in Place
  BY DEF Types, Place, Requests, Pictures
<1>2. About(timeline, label, shown.frame) /\ Decodable(shown.frame)
  BY DEF IInv, DisplayInv
<1>3. CASE ~timeline.exact
  <2>1. /\ timeline.identity /\ clock <= control.range
        /\ label = request.asked \/ request.asked <= clock
    BY <1>3 DEF RInv, ViewInv, ClockInv
  <2>2. label < Length /\ label # r.frame /\ r.frame = request.asked
    BY <1>1, <1>2, <2>1 DEF About, Decodable
  <2> QED  BY <1>1, <2>1, <2>2
<1>4. CASE timeline.exact
  <2>1. control.range = LastFrame(timeline) /\ (timeline.identity => timeline.count = Length)
    BY <1>4 DEF RInv, ViewInv, IInv, SourceInv
  <2>2. label < Frames(timeline)
    BY <1>2, <2>1 DEF About, Decodable, Frames
  <2> QED  BY <1>1, <2>1, <2>2, ViewFacts DEF LastFrame, Larger
<1> QED  BY <1>3, <1>4

LEMMA FrameUnavailableRest ==
  ASSUME IInv, RInv, operation = "none", main # Closed, NEW r \in Pictures,
         About(timeline, request.asked, r.frame), FrameUnavailable(r)
  PROVE  RInv'
<1> USE Basics
<1>1. /\ UNCHANGED <<main, label, phase, operation>>
      /\ ~r.ready /\ ~Decodable(r.frame) /\ r.frame \in Place
  BY DEF FrameUnavailable, Pictures
<1>2. CASE StopAtVerifiedEnd(r)
  BY <1>1, <1>2, StopAtVerifiedEndRest
<1>3. ASSUME NEW isPlaying \in BOOLEAN, isPlaying => clock # None,
             Become(FollowUp(Answered, None, isPlaying, timeline)), timeline' = timeline
      PROVE  /\ QueueInv' /\ RestInv' /\ request'.queued = None
             /\ request'.asked = request.asked
                \/ (clock # None /\ request'.asked = request.queued)
  <2> DEFINE p == FollowUp(Answered, None, isPlaying, timeline)
  <2>1. /\ p.rq.queued = None
        /\ p.rq.asked # request.asked => isPlaying /\ p.rq.asked = request.queued
        /\ p.rq.pending \/ p.rq.asked = request.asked
    BY AnsweredRests, FollowUpAsks
  <2>2. Become(p)
    BY <1>3
  <2> HIDE DEF p
  <2>3. /\ request'.queued = None
        /\ request'.asked # request.asked => isPlaying /\ request'.asked = request.queued
        /\ request'.pending \/ request'.asked = request.asked
    BY <2>1, <2>2 DEF Become
  <2>4. ~Decodable(SourceFrame(timeline, request.asked))
    BY <1>1, InVain DEF Requests
  <2> QED  BY <1>3, <2>3, <2>4 DEF QueueInv, RestInv
<1>4. CASE StopAtObservedEnd(r)
  <2>1. /\ clock' = None /\ clock # None /\ r.eof /\ timeline' = timeline
        /\ Become(FollowUp(Answered, None, FALSE, timeline))
        /\ control' = IF label = None THEN control ELSE Moved(control, label)
    BY <1>4 DEF StopAtObservedEnd, playing
  <2>2. QueueInv' /\ RestInv'
    BY <1>3, <2>1
  <2>3. label # None => label \in Nat /\ label <= control.range
    BY <1>1, <2>1, LabelIsInRange
  <2>4. /\ control'.range = control.range /\ control'.position <= control.range
        /\ control'.scrub \in {None, control'.position}
    <3>1. CASE label = None
      BY <2>1, <3>1 DEF RInv, PlaceInv
    <3>2. CASE label # None
      BY <2>1, <2>3, <3>2, SliderFacts
    <3> QED  BY <3>1, <3>2
  <2>5. ViewInv' /\ PlaceInv'
    BY <1>1, <2>1, <2>4 DEF RInv, ViewInv, PlaceInv
  <2> QED  BY <2>1, <2>2, <2>5 DEF RInv, ClockInv
<1>5. CASE PassOver(r)
  <2>1. /\ timeline' = timeline /\ clock' = clock /\ control' = control
        /\ Become(FollowUp(Answered, None, playing, timeline))
    BY <1>5 DEF PassOver
  <2>2. /\ QueueInv' /\ RestInv' /\ request'.queued = None
        /\ request'.asked = request.asked
           \/ (clock # None /\ request'.asked = request.queued)
    BY <1>3, <2>1 DEF playing
  <2>3. ViewInv' /\ PlaceInv'
    BY <1>1, <2>1 DEF RInv, ViewInv, PlaceInv
  <2>4. ClockInv'
    <3>1. clock # None => clock \in Nat
      BY DEF Types, Place
    <3> QED  BY <1>1, <2>1, <2>2, <3>1 DEF RInv, ClockInv, None
  <2> QED  BY <2>2, <2>3, <2>4 DEF RInv
<1> QED  BY <1>2, <1>4, <1>5, Zenon DEF FrameUnavailable

LEMMA DeliverRest ==
  ASSUME IInv, RInv, Deliver
  PROVE  RInv'
<1>1. Types  BY DEF IInv
<1> DEFINE r == Head(results)
<1>2. r \in Pictures /\ 1 \in DOMAIN results /\ r = results[1]
  BY <1>1 DEF Types, Deliver
<1>3. CASE Current(r)
  <2>1. operation = "none" /\ main # Closed /\ r.generation = request.generation
    BY <1>3 DEF Current
  <2>2. About(timeline, request.asked, r.frame)
    <3>1. request.generation \in Nat
      BY <1>1 DEF Types, Requests
    <3>2. Obsolete(r.generation) \/ Latest(r.generation, r.frame)
      BY <1>2 DEF IInv, ResultInv
    <3> QED  BY <2>1, <3>1, <3>2 DEF Obsolete, Latest
  <2>3. FrameReady(r) \/ FrameUnavailable(r)
    BY <1>3, Zenon DEF Deliver
  <2> HIDE DEF r
  <2> QED  BY <1>2, <2>1, <2>2, <2>3, FrameReadyRest, FrameUnavailableRest
<1>4. CASE ~Current(r)
  <2>1. UNCHANGED gui
    BY <1>4, Zenon DEF Deliver, Drop
  <2>2. UNCHANGED <<main, timeline, control, clock, request, label, phase, operation>>
    BY <2>1 DEF gui
  <2> QED  BY <2>2 DEF RInv, ViewInv, PlaceInv, ClockInv, QueueInv, RestInv
<1> QED  BY <1>3, <1>4

-----------------------------------------------------------------------------
LEMMA InitInv == Init => IInv
<1> SUFFICES ASSUME Init PROVE IInv
  OBVIOUS
<1>1. Opened(Closed) \in Views
  BY OpenedFacts DEF Media
<1>2. Types
  BY <1>1 DEF Init, Types, Media, Controls, Requests, Boxes, Slots, Place, Empty, Blank
<1> QED
  BY <1>2 DEF Init, IInv, SlotInv, JobInv, ResultInv, BarrierInv, SourceInv,
     OperationInv,
            DisplayInv

LEMMA UserStepInv ==
  ASSUME IInv, UserStep
  PROVE  IInv'
<1>1. ASSUME NEW f \in 0 .. MaxFrame, Seek(f) PROVE IInv'  BY <1>1, SeekStep
<1>2. ASSUME NEW f \in 0 .. MaxFrame, Drag(f) PROVE IInv'  BY <1>2, DragStep
<1>3. CASE StepForward  BY <1>3, StepForwardStep
<1>4. CASE Stop  BY <1>4, StopStep
<1>5. CASE BeginPlay  BY <1>5, BeginPlayStep
<1>6. ASSUME NEW cut \in Cuts, NEW f \in 0 .. MaxFrame, EditTimeline(cut, f) PROVE IInv'
  BY <1>6, EditTimelineStep
<1>7. ASSUME NEW kind \in {"borrow", "replace"}, BeginOperation(kind) PROVE IInv'
  BY <1>7, BeginOperationStep
<1>8. ASSUME NEW s \in Media, BeginTransition(s) PROVE IInv'
  BY <1>8, BeginTransitionStep
<1> QED
  BY <1>1, <1>2, <1>3, <1>4, <1>5, <1>6, <1>7, <1>8, Zenon DEF UserStep, Media

LEMMA NextInv ==
  ASSUME IInv, [Next]_vars
  PROVE  IInv'
<1>1. CASE UserStep  BY <1>1, UserStepInv
<1>2. CASE WorkerStep  BY <1>2, TakeRequestStep, FinishDecodeStep DEF WorkerStep
<1>3. CASE Unblock
  <2>1. ASSUME NEW s \in Media, FinishTransition(s) PROVE IInv'
    BY <2>1, FinishTransitionStep
  <2> QED  BY <1>3, <2>1, FinishPlayStep, JoinStep, Zenon DEF Unblock, Media
<1>4. CASE Dispatch
  <2>1. ASSUME NEW n \in 1 .. 2, Tick(n) PROVE IInv'  BY <2>1, TickStep
  <2> QED  BY <1>4, <2>1, DispatchScrubStep, DeliverStep, Zenon DEF Dispatch
<1>5. CASE IndexSource  BY <1>5, IndexSourceStep
<1>6. CASE EndOperation  BY <1>6, EndOperationStep
<1>7. CASE UNCHANGED vars
  <2>1. UNCHANGED <<main, timeline, control, clock, request, shown, label, phase, operation,
                    target, mailbox, worker, workerSource, job, results>>
    BY <1>7, Zenon DEF vars
  <2> QED
    BY <2>1 DEF IInv, Types, SlotInv, JobInv, ResultInv, BarrierInv, SourceInv,
       OperationInv,
       DisplayInv, Obsolete, Latest, About, WorkerFree
<1> QED  BY <1>1, <1>2, <1>3, <1>4, <1>5, <1>6, <1>7, Zenon DEF Next

LEMMA InitRest == Init => RInv
<1> SUFFICES ASSUME Init PROVE RInv
  OBVIOUS
<1>1. /\ main = Closed /\ timeline = Opened(Closed) /\ clock = None
      /\ control = [position |-> 0, range |-> 0, scrub |-> None]
      /\ ~request.pending /\ request.queued = None
  BY DEF Init
<1>2. timeline.exact /\ LastFrame(timeline) = 0
  <2>1. timeline.exact /\ timeline.identity /\ timeline.count = 0
    BY <1>1 DEF Opened
  <2> QED  BY <2>1 DEF LastFrame, Frames, Larger
<1> QED  BY <1>1, <1>2 DEF RInv, ViewInv, PlaceInv, ClockInv, QueueInv, RestInv

LEMMA UserStepRest ==
  ASSUME IInv, RInv, UserStep
  PROVE  RInv'
<1>1. ASSUME NEW f \in 0 .. MaxFrame, Seek(f) PROVE RInv'  BY <1>1, SeekRest
<1>2. ASSUME NEW f \in 0 .. MaxFrame, Drag(f) PROVE RInv'  BY <1>2, DragRest
<1>3. CASE StepForward  BY <1>3, StepForwardRest
<1>4. CASE Stop  BY <1>4, StopRest
<1>5. CASE BeginPlay  BY <1>5, BeginPlayRest
<1>6. ASSUME NEW cut \in Cuts, NEW f \in 0 .. MaxFrame, EditTimeline(cut, f) PROVE RInv'
  BY <1>6, EditTimelineRest
<1>7. ASSUME NEW kind \in {"borrow", "replace"}, BeginOperation(kind) PROVE RInv'
  BY <1>7, BeginOperationRest
<1>8. ASSUME NEW s \in Media, BeginTransition(s) PROVE RInv'
  BY <1>8, BeginTransitionRest
<1> QED
  BY <1>1, <1>2, <1>3, <1>4, <1>5, <1>6, <1>7, <1>8, Zenon DEF UserStep, Media

(* The worker decodes on its own: it touches nothing of the preview's rest. *)
LEMMA NextRest ==
  ASSUME IInv, RInv, [Next]_vars
  PROVE  RInv'
<1>1. CASE UserStep  BY <1>1, UserStepRest
<1>2. CASE WorkerStep \/ UNCHANGED vars
  <2>1. UNCHANGED gui
    BY <1>2, Zenon DEF WorkerStep, TakeRequest, FinishDecode, vars, gui
  <2>2. UNCHANGED <<main, timeline, control, clock, request, label, phase, operation>>
    BY <2>1, Zenon DEF gui
  <2> QED  BY <2>2 DEF RInv, ViewInv, PlaceInv, ClockInv, QueueInv, RestInv
<1>3. CASE Unblock
  <2>1. ASSUME NEW s \in Media, FinishTransition(s) PROVE RInv'
    BY <2>1, FinishTransitionRest
  <2> QED  BY <1>3, <2>1, FinishPlayRest, JoinRest, Zenon DEF Unblock, Media
<1>4. CASE Dispatch
  <2>1. ASSUME NEW n \in 1 .. 2, Tick(n) PROVE RInv'  BY <2>1, TickRest
  <2> QED  BY <1>4, <2>1, DispatchScrubRest, DeliverRest, Zenon DEF Dispatch
<1>5. CASE IndexSource  BY <1>5, IndexSourceRest
<1>6. CASE EndOperation  BY <1>6, EndOperationRest
<1> QED  BY <1>1, <1>2, <1>3, <1>4, <1>5, <1>6, Zenon DEF Next

(* Whatever the user, the clock, the worker and the timer of the slider do, a
   request or an answer that has not been overtaken (requestFrame(),
   processPendingRequest()) is about the frame that was asked for last, on the
   timeline as it is now; and a source is replaced (openVideoFileImpl()) only
   when there is none of them. *)
THEOREM InductiveInvariant == Spec => []IInv
<1>1. Init => IInv  BY InitInv
<1>2. IInv /\ [Next]_vars => IInv'  BY NextInv
<1> QED  BY <1>1, <1>2, PTL DEF Spec

(* onDecodedFrameReady() labels a picture with the frame that was asked for
   last and looks at nothing but the generation: the picture is from the open
   source all the same, and is what the timeline has at that place. *)
THEOREM LabelsAreTrue == Spec => []PictureIsLabelled
<1>1. IInv => PictureIsLabelled
  BY DEF IInv, Types, DisplayInv, PictureIsLabelled, About, SourceFrame, Views, Place
<1> QED  BY <1>1, InductiveInvariant, PTL

(* OperationScope cancels and waits: until it ends, the worker stays at rest
   while the operation works with the main decoder; and a worker that decodes
   a native graph borrows a decoder that nobody has closed. *)
THEOREM DecodersNotShared == Spec => []DecoderIsNotShared
<1>1. IInv => DecoderIsNotShared
  BY DEF IInv, OperationInv, SourceInv, DecoderIsNotShared
<1> QED  BY <1>1, InductiveInvariant, PTL

(* What else is true of playhead, clock and requests, over any sequence of the
   handlers; it rests on the labels and generations being sound. *)
THEOREM RestInvariant == Spec => [](IInv /\ RInv)
<1>1. Init => IInv /\ RInv  BY InitInv, InitRest
<1>2. IInv /\ RInv /\ [Next]_vars => (IInv /\ RInv)'  BY NextInv, NextRest
<1> QED  BY <1>1, <1>2, PTL DEF Spec

(* The worker and the GUI agree on the newest generation, no result is ahead of
   it, and setFrameRange() and SetPosition() keep the playhead in the slider. *)
THEOREM TypeCorrect == Spec => []TypeOK
<1>1. IInv /\ RInv => TypeOK
  <2> SUFFICES ASSUME IInv, RInv PROVE TypeOK
    OBVIOUS
  <2>1. Types /\ control.position <= control.range
    BY DEF IInv, RInv, PlaceInv
  <2>2. {clock, label, job.frame, mailbox.slot.frame} \subseteq Nat \cup {None}
    BY <2>1 DEF Types, Boxes, Slots, Place
  <2>3. ASSUME NEW i \in DOMAIN results
        PROVE  results[i].generation <= request.generation
    <3>1. results[i] \in Pictures /\ request \in Requests
      BY <2>1 DEF Types
    <3>2. results[i].generation \in Nat /\ request.generation \in Nat
      BY <3>1 DEF Pictures, Requests
    <3> QED  BY <3>2 DEF IInv, ResultInv, Obsolete, Latest
  <2>4. {main, workerSource, target} \subseteq Source \cup {Closed}
    BY <2>1 DEF Types, Media
  <2>5. /\ timeline \in [identity : BOOLEAN, cut : Seq(0 .. Length - 1),
                          exact : BOOLEAN, count : Nat]
        /\ control \in [position : Nat, range : Nat, scrub : Nat \cup {None}]
        /\ request \in [generation : Nat, pending : BOOLEAN, queued : Nat \cup {None},
                         asked : Nat]
        /\ shown \in [source : Source \cup {Closed}, frame : Nat \cup {None}]
    BY <2>1, Zenon DEF Types, Media, Views, Controls, Requests, Place
  <2> QED  BY <2>1, <2>2, <2>3, <2>4, <2>5, Zenon DEF TypeOK, Types
<1> QED  BY <1>1, RestInvariant, PTL

(* When the last answer has come and the clock is stopped, the preview shows the
   frame that was asked for last, or that frame does not decode: answers that
   are dropped, the queue of playback, a stop at the end and cancellations never
   leave another picture behind as if it were the answer. *)
THEOREM RestIsAnswered == Spec => []RestShowsLastRequest
<1>1. IInv /\ RInv => RestShowsLastRequest
  BY DEF RInv, RestInv, RestShowsLastRequest, AtRest, Editing, Dispatching
<1> QED  BY <1>1, RestInvariant, PTL

=============================================================================
