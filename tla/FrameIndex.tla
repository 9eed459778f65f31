------------------------------ MODULE FrameIndex ------------------------------
(***************************************************************************)
(* VDQtVideoDecoder's presentation-order frame index.  A packet has no     *)
(* frame number: the decoder counts pictures from the start of the stream  *)
(* as long as nothing breaks the count, remembers their time stamps, and   *)
(* after a seek recognizes where it is by them.  What the demuxer and the  *)
(* codec do is in a video: its packets in presentation order, each with a  *)
(* time stamp (or none), a key flag, and what the codec makes of it under  *)
(* each error mode.  All calls of the class run under one mutex; a call    *)
(* may be abandoned before every picture (shouldContinue, the progress     *)
(* callbacks).  Frames are numbered from 0, packets from 1.                *)
(***************************************************************************)
EXTENDS Integers, Sequences, FiniteSets

CONSTANTS
  Video,     \* the files: [packets, late]; late: the demuxer may land after an anchor
  Mode,      \* mErrorMode; in DiscardingMode a bad packet costs everything up to a key one
  DiscardingMode,
  Stamp      \* the time stamps packets may carry

Absent  == -1     \* AV_NOPTS_VALUE
Unknown == -1     \* a frame count that is not exact
Nothing == <<>>   \* no snapshot
Fates   == {"shown", "dropped", "rejected"}
Packet  == [stamp : Stamp \cup {Absent}, key : BOOLEAN, fate : [Mode -> Fates]]
Entry   == [stamp : Stamp \cup {Absent}, key : BOOLEAN]

ASSUME IndexAssumption ==
  /\ Video \subseteq [packets : Seq(Packet), late : BOOLEAN]
  /\ DiscardingMode \in Mode
  /\ Stamp \subseteq Nat

VARIABLES
  video,       \* the file that is open
  mode,        \* mErrorMode
  pos,         \* packets the demuxer and the codec are past
  next,        \* mNextDecodeFrameIndex, which is mCurrentFrameIndex + 1
  contiguous,  \* mIndexTraversalContiguous
  target,      \* mPendingSeekTargetTimestamp
  eof,         \* mLastDecodeReachedEof
  index,       \* mFrameIndex
  complete,    \* mFrameIndexComplete
  exact,       \* mFrameCount when its status is Exact
  cache,       \* mFrameCache: pairs of a frame number and the packet of its picture
  snapshot,    \* mFrameIndexSnapshot
  offer,       \* a snapshot on its way to another decoder of the program
  call         \* the call in progress: its step, the frame it wants, retriedFromStart

place == <<pos, next, contiguous, target, eof>>
known == <<index, complete, exact, snapshot>>
vars  == <<video, mode, place, known, cache, offer, call>>

Idle == [step |-> "idle", want |-> 0, retried |-> FALSE]

-----------------------------------------------------------------------------
(* The stream. *)

packets   == video.packets
Shown(n)  == packets[n].fate[mode] = "shown"
EntryOf(n) == [stamp |-> packets[n].stamp, key |-> packets[n].key]

\* how many of the first n packets a decoder that counts from the start makes frames of
Frames(v, m, n) == Cardinality({k \in 1 .. n : v.packets[k].fate[m] = "shown"})

\* a file that was opened, or resetDecoderToStart(): it has no effect when the demuxer can
\* neither seek nor reopen
AtStart == pos' = 0 /\ next' = 0 /\ contiguous' = TRUE /\ target' = Absent /\ eof' = FALSE

Forget == index' = <<>> /\ complete' = FALSE /\ snapshot' = Nothing

Init ==
  /\ video \in Video /\ mode \in Mode
  /\ pos = 0 /\ next = 0 /\ contiguous = TRUE /\ target = Absent /\ eof = FALSE
  /\ index = <<>> /\ complete = FALSE /\ exact = Unknown /\ cache = {}
  /\ snapshot = Nothing /\ offer = Nothing /\ call = Idle

-----------------------------------------------------------------------------
(* decodeNextFrame(): what happens between two pictures. *)

busy == call.step # "idle"
More == busy /\ pos < Len(packets)

\* a picture that this mode suppresses without a word
Drop ==
  /\ More /\ packets[pos + 1].fate[mode] = "dropped"
  /\ pos' = pos + 1
  /\ UNCHANGED <<video, mode, next, contiguous, target, eof, known, cache, offer, call>>

\* where the codec goes on after a bad packet n: behind it, or at the next key packet
GoOn(n) == IF mode # DiscardingMode THEN {n}
           ELSE {k \in n .. Len(packets) : /\ k = Len(packets) \/ packets[k + 1].key
                                          /\ \A j \in n .. k - 1 : ~packets[j + 1].key}

\* recordDecodeError() on a packet or picture the codec rejects
Reject ==
  /\ More /\ packets[pos + 1].fate[mode] = "rejected"
  /\ pos' \in GoOn(pos + 1)
  /\ contiguous' = FALSE /\ complete' = FALSE /\ snapshot' = Nothing
  /\ UNCHANGED <<video, mode, next, target, eof, index, exact, cache, offer, call>>

\* recordDecodeError() on a read: the demuxer's end comes early
ReadError ==
  /\ More
  /\ pos' = Len(packets)
  /\ contiguous' = FALSE /\ complete' = FALSE /\ snapshot' = Nothing
  /\ UNCHANGED <<video, mode, next, target, eof, index, exact, cache, offer, call>>

-----------------------------------------------------------------------------
(* registerDecodedFrame(). *)

\* findIndexedFrameByTimestamp(): the frames with this stamp that are nearest to hint;
\* of two, the later one
Nearest(stamp, hint) ==
  LET same == {f \in 0 .. Len(index) - 1 : index[f + 1].stamp = stamp}
      distance(f) == IF f < hint THEN hint - f ELSE f - hint
  IN  {f \in same : \A g \in same :
         distance(f) < distance(g) \/ (distance(f) = distance(g) /\ g <= f)}

Unrecognized == -1

\* the label of the picture of packet n
Label(n) ==
  LET stamp      == packets[n].stamp
      nextPrefix == contiguous /\ next = Len(index)
      expected   == next < Len(index) /\ index[next + 1].stamp = stamp
      matches    == IF stamp = Absent THEN {} ELSE Nearest(stamp, next)
  IN  IF nextPrefix \/ expected THEN next
      ELSE IF matches = {} THEN Unrecognized ELSE CHOOSE f \in matches : TRUE

\* a picture whose number is where the count stands, and not beyond the index
Counted(f) == contiguous /\ f = next /\ f <= Len(index)

\* the index after the picture of packet n was registered as frame f: the next frame is
\* new, another one may turn out to be a key frame
IndexWith(n, f) ==
  IF Counted(f) /\ f = Len(index) THEN Append(index, EntryOf(n))
  ELSE IF f \in 0 .. Len(index) - 1 /\ packets[n].key
       THEN [index EXCEPT ![f + 1].key = TRUE] ELSE index

Register(n, f) ==
  /\ index' = IndexWith(n, f)
  /\ snapshot' = IF Len(index') = Len(index) /\ index' # index THEN Nothing ELSE snapshot
  /\ UNCHANGED <<complete, exact>>

CountOn(f) == next' = f + 1 /\ contiguous' = Counted(f)

-----------------------------------------------------------------------------
(* scanVideoStreamImpl(): "index" resumes a verified prefix (ensureFrameIndex()), *)
(* "survey" is a health scan of the whole file.                                   *)

NoFrame == -1

canResume == contiguous /\ ~eof /\ ~complete /\ target = Absent /\ next = Len(index)

Afresh == AtStart /\ Forget /\ cache' = {} /\ UNCHANGED exact

BeginIndex(want) ==
  /\ call' = [step |-> "index", want |-> want, retried |-> FALSE]
  /\ IF canResume THEN UNCHANGED <<place, known, cache>> ELSE Afresh

\* ensureFrameIndex() for its own sake
Ensure ==
  /\ call = Idle /\ ~complete
  /\ BeginIndex(NoFrame)
  /\ UNCHANGED <<video, mode, offer>>

\* scanVideoStream()
Survey ==
  /\ call = Idle
  /\ call' = [step |-> "survey", want |-> NoFrame, retried |-> FALSE]
  /\ Afresh
  /\ UNCHANGED <<video, mode, offer>>

Scanning == call.step \in {"index", "survey"}
picture  == pos + 1
AtPicture == pos < Len(packets) /\ Shown(picture)

ScanPicture ==
  /\ Scanning /\ AtPicture /\ Label(picture) # Unrecognized
  /\ Register(picture, Label(picture)) /\ CountOn(Label(picture))
  /\ pos' = picture
  /\ UNCHANGED <<video, mode, target, eof, cache, offer, call>>

\* a picture that is not recognized ends the scan, with an error
ScanFails ==
  /\ Scanning /\ AtPicture /\ Label(picture) = Unrecognized
  /\ \/ AtStart
     \/ pos' = picture /\ contiguous' = FALSE /\ UNCHANGED <<next, target, eof>>
  /\ cache' = {} /\ call' = Idle
  /\ UNCHANGED <<video, mode, known, offer>>

\* updateFrameCountAtEndOfStream()
IndexEnds == contiguous /\ index # <<>> /\ next = Len(index)

Settle ==
  /\ complete' = (complete \/ IndexEnds)
  /\ exact' = IF IndexEnds THEN Len(index) ELSE exact
  /\ UNCHANGED <<index, snapshot>>

-----------------------------------------------------------------------------
(* getFrameImage(). *)


\* the anchors seekToFrame() trusts: key frames with a time stamp of their own
Anchors(f) ==
  {a \in 1 .. Len(index) - 1 :
     /\ a <= f /\ index[a + 1].key /\ index[a + 1].stamp # Absent
     /\ \A g \in 0 .. Len(index) - 1 : index[g + 1].stamp = index[a + 1].stamp => g = a}

\* where the demuxer may land that is asked for frame a: on a key packet, and not after it
\* unless the demuxer is a late one
Landings(a) == {n \in 0 .. Len(packets) - 1 :
                  packets[n + 1].key /\ (video.late \/ Frames(video, mode, n) <= a)}

\* seekToFrame()
Seek(f) ==
  \/ AtStart
  \/ \E a \in Anchors(f) :
       /\ \A b \in Anchors(f) : b <= a
       /\ pos' \in Landings(a)
       /\ next' = a /\ contiguous' = TRUE /\ eof' = FALSE
       /\ target' = index[a + 1].stamp

Decode(f) == call' = [step |-> "decode", want |-> f, retried |-> FALSE]

sequential(f, preserve) == ~eof /\ (f = next \/ (preserve /\ f >= next))

\* a request for a frame: read on, seek, or index the file first
Request(f, preserve) ==
  /\ call = Idle
  /\ exact = Unknown \/ f < exact
  /\ \A c \in cache : c[1] # f
  /\ IF sequential(f, preserve) THEN Decode(f) /\ UNCHANGED <<place, known, cache>>
     ELSE IF f > 0 /\ ~complete THEN BeginIndex(f)
     ELSE Seek(f) /\ Decode(f) /\ UNCHANGED <<known, cache>>
  /\ UNCHANGED <<video, mode, offer>>

\* the scan is at the end of the stream: whoever wanted a frame goes on to it
ScanEnds ==
  /\ Scanning /\ pos = Len(packets)
  /\ Settle
  /\ cache' = {}
  /\ \/ call.want # NoFrame /\ complete' /\ call.want < exact' /\ Seek(call.want) /\ Decode(call.want)
     \/ call' = Idle /\ AtStart
     \/ call' = Idle /\ eof' = TRUE /\ UNCHANGED <<pos, next, contiguous, target>>
  /\ UNCHANGED <<video, mode, offer>>

Before == target # Absent /\ packets[picture].stamp # Absent /\ packets[picture].stamp < target

\* a picture before the place that was asked for is not even looked at
PassTowardsTarget ==
  /\ call.step = "decode" /\ AtPicture /\ Before
  /\ pos' = picture
  /\ UNCHANGED <<video, mode, next, contiguous, target, eof, known, cache, offer, call>>

\* mutant: a frame after the one that is wanted will do
DecodePictureOrLater ==
  /\ call.step = "decode" /\ AtPicture /\ ~Before
  /\ Label(picture) # Unrecognized
  /\ Register(picture, Label(picture)) /\ CountOn(Label(picture))
  /\ pos' = picture /\ target' = Absent
  /\ IF Label(picture) < call.want THEN UNCHANGED <<cache, call>>
     ELSE call' = Idle /\ cache' = cache \cup {<<call.want, picture>>}
  /\ UNCHANGED <<video, mode, eof, offer>>

\* a frame before the one that is wanted, or the frame: QCache drops what it likes for it
DecodePicture ==
  /\ call.step = "decode" /\ AtPicture /\ ~Before
  /\ Label(picture) \in 0 .. call.want
  /\ Register(picture, Label(picture)) /\ CountOn(Label(picture))
  /\ pos' = picture /\ target' = Absent
  /\ IF Label(picture) < call.want THEN UNCHANGED <<cache, call>>
     ELSE /\ call' = Idle
          /\ \E kept \in SUBSET cache : cache' = kept \cup {<<call.want, picture>>}
  /\ UNCHANGED <<video, mode, eof, offer>>

\* mutant: as often as it takes
LostAgain ==
  /\ call.step = "decode" /\ AtPicture /\ ~Before
  /\ Label(picture) \notin 0 .. call.want
  /\ Register(picture, Label(picture))
  /\ AtStart /\ call' = [call EXCEPT !.retried = TRUE]
  /\ UNCHANGED <<video, mode, cache, offer>>

\* the decoder is lost: it counts from the start, once
Lost ==
  /\ call.step = "decode" /\ AtPicture /\ ~Before
  /\ Label(picture) \notin 0 .. call.want
  /\ Register(picture, Label(picture))
  /\ \/ ~call.retried /\ AtStart /\ call' = [call EXCEPT !.retried = TRUE]
     \/ /\ call' = Idle
        /\ pos' = picture /\ target' = Absent /\ UNCHANGED eof
        /\ IF Label(picture) = Unrecognized THEN contiguous' = FALSE /\ UNCHANGED next
           ELSE CountOn(Label(picture))
  /\ UNCHANGED <<video, mode, cache, offer>>

DecodeEnds ==
  /\ call.step = "decode" /\ pos = Len(packets)
  /\ Settle
  /\ eof' = TRUE /\ call' = Idle
  /\ UNCHANGED <<video, mode, pos, next, contiguous, target, cache, offer>>

\* shouldContinue() or a progress callback says no
Cancel ==
  /\ busy
  /\ call' = Idle
  /\ IF call.step = "survey" THEN (AtStart \/ UNCHANGED place) /\ cache' = {}
     ELSE UNCHANGED <<place, cache>>
  /\ UNCHANGED <<video, mode, known, offer>>

-----------------------------------------------------------------------------
(* The other calls. *)

Open(v) ==
  /\ call = Idle
  /\ video' = v /\ AtStart /\ Forget /\ exact' = Unknown /\ cache' = {}
  /\ UNCHANGED <<mode, offer, call>>

SetErrorMode(m) ==
  /\ call = Idle /\ m # mode
  /\ mode' = m /\ Forget /\ exact' = Unknown /\ cache' = {} /\ contiguous' = FALSE
  /\ UNCHANGED <<video, pos, next, target, eof, offer, call>>

\* frameIndexSnapshot()
Publish ==
  /\ call = Idle /\ complete
  /\ snapshot' = IF snapshot # Nothing THEN snapshot
                 ELSE [file |-> video, mode |-> mode, entries |-> index]
  /\ offer' = snapshot'
  /\ UNCHANGED <<video, mode, place, index, complete, exact, cache, call>>

\* mutant: a snapshot of the same file is good enough
AdoptAny ==
  /\ call = Idle /\ offer # Nothing
  /\ offer.file = video
  /\ ~(snapshot = offer /\ complete)
  /\ AtStart
  /\ index' = offer.entries /\ complete' = TRUE /\ exact' = Len(offer.entries)
  /\ snapshot' = offer /\ cache' = {}
  /\ UNCHANGED <<video, mode, offer, call>>

\* adoptFrameIndexSnapshot()
Adopt ==
  /\ call = Idle /\ offer # Nothing
  /\ offer.file = video /\ offer.mode = mode
  /\ ~(snapshot = offer /\ complete)
  /\ AtStart
  /\ index' = offer.entries /\ complete' = TRUE /\ exact' = Len(offer.entries)
  /\ snapshot' = offer /\ cache' = {}
  /\ UNCHANGED <<video, mode, offer, call>>

\* the frames a caller may ask for: an estimate of the count may be too high by one
Wanted == 0 .. Len(packets)

Progress == \/ Drop \/ Reject \/ ReadError
            \/ ScanPicture \/ ScanFails \/ ScanEnds
            \/ PassTowardsTarget \/ DecodePicture \/ Lost \/ DecodeEnds

Next == \/ Progress \/ Cancel \/ Ensure \/ Survey
        \/ \E f \in Wanted, preserve \in BOOLEAN : Request(f, preserve)
        \/ \E v \in Video : Open(v)
        \/ \E m \in Mode : SetErrorMode(m)
        \/ Publish \/ Adopt

Spec == Init /\ [][Next]_vars
FairSpec == Spec /\ WF_vars(Progress)

-----------------------------------------------------------------------------
Snapshot == [file : Video, mode : Mode, entries : Seq(Entry)]

TypeOK ==
  /\ video \in Video /\ mode \in Mode
  /\ pos \in 0 .. Len(packets) /\ next \in Nat /\ contiguous \in BOOLEAN
  /\ target \in Stamp \cup {Absent} /\ eof \in BOOLEAN
  /\ index \in Seq(Entry) /\ complete \in BOOLEAN /\ exact \in Nat \cup {Unknown}
  /\ cache \subseteq Nat \X (1 .. Len(packets))
  /\ snapshot \in Snapshot \cup {Nothing} /\ offer \in Snapshot \cup {Nothing}
  /\ call \in [step : {"idle", "index", "survey", "decode"},
               want : Nat \cup {NoFrame}, retried : BOOLEAN]

\* entry f of an index is the time stamp of the picture a decoder in that mode that
\* counts from the start of the file calls frame f
TrueOf(v, m, entries) ==
  \A f \in 0 .. Len(entries) - 1 : \E n \in 1 .. Len(v.packets) :
    /\ v.packets[n].fate[m] = "shown" /\ Frames(v, m, n - 1) = f
    /\ entries[f + 1].stamp = v.packets[n].stamp

WholeOf(v, m, entries) ==
  TrueOf(v, m, entries) /\ Len(entries) = Frames(v, m, Len(v.packets))

\* The index only says what counting the pictures of the open file in the present error
\* mode would: it is a true prefix of the file after any seek, damage, read error,
\* cancelled scan or change of mode, it is the whole file when it is called complete or
\* the count exact, and a snapshot that reaches another decoder is the whole of its file.
IndexIsTrue ==
  /\ TrueOf(video, mode, index)
  /\ complete => WholeOf(video, mode, index)
  /\ exact # Unknown => exact = Frames(video, mode, Len(packets))
  /\ \A s \in {snapshot, offer} \ {Nothing} : WholeOf(s.file, s.mode, s.entries)

\* A picture that is returned as frame f, now or later from the cache, is the picture
\* with number f in presentation order, wherever a seek landed and whatever was cancelled
\* before it.  This is what the comment in getFrameImage() says of a demuxer that lands
\* after the requested anchor, and it is not so for every stream; the two parts that are
\* so follow.
PictureIsFrame ==
  \A c \in cache : Shown(c[2]) /\ Frames(video, mode, c[2] - 1) = c[1]

\* no two packets of a file have the same time stamp; some may have none
NoRepeats(v) ==
  \A i, j \in 1 .. Len(v.packets) :
    v.packets[i].stamp = v.packets[j].stamp /\ v.packets[i].stamp # Absent => i = j

\* A demuxer may land on any key picture, and the reader is cancelled, damaged and started
\* over as you like: where time stamps do not repeat, no picture comes under the number
\* of another one (registerDecodedFrame() and the retry from the start).
PictureIsFrameByStamp == NoRepeats(video) => PictureIsFrame


\* A call comes to an end: a decoder that is lost does not start over for ever
CallEnds == busy ~> ~busy
=============================================================================
