----------------------------- MODULE AudioStream -----------------------------
(***************************************************************************)
(* Live playback of a soundtrack: VDQtFFmpegAudioDevice decodes ahead on a *)
(* thread of its own into a bounded buffer, the sound device pulls from it *)
(* through QIODevice's private read-ahead and the filter device, and the   *)
(* GUI thread plays, pauses, stops, seeks and changes filters through      *)
(* VDQtAudioPlayer.  A buffer is a sequence of frames; a frame is the time *)
(* stamp of the sound in it, so that a frame can be compared with the      *)
(* place at which it is played.  Whatever runs under mMutex is one step.   *)
(***************************************************************************)
EXTENDS Integers, Sequences, FiniteSets, SequencesExt

CONSTANTS
  Soundtracks,    \* sequences of decoded chunks [start, count], in presentation order
  Lengths,        \* exact lengths the device may be told; 0 when it is not known
  Target,         \* frames to keep decoded ahead (mBufferTargetBytes)
  ReadAhead,      \* frames QIODevice takes from readData() at a time
  Depth,          \* frames the filter device and the sink hold before they are heard
  Jitter,         \* the device's tolerance for time stamps
  DecoderJitter,  \* the decoder's
  Positions,      \* where the user and the cuts of the timeline seek to
  End             \* bound: no soundtrack is longer

Silence   == -1
Unstamped == -2
Unknown   == -3

Chunk == [start : (0 .. End) \cup {Unstamped}, count : 1 .. End]

ASSUME AudioAssumption ==
  /\ Soundtracks \subseteq Seq(Chunk) \ {<<>>}
  /\ \A track \in Soundtracks : track[1].start # Unstamped
  /\ Lengths \cup Positions \subseteq 0 .. End
  /\ {Target, ReadAhead, Depth} \subseteq Nat \ {0}
  /\ {Jitter, DecoderJitter, End} \subseteq Nat

VARIABLES
  track,          \* the soundtrack that is open, <<>> when none is
  total,          \* mTotalSamples = mTotalOutputSamples
  decoder,        \* FFmpegAudioDecoder: the next chunk, and where it expects it
  thread,         \* mDecodeThread is not null
  producer,       \* where decodeLoop() is
  work,           \* its locals: pending, gapSamples, decoderFinished
  stopping,       \* mStopProducer
  buffer,         \* mBuffer from mBufferOffset on
  cursor,         \* mBaseSample, mProducedOutputSample, delivered frames
  eof, failed,    \* mProducerEof, mProducerFailed
  prefetched,     \* QIODevice's private buffer in the device
  reader,         \* readData(): not inside, or waiting for the producer
  downstream,     \* frames in the filter device and the sink
  sink,           \* state of mAudioSink
  clock,          \* mPlaybackBaseTimeSeconds and the sink's processed frames
  control,        \* what the GUI thread is doing, and where it seeks to
  heard           \* observer: the frames presented since the sink was started

ring == <<buffer, cursor, eof, failed>>
user == <<sink, clock, control>>
vars == <<track, total, decoder, thread, producer, work, stopping, ring, prefetched,
          reader, downstream, user, heard>>

Min2(a, b) == IF a < b THEN a ELSE b
Max2(a, b) == IF a > b THEN a ELSE b
Near(a, b, tolerance) == a <= b + tolerance /\ b <= a + tolerance

NoWork    == [pending |-> <<>>, gap |-> 0, finished |-> FALSE]
Idle      == [step |-> "idle", operation |-> "none", to |-> 0]
room      == Target - Len(buffer)

Init ==
  /\ track = <<>> /\ total = 0
  /\ decoder = [next |-> 1, expected |-> Unknown]
  /\ thread = FALSE /\ producer = "done" /\ work = NoWork /\ stopping = FALSE
  /\ buffer = <<>> /\ cursor = [base |-> 0, produced |-> 0, delivered |-> 0]
  /\ eof = FALSE /\ failed = FALSE
  /\ prefetched = <<>> /\ reader = "idle" /\ downstream = <<>>
  /\ sink = "stopped" /\ clock = [base |-> 0, processed |-> 0] /\ control = Idle
  /\ heard = <<>>

-----------------------------------------------------------------------------
(* The producer thread. *)

\* mBufferChanged.wakeAll()
Woken == IF producer = "asleep" THEN "append" ELSE producer

\* the head of the loop: stop, or do what the locals call for
Check ==
  /\ producer = "check"
  /\ producer' = IF stopping THEN "done"
                 ELSE IF work.gap > 0 \/ work.pending # <<>> THEN "append"
                 ELSE IF work.finished THEN "finish" ELSE "decode"
  /\ UNCHANGED <<track, total, decoder, thread, work, stopping, ring, prefetched, reader,
                 downstream, user, heard>>

\* appendSilence() and appendPending(): wait for room, fill it, go on
AppendFrames ==
  /\ producer = "append" /\ ~stopping /\ room > 0
  /\ LET silent == work.gap > 0
         n      == Min2(room, IF silent THEN work.gap ELSE Len(work.pending))
         frames == IF silent THEN [i \in 1 .. n |-> Silence] ELSE SubSeq(work.pending, 1, n)
     IN /\ buffer' = buffer \o frames
        /\ cursor' = [cursor EXCEPT !.produced = @ + n]
        /\ work' = IF silent THEN [work EXCEPT !.gap = @ - n]
                   ELSE [work EXCEPT !.pending = SubSeq(@, n + 1, Len(@))]
  /\ producer' = "check"
  /\ UNCHANGED <<track, total, decoder, thread, stopping, eof, failed, prefetched, reader,
                 downstream, user, heard>>

AppendBlocked ==
  /\ producer = "append" /\ (stopping \/ room <= 0)
  /\ producer' = IF stopping THEN "done" ELSE "asleep"
  /\ UNCHANGED <<track, total, decoder, thread, work, stopping, ring, prefetched, reader,
                 downstream, user, heard>>

Finish ==
  /\ producer = "finish"
  /\ eof' = TRUE /\ producer' = "done"
  /\ UNCHANGED <<track, total, decoder, thread, work, stopping, buffer, cursor, failed,
                 prefetched, reader, downstream, user, heard>>

\* nextChunk(): a time stamp close to where the last chunk ended is taken for that place
StampedStart(chunk) ==
  IF chunk.start = Unstamped THEN Unknown
  ELSE IF decoder.expected # Unknown /\ Near(chunk.start, decoder.expected, DecoderJitter)
  THEN decoder.expected ELSE chunk.start

\* decodeLoop(): one close to what was produced last follows it, as one without does
PlaceOf(chunk) ==
  LET start == StampedStart(chunk)
  IN IF start = Unknown \/ Near(start, cursor.produced, Jitter) THEN cursor.produced ELSE start

Frames(chunk, from) ==
  [i \in 1 .. chunk.count - from |->
     IF chunk.start = Unstamped THEN Unstamped ELSE chunk.start + from + i - 1]

\* mutant: an overlap is filled like a gap
DecodeChunkFillingOverlaps ==
  /\ producer = "decode" /\ decoder.next <= Len(track)
  /\ LET chunk == track[decoder.next]
         place == PlaceOf(chunk)
         late  == Max2(0, cursor.produced - place)
     IN /\ decoder' = [next |-> decoder.next + 1,
                       expected |-> IF chunk.start = Unstamped THEN decoder.expected
                                    ELSE StampedStart(chunk) + chunk.count]
        /\ work' = IF late >= chunk.count THEN work
                   ELSE [work EXCEPT !.gap = Max2(late, place - cursor.produced),
                                     !.pending = Frames(chunk, late)]
  /\ producer' = "check"
  /\ UNCHANGED <<track, total, thread, stopping, ring, prefetched, reader, downstream, user,
                 heard>>

DecodeChunk ==
  /\ producer = "decode" /\ decoder.next <= Len(track)
  /\ LET chunk == track[decoder.next]
         place == PlaceOf(chunk)
         late  == Max2(0, cursor.produced - place)
     IN /\ decoder' = [next |-> decoder.next + 1,
                       expected |-> IF chunk.start = Unstamped THEN decoder.expected
                                    ELSE StampedStart(chunk) + chunk.count]
        /\ work' = IF late >= chunk.count THEN work
                   ELSE [work EXCEPT !.gap = Max2(0, place - cursor.produced),
                                     !.pending = Frames(chunk, late)]
  /\ producer' = "check"
  /\ UNCHANGED <<track, total, thread, stopping, ring, prefetched, reader, downstream, user,
                 heard>>

\* the decoder is at its end: a soundtrack of known length is filled up with silence
DecodeEnd ==
  /\ producer = "decode" /\ decoder.next > Len(track)
  /\ work' = [work EXCEPT !.gap = Max2(0, total - cursor.produced), !.finished = TRUE]
  /\ producer' = "check"
  /\ UNCHANGED <<track, total, decoder, thread, stopping, ring, prefetched, reader, downstream,
                 user, heard>>

DecodeFails ==
  /\ producer = "decode"
  /\ failed' = TRUE /\ eof' = TRUE /\ producer' = "done"
  /\ UNCHANGED <<track, total, decoder, thread, work, stopping, buffer, cursor, prefetched,
                 reader, downstream, user, heard>>

ProducerStep ==
  Check \/ AppendFrames \/ AppendBlocked \/ Finish \/ DecodeChunk \/ DecodeEnd \/ DecodeFails

-----------------------------------------------------------------------------
(* The sound device, which pulls while the sink runs. *)

\* mutant: the end of the producer is taken for the end of the device
AtEndOfProducer == eof /\ buffer = <<>>

AtEnd == eof /\ buffer = <<>> /\ prefetched = <<>>

\* mutant: the reader does not wake the producer
TakeQuietly(n) ==
  /\ prefetched' = prefetched \o SubSeq(buffer, 1, n)
  /\ buffer' = SubSeq(buffer, n + 1, Len(buffer))
  /\ cursor' = [cursor EXCEPT !.delivered = @ + n]
  /\ producer' = producer

\* the copy loop of readData(), up to an empty buffer
Take(n) ==
  /\ prefetched' = prefetched \o SubSeq(buffer, 1, n)
  /\ buffer' = SubSeq(buffer, n + 1, Len(buffer))
  /\ cursor' = [cursor EXCEPT !.delivered = @ + n]
  /\ producer' = IF n > 0 THEN Woken ELSE producer

Read ==
  /\ sink = "running" /\ reader = "idle" /\ prefetched = <<>> /\ Len(downstream) < Depth
  /\ Take(Min2(ReadAhead, Len(buffer)))
  /\ reader' = IF Len(buffer) >= ReadAhead \/ eof \/ failed THEN "idle" ELSE "waiting"
  /\ UNCHANGED <<track, total, decoder, thread, work, stopping, eof, failed, downstream,
                 user, heard>>

\* after 20 ms or a wake-up, and then it returns with what there is
ReadAgain ==
  /\ reader = "waiting"
  /\ Take(Min2(ReadAhead - Len(prefetched), Len(buffer)))
  /\ reader' = "idle"
  /\ UNCHANGED <<track, total, decoder, thread, work, stopping, eof, failed, downstream,
                 user, heard>>

\* QIODevice::read() hands a frame of its own buffer to the filter device
Fill ==
  /\ sink = "running" /\ reader = "idle" /\ prefetched # <<>> /\ Len(downstream) < Depth
  /\ downstream' = Append(downstream, Head(prefetched))
  /\ prefetched' = Tail(prefetched)
  /\ UNCHANGED <<track, total, decoder, thread, producer, work, stopping, ring, reader, user,
                 heard>>

Hear ==
  /\ sink = "running" /\ downstream # <<>>
  /\ heard' = Append(heard, Head(downstream))
  /\ downstream' = Tail(downstream)
  /\ clock' = [clock EXCEPT !.processed = @ + 1]
  /\ UNCHANGED <<track, total, decoder, thread, producer, work, stopping, ring, prefetched,
                 reader, sink, control>>

DeviceStep == Read \/ ReadAgain \/ Fill \/ Hear

-----------------------------------------------------------------------------
(* The GUI thread. *)

Presenting(state) == heard' = <<>> /\ sink' = state

\* mutant: the producer is told to stop and not woken
BeginQuietly(operation, to) ==
  /\ control.step = "idle" /\ track # <<>> /\ reader = "idle"
  /\ Presenting("stopped")
  /\ stopping' = thread
  /\ producer' = producer
  /\ control' = [step |-> "joining", operation |-> operation, to |-> to]
  /\ UNCHANGED <<track, total, decoder, thread, work, ring, prefetched, downstream, reader,
                 clock>>

\* the sink is stopped, which waits for readData() to return, and then the
\* producer is told to stop
Begin(operation, to) ==
  /\ control.step = "idle" /\ track # <<>> /\ reader = "idle"
  /\ Presenting("stopped")
  /\ stopping' = thread
  /\ producer' = IF thread THEN Woken ELSE producer
  /\ control' = [step |-> "joining", operation |-> operation, to |-> to]
  /\ UNCHANGED <<track, total, decoder, thread, work, ring, prefetched, downstream, reader,
                 clock>>

\* seekAudioToVideoFrame() and play(), when playback starts or meets a cut
PlayAt == \E to \in Positions : Begin("play", to)
Stop   == Begin("stop", 0)
Close  == Begin("close", 0)

Joined == control.step = "joining" /\ (thread => producer = "done")

\* the demuxer goes back to a chunk at or before the position
SeekPoints(to) ==
  {i \in DOMAIN track : track[i].start # Unstamped /\ track[i].start <= Max2(to, track[1].start)}

StartProducer(operation, to) ==
  /\ thread' = TRUE /\ producer' = "check" /\ work' = NoWork /\ stopping' = FALSE
  /\ eof' = FALSE /\ failed' = FALSE
  /\ control' = [step |-> "priming", operation |-> operation, to |-> to]

\* mutant: what QIODevice read ahead survives the seek
RepositionKeepingReadAhead ==
  /\ Joined /\ control.operation # "close"
  /\ LET to == IF total > 0 THEN Min2(control.to, total) ELSE control.to
     IN /\ \E i \in SeekPoints(to) : decoder' = [next |-> i, expected |-> Unknown]
        /\ cursor' = [base |-> to, produced |-> to, delivered |-> 0]
        /\ StartProducer(control.operation, to)
  /\ prefetched' = prefetched /\ buffer' = <<>>
  /\ UNCHANGED <<track, total, reader, downstream, sink, clock, heard>>

\* seekToSample() of the device, from the end of the old producer to the start of the new
Reposition ==
  /\ Joined /\ control.operation # "close"
  /\ LET to == IF total > 0 THEN Min2(control.to, total) ELSE control.to
     IN /\ \E i \in SeekPoints(to) : decoder' = [next |-> i, expected |-> Unknown]
        /\ cursor' = [base |-> to, produced |-> to, delivered |-> 0]
        /\ StartProducer(control.operation, to)
  /\ prefetched' = <<>> /\ buffer' = <<>>
  /\ UNCHANGED <<track, total, reader, downstream, sink, clock, heard>>

\* what VDQtAudioPlayer does when the device has sought, or not: the filter device
\* drops what it holds, and the sink is started anew for "play"
Settle(sought) ==
  /\ downstream' = <<>> /\ control' = Idle
  /\ IF control.operation = "play"
     THEN /\ Presenting("running")
          /\ clock' = [base |-> IF sought THEN cursor.base + cursor.delivered ELSE clock.base,
                       processed |-> 0]
     ELSE /\ clock' = [clock EXCEPT !.base = 0]
          /\ UNCHANGED <<sink, heard>>

SeekFails ==
  /\ Joined /\ control.operation # "close"
  /\ thread' = FALSE /\ stopping' = FALSE
  /\ Settle(FALSE)
  /\ UNCHANGED <<track, total, decoder, producer, work, ring, prefetched, reader>>

\* the GUI thread waits for a full buffer, the end, a failure, or five seconds
Primed == ~failed /\ (buffer # <<>> \/ eof)

Prime ==
  /\ control.step = "priming" /\ control.operation # "open"
  /\ Settle(Primed)
  /\ UNCHANGED <<track, total, decoder, thread, producer, work, stopping, ring, prefetched,
                 reader>>

Open ==
  /\ control.step = "idle" /\ track = <<>>
  /\ track' \in Soundtracks /\ total' \in Lengths
  /\ decoder' = [next |-> 1, expected |-> Unknown]
  /\ cursor' = [base |-> 0, produced |-> 0, delivered |-> 0]
  /\ StartProducer("open", 0)
  /\ UNCHANGED <<buffer, prefetched, reader, downstream, sink, clock, heard>>

\* a device that cannot be primed is destroyed, which joins its producer
OpenPrimed ==
  /\ control.step = "priming" /\ control.operation = "open"
  /\ IF Primed THEN control' = Idle /\ UNCHANGED <<stopping, producer>>
     ELSE /\ control' = [control EXCEPT !.step = "joining", !.operation = "close"]
          /\ stopping' = TRUE /\ producer' = Woken
  /\ UNCHANGED <<track, total, decoder, thread, work, ring, prefetched, reader, downstream,
                 sink, clock, heard>>

JoinAndClose ==
  /\ Joined /\ control.operation = "close"
  /\ track' = <<>> /\ total' = 0 /\ decoder' = [next |-> 1, expected |-> Unknown]
  /\ thread' = FALSE /\ stopping' = FALSE /\ producer' = "done" /\ work' = NoWork
  /\ buffer' = <<>> /\ cursor' = [base |-> 0, produced |-> 0, delivered |-> 0]
  /\ eof' = FALSE /\ failed' = FALSE /\ prefetched' = <<>> /\ downstream' = <<>>
  /\ clock' = [base |-> 0, processed |-> 0] /\ control' = Idle
  /\ UNCHANGED <<reader, sink, heard>>

Pause ==
  /\ control.step = "idle" /\ sink = "running"
  /\ sink' = "suspended"
  /\ UNCHANGED <<track, total, decoder, thread, producer, work, stopping, ring, prefetched,
                 reader, downstream, clock, control, heard>>

\* mutant: a paused sink is started anew
ResumeAnew ==
  /\ control.step = "idle" /\ sink = "suspended"
  /\ Presenting("running") /\ clock' = [clock EXCEPT !.processed = 0]
  /\ UNCHANGED <<track, total, decoder, thread, producer, work, stopping, ring, prefetched,
                 reader, downstream, control>>

Resume ==
  /\ control.step = "idle" /\ sink = "suspended"
  /\ sink' = "running"
  /\ UNCHANGED <<track, total, decoder, thread, producer, work, stopping, ring, prefetched,
                 reader, downstream, clock, control, heard>>

\* refreshAudioFilters(): the sink is stopped and, if it was playing, started again
RefreshFilters ==
  /\ control.step = "idle" /\ track # <<>> /\ reader = "idle"
  /\ Presenting(IF sink = "running" THEN "running" ELSE "stopped")
  /\ clock' = [clock EXCEPT !.processed = 0]
  /\ downstream' = <<>>
  /\ UNCHANGED <<track, total, decoder, thread, producer, work, stopping, ring, prefetched,
                 reader, control>>

UserStep    == PlayAt \/ Stop \/ Close \/ Open \/ Pause \/ Resume \/ RefreshFilters
ControlStep == Reposition \/ SeekFails \/ Prime \/ OpenPrimed \/ JoinAndClose

Next == ProducerStep \/ DeviceStep \/ UserStep \/ ControlStep

\* the threads run, the device keeps pulling, and the player's functions return
Fairness ==
  /\ WF_vars(ProducerStep) /\ WF_vars(ControlStep)
  /\ WF_vars(Read \/ ReadAgain) /\ WF_vars(Fill) /\ WF_vars(Hear)

Spec == Init /\ [][Next]_vars /\ Fairness

-----------------------------------------------------------------------------
(* Properties. *)

Frame == (0 .. 2 * End) \cup {Silence, Unstamped}

\* Types and bounds: the buffer holds at most what is to be decoded ahead, the
\* read-ahead at most one request (mBufferTargetBytes, readData()).
TypeOK ==
  /\ track \in Soundtracks \cup {<<>>} /\ total \in Lengths \cup {0}
  /\ decoder \in [next : Nat \ {0}, expected : Nat \cup {Unknown}]
  /\ thread \in BOOLEAN /\ stopping \in BOOLEAN /\ eof \in BOOLEAN /\ failed \in BOOLEAN
  /\ producer \in {"check", "append", "asleep", "decode", "finish", "done"}
  /\ work \in [pending : Seq(Frame), gap : Nat, finished : BOOLEAN]
  /\ buffer \in Seq(Frame) /\ Len(buffer) <= Target
  /\ cursor \in [base : 0 .. End, produced : Nat, delivered : Nat]
  /\ prefetched \in Seq(Frame) /\ Len(prefetched) <= ReadAhead
  /\ downstream \in Seq(Frame) /\ Len(downstream) <= Depth
  /\ reader \in {"idle", "waiting"} /\ sink \in {"stopped", "running", "suspended"}
  /\ clock \in [base : Nat, processed : Nat]
  /\ control \in [step : {"idle", "joining", "priming"}, to : 0 .. End,
                  operation : {"none", "open", "play", "stop", "close"}]
  /\ heard \in Seq(Frame)

\* what the player has been given since the sink was started; a stopped one drops it
Received == IF sink = "stopped" THEN <<>> ELSE heard \o downstream
Stream   == Received \o prefetched \o buffer
Slack    == Jitter + DecoderJitter
First    == cursor.produced - Len(Stream)

\* the frames of s are played where their stamps say, s starting at place
InPlace(s, place) == \A i \in DOMAIN s : s[i] >= 0 => Near(s[i], place + i - 1, Slack)

\* Every frame of sound, heard or on its way, is played at the time its stamp says,
\* up to the two tolerances: seeks, gaps and overlaps of the soundtrack, and frames
\* that were read ahead before a seek do not move or mix it (decodeLoop(),
\* seekToSample(), nextChunk()).
SoundIsInPlace == InPlace(Stream, First)

Stamps == UNION {IF chunk.start = Unstamped THEN {} ELSE chunk.start .. chunk.start + chunk.count - 1 :
                 chunk \in Range(track)}

\* Silence is played only where the soundtrack has none of its own to play.
SilenceIsAGap ==
  \A i \in DOMAIN Stream :
    Stream[i] = Silence => ~(First + i - 1 - Slack .. First + i - 1 + Slack \subseteq Stamps)

\* When the device reports its end, all of the soundtrack from where it was started
\* has been handed over, and as much as its known length asks for (atEnd(), readData()).
EndIsComplete ==
  AtEnd /\ ~failed /\ control.step = "idle" =>
    /\ \A t \in Stamps :
         t >= cursor.produced - Len(Received) + Slack =>
           \E i \in DOMAIN Received : Received[i] >= 0 /\ Near(Received[i], t, Slack)
    /\ cursor.produced >= total

\* The device's position is true: what was produced since the seek is either delivered
\* or in the buffer (currentSample()).
CursorIsTrue == cursor.base + cursor.delivered + Len(buffer) = cursor.produced

\* The producer sleeps only on a full buffer and never through a request to stop, so
\* that the wake-ups of readData() and stopDecodeThread() are enough.
NoLostWakeup == producer = "asleep" => room <= 0 /\ ~stopping

\* The clock says what is heard ("time heard by the output device", VDQtAudioPlayer.h:132):
\* playback that follows a seek starts with base and processed frames at the place of the
\* next frame to be heard, and no step but a filter change, which starts the sink anew and
\* leaves the base where the last seek put it (2856-2868), parts them (play(), pause(),
\* getPlaybackTimeSeconds()).
NextHeard == First + Len(Received) - Len(downstream)
OnTime    == clock.base + clock.processed = NextHeard
Starts    == control.step = "priming" /\ control.operation = "play" /\ Primed
ClockIsWhatIsHeard ==
  [][/\ (sink # "stopped" /\ OnTime) \/ Starts
     /\ sink' # "stopped"
     => OnTime' \/ RefreshFilters]_vars

\* Stop, seek, open and close return: the GUI thread never waits for ever for the
\* producer it has told to stop.
OperationEnds == control.step # "idle" ~> control.step = "idle"

\* A soundtrack that plays comes to its end unless somebody stops or pauses it, or a
\* seek failed and left no producer.
PlaybackEnds == sink = "running" /\ thread ~> AtEnd \/ sink # "running" \/ ~thread
=============================================================================
