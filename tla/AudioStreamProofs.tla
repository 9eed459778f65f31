-------------------------- MODULE AudioStreamProofs --------------------------
(***************************************************************************)
(* Proofs about AudioStream, for every soundtrack, buffer size and         *)
(* tolerance: type correctness, that no wake-up is lost, that the device's *)
(* counters agree, that all sound is played where its stamp says, that     *)
(* silence is played only in gaps and that no sound is lost on the way.    *)
(* IInv is inductive by itself; CompleteInv is, relative to IInv.          *)
(***************************************************************************)
EXTENDS AudioStream, TLAPS

(* While nothing is open there is no producer, and nothing is buffered or played. *)
ClosedInv ==
  track = <<>> => /\ control.step = "idle" /\ producer = "done"
                  /\ sink = "stopped" /\ reader = "idle"
                  /\ buffer = <<>> /\ prefetched = <<>>

(* The GUI thread waits for the producer only with the sink stopped. *)
BusyInv == control.step # "idle" => sink = "stopped" /\ reader = "idle"

(* The producer decodes only when it has appended all of the last chunk. *)
WorkInv == producer = "decode" => work.pending = <<>> /\ work.gap = 0

(* A soundtrack in presentation order: no stamped chunk starts or ends before one
   that precedes it. *)
InOrder(tr) ==
  \A i, j \in DOMAIN tr :
    i < j /\ tr[i].start # Unstamped /\ tr[j].start # Unstamped =>
      /\ tr[i].start <= tr[j].start
      /\ tr[i].start + tr[i].count <= tr[j].start + tr[j].count

(* The sound that silence must not replace.  Of a soundtrack that goes back in time
   nothing is claimed: what the device fills as a gap may still come. *)
StampsOf(tr) ==
  {t \in Nat : \E i \in DOMAIN tr : /\ tr[i].start # Unstamped
                                    /\ tr[i].start <= t /\ t < tr[i].start + tr[i].count}
Sounding(tr) == IF InOrder(tr) THEN StampsOf(tr) ELSE {}

(* Frame v may be played at place p; the frames of s may, from place p on. *)
Right(tr, v, p) ==
  /\ v >= 0 => Near(v, p, Slack)
  /\ v = Silence => ~(p - Slack .. p + Slack \subseteq Sounding(tr))
Placed(tr, s, p) == \A i \in DOMAIN s : Right(tr, s[i], p + i - 1)

(* Each layer of buffering is in place; so is the chunk that is not appended yet. *)
LayersInv ==
  LET bufferPlace     == cursor.produced - Len(buffer)
      prefetchedPlace == bufferPlace - Len(prefetched)
      downstreamPlace == prefetchedPlace - Len(downstream)
  IN /\ Placed(track, work.pending, cursor.produced + work.gap)
     /\ Placed(track, buffer, bufferPlace)
     /\ Placed(track, prefetched, prefetchedPlace)
     /\ sink # "stopped" => /\ Placed(track, downstream, downstreamPlace)
                            /\ Placed(track, heard, downstreamPlace - Len(heard))

(* How far the producer is when it has appended what it holds. *)
Upto == cursor.produced + work.gap + Len(work.pending)

(* The gap that is being filled is one.  Where a seek has just put the decoder there
   is a time stamp, at or before the place that was sought; after it, the producer
   is never far behind what has been decoded. *)
GapInv == \A p \in cursor.produced .. cursor.produced + work.gap - 1 : Right(track, Silence, p)
SoughtInv ==
  track # <<>> /\ decoder.expected = Unknown =>
    /\ work.gap = 0 /\ work.pending = <<>>
    /\ decoder.next \in DOMAIN track /\ track[decoder.next].start # Unstamped
    /\ track[decoder.next].start <= Max2(cursor.produced, track[1].start)
DecodedInv ==
  track # <<>> /\ decoder.expected # Unknown /\ InOrder(track) =>
    /\ decoder.expected <= Upto + Jitter
    /\ \A i \in DOMAIN track :
         i < decoder.next /\ track[i].start # Unstamped =>
           track[i].start + track[i].count <= decoder.expected + DecoderJitter
ProgressInv == GapInv /\ SoughtInv /\ DecodedInv

Core == TypeOK /\ ClosedInv /\ NoLostWakeup /\ CursorIsTrue /\ BusyInv /\ WorkInv
        /\ LayersInv
IInv == Core /\ ProgressInv

(* A soundtrack that is complete in itself: every chunk has a time stamp, and none
   starts before the one before it has ended. *)
Disjoint(tr) ==
  /\ \A i \in DOMAIN tr : tr[i].start # Unstamped
  /\ \A i, j \in DOMAIN tr : i < j => tr[i].start + tr[i].count <= tr[j].start

Has(s, t) == \E j \in DOMAIN s : s[j] = t

(* What has not been played or dropped was delivered since the last seek. *)
DeliveredInv == Len(Received) + Len(prefetched) <= cursor.delivered

(* The producer ends by itself only when all of the soundtrack is decoded and
   appended, and the length it was told is filled up. *)
EndInv ==
  /\ work.finished => decoder.next > Len(track) /\ Upto >= total
  /\ producer = "finish" \/ (eof /\ ~failed) =>
       work.finished /\ work.gap = 0 /\ work.pending = <<>>
  /\ eof => producer = "done"

(* The producer does not run ahead of what is decoded, unless it has not begun. *)
PaceInv ==
  track # <<>> /\ Disjoint(track) =>
    /\ decoder.expected = Unknown => Upto = cursor.base
    /\ decoder.expected # Unknown =>
         /\ decoder.next > 1 /\ decoder.next - 1 \in DOMAIN track
         /\ LET last == track[decoder.next - 1]
            IN decoder.expected <= last.start + last.count + DecoderJitter
         /\ decoder.next \in DOMAIN track =>
              Upto = cursor.base \/ Upto <= decoder.expected + Jitter

(* Sound that has been decoded lies before what is still to be played, or is in it. *)
Kept(t) == t < First + Slack \/ Has(Stream, t) \/ Has(work.pending, t)
KeptInv ==
  Disjoint(track) =>
    \A i \in DOMAIN track :
      i < decoder.next =>
        \A t \in track[i].start .. track[i].start + track[i].count - 1 : Kept(t)

CompleteInv == DeliveredInv /\ EndInv /\ PaceInv /\ KeptInv

-----------------------------------------------------------------------------
(* A prefix of frames in place is in place, and so is what follows it. *)
LEMMA SplitPlaced ==
  ASSUME NEW s \in Seq(Frame), NEW p \in Int, Placed(track, s, p), NEW n \in 0 .. Len(s)
  PROVE  /\ SubSeq(s, 1, n) \in Seq(Frame) /\ Len(SubSeq(s, 1, n)) = n
         /\ SubSeq(s, n + 1, Len(s)) \in Seq(Frame)
         /\ Len(SubSeq(s, n + 1, Len(s))) = Len(s) - n
         /\ Placed(track, SubSeq(s, 1, n), p)
         /\ Placed(track, SubSeq(s, n + 1, Len(s)), p + n)
<1>1. SubSeq(s, 1, n) \in Seq(Frame) /\ Len(SubSeq(s, 1, n)) = n
  OBVIOUS
<1>2. /\ SubSeq(s, n + 1, Len(s)) \in Seq(Frame)
      /\ Len(SubSeq(s, n + 1, Len(s))) = Len(s) - n
  OBVIOUS
<1>3. Placed(track, SubSeq(s, 1, n), p)
  BY <1>1 DEF Placed
<1>4. Placed(track, SubSeq(s, n + 1, Len(s)), p + n)
  <2>1. SUFFICES ASSUME NEW i \in 1 .. Len(s) - n
                 PROVE  Right(track, SubSeq(s, n + 1, Len(s))[i], p + n + i - 1)
    BY <1>2 DEF Placed
  <2>2. SubSeq(s, n + 1, Len(s))[i] = s[n + i] /\ n + i \in DOMAIN s
    OBVIOUS
  <2>3. Right(track, s[n + i], p + (n + i) - 1)
    BY <2>1, <2>2 DEF Placed
  <2>4. p + (n + i) - 1 = p + n + i - 1
    OBVIOUS
  <2> QED BY <2>2, <2>3, <2>4
<1> QED BY <1>1, <1>2, <1>3, <1>4

(* Frames in place, followed by frames in place, are in place. *)
LEMMA JoinPlaced ==
  ASSUME NEW s \in Seq(Frame), NEW t \in Seq(Frame), NEW p \in Int,
         Placed(track, s, p), Placed(track, t, p + Len(s))
  PROVE  /\ s \o t \in Seq(Frame) /\ Len(s \o t) = Len(s) + Len(t)
         /\ Placed(track, s \o t, p)
<1>1. s \o t \in Seq(Frame) /\ Len(s \o t) = Len(s) + Len(t)
  OBVIOUS
<1>2. SUFFICES ASSUME NEW i \in 1 .. Len(s) + Len(t)
               PROVE  Right(track, (s \o t)[i], p + i - 1)
  BY <1>1 DEF Placed
<1>3. CASE i <= Len(s)
  <2>1. (s \o t)[i] = s[i] /\ i \in DOMAIN s
    BY <1>3
  <2> QED BY <1>2, <2>1 DEF Placed
<1>4. CASE i > Len(s)
  <2>1. (s \o t)[i] = t[i - Len(s)] /\ i - Len(s) \in DOMAIN t
    BY <1>4
  <2>2. Right(track, t[i - Len(s)], p + Len(s) + (i - Len(s)) - 1)
    BY <1>2, <2>1 DEF Placed
  <2>3. p + Len(s) + (i - Len(s)) - 1 = p + i - 1
    OBVIOUS
  <2> QED BY <2>1, <2>2, <2>3
<1> QED BY <1>3, <1>4

(* Nothing is in place anywhere. *)
LEMMA EmptyPlaced == ASSUME NEW tr, NEW p \in Int PROVE Placed(tr, <<>>, p)
BY DEF Placed

(* What a sequence holds that is put together, taken apart, or used at an end. *)
LEMMA HasConcat ==
  ASSUME NEW a \in Seq(Frame), NEW b \in Seq(Frame), NEW t
  PROVE  /\ a \o b \in Seq(Frame) /\ Len(a \o b) = Len(a) + Len(b)
         /\ Has(a \o b, t) <=> Has(a, t) \/ Has(b, t)
<1>1. ASSUME NEW i \in DOMAIN a PROVE i \in DOMAIN (a \o b) /\ (a \o b)[i] = a[i]
  OBVIOUS
<1>2. ASSUME NEW i \in DOMAIN b
      PROVE  Len(a) + i \in DOMAIN (a \o b) /\ (a \o b)[Len(a) + i] = b[i]
  OBVIOUS
<1>3. ASSUME NEW i \in DOMAIN (a \o b)
      PROVE  \/ i \in DOMAIN a /\ (a \o b)[i] = a[i]
             \/ i - Len(a) \in DOMAIN b /\ (a \o b)[i] = b[i - Len(a)]
  OBVIOUS
<1>4. a \o b \in Seq(Frame) /\ Len(a \o b) = Len(a) + Len(b)
  OBVIOUS
<1>5. Has(a \o b, t) <=> Has(a, t) \/ Has(b, t)
  BY <1>1, <1>2, <1>3 DEF Has
<1> QED BY <1>4, <1>5

LEMMA HasSplit ==
  ASSUME NEW s \in Seq(Frame), NEW n \in 0 .. Len(s), NEW t
  PROVE  Has(s, t) <=> Has(SubSeq(s, 1, n), t) \/ Has(SubSeq(s, n + 1, Len(s)), t)
<1> DEFINE first == SubSeq(s, 1, n)
           rest  == SubSeq(s, n + 1, Len(s))
<1>1. ASSUME NEW i \in DOMAIN s, i <= n PROVE i \in DOMAIN first /\ first[i] = s[i]
  BY <1>1
<1>2. ASSUME NEW i \in DOMAIN s, i > n PROVE i - n \in DOMAIN rest /\ rest[i - n] = s[i]
  BY <1>2
<1>3. ASSUME NEW i \in DOMAIN first PROVE i \in DOMAIN s /\ first[i] = s[i]
  OBVIOUS
<1>4. ASSUME NEW i \in DOMAIN rest PROVE n + i \in DOMAIN s /\ rest[i] = s[n + i]
  OBVIOUS
<1>5. \A i \in DOMAIN s : i <= n \/ i > n
  OBVIOUS
<1> HIDE DEF first, rest
<1>6. ASSUME Has(s, t) PROVE Has(first, t) \/ Has(rest, t)
  <2>1. PICK i \in DOMAIN s : s[i] = t
    BY <1>6 DEF Has
  <2>2. CASE i <= n
    BY <1>1, <2>1, <2>2 DEF Has
  <2>3. CASE i > n
    <3>1. i - n \in DOMAIN rest /\ rest[i - n] = t
      BY <1>2, <2>1, <2>3
    <3> QED BY <3>1 DEF Has
  <2> QED BY <1>5, <2>2, <2>3
<1>7. ASSUME Has(first, t) PROVE Has(s, t)
  BY <1>3, <1>7 DEF Has
<1>8. ASSUME Has(rest, t) PROVE Has(s, t)
  <2>1. PICK i \in DOMAIN rest : rest[i] = t
    BY <1>8 DEF Has
  <2>2. n + i \in DOMAIN s /\ s[n + i] = t
    BY <1>4, <2>1
  <2> QED BY <2>2 DEF Has
<1> QED BY <1>6, <1>7, <1>8 DEF first, rest

LEMMA HasEnds ==
  ASSUME NEW s \in Seq(Frame), NEW t
  PROVE  /\ \A v \in Frame : Has(Append(s, v), t) <=> Has(s, t) \/ t = v
         /\ s # <<>> => (Has(s, t) <=> t = Head(s) \/ Has(Tail(s), t))
<1>1. ASSUME NEW v \in Frame PROVE Has(<<v>>, t) <=> t = v
  BY DEF Has
<1>2. ASSUME NEW v \in Frame PROVE Append(s, v) = s \o <<v>> /\ <<v>> \in Seq(Frame)
  OBVIOUS
<1>3. ASSUME NEW v \in Frame PROVE Has(Append(s, v), t) <=> Has(s, t) \/ t = v
  <2> DEFINE w == <<v>>
  <2>1. w \in Seq(Frame) /\ Append(s, v) = s \o w /\ (Has(w, t) <=> t = v)
    BY <1>1, <1>2
  <2> HIDE DEF w
  <2>2. Has(s \o w, t) <=> Has(s, t) \/ Has(w, t)
    BY <2>1, HasConcat
  <2> QED BY <2>1, <2>2
<1>4. ASSUME s # <<>> PROVE Has(s, t) <=> t = Head(s) \/ Has(Tail(s), t)
  <2>1. 1 \in DOMAIN s /\ Head(s) = s[1]
    BY <1>4
  <2>2. ASSUME NEW i \in DOMAIN s, i # 1 PROVE i - 1 \in DOMAIN Tail(s) /\ Tail(s)[i - 1] = s[i]
    BY <1>4, <2>2
  <2>3. ASSUME NEW i \in DOMAIN Tail(s) PROVE i + 1 \in DOMAIN s /\ Tail(s)[i] = s[i + 1]
    BY <1>4
  <2> DEFINE rest == Tail(s)
  <2>4. ASSUME Has(s, t) PROVE t = Head(s) \/ Has(rest, t)
    <3>1. PICK i \in DOMAIN s : s[i] = t
      BY <2>4 DEF Has
    <3>2. CASE i = 1
      BY <2>1, <3>1, <3>2
    <3>3. CASE i # 1
      <4>1. i - 1 \in DOMAIN rest /\ rest[i - 1] = t
        BY <2>2, <3>1, <3>3
      <4> HIDE DEF rest
      <4> QED BY <4>1 DEF Has
    <3> QED BY <3>2, <3>3
  <2>5. ASSUME Has(rest, t) PROVE Has(s, t)
    <3>1. PICK i \in DOMAIN rest : rest[i] = t
      BY <2>5 DEF Has
    <3>2. i + 1 \in DOMAIN s /\ s[i + 1] = t
      BY <2>3, <3>1
    <3> QED BY <3>2 DEF Has
  <2>6. CASE t = Head(s)
    BY <2>1, <2>6 DEF Has
  <2> QED BY <2>4, <2>5, <2>6
<1> QED BY <1>3, <1>4

-----------------------------------------------------------------------------
(* What the soundtracks, lengths and positions are, as the provers need it. *)
LEMMA Domains ==
  /\ Frame \subseteq Int /\ Slack \in Nat /\ Silence \in Frame /\ Silence < 0
  /\ <<>> \notin Soundtracks /\ Soundtracks \subseteq Seq(Chunk)
  /\ Lengths \subseteq 0 .. End /\ Positions \subseteq 0 .. End /\ 0 \in 0 .. End
  /\ Target \in Nat /\ ReadAhead \in Nat /\ Depth \in Nat
  /\ Target > 0 /\ ReadAhead > 0 /\ Depth > 0
  /\ Jitter \in Nat /\ DecoderJitter \in Nat /\ End \in Nat
BY AudioAssumption DEF Frame, Slack, Silence, Unstamped

(* The initial state. *)
LEMMA InitInv == Init => Core
<1> SUFFICES ASSUME Init PROVE Core
  OBVIOUS
<1>1. TypeOK
  <2>1. <<>> \in Seq(Frame) /\ Len(<<>>) = 0
    OBVIOUS
  <2>2. decoder \in [next : Nat \ {0}, expected : Nat \cup {Unknown}]
    BY DEF Init
  <2>3. work \in [pending : Seq(Frame), gap : Nat, finished : BOOLEAN]
    BY <2>1 DEF Init, NoWork
  <2>4. /\ control \in [step : {"idle", "joining", "priming"}, to : 0 .. End,
                       operation : {"none", "open", "play", "stop", "close"}]
        /\ cursor \in [base : 0 .. End, produced : Nat, delivered : Nat]
        /\ clock \in [base : Nat, processed : Nat]
    BY Domains DEF Init, Idle
  <2>5. thread \in BOOLEAN /\ stopping \in BOOLEAN /\ eof \in BOOLEAN /\ failed \in BOOLEAN
    BY Zenon DEF Init
  <2>6. /\ buffer \in Seq(Frame) /\ Len(buffer) <= Target
        /\ prefetched \in Seq(Frame) /\ Len(prefetched) <= ReadAhead
        /\ downstream \in Seq(Frame) /\ Len(downstream) <= Depth
        /\ heard \in Seq(Frame)
    BY <2>1, Domains DEF Init
  <2>7. /\ track \in Soundtracks \cup {<<>>} /\ total \in Lengths \cup {0}
        /\ producer \in {"check", "append", "asleep", "decode", "finish", "done"}
        /\ reader \in {"idle", "waiting"} /\ sink \in {"stopped", "running", "suspended"}
    BY DEF Init
  <2> QED BY <2>2, <2>3, <2>4, <2>5, <2>6, <2>7 DEF TypeOK
<1>2. LayersInv
  BY EmptyPlaced DEF Init, LayersInv, NoWork
<1> QED BY <1>1, <1>2 DEF Init, IInv, Core, ClosedInv, NoLostWakeup, CursorIsTrue, BusyInv, WorkInv,
           Idle

(* A chunk is placed near its time stamp. *)
LEMMA PlaceIsNear ==
  ASSUME TypeOK, NEW chunk \in Chunk
  PROVE  /\ PlaceOf(chunk) \in Nat
         /\ chunk.start # Unstamped => /\ StampedStart(chunk) \in Nat
                                       /\ Near(chunk.start, PlaceOf(chunk), Slack)
<1> DEFINE start == StampedStart(chunk)
<1>1. /\ cursor.produced \in Nat /\ decoder.expected \in Nat \cup {Unknown}
      /\ chunk.start \in Nat \cup {Unstamped}
  BY Domains DEF TypeOK, Chunk
<1>2. CASE chunk.start = Unstamped
  <2>1. start = Unknown
    BY <1>2 DEF StampedStart
  <2> QED BY <1>1, <1>2, <2>1 DEF PlaceOf
<1>3. CASE chunk.start # Unstamped
  <2>1. start \in Nat /\ Near(chunk.start, start, DecoderJitter)
    BY <1>1, <1>3, Domains DEF StampedStart, Near
  <2>2. PlaceOf(chunk) \in Nat /\ Near(start, PlaceOf(chunk), Jitter)
    <3>1. start # Unknown
      BY <2>1 DEF Unknown
    <3>2. PlaceOf(chunk) = IF Near(start, cursor.produced, Jitter) THEN cursor.produced ELSE start
      BY <3>1 DEF PlaceOf
    <3> HIDE DEF start
    <3> QED BY <1>1, <2>1, <3>2, Domains DEF Near
  <2>3. Near(chunk.start, PlaceOf(chunk), Slack)
    <3> HIDE DEF start
    <3> QED BY <1>1, <1>3, <2>1, <2>2, Domains DEF Near, Slack
  <2> QED BY <2>1, <2>2, <2>3
<1> QED BY <1>2, <1>3

(* What is left of a chunk is in place after what it overlaps. *)
LEMMA FramesPlaced ==
  ASSUME NEW chunk \in Chunk, NEW from \in 0 .. chunk.count - 1, NEW place \in Nat,
         chunk.start # Unstamped => Near(chunk.start, place, Slack)
  PROVE  Frames(chunk, from) \in Seq(Frame) /\ Placed(track, Frames(chunk, from), place + from)
<1>1. /\ chunk.start \in (0 .. End) \cup {Unstamped} /\ chunk.count \in 1 .. End
      /\ End \in Nat /\ from \in Nat /\ chunk.count - from \in Nat
  BY Domains DEF Chunk
<1>2. Frames(chunk, from) \in Seq(Frame)
  <2>1. ASSUME NEW i \in 1 .. chunk.count - from, chunk.start # Unstamped
        PROVE  chunk.start + from + i - 1 \in Frame
    BY <1>1, <2>1 DEF Frame
  <2>2. Unstamped \in Frame
    BY DEF Frame
  <2> QED BY <1>1, <2>1, <2>2 DEF Frames
<1>3. DOMAIN Frames(chunk, from) = 1 .. chunk.count - from
  BY DEF Frames
<1>4. ASSUME NEW i \in 1 .. chunk.count - from
      PROVE  Right(track, Frames(chunk, from)[i], place + from + i - 1)
  <2>1. Frames(chunk, from)[i] = IF chunk.start = Unstamped THEN Unstamped
                                 ELSE chunk.start + from + i - 1
    BY DEF Frames
  <2>2. CASE chunk.start = Unstamped
    BY <2>1, <2>2 DEF Right, Unstamped, Silence
  <2>3. CASE chunk.start # Unstamped
    <3>1. /\ chunk.start \in Nat /\ chunk.start <= place + Slack /\ place <= chunk.start + Slack
          /\ i \in Nat /\ i >= 1 /\ Slack \in Nat
      BY <1>1, <2>3, Domains DEF Near
    <3>2. /\ chunk.start + from + i - 1 \in Nat
          /\ Near(chunk.start + from + i - 1, place + from + i - 1, Slack)
      BY <1>1, <3>1 DEF Near
    <3> QED BY <2>1, <2>3, <3>2 DEF Right, Silence
  <2> QED BY <2>2, <2>3
<1> QED BY <1>2, <1>3, <1>4 DEF Placed

-----------------------------------------------------------------------------
(* The producer: one step per action. *)
LEMMA ProducerKeeps == IInv /\ ProducerStep => Core'
<1> SUFFICES ASSUME IInv, ProducerStep PROVE Core'
  OBVIOUS
<1> USE DEF ring, user
<1>1. CASE Check
  <2>1. TypeOK'
    BY <1>1 DEF IInv, Core, TypeOK, Check
  <2>2. LayersInv'
    BY <1>1 DEF IInv, Core, LayersInv, Check
  <2>3. (ClosedInv /\ NoLostWakeup /\ CursorIsTrue /\ BusyInv /\ WorkInv)'
    BY <1>1 DEF IInv, Core, Check, ClosedInv, NoLostWakeup, CursorIsTrue, BusyInv, WorkInv, TypeOK, room
  <2> QED BY <2>1, <2>2, <2>3 DEF IInv, Core
<1>2. CASE AppendFrames
  <2> DEFINE silent == work.gap > 0
             n      == Min2(room, IF silent THEN work.gap ELSE Len(work.pending))
             frames == IF silent THEN [i \in 1 .. n |-> Silence] ELSE SubSeq(work.pending, 1, n)
             place  == cursor.produced
  <2>1. /\ buffer \in Seq(Frame) /\ work.pending \in Seq(Frame) /\ work.gap \in Nat
        /\ place \in Nat /\ Len(buffer) \in Nat /\ Len(work.pending) \in Nat
        /\ work \in [pending : Seq(Frame), gap : Nat, finished : BOOLEAN]
        /\ cursor \in [base : 0 .. End, produced : Nat, delivered : Nat]
        /\ Placed(track, work.pending, place + work.gap) /\ Placed(track, buffer, place - Len(buffer))
    <3>1. TypeOK /\ LayersInv
      BY DEF IInv, Core
    <3>2. /\ buffer \in Seq(Frame)
          /\ work \in [pending : Seq(Frame), gap : Nat, finished : BOOLEAN]
          /\ cursor \in [base : 0 .. End, produced : Nat, delivered : Nat]
      BY <3>1 DEF TypeOK
    <3>3. Placed(track, work.pending, place + work.gap) /\ Placed(track, buffer, place - Len(buffer))
      BY <3>1 DEF LayersInv
    <3> QED BY <3>2, <3>3
  <2>2. /\ buffer' = buffer \o frames /\ cursor' = [cursor EXCEPT !.produced = @ + n]
        /\ work' = IF silent THEN [work EXCEPT !.gap = @ - n]
                   ELSE [work EXCEPT !.pending = SubSeq(@, n + 1, Len(@))]
        /\ producer' = "check" /\ room > 0
    BY <1>2 DEF AppendFrames
  <2>3. /\ n \in Nat /\ Len(buffer) + n <= Target
        /\ silent => n <= work.gap
        /\ ~silent => n <= Len(work.pending)
    <3>1. /\ room \in Nat /\ room = Target - Len(buffer) /\ work.gap \in Nat
          /\ Len(work.pending) \in Nat /\ Len(buffer) \in Nat /\ Target \in Nat
      <4>1. room = Target - Len(buffer)
        BY DEF room
      <4>2. /\ Len(buffer) \in Nat /\ Len(work.pending) \in Nat /\ work.gap \in Nat
            /\ room > 0
        BY <2>1, <2>2
      <4>3. Target \in Nat
        BY Domains
      <4> QED BY <4>1, <4>2, <4>3
    <3>2. CASE silent
      <4>1. n = Min2(room, work.gap)
        BY <3>2
      <4> QED BY <3>1, <3>2, <4>1 DEF Min2
    <3>3. CASE ~silent
      <4>1. n = Min2(room, Len(work.pending))
        BY <3>3
      <4> QED BY <3>1, <3>3, <4>1 DEF Min2
    <3> QED BY <3>2, <3>3
  <2>4. /\ frames \in Seq(Frame) /\ Len(frames) = n /\ Placed(track, frames, place)
        /\ work' \in [pending : Seq(Frame), gap : Nat, finished : BOOLEAN]
        /\ Placed(track, work'.pending, place + n + work'.gap)
    <3>1. CASE silent
      <4>1. frames \in Seq(Frame) /\ Len(frames) = n /\ \A i \in DOMAIN frames : frames[i] = Silence
        BY <3>1, <2>3, Domains
      <4>2. Placed(track, frames, place)
        <5>1. \A q \in place .. place + work.gap - 1 : Right(track, Silence, q)
          BY DEF IInv, ProgressInv, GapInv
        <5>2. ASSUME NEW i \in DOMAIN frames PROVE Right(track, frames[i], place + i - 1)
          <6> HIDE DEF n, frames
          <6>1. i \in 1 .. n /\ frames[i] = Silence
            BY <4>1, <2>3
          <6>2. place + i - 1 \in place .. place + work.gap - 1
            <7>1. place \in Nat /\ work.gap \in Nat /\ n \in Nat /\ n <= work.gap
              BY <2>1, <2>3, <3>1
            <7> HIDE DEF place
            <7> QED BY <6>1, <7>1
          <6> QED BY <5>1, <6>1, <6>2
        <5> HIDE DEF frames
        <5> QED BY <5>2 DEF Placed
      <4>3. work' = [work EXCEPT !.gap = @ - n]
        BY <2>2, <3>1
      <4>4. /\ work'.pending = work.pending /\ place + n + work'.gap = place + work.gap
            /\ work' \in [pending : Seq(Frame), gap : Nat, finished : BOOLEAN]
        <5> HIDE DEF n
        <5>1. work.gap - n \in Nat /\ place + n + (work.gap - n) = place + work.gap
          BY <2>1, <2>3, <3>1
        <5>2. work'.pending = work.pending /\ work'.gap = work.gap - n
          BY <2>1, <4>3
        <5>3. work' \in [pending : Seq(Frame), gap : Nat, finished : BOOLEAN]
          BY <2>1, <4>3, <5>1
        <5> QED BY <5>1, <5>2, <5>3
      <4> HIDE DEF n, frames
      <4> QED BY <2>1, <4>1, <4>2, <4>4
    <3>2. CASE ~silent
      <4>1. frames = SubSeq(work.pending, 1, n) /\ n \in 0 .. Len(work.pending)
        BY <2>1, <2>3, <3>2
      <4>2. work' = [work EXCEPT !.pending = SubSeq(@, n + 1, Len(@))] /\ work.gap = 0
        BY <2>1, <2>2, <3>2
      <4> HIDE DEF n, frames
      <4>3. Placed(track, work.pending, place)
        BY <2>1, <4>2
      <4>4. /\ SubSeq(work.pending, 1, n) \in Seq(Frame) /\ Len(SubSeq(work.pending, 1, n)) = n
            /\ SubSeq(work.pending, n + 1, Len(work.pending)) \in Seq(Frame)
            /\ Placed(track, SubSeq(work.pending, 1, n), place)
            /\ Placed(track, SubSeq(work.pending, n + 1, Len(work.pending)), place + n)
        <5>1. work.pending \in Seq(Frame) /\ place \in Int
          BY <2>1
        <5> HIDE DEF place
        <5> QED BY <4>1, <4>3, <5>1, SplitPlaced
      <4>5. /\ work'.pending = SubSeq(work.pending, n + 1, Len(work.pending))
            /\ work'.gap = 0 /\ work'.finished = work.finished
        BY <2>1, <4>2
      <4>6. work' \in [pending : Seq(Frame), gap : Nat, finished : BOOLEAN]
        BY <2>1, <4>2, <4>4
      <4>7. place + n + work'.gap = place + n
        BY <2>1, <2>3, <4>5
      <4> QED BY <4>1, <4>4, <4>5, <4>6, <4>7
    <3> QED BY <3>1, <3>2
  <2> HIDE DEF n, frames
  <2>5. /\ buffer' \in Seq(Frame) /\ Len(buffer') = Len(buffer) + n
        /\ Placed(track, buffer', place - Len(buffer))
    <3>1. place - Len(buffer) \in Int /\ place - Len(buffer) + Len(buffer) = place
      BY <2>1
    <3> QED BY <2>1, <2>2, <2>4, <3>1, JoinPlaced
  <2>6. /\ cursor' \in [base : 0 .. End, produced : Nat, delivered : Nat]
        /\ cursor'.produced = place + n /\ cursor'.base = cursor.base
        /\ cursor'.delivered = cursor.delivered
    <3>1. /\ cursor \in [base : 0 .. End, produced : Nat, delivered : Nat]
          /\ cursor' = [cursor EXCEPT !.produced = @ + n]
          /\ cursor.produced + n \in Nat
      BY <2>1, <2>2, <2>3
    <3> QED BY <3>1
  <2>7. cursor'.produced - Len(buffer') = place - Len(buffer)
    <3>1. place \in Int /\ n \in Int /\ Len(buffer) \in Int
      BY <2>1, <2>3
    <3>2. cursor'.produced = place + n /\ Len(buffer') = Len(buffer) + n
      BY <2>5, <2>6
    <3> HIDE DEF place
    <3> QED BY <3>1, <3>2
  <2>8. TypeOK'
    <3>1. /\ buffer' \in Seq(Frame) /\ Len(buffer') <= Target /\ producer' = "check"
          /\ work' \in [pending : Seq(Frame), gap : Nat, finished : BOOLEAN]
          /\ cursor' \in [base : 0 .. End, produced : Nat, delivered : Nat]
      BY <2>2, <2>3, <2>4, <2>5, <2>6
    <3>2. UNCHANGED <<track, total, decoder, thread, stopping, eof, failed, prefetched, reader,
                      downstream, user, heard>>
      BY <1>2 DEF AppendFrames
    <3>3. TypeOK
      BY DEF IInv, Core
    <3> QED BY <3>1, <3>2, <3>3 DEF TypeOK
  <2>9. LayersInv'
    BY <1>2, <2>4, <2>5, <2>6, <2>7 DEF IInv, Core, LayersInv, AppendFrames
  <2>10. CursorIsTrue'
    BY <2>1, <2>3, <2>5, <2>6 DEF IInv, Core, CursorIsTrue
  <2>11. (ClosedInv /\ NoLostWakeup /\ BusyInv /\ WorkInv)'
    BY <1>2 DEF IInv, Core, AppendFrames, ClosedInv, NoLostWakeup, BusyInv, WorkInv
  <2> QED BY <2>8, <2>9, <2>10, <2>11 DEF IInv, Core
<1>3. CASE AppendBlocked
  <2>1. TypeOK'
    BY <1>3 DEF IInv, Core, TypeOK, AppendBlocked
  <2>2. LayersInv'
    BY <1>3 DEF IInv, Core, LayersInv, AppendBlocked
  <2>3. (ClosedInv /\ NoLostWakeup /\ CursorIsTrue /\ BusyInv /\ WorkInv)'
    BY <1>3 DEF IInv, Core, AppendBlocked, ClosedInv, NoLostWakeup, CursorIsTrue, BusyInv, WorkInv, room
  <2> QED BY <2>1, <2>2, <2>3 DEF IInv, Core
<1>4. CASE Finish
  <2>1. TypeOK'
    BY <1>4 DEF IInv, Core, TypeOK, Finish
  <2>2. LayersInv'
    BY <1>4 DEF IInv, Core, LayersInv, Finish
  <2>3. (ClosedInv /\ NoLostWakeup /\ CursorIsTrue /\ BusyInv /\ WorkInv)'
    BY <1>4 DEF IInv, Core, Finish, ClosedInv, NoLostWakeup, CursorIsTrue, BusyInv, WorkInv
  <2> QED BY <2>1, <2>2, <2>3 DEF IInv, Core
<1>5. CASE DecodeChunk
  <2> DEFINE chunk == track[decoder.next]
             place == PlaceOf(chunk)
             late  == Max2(0, cursor.produced - place)
             gap   == Max2(0, place - cursor.produced)
  <2>1. /\ cursor.produced \in Nat
        /\ work \in [pending : Seq(Frame), gap : Nat, finished : BOOLEAN]
        /\ decoder \in [next : Nat \ {0}, expected : Nat \cup {Unknown}]
        /\ track \in Soundtracks
    <3>1. track # <<>>
      BY <1>5 DEF IInv, Core, ClosedInv, DecodeChunk
    <3>2. TypeOK
      BY DEF IInv, Core
    <3> QED BY <3>1, <3>2 DEF TypeOK
  <2>2. chunk \in Chunk
    BY <1>5, <2>1, Domains DEF DecodeChunk
  <2>3. /\ place \in Nat
        /\ chunk.start # Unstamped => /\ StampedStart(chunk) \in Nat
                                      /\ Near(chunk.start, place, Slack)
    BY <2>2, PlaceIsNear DEF IInv, Core
  <2>4. chunk.count \in 1 .. End /\ chunk.count \in Nat
    BY <2>2, Domains DEF Chunk
  <2>5. /\ decoder' = [next |-> decoder.next + 1,
                       expected |-> IF chunk.start = Unstamped THEN decoder.expected
                                    ELSE StampedStart(chunk) + chunk.count]
        /\ work' = IF late >= chunk.count THEN work
                   ELSE [work EXCEPT !.gap = gap, !.pending = Frames(chunk, late)]
        /\ producer' = "check" /\ cursor' = cursor
    BY <1>5 DEF DecodeChunk
  <2> HIDE DEF chunk, place
  <2>6. late \in Nat /\ gap \in Nat /\ cursor.produced + gap = place + late
    BY <2>1, <2>3 DEF Max2
  <2> HIDE DEF late, gap
  <2>7. decoder' \in [next : Nat \ {0}, expected : Nat \cup {Unknown}]
    BY <2>1, <2>3, <2>4, <2>5
  <2>8. /\ work' \in [pending : Seq(Frame), gap : Nat, finished : BOOLEAN]
        /\ Placed(track, work'.pending, cursor.produced + work'.gap)
    <3>1. CASE late >= chunk.count
      BY <2>1, <2>5, <3>1 DEF IInv, Core, LayersInv
    <3>2. CASE ~(late >= chunk.count)
      <4>1. late \in 0 .. chunk.count - 1
        BY <2>4, <2>6, <3>2
      <4>2. Frames(chunk, late) \in Seq(Frame) /\ Placed(track, Frames(chunk, late), place + late)
        BY <2>2, <2>3, <4>1, FramesPlaced
      <4>3. work' = [work EXCEPT !.gap = gap, !.pending = Frames(chunk, late)]
        BY <2>5, <3>2
      <4>4. work'.gap = gap /\ work'.pending = Frames(chunk, late)
        BY <2>1, <4>3
      <4>5. work' \in [pending : Seq(Frame), gap : Nat, finished : BOOLEAN]
        BY <2>1, <2>6, <4>2, <4>3
      <4> QED BY <2>6, <4>2, <4>4, <4>5
    <3> QED BY <3>1, <3>2
  <2>9. TypeOK'
    BY <1>5, <2>5, <2>7, <2>8 DEF IInv, Core, TypeOK, DecodeChunk
  <2>10. LayersInv'
    BY <1>5, <2>5, <2>8 DEF IInv, Core, LayersInv, DecodeChunk
  <2>11. (ClosedInv /\ NoLostWakeup /\ CursorIsTrue /\ BusyInv /\ WorkInv)'
    BY <1>5 DEF IInv, Core, DecodeChunk, ClosedInv, NoLostWakeup, CursorIsTrue, BusyInv, WorkInv
  <2> QED BY <2>9, <2>10, <2>11 DEF IInv, Core
<1>6. CASE DecodeEnd
  <2>1. /\ work \in [pending : Seq(Frame), gap : Nat, finished : BOOLEAN] /\ work.pending = <<>>
        /\ cursor.produced \in Nat /\ total \in Nat
    <3>1. total \in Nat
      BY Domains DEF IInv, Core, TypeOK
    <3> QED BY <1>6, <3>1 DEF IInv, Core, TypeOK, WorkInv, DecodeEnd
  <2>2. Max2(0, total - cursor.produced) \in Nat
    BY <2>1 DEF Max2
  <2>3. /\ work' \in [pending : Seq(Frame), gap : Nat, finished : BOOLEAN]
        /\ work'.pending = <<>>
    <3>1. work' = [work EXCEPT !.gap = Max2(0, total - cursor.produced), !.finished = TRUE]
      BY <1>6 DEF DecodeEnd
    <3> QED BY <2>1, <2>2, <3>1
  <2>4. TypeOK'
    BY <1>6, <2>3 DEF IInv, Core, TypeOK, DecodeEnd
  <2>5. LayersInv'
    <3>1. cursor.produced + work'.gap \in Int
      BY <2>1, <2>3
    <3>2. Placed(track, work'.pending, cursor.produced + work'.gap)
      BY <2>3, <3>1, EmptyPlaced
    <3> QED BY <1>6, <3>2 DEF IInv, Core, LayersInv, DecodeEnd
  <2>6. (ClosedInv /\ NoLostWakeup /\ CursorIsTrue /\ BusyInv /\ WorkInv)'
    BY <1>6 DEF IInv, Core, DecodeEnd, ClosedInv, NoLostWakeup, CursorIsTrue, BusyInv, WorkInv
  <2> QED BY <2>4, <2>5, <2>6 DEF IInv, Core
<1>7. CASE DecodeFails
  <2>1. TypeOK'
    BY <1>7 DEF IInv, Core, TypeOK, DecodeFails
  <2>2. LayersInv'
    BY <1>7 DEF IInv, Core, LayersInv, DecodeFails
  <2>3. (ClosedInv /\ NoLostWakeup /\ CursorIsTrue /\ BusyInv /\ WorkInv)'
    BY <1>7 DEF IInv, Core, DecodeFails, ClosedInv, NoLostWakeup, CursorIsTrue, BusyInv, WorkInv
  <2> QED BY <2>1, <2>2, <2>3 DEF IInv, Core
<1> QED BY <1>1, <1>2, <1>3, <1>4, <1>5, <1>6, <1>7 DEF ProducerStep

(* readData() moves frames from the buffer to the read-ahead, in place, and wakes the
   producer when it made room. *)
LEMMA TakeKeeps ==
  ASSUME IInv, NEW n \in 0 .. Len(buffer), Take(n), Len(prefetched) + n <= ReadAhead,
         UNCHANGED <<track, work, stopping, downstream, sink, heard>>
  PROVE  /\ buffer' \in Seq(Frame) /\ Len(buffer') <= Target
         /\ prefetched' \in Seq(Frame) /\ Len(prefetched') <= ReadAhead
         /\ cursor' \in [base : 0 .. End, produced : Nat, delivered : Nat]
         /\ producer' \in {"check", "append", "asleep", "decode", "finish", "done"}
         /\ NoLostWakeup' /\ CursorIsTrue' /\ WorkInv' /\ LayersInv'
<1> DEFINE place == cursor.produced - Len(buffer)
           start == place - Len(prefetched)
<1>1. /\ buffer \in Seq(Frame) /\ prefetched \in Seq(Frame)
      /\ Len(buffer) \in Nat /\ Len(prefetched) \in Nat /\ Len(downstream) \in Nat
      /\ Len(heard) \in Nat /\ Len(buffer) <= Target /\ n \in Nat
      /\ cursor \in [base : 0 .. End, produced : Nat, delivered : Nat]
      /\ producer \in {"check", "append", "asleep", "decode", "finish", "done"}
  BY DEF IInv, Core, TypeOK
<1>2. place \in Int /\ start \in Int /\ start + Len(prefetched) = place
  BY <1>1
<1>3. Placed(track, buffer, place) /\ Placed(track, prefetched, start)
  BY DEF IInv, Core, LayersInv
<1>4. /\ prefetched' = prefetched \o SubSeq(buffer, 1, n)
      /\ buffer' = SubSeq(buffer, n + 1, Len(buffer))
      /\ cursor' = [cursor EXCEPT !.delivered = @ + n]
      /\ producer' = IF n > 0 THEN Woken ELSE producer
  BY DEF Take
<1> HIDE DEF place, start
<1>5. /\ SubSeq(buffer, 1, n) \in Seq(Frame) /\ Len(SubSeq(buffer, 1, n)) = n
      /\ buffer' \in Seq(Frame) /\ Len(buffer') = Len(buffer) - n
      /\ Placed(track, SubSeq(buffer, 1, n), place) /\ Placed(track, buffer', place + n)
  BY <1>1, <1>2, <1>3, <1>4, SplitPlaced
<1>6. /\ prefetched' \in Seq(Frame) /\ Len(prefetched') = Len(prefetched) + n
      /\ Placed(track, prefetched', start)
  BY <1>1, <1>2, <1>3, <1>4, <1>5, JoinPlaced
<1>7. /\ cursor' \in [base : 0 .. End, produced : Nat, delivered : Nat]
      /\ cursor'.produced = cursor.produced /\ cursor'.base = cursor.base
      /\ cursor'.delivered = cursor.delivered + n
  <2>1. cursor.delivered + n \in Nat
    BY <1>1
  <2> QED BY <1>1, <1>4, <2>1
<1>8. /\ cursor'.produced - Len(buffer') = place + n
      /\ cursor'.produced - Len(buffer') - Len(prefetched') = start
  <2>1. /\ place = cursor.produced - Len(buffer) /\ start = place - Len(prefetched)
        /\ cursor.produced \in Int /\ Len(buffer) \in Int /\ Len(prefetched) \in Int
        /\ n \in Int
    BY <1>1 DEF place, start
  <2>2. /\ cursor'.produced = cursor.produced /\ Len(buffer') = Len(buffer) - n
        /\ Len(prefetched') = Len(prefetched) + n
    BY <1>5, <1>6, <1>7
  <2>3. cursor'.produced - Len(buffer') = place + n
    BY <2>1, <2>2
  <2>4. (place + n) - (Len(prefetched) + n) = start
    BY <2>1
  <2> QED BY <2>2, <2>3, <2>4
<1>9. LayersInv'
  BY <1>5, <1>6, <1>7, <1>8 DEF IInv, Core, LayersInv, place, start
<1>10. CursorIsTrue'
  BY <1>1, <1>5, <1>7 DEF IInv, Core, CursorIsTrue
<1>11. Len(buffer') <= Target /\ Len(prefetched') <= ReadAhead
  BY <1>1, <1>5, <1>6, Domains
<1>12. /\ producer' \in {"check", "append", "asleep", "decode", "finish", "done"}
       /\ producer' = "decode" => producer = "decode"
       /\ producer' = "asleep" => producer = "asleep" /\ n = 0
  BY <1>1, <1>4 DEF Woken
<1>13. WorkInv' /\ NoLostWakeup'
  BY <1>1, <1>5, <1>12 DEF IInv, Core, WorkInv, NoLostWakeup, room
<1> QED BY <1>5, <1>6, <1>7, <1>9, <1>10, <1>11, <1>12, <1>13

(* The sound device: reading, filling the filter device, presenting. *)
LEMMA DeviceKeeps == IInv /\ DeviceStep => Core'
<1> SUFFICES ASSUME IInv, DeviceStep PROVE Core'
  OBVIOUS
<1> USE DEF ring, user
<1>1. CASE Read
  <2> DEFINE n == Min2(ReadAhead, Len(buffer))
  <2>1. n \in 0 .. Len(buffer) /\ Len(prefetched) + n <= ReadAhead
    <3>1. Len(buffer) \in Nat /\ Len(prefetched) = 0
      BY <1>1 DEF IInv, Core, TypeOK, Read
    <3> QED BY <3>1, Domains DEF Min2
  <2>2. Take(n) /\ UNCHANGED <<track, work, stopping, downstream, sink, heard>>
    BY <1>1 DEF Read
  <2> HIDE DEF n
  <2>3. /\ buffer' \in Seq(Frame) /\ Len(buffer') <= Target
        /\ prefetched' \in Seq(Frame) /\ Len(prefetched') <= ReadAhead
        /\ cursor' \in [base : 0 .. End, produced : Nat, delivered : Nat]
        /\ producer' \in {"check", "append", "asleep", "decode", "finish", "done"}
        /\ NoLostWakeup' /\ CursorIsTrue' /\ WorkInv' /\ LayersInv'
    BY <2>1, <2>2, TakeKeeps
  <2>4. /\ UNCHANGED <<track, total, decoder, thread, work, stopping, eof, failed, downstream,
                       user, heard>>
        /\ reader' \in {"idle", "waiting"} /\ sink = "running"
    BY <1>1 DEF Read
  <2>5. TypeOK'
    BY <2>3, <2>4 DEF IInv, Core, TypeOK
  <2>6. ClosedInv' /\ BusyInv'
    BY <2>4 DEF IInv, Core, ClosedInv, BusyInv
  <2> QED BY <2>3, <2>5, <2>6 DEF IInv, Core
<1>2. CASE ReadAgain
  <2> DEFINE n == Min2(ReadAhead - Len(prefetched), Len(buffer))
  <2>1. n \in 0 .. Len(buffer) /\ Len(prefetched) + n <= ReadAhead
    <3>1. Len(buffer) \in Nat /\ Len(prefetched) \in Nat /\ Len(prefetched) <= ReadAhead
      BY DEF IInv, Core, TypeOK
    <3> QED BY <3>1, Domains DEF Min2
  <2>2. Take(n) /\ UNCHANGED <<track, work, stopping, downstream, sink, heard>>
    BY <1>2 DEF ReadAgain
  <2> HIDE DEF n
  <2>3. /\ buffer' \in Seq(Frame) /\ Len(buffer') <= Target
        /\ prefetched' \in Seq(Frame) /\ Len(prefetched') <= ReadAhead
        /\ cursor' \in [base : 0 .. End, produced : Nat, delivered : Nat]
        /\ producer' \in {"check", "append", "asleep", "decode", "finish", "done"}
        /\ NoLostWakeup' /\ CursorIsTrue' /\ WorkInv' /\ LayersInv'
    BY <2>1, <2>2, TakeKeeps
  <2>4. /\ UNCHANGED <<track, total, decoder, thread, work, stopping, eof, failed, downstream,
                       user, heard>>
        /\ reader' = "idle" /\ reader = "waiting"
    BY <1>2 DEF ReadAgain
  <2>5. TypeOK'
    BY <2>3, <2>4 DEF IInv, Core, TypeOK
  <2>6. ClosedInv' /\ BusyInv'
    BY <2>4 DEF IInv, Core, ClosedInv, BusyInv
  <2> QED BY <2>3, <2>5, <2>6 DEF IInv, Core
<1>3. CASE Fill
  <2> DEFINE bufferPlace     == cursor.produced - Len(buffer)
             prefetchedPlace == bufferPlace - Len(prefetched)
             downstreamPlace == prefetchedPlace - Len(downstream)
  <2>1. /\ prefetched \in Seq(Frame) /\ downstream \in Seq(Frame) /\ prefetched # <<>>
        /\ Len(prefetched) \in Nat /\ Len(downstream) \in Nat /\ Len(buffer) \in Nat
        /\ Len(prefetched) <= ReadAhead /\ Len(downstream) < Depth /\ cursor.produced \in Nat
        /\ sink = "running"
    <3>1. prefetched # <<>> /\ sink = "running" /\ Len(downstream) < Depth
      BY <1>3 DEF Fill
    <3>2. TypeOK
      BY DEF IInv, Core
    <3>3. /\ prefetched \in Seq(Frame) /\ downstream \in Seq(Frame) /\ buffer \in Seq(Frame)
          /\ Len(prefetched) <= ReadAhead /\ cursor.produced \in Nat
      BY <3>2 DEF TypeOK
    <3> QED BY <3>1, <3>3
  <2>2. /\ downstream' = downstream \o SubSeq(prefetched, 1, 1)
        /\ prefetched' = SubSeq(prefetched, 2, Len(prefetched))
    BY <1>3, <2>1 DEF Fill
  <2>3. /\ prefetchedPlace \in Int /\ downstreamPlace \in Int
        /\ downstreamPlace + Len(downstream) = prefetchedPlace
    BY <2>1
  <2>4. Placed(track, prefetched, prefetchedPlace) /\ Placed(track, downstream, downstreamPlace)
    BY <2>1 DEF IInv, Core, LayersInv
  <2> HIDE DEF prefetchedPlace, downstreamPlace
  <2>5. 1 \in 0 .. Len(prefetched) /\ 1 + 1 = 2
    BY <2>1
  <2>6. /\ SubSeq(prefetched, 1, 1) \in Seq(Frame) /\ Len(SubSeq(prefetched, 1, 1)) = 1
        /\ prefetched' \in Seq(Frame) /\ Len(prefetched') = Len(prefetched) - 1
        /\ Placed(track, SubSeq(prefetched, 1, 1), prefetchedPlace)
        /\ Placed(track, prefetched', prefetchedPlace + 1)
    <3>1. /\ prefetched \in Seq(Frame) /\ prefetchedPlace \in Int
          /\ Placed(track, prefetched, prefetchedPlace) /\ 1 \in 0 .. Len(prefetched)
      BY <2>1, <2>3, <2>4, <2>5
    <3>2. /\ SubSeq(prefetched, 1, 1) \in Seq(Frame) /\ Len(SubSeq(prefetched, 1, 1)) = 1
          /\ SubSeq(prefetched, 1 + 1, Len(prefetched)) \in Seq(Frame)
          /\ Len(SubSeq(prefetched, 1 + 1, Len(prefetched))) = Len(prefetched) - 1
          /\ Placed(track, SubSeq(prefetched, 1, 1), prefetchedPlace)
          /\ Placed(track, SubSeq(prefetched, 1 + 1, Len(prefetched)), prefetchedPlace + 1)
      BY <3>1, SplitPlaced
    <3> QED BY <2>2, <2>5, <3>2
  <2>7. /\ downstream' \in Seq(Frame) /\ Len(downstream') = Len(downstream) + 1
        /\ Placed(track, downstream', downstreamPlace)
    BY <2>1, <2>2, <2>3, <2>4, <2>6, JoinPlaced
  <2>8. /\ bufferPlace - Len(prefetched') = prefetchedPlace + 1
        /\ bufferPlace - Len(prefetched') - Len(downstream') = downstreamPlace
    <3>1. /\ Len(prefetched') = Len(prefetched) - 1 /\ Len(downstream') = Len(downstream) + 1
          /\ Len(prefetched) \in Int /\ Len(downstream) \in Int /\ Len(buffer) \in Int
          /\ cursor.produced \in Int
      BY <2>1, <2>6, <2>7
    <3>2. /\ prefetchedPlace = bufferPlace - Len(prefetched)
          /\ downstreamPlace = prefetchedPlace - Len(downstream) /\ bufferPlace \in Int
      BY <3>1 DEF prefetchedPlace, downstreamPlace
    <3> HIDE DEF bufferPlace
    <3> QED BY <3>1, <3>2
  <2>9. UNCHANGED <<track, total, decoder, thread, producer, work, stopping, ring, reader, user,
                    heard>>
    BY <1>3 DEF Fill
  <2>10. TypeOK'
    <3>1. Len(prefetched') <= ReadAhead /\ Len(downstream') <= Depth
      BY <2>1, <2>6, <2>7, Domains
    <3> QED BY <2>6, <2>7, <2>9, <3>1 DEF IInv, Core, TypeOK
  <2>11. LayersInv'
    BY <2>1, <2>6, <2>7, <2>8, <2>9 DEF IInv, Core, LayersInv, prefetchedPlace, downstreamPlace
  <2>12. (ClosedInv /\ NoLostWakeup /\ CursorIsTrue /\ BusyInv /\ WorkInv)'
    BY <2>1, <2>9 DEF IInv, Core, ClosedInv, NoLostWakeup, CursorIsTrue, BusyInv, WorkInv, room
  <2> QED BY <2>10, <2>11, <2>12 DEF IInv, Core
<1>4. CASE Hear
  <2> DEFINE downstreamPlace == cursor.produced - Len(buffer) - Len(prefetched) - Len(downstream)
             heardPlace      == downstreamPlace - Len(heard)
  <2>1. /\ heard \in Seq(Frame) /\ downstream \in Seq(Frame) /\ downstream # <<>>
        /\ Len(heard) \in Nat /\ Len(downstream) \in Nat /\ Len(buffer) \in Nat
        /\ Len(prefetched) \in Nat /\ Len(downstream) <= Depth /\ cursor.produced \in Nat
        /\ sink = "running"
    <3>1. downstream # <<>> /\ sink = "running"
      BY <1>4 DEF Hear
    <3>2. /\ heard \in Seq(Frame) /\ downstream \in Seq(Frame) /\ buffer \in Seq(Frame)
          /\ prefetched \in Seq(Frame) /\ Len(downstream) <= Depth /\ cursor.produced \in Nat
      BY DEF IInv, Core, TypeOK
    <3> QED BY <3>1, <3>2
  <2>2. /\ heard' = heard \o SubSeq(downstream, 1, 1)
        /\ downstream' = SubSeq(downstream, 2, Len(downstream))
    BY <1>4, <2>1 DEF Hear
  <2>3. /\ downstreamPlace \in Int /\ heardPlace \in Int
        /\ heardPlace + Len(heard) = downstreamPlace
    BY <2>1
  <2>4. Placed(track, downstream, downstreamPlace) /\ Placed(track, heard, heardPlace)
    BY <2>1 DEF IInv, Core, LayersInv
  <2> HIDE DEF downstreamPlace, heardPlace
  <2>5. 1 \in 0 .. Len(downstream) /\ 1 + 1 = 2
    BY <2>1
  <2>6. /\ SubSeq(downstream, 1, 1) \in Seq(Frame) /\ Len(SubSeq(downstream, 1, 1)) = 1
        /\ downstream' \in Seq(Frame) /\ Len(downstream') = Len(downstream) - 1
        /\ Placed(track, SubSeq(downstream, 1, 1), downstreamPlace)
        /\ Placed(track, downstream', downstreamPlace + 1)
    <3>1. /\ downstream \in Seq(Frame) /\ downstreamPlace \in Int
          /\ Placed(track, downstream, downstreamPlace) /\ 1 \in 0 .. Len(downstream)
      BY <2>1, <2>3, <2>4, <2>5
    <3>2. /\ SubSeq(downstream, 1, 1) \in Seq(Frame) /\ Len(SubSeq(downstream, 1, 1)) = 1
          /\ SubSeq(downstream, 1 + 1, Len(downstream)) \in Seq(Frame)
          /\ Len(SubSeq(downstream, 1 + 1, Len(downstream))) = Len(downstream) - 1
          /\ Placed(track, SubSeq(downstream, 1, 1), downstreamPlace)
          /\ Placed(track, SubSeq(downstream, 1 + 1, Len(downstream)), downstreamPlace + 1)
      BY <3>1, SplitPlaced
    <3> QED BY <2>2, <2>5, <3>2
  <2>7. /\ heard' \in Seq(Frame) /\ Len(heard') = Len(heard) + 1
        /\ Placed(track, heard', heardPlace)
    <3>1. Placed(track, SubSeq(downstream, 1, 1), heardPlace + Len(heard))
      BY <2>3, <2>6
    <3> DEFINE frame == SubSeq(downstream, 1, 1)
    <3>2. /\ heard \in Seq(Frame) /\ frame \in Seq(Frame) /\ Len(frame) = 1
          /\ heardPlace \in Int /\ Placed(track, heard, heardPlace)
          /\ Placed(track, frame, heardPlace + Len(heard)) /\ heard' = heard \o frame
      BY <2>1, <2>2, <2>3, <2>4, <2>6, <3>1
    <3> HIDE DEF frame
    <3>3. /\ heard \o frame \in Seq(Frame) /\ Len(heard \o frame) = Len(heard) + Len(frame)
          /\ Placed(track, heard \o frame, heardPlace)
      BY <3>2, JoinPlaced
    <3> QED BY <3>2, <3>3
  <2>8. /\ cursor.produced - Len(buffer) - Len(prefetched) - Len(downstream') = downstreamPlace + 1
        /\ cursor.produced - Len(buffer) - Len(prefetched) - Len(downstream') - Len(heard')
             = heardPlace
    <3>1. /\ Len(downstream') = Len(downstream) - 1 /\ Len(heard') = Len(heard) + 1
          /\ Len(downstream) \in Int /\ Len(heard) \in Int /\ Len(buffer) \in Int
          /\ Len(prefetched) \in Int /\ cursor.produced \in Int
      BY <2>1, <2>6, <2>7
    <3>2. cursor.produced - Len(buffer) - Len(prefetched) - Len(downstream') = downstreamPlace + 1
      <4>1. downstreamPlace = cursor.produced - Len(buffer) - Len(prefetched) - Len(downstream)
        BY DEF downstreamPlace
      <4> DEFINE b == Len(buffer)
                 p == Len(prefetched)
                 d == Len(downstream)
                 c == cursor.produced
      <4>2. /\ c \in Int /\ b \in Int /\ p \in Int /\ d \in Int
            /\ Len(downstream') = d - 1 /\ downstreamPlace = c - b - p - d
        BY <3>1, <4>1
      <4> HIDE DEF b, p, d, c
      <4>3. c - b - p - Len(downstream') = downstreamPlace + 1
        BY <4>2
      <4> QED BY <4>3 DEF b, p, d, c
    <3>3. downstreamPlace + 1 - Len(heard') = downstreamPlace - Len(heard)
      BY <2>3, <3>1
    <3> QED BY <2>3, <3>1, <3>2, <3>3 DEF heardPlace
  <2>9. UNCHANGED <<track, total, decoder, thread, producer, work, stopping, ring, prefetched,
                    reader, sink, control>>
    BY <1>4 DEF Hear
  <2>10. TypeOK'
    <3>1. Len(downstream') <= Depth
      BY <2>1, <2>6, Domains
    <3>2. clock' \in [base : Nat, processed : Nat]
      <4>1. clock \in [base : Nat, processed : Nat] /\ clock.processed + 1 \in Nat
        BY DEF IInv, Core, TypeOK
      <4> QED BY <1>4, <4>1 DEF Hear
    <3> QED BY <2>6, <2>7, <2>9, <3>1, <3>2 DEF IInv, Core, TypeOK
  <2>11. LayersInv'
    BY <2>1, <2>6, <2>7, <2>8, <2>9 DEF IInv, Core, LayersInv, heardPlace, downstreamPlace
  <2>12. (ClosedInv /\ NoLostWakeup /\ CursorIsTrue /\ BusyInv /\ WorkInv)'
    BY <2>1, <2>9 DEF IInv, Core, ClosedInv, NoLostWakeup, CursorIsTrue, BusyInv, WorkInv, room
  <2> QED BY <2>10, <2>11, <2>12 DEF IInv, Core
<1> QED BY <1>1, <1>2, <1>3, <1>4 DEF DeviceStep

(* Play, stop and close begin alike: the sink stops, the producer is told to. *)
LEMMA BeginKeeps ==
  ASSUME IInv, NEW operation \in {"play", "stop", "close"}, NEW to \in 0 .. End,
         Begin(operation, to)
  PROVE  Core'
<1> USE DEF ring, user
<1>1. /\ control.step = "idle" /\ track # <<>> /\ reader = "idle"
      /\ sink' = "stopped" /\ heard' = <<>> /\ stopping' = thread
      /\ producer' = IF thread THEN Woken ELSE producer
      /\ control' = [step |-> "joining", operation |-> operation, to |-> to]
      /\ UNCHANGED <<track, total, decoder, thread, work, buffer, cursor, eof, failed, prefetched,
                     downstream, reader, clock>>
  BY DEF Begin, Presenting
<1>2. /\ producer' \in {"check", "append", "asleep", "decode", "finish", "done"}
      /\ producer' = "decode" => producer = "decode"
  BY <1>1 DEF IInv, Core, TypeOK, Woken
<1>3. producer' = "asleep" => producer = "asleep" /\ ~stopping'
  BY <1>1 DEF Woken
<1>4. TypeOK'
  <2>1. <<>> \in Seq(Frame)
    OBVIOUS
  <2>2. stopping' \in BOOLEAN
    BY <1>1 DEF IInv, Core, TypeOK
  <2>3. control' \in [step : {"idle", "joining", "priming"}, to : 0 .. End,
                      operation : {"none", "open", "play", "stop", "close"}]
    BY <1>1
  <2>4. heard' \in Seq(Frame) /\ sink' \in {"stopped", "running", "suspended"}
    BY <1>1, <2>1
  <2>5. UNCHANGED <<track, total, decoder, thread, work, buffer, cursor, eof, failed, prefetched,
                    downstream, reader, clock>>
    BY <1>1
  <2> QED BY <1>2, <2>2, <2>3, <2>4, <2>5 DEF IInv, Core, TypeOK
<1>5. LayersInv'
  BY <1>1 DEF IInv, Core, LayersInv
<1>6. NoLostWakeup'
  BY <1>1, <1>3 DEF IInv, Core, NoLostWakeup, room
<1>7. (ClosedInv /\ CursorIsTrue /\ BusyInv /\ WorkInv)'
  BY <1>1, <1>2 DEF IInv, Core, ClosedInv, CursorIsTrue, BusyInv, WorkInv
<1> QED BY <1>4, <1>5, <1>6, <1>7 DEF IInv, Core

(* The player settles with an empty filter device, after a seek or without one. *)
LEMMA SettleKeeps ==
  ASSUME IInv, NEW sought \in BOOLEAN, Settle(sought), track # <<>>,
         sink = "stopped", thread' \in BOOLEAN, stopping' \in BOOLEAN,
         stopping' => stopping,
         UNCHANGED <<track, total, decoder, producer, work, ring, prefetched, reader>>
  PROVE  Core'
<1> USE DEF ring, user
<1>1. /\ downstream' = <<>> /\ control' = Idle
      /\ sink' \in {"stopped", "running"}
      /\ sink' # "stopped" => heard' = <<>>
      /\ heard' \in {heard, <<>>}
  BY DEF Settle, Presenting
<1>2. clock' \in [base : Nat, processed : Nat]
  <2>1. /\ clock \in [base : Nat, processed : Nat] /\ clock.base \in Nat
        /\ cursor.base + cursor.delivered \in Nat
    <3>1. /\ clock \in [base : Nat, processed : Nat]
          /\ cursor \in [base : 0 .. End, produced : Nat, delivered : Nat]
      BY DEF IInv, Core, TypeOK
    <3>2. cursor.base \in Nat /\ cursor.delivered \in Nat
      BY <3>1, Domains
    <3> QED BY <3>1, <3>2
  <2>2. CASE control.operation = "play"
    <3>1. PICK base \in Nat : clock' = [base |-> base, processed |-> 0]
      BY <2>1, <2>2 DEF Settle
    <3> QED BY <3>1
  <2>3. CASE control.operation # "play"
    BY <2>1, <2>3 DEF Settle
  <2> QED BY <2>2, <2>3
<1>3. TypeOK'
  <2>1. <<>> \in Seq(Frame) /\ Len(<<>>) = 0
    OBVIOUS
  <2>2. /\ downstream' \in Seq(Frame) /\ Len(downstream') <= Depth /\ heard' \in Seq(Frame)
        /\ sink' \in {"stopped", "running", "suspended"}
    <3>1. heard \in Seq(Frame)
      BY DEF IInv, Core, TypeOK
    <3>2. heard' \in Seq(Frame)
      BY <1>1, <2>1, <3>1
    <3>3. downstream' \in Seq(Frame) /\ Len(downstream') = 0
      BY <1>1, <2>1
    <3> QED BY <1>1, <3>2, <3>3, Domains
  <2>3. control' \in [step : {"idle", "joining", "priming"}, to : 0 .. End,
                      operation : {"none", "open", "play", "stop", "close"}]
    BY <1>1, Domains DEF Idle
  <2> QED BY <1>2, <2>2, <2>3 DEF IInv, Core, TypeOK
<1>4. LayersInv'
  <2>1. /\ cursor.produced - Len(buffer) - Len(prefetched) - 0 \in Int
        /\ cursor.produced - Len(buffer) - Len(prefetched) - 0 - 0 \in Int
    BY DEF IInv, Core, TypeOK
  <2>2. sink' # "stopped" => downstream' = <<>> /\ heard' = <<>> /\ Len(<<>>) = 0
    BY <1>1
  <2> QED BY <2>1, <2>2, EmptyPlaced DEF IInv, Core, LayersInv
<1>5. (ClosedInv /\ NoLostWakeup /\ CursorIsTrue /\ BusyInv /\ WorkInv)'
  BY <1>1 DEF IInv, Core, ClosedInv, NoLostWakeup, CursorIsTrue, BusyInv, WorkInv, Idle, room
<1> QED BY <1>3, <1>4, <1>5 DEF IInv, Core

(* A seek empties the device and restarts its counters at the new place. *)
LEMMA RepositionKeeps == IInv /\ Reposition => Core'
<1> SUFFICES ASSUME IInv, Reposition PROVE Core'
  OBVIOUS
<1> USE DEF ring, user
<1> DEFINE to == IF total > 0 THEN Min2(control.to, total) ELSE control.to
<1>1. /\ control.step = "joining" /\ control.operation # "close"
      /\ \E i \in SeekPoints(to) : decoder' = [next |-> i, expected |-> Unknown]
      /\ cursor' = [base |-> to, produced |-> to, delivered |-> 0]
      /\ thread' = TRUE /\ producer' = "check" /\ work' = NoWork /\ stopping' = FALSE
      /\ eof' = FALSE /\ failed' = FALSE
      /\ control' = [step |-> "priming", operation |-> control.operation, to |-> to]
      /\ prefetched' = <<>> /\ buffer' = <<>>
      /\ UNCHANGED <<track, total, reader, downstream, sink, clock, heard>>
  BY DEF Reposition, Joined, StartProducer
<1>2. to \in 0 .. End /\ to \in Nat
  <2>1. control.to \in 0 .. End /\ total \in 0 .. End
    BY Domains DEF IInv, Core, TypeOK
  <2> QED BY <2>1, Domains DEF Min2
<1> HIDE DEF to
<1>3. sink = "stopped" /\ reader = "idle" /\ track # <<>> /\ track \in Seq(Chunk)
  BY <1>1, Domains DEF IInv, Core, TypeOK, BusyInv, ClosedInv
<1>4. TypeOK'
  <2>1. decoder' \in [next : Nat \ {0}, expected : Nat \cup {Unknown}]
    <3>1. PICK i \in SeekPoints(to) : decoder' = [next |-> i, expected |-> Unknown]
      BY <1>1
    <3>2. i \in Nat \ {0}
      BY <1>3, <3>1 DEF SeekPoints
    <3> QED BY <3>1, <3>2
  <2>2. <<>> \in Seq(Frame) /\ Len(<<>>) = 0
    OBVIOUS
  <2>3. /\ work' \in [pending : Seq(Frame), gap : Nat, finished : BOOLEAN]
        /\ cursor' \in [base : 0 .. End, produced : Nat, delivered : Nat]
    BY <1>1, <1>2, <2>2 DEF NoWork
  <2>4. control' \in [step : {"idle", "joining", "priming"}, to : 0 .. End,
                      operation : {"none", "open", "play", "stop", "close"}]
    BY <1>1, <1>2 DEF IInv, Core, TypeOK
  <2>5. /\ buffer' \in Seq(Frame) /\ Len(buffer') <= Target
        /\ prefetched' \in Seq(Frame) /\ Len(prefetched') <= ReadAhead
    BY <1>1, <2>2, Domains
  <2>6. /\ thread' \in BOOLEAN /\ stopping' \in BOOLEAN /\ eof' \in BOOLEAN
        /\ failed' \in BOOLEAN
    BY <1>1, Zenon
  <2>7. /\ producer' \in {"check", "append", "asleep", "decode", "finish", "done"}
        /\ UNCHANGED <<track, total, reader, downstream, sink, clock, heard>>
    BY <1>1
  <2> QED BY <2>1, <2>3, <2>4, <2>5, <2>6, <2>7 DEF IInv, Core, TypeOK
<1>5. LayersInv'
  <2>1. /\ to - 0 \in Int /\ to - 0 - 0 \in Int /\ to + 0 \in Int /\ Len(<<>>) = 0
    BY <1>2
  <2>2. /\ work'.pending = <<>> /\ work'.gap = 0 /\ buffer' = <<>> /\ prefetched' = <<>>
        /\ cursor'.produced = to /\ sink' = "stopped"
    BY <1>1, <1>3 DEF NoWork
  <2> QED BY <2>1, <2>2, EmptyPlaced DEF LayersInv
<1>6. CursorIsTrue'
  BY <1>1, <1>2 DEF CursorIsTrue
<1>7. (ClosedInv /\ NoLostWakeup /\ BusyInv /\ WorkInv)'
  BY <1>1, <1>3 DEF ClosedInv, NoLostWakeup, BusyInv, WorkInv
<1> QED BY <1>4, <1>5, <1>6, <1>7 DEF IInv, Core

(* A device that is opened starts at the beginning, with nothing buffered. *)
LEMMA OpenKeeps == IInv /\ Open => Core'
<1> SUFFICES ASSUME IInv, Open PROVE Core'
  OBVIOUS
<1> USE DEF ring, user
<1>1. /\ control.step = "idle" /\ track = <<>>
      /\ track' \in Soundtracks /\ total' \in Lengths
      /\ decoder' = [next |-> 1, expected |-> Unknown]
      /\ cursor' = [base |-> 0, produced |-> 0, delivered |-> 0]
      /\ thread' = TRUE /\ producer' = "check" /\ work' = NoWork /\ stopping' = FALSE
      /\ eof' = FALSE /\ failed' = FALSE
      /\ control' = [step |-> "priming", operation |-> "open", to |-> 0]
      /\ UNCHANGED <<buffer, prefetched, reader, downstream, sink, clock, heard>>
  BY DEF Open, StartProducer
<1>2. sink = "stopped" /\ reader = "idle" /\ buffer = <<>> /\ prefetched = <<>>
  BY <1>1 DEF IInv, Core, ClosedInv
<1>3. TypeOK'
  <2>1. <<>> \in Seq(Frame) /\ Len(<<>>) = 0
    OBVIOUS
  <2>2. /\ work' \in [pending : Seq(Frame), gap : Nat, finished : BOOLEAN]
        /\ cursor' \in [base : 0 .. End, produced : Nat, delivered : Nat]
    BY <1>1, <2>1, Domains DEF NoWork
  <2>3. /\ control' \in [step : {"idle", "joining", "priming"}, to : 0 .. End,
                         operation : {"none", "open", "play", "stop", "close"}]
        /\ decoder' \in [next : Nat \ {0}, expected : Nat \cup {Unknown}]
    BY <1>1, Domains
  <2>4. /\ thread' \in BOOLEAN /\ stopping' \in BOOLEAN /\ eof' \in BOOLEAN
        /\ failed' \in BOOLEAN
    BY <1>1, Zenon
  <2>5. /\ producer' \in {"check", "append", "asleep", "decode", "finish", "done"}
        /\ track' \in Soundtracks \cup {<<>>} /\ total' \in Lengths \cup {0}
        /\ UNCHANGED <<buffer, prefetched, reader, downstream, sink, clock, heard>>
    BY <1>1
  <2> QED BY <2>2, <2>3, <2>4, <2>5 DEF IInv, Core, TypeOK
<1>4. LayersInv'
  <2>1. /\ 0 - 0 \in Int /\ 0 - 0 - 0 \in Int /\ 0 + 0 \in Int /\ Len(<<>>) = 0
    OBVIOUS
  <2>2. /\ work'.pending = <<>> /\ work'.gap = 0 /\ buffer' = <<>> /\ prefetched' = <<>>
        /\ cursor'.produced = 0 /\ sink' = "stopped"
    BY <1>1, <1>2 DEF NoWork
  <2> QED BY <2>1, <2>2, EmptyPlaced DEF LayersInv
<1>5. CursorIsTrue'
  BY <1>1, <1>2 DEF CursorIsTrue
<1>6. (ClosedInv /\ NoLostWakeup /\ BusyInv /\ WorkInv)'
  BY <1>1, <1>2, Domains DEF ClosedInv, NoLostWakeup, BusyInv, WorkInv
<1> QED BY <1>3, <1>4, <1>5, <1>6 DEF IInv, Core

(* A device that is closed leaves nothing behind. *)
LEMMA JoinAndCloseKeeps == IInv /\ JoinAndClose => Core'
<1> SUFFICES ASSUME IInv, JoinAndClose PROVE Core'
  OBVIOUS
<1>1. /\ control.step = "joining"
      /\ track' = <<>> /\ total' = 0 /\ decoder' = [next |-> 1, expected |-> Unknown]
      /\ thread' = FALSE /\ stopping' = FALSE /\ producer' = "done" /\ work' = NoWork
      /\ buffer' = <<>> /\ cursor' = [base |-> 0, produced |-> 0, delivered |-> 0]
      /\ eof' = FALSE /\ failed' = FALSE /\ prefetched' = <<>> /\ downstream' = <<>>
      /\ clock' = [base |-> 0, processed |-> 0] /\ control' = Idle
      /\ UNCHANGED <<reader, sink, heard>>
  BY DEF JoinAndClose, Joined
<1>2. sink = "stopped" /\ reader = "idle"
  BY <1>1 DEF IInv, Core, BusyInv
<1>3. TypeOK'
  <2>1. <<>> \in Seq(Frame) /\ Len(<<>>) = 0
    OBVIOUS
  <2>2. /\ work' \in [pending : Seq(Frame), gap : Nat, finished : BOOLEAN]
        /\ cursor' \in [base : 0 .. End, produced : Nat, delivered : Nat]
        /\ clock' \in [base : Nat, processed : Nat]
    BY <1>1, <2>1, Domains DEF NoWork
  <2>3. /\ control' \in [step : {"idle", "joining", "priming"}, to : 0 .. End,
                         operation : {"none", "open", "play", "stop", "close"}]
        /\ decoder' \in [next : Nat \ {0}, expected : Nat \cup {Unknown}]
    BY <1>1, Domains DEF Idle
  <2>4. /\ thread' \in BOOLEAN /\ stopping' \in BOOLEAN /\ eof' \in BOOLEAN
        /\ failed' \in BOOLEAN
    BY <1>1, Zenon
  <2>5. /\ buffer' \in Seq(Frame) /\ Len(buffer') <= Target
        /\ prefetched' \in Seq(Frame) /\ Len(prefetched') <= ReadAhead
        /\ downstream' \in Seq(Frame) /\ Len(downstream') <= Depth
    BY <1>1, <2>1, Domains
  <2>6. /\ producer' \in {"check", "append", "asleep", "decode", "finish", "done"}
        /\ track' \in Soundtracks \cup {<<>>} /\ total' \in Lengths \cup {0}
        /\ UNCHANGED <<reader, sink, heard>>
    BY <1>1
  <2> QED BY <2>2, <2>3, <2>4, <2>5, <2>6 DEF IInv, Core, TypeOK
<1>4. LayersInv'
  <2>1. /\ 0 - 0 \in Int /\ 0 - 0 - 0 \in Int /\ 0 + 0 \in Int /\ Len(<<>>) = 0
    OBVIOUS
  <2>2. /\ work'.pending = <<>> /\ work'.gap = 0 /\ buffer' = <<>> /\ prefetched' = <<>>
        /\ cursor'.produced = 0 /\ sink' = "stopped"
    BY <1>1, <1>2 DEF NoWork
  <2> QED BY <2>1, <2>2, EmptyPlaced DEF LayersInv
<1>5. CursorIsTrue'
  BY <1>1 DEF CursorIsTrue
<1>6. (ClosedInv /\ NoLostWakeup /\ BusyInv /\ WorkInv)'
  BY <1>1, <1>2 DEF ClosedInv, NoLostWakeup, BusyInv, WorkInv, Idle
<1> QED BY <1>3, <1>4, <1>5, <1>6 DEF IInv, Core

(* The steps in which an operation of the GUI thread goes on and returns. *)
LEMMA ControlKeeps == IInv /\ ControlStep => Core'
<1> SUFFICES ASSUME IInv, ControlStep PROVE Core'
  OBVIOUS
<1> USE DEF ring, user
<1>1. CASE Reposition
  BY <1>1, RepositionKeeps
<1>2. CASE SeekFails
  <2>1. /\ Settle(FALSE) /\ thread' \in BOOLEAN /\ stopping' \in BOOLEAN /\ ~stopping'
        /\ UNCHANGED <<track, total, decoder, producer, work, ring, prefetched, reader>>
    BY <1>2 DEF SeekFails
  <2>2. sink = "stopped" /\ track # <<>>
    BY <1>2 DEF SeekFails, Joined, IInv, Core, BusyInv, ClosedInv
  <2> QED BY <2>1, <2>2, SettleKeeps
<1>3. CASE Prime
  <2>1. /\ Settle(Primed) /\ thread' = thread /\ stopping' = stopping
        /\ UNCHANGED <<track, total, decoder, producer, work, ring, prefetched, reader>>
    BY <1>3 DEF Prime
  <2>2. sink = "stopped" /\ track # <<>>
    BY <1>3 DEF Prime, IInv, Core, BusyInv, ClosedInv
  <2>3. Primed \in BOOLEAN
    BY DEF Primed
  <2>4. thread' \in BOOLEAN /\ stopping' \in BOOLEAN /\ (stopping' => stopping)
    BY <2>1 DEF IInv, Core, TypeOK
  <2> QED BY <2>1, <2>2, <2>3, <2>4, SettleKeeps
<1>4. CASE OpenPrimed
  <2>1. /\ control.step = "priming" /\ control.operation = "open"
        /\ UNCHANGED <<track, total, decoder, thread, work, buffer, cursor, eof, failed, prefetched,
                       reader, downstream, sink, clock, heard>>
        /\ \/ control' = Idle /\ UNCHANGED <<stopping, producer>>
           \/ /\ control' = [control EXCEPT !.step = "joining", !.operation = "close"]
              /\ stopping' = TRUE /\ producer' = Woken
    BY <1>4 DEF OpenPrimed
  <2>2. sink = "stopped" /\ reader = "idle" /\ track # <<>>
    BY <2>1 DEF IInv, Core, BusyInv, ClosedInv
  <2>3. /\ control' \in [step : {"idle", "joining", "priming"}, to : 0 .. End,
                         operation : {"none", "open", "play", "stop", "close"}]
        /\ stopping' \in BOOLEAN
        /\ producer' \in {"check", "append", "asleep", "decode", "finish", "done"}
        /\ producer' = "decode" => producer = "decode"
        /\ producer' = "asleep" => UNCHANGED <<stopping, producer>>
    <3>1. CASE control' = Idle /\ UNCHANGED <<stopping, producer>>
      BY <3>1, Domains DEF Idle, IInv, Core, TypeOK
    <3>2. CASE /\ control' = [control EXCEPT !.step = "joining", !.operation = "close"]
               /\ stopping' = TRUE /\ producer' = Woken
      BY <3>2 DEF Woken, IInv, Core, TypeOK
    <3> QED BY <2>1, <3>1, <3>2
  <2>4. TypeOK'
    BY <2>1, <2>3 DEF IInv, Core, TypeOK
  <2>5. LayersInv'
    BY <2>1 DEF IInv, Core, LayersInv
  <2>6. (ClosedInv /\ NoLostWakeup /\ CursorIsTrue /\ BusyInv /\ WorkInv)'
    BY <2>1, <2>2, <2>3 DEF IInv, Core, ClosedInv, NoLostWakeup, CursorIsTrue, BusyInv, WorkInv, room
  <2> QED BY <2>4, <2>5, <2>6 DEF IInv, Core
<1>5. CASE JoinAndClose
  BY <1>5, JoinAndCloseKeeps
<1> QED BY <1>1, <1>2, <1>3, <1>4, <1>5 DEF ControlStep

(* The steps in which the GUI thread begins an operation. *)
LEMMA UserKeeps == IInv /\ UserStep => Core'
<1> SUFFICES ASSUME IInv, UserStep PROVE Core'
  OBVIOUS
<1> USE DEF ring, user
<1>1. CASE PlayAt
  BY <1>1, BeginKeeps, Domains DEF PlayAt
<1>2. CASE Stop
  BY <1>2, BeginKeeps, Domains DEF Stop
<1>3. CASE Close
  BY <1>3, BeginKeeps, Domains DEF Close
<1>4. CASE Open
  BY <1>4, OpenKeeps
<1>5. CASE Pause \/ Resume
  <2>1. /\ control.step = "idle" /\ sink # "stopped" /\ sink' \in {"running", "suspended"}
        /\ UNCHANGED <<track, total, decoder, thread, producer, work, stopping, ring, prefetched,
                       reader, downstream, clock, control, heard>>
    BY <1>5 DEF Pause, Resume
  <2>2. TypeOK'
    BY <2>1 DEF IInv, Core, TypeOK
  <2>3. LayersInv'
    BY <2>1 DEF IInv, Core, LayersInv
  <2>4. (ClosedInv /\ NoLostWakeup /\ CursorIsTrue /\ BusyInv /\ WorkInv)'
    BY <2>1 DEF IInv, Core, ClosedInv, NoLostWakeup, CursorIsTrue, BusyInv, WorkInv, room
  <2> QED BY <2>2, <2>3, <2>4 DEF IInv, Core
<1>6. CASE RefreshFilters
  <2>1. /\ control.step = "idle" /\ track # <<>> /\ reader = "idle"
        /\ heard' = <<>> /\ sink' \in {"stopped", "running"}
        /\ clock' = [clock EXCEPT !.processed = 0] /\ downstream' = <<>>
        /\ UNCHANGED <<track, total, decoder, thread, producer, work, stopping, ring, prefetched,
                       reader, control>>
    BY <1>6 DEF RefreshFilters, Presenting
  <2>2. TypeOK'
    <3>1. <<>> \in Seq(Frame) /\ Len(<<>>) = 0
      OBVIOUS
    <3>2. clock' \in [base : Nat, processed : Nat]
      BY <2>1 DEF IInv, Core, TypeOK
    <3>3. /\ downstream' \in Seq(Frame) /\ Len(downstream') <= Depth /\ heard' \in Seq(Frame)
          /\ sink' \in {"stopped", "running", "suspended"}
      BY <2>1, <3>1, Domains
    <3>4. UNCHANGED <<track, total, decoder, thread, producer, work, stopping, ring, prefetched,
                      reader, control>>
      BY <2>1
    <3> QED BY <3>2, <3>3, <3>4 DEF IInv, Core, TypeOK
  <2>3. LayersInv'
    <3>1. /\ cursor.produced - Len(buffer) - Len(prefetched) - 0 \in Int
          /\ cursor.produced - Len(buffer) - Len(prefetched) - 0 - 0 \in Int
      <4>1. TypeOK
        BY DEF IInv, Core
      <4>2. cursor.produced \in Int /\ buffer \in Seq(Frame) /\ prefetched \in Seq(Frame)
        BY <4>1 DEF TypeOK
      <4>3. Len(buffer) \in Int /\ Len(prefetched) \in Int
        BY <4>2
      <4> QED BY <4>2, <4>3
    <3>2. downstream' = <<>> /\ heard' = <<>> /\ Len(<<>>) = 0
      BY <2>1
    <3> QED BY <2>1, <3>1, <3>2, EmptyPlaced DEF IInv, Core, LayersInv
  <2>4. (ClosedInv /\ NoLostWakeup /\ CursorIsTrue /\ BusyInv /\ WorkInv)'
    BY <2>1 DEF IInv, Core, ClosedInv, NoLostWakeup, CursorIsTrue, BusyInv, WorkInv, room
  <2> QED BY <2>2, <2>3, <2>4 DEF IInv, Core
<1> QED BY <1>1, <1>2, <1>3, <1>4, <1>5, <1>6 DEF UserStep

(* Every step keeps the inductive invariant. *)
LEMMA NextKeeps == IInv /\ [Next]_vars => Core'
<1> SUFFICES ASSUME IInv, [Next]_vars PROVE Core'
  OBVIOUS
<1>1. CASE UNCHANGED vars
  <2>1. UNCHANGED <<track, total, decoder, thread, producer, work, stopping, buffer, cursor, eof,
                    failed, prefetched, reader, downstream, sink, clock, control, heard>>
    BY <1>1 DEF vars, ring, user
  <2>2. TypeOK'
    BY <2>1 DEF IInv, Core, TypeOK
  <2>3. LayersInv'
    BY <2>1 DEF IInv, Core, LayersInv
  <2>4. (ClosedInv /\ NoLostWakeup /\ CursorIsTrue /\ BusyInv /\ WorkInv)'
    BY <2>1 DEF IInv, Core, ClosedInv, NoLostWakeup, CursorIsTrue, BusyInv, WorkInv, room
  <2> QED BY <2>2, <2>3, <2>4 DEF IInv, Core
<1>2. CASE Next
  BY <1>2, ProducerKeeps, DeviceKeeps, UserKeeps, ControlKeeps DEF Next
<1> QED BY <1>1, <1>2

-----------------------------------------------------------------------------
(* How far the producer is, and that what it fills with silence is a gap. *)
LEMMA TrackFacts ==
  ASSUME TypeOK, track # <<>>
  PROVE  /\ track \in Seq(Chunk) /\ 1 \in DOMAIN track /\ track[1].start # Unstamped
         /\ \A i \in DOMAIN track : /\ track[i].count \in Nat \ {0}
                                    /\ track[i].start \in Nat \cup {Unstamped}
<1>1. track \in Soundtracks /\ track \in Seq(Chunk)
  BY Domains DEF TypeOK
<1>2. 1 \in DOMAIN track
  BY <1>1
<1>3. track[1].start # Unstamped
  BY <1>1, AudioAssumption
<1>4. ASSUME NEW i \in DOMAIN track
      PROVE  track[i].count \in Nat \ {0} /\ track[i].start \in Nat \cup {Unstamped}
  <2>1. track[i] \in Chunk
    BY <1>1
  <2> QED BY <2>1, Domains DEF Chunk
<1> QED BY <1>1, <1>2, <1>3, <1>4

LEMMA SameProgress ==
  ASSUME ProgressInv, UNCHANGED <<track, decoder, work>>, cursor'.produced = cursor.produced
  PROVE  ProgressInv'
BY DEF ProgressInv, GapInv, SoughtInv, DecodedInv, Upto

(* Near a place where nothing sounds there may be silence. *)
LEMMA QuietNearby ==
  ASSUME NEW tr, NEW p \in Int, NEW t \in Int, Near(t, p, Slack), t \notin Sounding(tr)
  PROVE  Right(tr, Silence, p)
<1>1. t \in p - Slack .. p + Slack
  BY Domains DEF Near
<1> QED BY <1>1 DEF Right, Silence

(* What is appended leaves the one end of what is held, and the other stays. *)
LEMMA AppendFacts ==
  ASSUME IInv, AppendFrames
  PROVE  \E n \in Nat :
           /\ cursor' = [cursor EXCEPT !.produced = @ + n] /\ Upto' = Upto
           /\ UNCHANGED <<track, decoder>> /\ work'.finished = work.finished
           /\ work'.gap \in Nat /\ work'.gap <= work.gap
           /\ work'.gap = 0 \/ n + work'.gap <= work.gap
           /\ work.pending = <<>> => work'.pending = <<>>
           /\ work.gap = 0 /\ work.pending = <<>> => n = 0
           /\ buffer' \in Seq(Frame) /\ Len(buffer') = Len(buffer) + n
           /\ \A t : Has(buffer, t) => Has(buffer', t)
           /\ \A t : Has(work.pending, t) => Has(buffer', t) \/ Has(work'.pending, t)
<1> DEFINE silent == work.gap > 0
           n      == Min2(room, IF silent THEN work.gap ELSE Len(work.pending))
<1>1. /\ work \in [pending : Seq(Frame), gap : Nat, finished : BOOLEAN]
      /\ cursor \in [base : 0 .. End, produced : Nat, delivered : Nat]
      /\ Len(buffer) \in Nat /\ Len(work.pending) \in Nat /\ room \in Int
      /\ work.pending \in Seq(Frame)
  <2>1. TypeOK
    BY DEF IInv, Core
  <2>2. /\ work \in [pending : Seq(Frame), gap : Nat, finished : BOOLEAN]
        /\ cursor \in [base : 0 .. End, produced : Nat, delivered : Nat]
        /\ buffer \in Seq(Frame)
    BY <2>1 DEF TypeOK
  <2>3. Len(buffer) \in Nat /\ work.pending \in Seq(Frame)
    BY <2>2
  <2>4. room = Target - Len(buffer) /\ Target \in Nat
    BY Domains DEF room
  <2> QED BY <2>2, <2>3, <2>4
<1>2. /\ cursor' = [cursor EXCEPT !.produced = @ + n] /\ room > 0
      /\ work' = (IF silent THEN [work EXCEPT !.gap = @ - n]
                  ELSE [work EXCEPT !.pending = SubSeq(@, n + 1, Len(@))])
      /\ UNCHANGED <<track, decoder>>
  BY DEF AppendFrames
<1>3. /\ n \in Nat /\ (silent => n <= work.gap) /\ (~silent => n <= Len(work.pending))
  BY <1>1, <1>2 DEF Min2
<1> HIDE DEF n
<1>4. cursor'.produced = cursor.produced + n
  BY <1>1, <1>2
<1>5. /\ work'.gap \in Nat /\ work'.gap <= work.gap
      /\ cursor'.produced + work'.gap - 1 <= cursor.produced + work.gap - 1 \/ work'.gap = 0
      /\ Upto' = Upto
      /\ work.pending = <<>> => work'.pending = <<>>
      /\ work.gap = 0 /\ work.pending = <<>> => n = 0
  <2>1. CASE silent
    <3>1. work'.gap = work.gap - n /\ work'.pending = work.pending
      BY <1>1, <1>2, <2>1
    <3> QED BY <1>1, <1>3, <1>4, <2>1, <3>1 DEF Upto
  <2>2. CASE ~silent
    <3>1. work'.gap = 0 /\ work.gap = 0
          /\ work'.pending = SubSeq(work.pending, n + 1, Len(work.pending))
      <4>1. work' = [work EXCEPT !.pending = SubSeq(@, n + 1, Len(@))]
        BY <1>2, <2>2
      <4>2. work.gap = 0
        BY <1>1, <2>2
      <4> QED BY <1>1, <4>1, <4>2
    <3>2. Len(work'.pending) = Len(work.pending) - n /\ work'.pending \in Seq(Frame)
      BY <1>1, <1>3, <2>2, <3>1
    <3>3. work.pending = <<>> => work'.pending = <<>> /\ n = 0
      BY <1>3, <2>2, <3>2
    <3> QED BY <1>1, <1>3, <1>4, <2>2, <3>1, <3>2, <3>3 DEF Upto
  <2> QED BY <2>1, <2>2
<1>6. /\ work'.finished = work.finished
      /\ buffer' \in Seq(Frame) /\ Len(buffer') = Len(buffer) + n
      /\ \A t : Has(buffer, t) => Has(buffer', t)
      /\ \A t : Has(work.pending, t) => Has(buffer', t) \/ Has(work'.pending, t)
  <2> DEFINE frames == IF silent THEN [i \in 1 .. n |-> Silence] ELSE SubSeq(work.pending, 1, n)
  <2>1. buffer' = buffer \o frames
    BY DEF AppendFrames, n
  <2>2. frames \in Seq(Frame) /\ Len(frames) = n
    <3>1. CASE silent
      BY <1>3, <3>1, Domains
    <3>2. CASE ~silent
      BY <1>1, <1>3, <3>2
    <3> QED BY <3>1, <3>2
  <2>3. buffer \in Seq(Frame)
    BY DEF IInv, Core, TypeOK
  <2>4. work'.finished = work.finished
    BY <1>1, <1>2
  <2>5. ASSUME NEW t, Has(work.pending, t) PROVE Has(frames, t) \/ Has(work'.pending, t)
    <3>1. CASE silent
      <4>1. work'.pending = work.pending
        BY <1>1, <1>2, <3>1
      <4> QED BY <2>5, <4>1
    <3>2. CASE ~silent
      <4>1. work'.pending = SubSeq(work.pending, n + 1, Len(work.pending)) /\ n \in 0 .. Len(work.pending)
        <5>1. work' = [work EXCEPT !.pending = SubSeq(@, n + 1, Len(@))]
          BY <1>2, <3>2
        <5>2. work \in [pending : Seq(Frame), gap : Nat, finished : BOOLEAN]
          BY <1>1
        <5>3. work'.pending = SubSeq(work.pending, n + 1, Len(work.pending))
          BY <5>1, <5>2
        <5>4. n \in Nat /\ n <= Len(work.pending) /\ Len(work.pending) \in Nat
          BY <1>1, <1>3, <3>2
        <5> QED BY <5>3, <5>4
      <4>2. frames = SubSeq(work.pending, 1, n)
        BY <3>2
      <4> HIDE DEF frames
      <4> QED BY <1>1, <2>5, <4>1, <4>2, HasSplit
    <3> QED BY <3>1, <3>2
  <2> HIDE DEF frames
  <2>6. buffer' \in Seq(Frame) /\ Len(buffer') = Len(buffer) + n
    BY <2>1, <2>2, <2>3, HasConcat
  <2>7. ASSUME NEW t PROVE Has(buffer', t) <=> Has(buffer, t) \/ Has(frames, t)
    BY <2>1, <2>2, <2>3, HasConcat
  <2> QED BY <2>4, <2>5, <2>6, <2>7
<1> HIDE DEF silent
<1>7. work'.gap = 0 \/ n + work'.gap <= work.gap
  <2>1. /\ cursor.produced \in Nat /\ work.gap \in Nat /\ work'.gap \in Nat /\ n \in Nat
        /\ cursor'.produced = cursor.produced + n
    BY <1>1, <1>3, <1>4, <1>5
  <2>2. \/ cursor'.produced + work'.gap - 1 <= cursor.produced + work.gap - 1
        \/ work'.gap = 0
    BY <1>5
  <2> QED BY <2>1, <2>2
<1> QED BY <1>2, <1>3, <1>5, <1>6, <1>7

LEMMA AppendProgress ==
  ASSUME IInv, AppendFrames
  PROVE  ProgressInv'
<1>1. /\ work.gap \in Nat
      /\ cursor \in [base : 0 .. End, produced : Nat, delivered : Nat]
  BY DEF IInv, Core, TypeOK
<1>2. PICK n \in Nat :
        /\ cursor' = [cursor EXCEPT !.produced = @ + n] /\ Upto' = Upto
        /\ UNCHANGED <<track, decoder>> /\ work'.gap \in Nat /\ work'.gap <= work.gap
        /\ work'.gap = 0 \/ n + work'.gap <= work.gap
        /\ work.pending = <<>> => work'.pending = <<>>
        /\ work.gap = 0 /\ work.pending = <<>> => n = 0
  BY AppendFacts
<1>3. cursor'.produced = cursor.produced + n
  BY <1>1, <1>2
<1>4. GapInv'
  <2>1. \A p \in cursor.produced .. cursor.produced + work.gap - 1 : Right(track, Silence, p)
    BY DEF IInv, ProgressInv, GapInv
  <2>2. ASSUME NEW p \in cursor'.produced .. cursor'.produced + work'.gap - 1
        PROVE  Right(track, Silence, p)
    <3>1. /\ cursor.produced \in Nat /\ work.gap \in Nat /\ work'.gap \in Nat /\ n \in Nat
          /\ cursor'.produced = cursor.produced + n /\ p \in Int
      BY <1>1, <1>2, <1>3
    <3>2. work'.gap = 0 \/ n + work'.gap <= work.gap
      BY <1>2
    <3>3. p >= cursor'.produced /\ p <= cursor'.produced + work'.gap - 1
      BY <3>1
    <3>4. p \in cursor.produced .. cursor.produced + work.gap - 1
      BY <3>1, <3>2, <3>3
    <3> QED BY <2>1, <3>4
  <2> QED BY <1>2, <2>2 DEF GapInv
<1>5. SoughtInv'
  BY <1>1, <1>2, <1>3 DEF IInv, ProgressInv, SoughtInv
<1>6. DecodedInv'
  BY <1>2 DEF IInv, ProgressInv, DecodedInv
<1> QED BY <1>4, <1>5, <1>6 DEF ProgressInv

(* A chunk with a time stamp: where the decoder and then the device put it. *)
LEMMA StampFacts ==
  ASSUME TypeOK, NEW chunk \in Chunk, chunk.start # Unstamped
  PROVE  /\ StampedStart(chunk) \in Nat /\ PlaceOf(chunk) \in Nat
         /\ Near(chunk.start, StampedStart(chunk), DecoderJitter)
         /\ \/ /\ decoder.expected # Unknown
               /\ StampedStart(chunk) = decoder.expected
            \/ /\ StampedStart(chunk) = chunk.start
               /\ \/ decoder.expected = Unknown
                  \/ ~Near(chunk.start, decoder.expected, DecoderJitter)
         /\ \/ /\ PlaceOf(chunk) = cursor.produced
               /\ Near(StampedStart(chunk), cursor.produced, Jitter)
            \/ /\ PlaceOf(chunk) = StampedStart(chunk)
               /\ ~Near(StampedStart(chunk), cursor.produced, Jitter)
<1> DEFINE s == StampedStart(chunk)
<1>1. /\ cursor.produced \in Nat /\ decoder.expected \in Nat \cup {Unknown}
      /\ chunk.start \in Nat
  BY Domains DEF TypeOK, Chunk
<1>2. /\ s \in Nat /\ Near(chunk.start, s, DecoderJitter)
      /\ \/ decoder.expected # Unknown /\ s = decoder.expected
         \/ s = chunk.start /\ (decoder.expected = Unknown
                                 \/ ~Near(chunk.start, decoder.expected, DecoderJitter))
  BY <1>1, Domains DEF StampedStart, Near
<1>3. PlaceOf(chunk) = IF Near(s, cursor.produced, Jitter) THEN cursor.produced ELSE s
  BY <1>2 DEF PlaceOf, Unknown
<1>4. /\ PlaceOf(chunk) \in Nat
      /\ \/ PlaceOf(chunk) = cursor.produced /\ Near(s, cursor.produced, Jitter)
         \/ PlaceOf(chunk) = s /\ ~Near(s, cursor.produced, Jitter)
  <2> HIDE DEF s
  <2> QED BY <1>1, <1>2, <1>3
<1> QED BY <1>2, <1>4

(* What the device fills before the next chunk, decoded after a seek or after others. *)
LEMMA GapBefore ==
  ASSUME IInv, track # <<>>, decoder.next \in DOMAIN track, work.gap = 0, work.pending = <<>>,
         NEW chunk \in Chunk, chunk = track[decoder.next], chunk.start # Unstamped,
         NEW p \in cursor.produced .. PlaceOf(chunk) - 1
  PROVE  Right(track, Silence, p)
<1> DEFINE s == StampedStart(chunk)
           k == decoder.next
<1>1. /\ TypeOK /\ cursor.produced \in Nat /\ p \in Int /\ p >= cursor.produced
      /\ decoder.expected \in Nat \cup {Unknown} /\ k \in Nat
      /\ chunk.start \in Nat /\ Slack = Jitter + DecoderJitter
      /\ PlaceOf(chunk) \in Nat /\ PlaceOf(chunk) > p
  <2>1. TypeOK
    BY DEF IInv, Core
  <2>2. /\ cursor.produced \in Nat /\ decoder.expected \in Nat \cup {Unknown} /\ k \in Nat
    BY <2>1 DEF TypeOK
  <2>3. chunk.start \in Nat
    BY Domains DEF Chunk
  <2>4. PlaceOf(chunk) \in Nat
    BY <2>1, PlaceIsNear
  <2> QED BY <2>1, <2>2, <2>3, <2>4 DEF Slack
<1>2. /\ s = PlaceOf(chunk) /\ s \in Nat /\ p < s /\ s > cursor.produced + Jitter
      /\ \/ decoder.expected # Unknown /\ s = decoder.expected
         \/ s = chunk.start /\ (decoder.expected = Unknown
                                 \/ ~Near(chunk.start, decoder.expected, DecoderJitter))
  <2>1. /\ s \in Nat
        /\ \/ decoder.expected # Unknown /\ s = decoder.expected
           \/ s = chunk.start /\ (decoder.expected = Unknown
                                   \/ ~Near(chunk.start, decoder.expected, DecoderJitter))
        /\ \/ PlaceOf(chunk) = cursor.produced
           \/ PlaceOf(chunk) = s /\ ~Near(s, cursor.produced, Jitter)
    BY <1>1, StampFacts
  <2>2. PlaceOf(chunk) # cursor.produced
    BY <1>1
  <2> HIDE DEF s
  <2>3. s > cursor.produced + Jitter
    BY <1>1, <2>1, <2>2, Domains DEF Near
  <2> QED BY <1>1, <2>1, <2>2, <2>3
<1> HIDE DEF s
<1>3. /\ \A i \in DOMAIN track : /\ track[i].count \in Nat \ {0}
                                 /\ track[i].start \in Nat \cup {Unstamped}
      /\ 1 \in DOMAIN track /\ track[1].start # Unstamped /\ DOMAIN track \subseteq Nat \ {0}
  BY <1>1, TrackFacts
<1>4. CASE ~InOrder(track)
  <2>1. Near(p, p, Slack)
    BY <1>1, Domains DEF Near
  <2> QED BY <1>1, <1>4, <2>1, QuietNearby DEF Sounding
<1>5. CASE InOrder(track) /\ decoder.expected = Unknown
  <2>1. chunk.start <= track[1].start /\ s = chunk.start
    <3>1. s = chunk.start /\ chunk.start > cursor.produced
      BY <1>1, <1>2, <1>5, Domains
    <3>2. chunk.start <= Max2(cursor.produced, track[1].start)
      BY <1>5 DEF IInv, ProgressInv, SoughtInv
    <3> QED BY <1>1, <1>3, <3>1, <3>2 DEF Max2
  <2>2. ASSUME NEW i \in DOMAIN track, track[i].start # Unstamped
        PROVE  track[1].start <= track[i].start
    <3>1. i = 1 \/ 1 < i
      BY <1>3
    <3> QED BY <1>3, <1>5, <2>2, <3>1 DEF InOrder
  <2>3. p \notin Sounding(track)
    <3>1. ASSUME NEW i \in DOMAIN track, track[i].start # Unstamped PROVE p < track[i].start
      <4>1. track[1].start <= track[i].start
        BY <2>2, <3>1
      <4> QED BY <1>1, <1>2, <1>3, <2>1, <3>1, <4>1
    <3> QED BY <1>1, <1>3, <1>5, <3>1 DEF Sounding, StampsOf
  <2>4. Near(p, p, Slack)
    BY <1>1, Domains DEF Near
  <2> QED BY <1>1, <2>3, <2>4, QuietNearby
<1>6. CASE InOrder(track) /\ decoder.expected # Unknown
  <2> DEFINE heardTo == decoder.expected + DecoderJitter
             t == Max2(p, heardTo)
  <2>1. /\ decoder.expected \in Nat /\ decoder.expected <= cursor.produced + Jitter
        /\ \A i \in DOMAIN track :
             i < k /\ track[i].start # Unstamped => track[i].start + track[i].count <= heardTo
    <3>1. Upto = cursor.produced
      <4>1. Len(work.pending) = 0
        OBVIOUS
      <4> QED BY <1>1, <4>1 DEF Upto
    <3> QED BY <1>1, <1>6, <3>1 DEF IInv, ProgressInv, DecodedInv
  <2>2. s = chunk.start /\ chunk.start > heardTo
    <3>1. s # decoder.expected
      BY <1>1, <1>2, <2>1, Domains
    <3>2. s = chunk.start /\ ~Near(chunk.start, decoder.expected, DecoderJitter)
      BY <1>2, <1>6, <3>1
    <3>3. chunk.start > cursor.produced + Jitter
      BY <1>2, <3>2
    <3>4. chunk.start > decoder.expected
      <4>1. /\ chunk.start \in Nat /\ decoder.expected \in Nat /\ cursor.produced \in Nat
            /\ decoder.expected <= cursor.produced + Jitter
        BY <1>1, <2>1
      <4>2. Jitter \in Nat
        BY Domains
      <4> QED BY <3>3, <4>1, <4>2
    <3>5. ~(chunk.start <= decoder.expected + DecoderJitter)
      <4>1. chunk.start \in Nat /\ decoder.expected \in Nat /\ DecoderJitter \in Nat
        BY <1>1, <2>1, Domains
      <4>2. decoder.expected <= chunk.start + DecoderJitter
        BY <3>4, <4>1
      <4> QED BY <3>2, <4>2 DEF Near
    <3>6. chunk.start \in Nat /\ decoder.expected \in Nat /\ DecoderJitter \in Nat
      BY <1>1, <2>1, Domains
    <3> QED BY <3>2, <3>5, <3>6
  <2>3. /\ heardTo \in Nat /\ t \in Nat /\ t >= heardTo /\ t < chunk.start /\ Near(t, p, Slack)
    <3>1. heardTo \in Nat /\ p \in Nat /\ heardTo <= p + Slack
      <4>1. Jitter \in Nat /\ DecoderJitter \in Nat
        BY Domains
      <4>2. /\ decoder.expected \in Nat /\ cursor.produced \in Nat /\ p \in Int
            /\ decoder.expected <= cursor.produced + Jitter /\ p >= cursor.produced
            /\ Slack = Jitter + DecoderJitter
        BY <1>1, <2>1
      <4> QED BY <4>1, <4>2
    <3>2. p < chunk.start /\ heardTo < chunk.start
      BY <1>2, <2>2
    <3> HIDE DEF heardTo
    <3>3. t = p \/ t = heardTo
      BY DEF Max2
    <3>4. t >= heardTo /\ t >= p
      BY <3>1 DEF Max2
    <3> HIDE DEF t
    <3> QED BY <3>1, <3>2, <3>3, <3>4, Domains DEF Near
  <2> HIDE DEF t, heardTo
  <2>4. ASSUME NEW i \in DOMAIN track, track[i].start # Unstamped
        PROVE  t < track[i].start \/ t >= track[i].start + track[i].count
    <3>1. i < k \/ i = k \/ k < i
      BY <1>1, <1>3
    <3>2. CASE i < k
      BY <1>3, <2>1, <2>3, <2>4, <3>2
    <3>3. CASE i = k
      BY <2>3, <3>3
    <3>4. CASE k < i
      <4>1. chunk.start <= track[i].start
        BY <1>6, <2>4, <3>4 DEF InOrder
      <4> QED BY <1>1, <1>3, <2>3, <2>4, <4>1
    <3> QED BY <3>1, <3>2, <3>3, <3>4
  <2>5. t \notin Sounding(track)
    BY <1>3, <1>6, <2>3, <2>4 DEF Sounding, StampsOf
  <2> QED BY <1>1, <2>3, <2>5, QuietNearby
<1> QED BY <1>4, <1>5, <1>6

(* A chunk is decoded: what it leaves to append ends near where the decoder expects
   the next, and the gap before it is one. *)
LEMMA DecodeProgress ==
  ASSUME IInv, DecodeChunk
  PROVE  ProgressInv'
<1> DEFINE k     == decoder.next
           chunk == track[k]
           place == PlaceOf(chunk)
           late  == Max2(0, cursor.produced - place)
           s     == StampedStart(chunk)
<1>1. /\ TypeOK /\ producer = "decode" /\ k <= Len(track) /\ UNCHANGED <<track, cursor>>
      /\ decoder' = [next |-> k + 1,
                     expected |-> IF chunk.start = Unstamped THEN decoder.expected
                                  ELSE s + chunk.count]
      /\ work' = IF late >= chunk.count THEN work
                 ELSE [work EXCEPT !.gap = Max2(0, place - cursor.produced),
                                   !.pending = Frames(chunk, late)]
  BY DEF IInv, Core, DecodeChunk, ring
<1>2. /\ track # <<>> /\ work.gap = 0 /\ work.pending = <<>>
      /\ decoder.next \in Nat \ {0} /\ decoder.expected \in Nat \cup {Unknown}
      /\ cursor.produced \in Nat
      /\ work \in [pending : Seq(Frame), gap : Nat, finished : BOOLEAN]
  BY <1>1 DEF IInv, Core, ClosedInv, WorkInv, TypeOK
<1>3. /\ track \in Seq(Chunk) /\ k \in DOMAIN track /\ chunk \in Chunk
      /\ DOMAIN track \subseteq Nat \ {0}
      /\ \A i \in DOMAIN track : /\ track[i].count \in Nat \ {0}
                                 /\ track[i].start \in Nat \cup {Unstamped}
  BY <1>1, <1>2, TrackFacts
<1>4. Upto = cursor.produced
  BY <1>2 DEF Upto
<1>5. decoder.expected = Unknown => chunk.start # Unstamped
  BY <1>2 DEF IInv, ProgressInv, SoughtInv
<1>6. decoder.expected # Unknown /\ InOrder(track) =>
        /\ decoder.expected <= cursor.produced + Jitter
        /\ \A i \in DOMAIN track :
             i < k /\ track[i].start # Unstamped =>
               track[i].start + track[i].count <= decoder.expected + DecoderJitter
  BY <1>2, <1>4 DEF IInv, ProgressInv, DecodedInv
<1>7. /\ chunk.count \in Nat \ {0} /\ place \in Nat /\ late \in Nat
      /\ late = Max2(0, cursor.produced - place)
  <2>1. place \in Nat
    BY <1>1, <1>3, PlaceIsNear
  <2> HIDE DEF place
  <2> QED BY <1>2, <1>3, <2>1 DEF Max2
<1>8. ~(late >= chunk.count) =>
        /\ work'.gap = Max2(0, place - cursor.produced)
        /\ Len(work'.pending) = chunk.count - late
  <2>1. ASSUME ~(late >= chunk.count)
        PROVE  /\ work'.gap = Max2(0, place - cursor.produced)
               /\ work'.pending = Frames(chunk, late)
    <3> HIDE DEF late, place, chunk
    <3> QED BY <1>1, <1>2, <2>1
  <2>2. ASSUME ~(late >= chunk.count) PROVE Len(Frames(chunk, late)) = chunk.count - late
    <3> HIDE DEF late, chunk
    <3>1. chunk.count - late \in Nat
      BY <1>7, <2>2
    <3> QED BY <3>1 DEF Frames
  <2> QED BY <2>1, <2>2
<1>9. CASE chunk.start = Unstamped
  <2>1. place = cursor.produced
    BY <1>9 DEF PlaceOf, StampedStart
  <2>2. late = 0
    <3> HIDE DEF place
    <3> QED BY <1>2, <1>7, <2>1 DEF Max2
  <2> HIDE DEF place, late, s
  <2>3. work'.gap = 0 /\ Len(work'.pending) = chunk.count
    <3> HIDE DEF chunk
    <3> QED BY <1>2, <1>7, <1>8, <2>1, <2>2 DEF Max2
  <2>4. decoder'.expected = decoder.expected /\ decoder'.next = k + 1
    BY <1>1, <1>9
  <2>5. GapInv'
    BY <1>1, <1>2, <2>3 DEF GapInv
  <2>6. SoughtInv'
    BY <1>5, <1>9, <2>4 DEF SoughtInv
  <2>7. DecodedInv'
    <3>1. SUFFICES ASSUME InOrder(track)
                   PROVE  /\ decoder'.expected <= Upto' + Jitter
                          /\ \A i \in DOMAIN track :
                               i < decoder'.next /\ track[i].start # Unstamped =>
                                 track[i].start + track[i].count
                                   <= decoder'.expected + DecoderJitter
      BY <1>1 DEF DecodedInv
    <3>2. Upto' = cursor.produced + chunk.count
      <4> HIDE DEF chunk
      <4> QED BY <1>1, <1>2, <1>7, <2>3 DEF Upto
    <3>3. decoder'.expected <= Upto' + Jitter
      <4> HIDE DEF chunk
      <4>1. /\ decoder.expected \in Nat /\ cursor.produced \in Nat /\ chunk.count \in Nat
            /\ decoder.expected <= cursor.produced + Jitter
        BY <1>2, <1>5, <1>6, <1>7, <1>9, <3>1
      <4>2. Jitter \in Nat
        BY Domains
      <4> QED BY <2>4, <3>2, <4>1, <4>2
    <3>4. ASSUME NEW i \in DOMAIN track, i < decoder'.next, track[i].start # Unstamped
          PROVE  track[i].start + track[i].count <= decoder'.expected + DecoderJitter
      <4>1. i < k
        BY <1>2, <1>3, <1>9, <2>4, <3>4
      <4> QED BY <1>5, <1>6, <1>9, <2>4, <3>1, <3>4, <4>1
    <3> QED BY <3>3, <3>4
  <2> QED BY <2>5, <2>6, <2>7 DEF ProgressInv
<1>10. CASE chunk.start # Unstamped
  <2>1. /\ s \in Nat /\ chunk.start \in Nat /\ chunk.start <= s + DecoderJitter
        /\ s <= place + Jitter
        /\ place < cursor.produced => s = place
    <3>1. /\ s \in Nat /\ Near(chunk.start, s, DecoderJitter)
          /\ \/ place = cursor.produced /\ Near(s, cursor.produced, Jitter)
             \/ place = s
      BY <1>1, <1>3, <1>10, StampFacts
    <3>2. chunk.start \in Nat
      BY <1>3, <1>10
    <3> HIDE DEF s, place, chunk
    <3> QED BY <1>2, <1>7, <3>1, <3>2, Domains DEF Near
  <2> HIDE DEF place, s
  <2>2. decoder'.expected = s + chunk.count /\ decoder'.next = k + 1
    BY <1>1, <1>10
  <2>3. decoder'.expected # Unknown
    <3> HIDE DEF chunk
    <3> QED BY <1>7, <2>1, <2>2 DEF Unknown
  <2>4. /\ work'.gap \in Nat
        /\ work'.gap > 0 => work'.gap = place - cursor.produced
        /\ s + chunk.count <= Upto' + Jitter
    <3> HIDE DEF chunk
    <3>1. CASE late >= chunk.count
      <4>1. late = cursor.produced - place /\ place < cursor.produced
        BY <1>2, <1>7, <3>1 DEF Max2
      <4>2. work' = work
        BY <1>1, <3>1
      <4>3. Upto' = cursor.produced
        BY <1>1, <1>2, <1>4, <4>2 DEF Upto
      <4> HIDE DEF late
      <4>4. work'.gap = 0
        BY <1>2, <4>2
      <4>5. /\ cursor.produced \in Nat /\ place \in Nat /\ s \in Nat /\ chunk.count \in Nat
            /\ Jitter \in Nat /\ s = place
        BY <1>2, <1>7, <2>1, <4>1, Domains
      <4>6. place + chunk.count <= cursor.produced
        BY <3>1, <4>1, <4>5
      <4>7. s + chunk.count <= Upto' + Jitter
        BY <4>3, <4>5, <4>6
      <4> QED BY <4>4, <4>7
    <3>2. CASE ~(late >= chunk.count)
      <4>1. /\ work'.gap = Max2(0, place - cursor.produced)
            /\ Len(work'.pending) = chunk.count - late
        BY <1>8, <3>2
      <4>2. work'.gap - late = place - cursor.produced /\ work'.gap \in Nat
            /\ (work'.gap > 0 => work'.gap = place - cursor.produced)
        BY <1>2, <1>7, <4>1 DEF Max2
      <4> HIDE DEF late
      <4>3. Upto' = cursor.produced + work'.gap + (chunk.count - late)
        BY <1>1, <4>1 DEF Upto
      <4>4. Upto' = place + chunk.count
        <5>1. /\ chunk.count \in Nat /\ late \in Nat /\ place \in Nat
              /\ cursor.produced \in Nat /\ work'.gap \in Nat
          BY <1>2, <1>7, <4>2
        <5>2. work'.gap - late = place - cursor.produced
          BY <4>2
        <5> QED BY <4>3, <5>1, <5>2
      <4>5. Jitter \in Nat /\ s \in Nat /\ place \in Nat /\ chunk.count \in Nat
        BY <1>7, <2>1, Domains
      <4> QED BY <2>1, <4>2, <4>4, <4>5
    <3> QED BY <3>1, <3>2
  <2>5. GapInv'
    <3>1. SUFFICES ASSUME NEW p \in cursor.produced .. cursor.produced + work'.gap - 1
                   PROVE  Right(track, Silence, p)
      BY <1>1 DEF GapInv
    <3>2. p \in cursor.produced .. place - 1
      <4> HIDE DEF chunk, late
      <4> QED BY <1>2, <1>7, <2>4, <3>1
    <3> QED BY <1>2, <1>3, <1>10, <3>2, GapBefore DEF place
  <2>6. SoughtInv'
    BY <2>3 DEF SoughtInv
  <2>7. DecodedInv'
    <3>1. SUFFICES ASSUME InOrder(track)
                   PROVE  /\ decoder'.expected <= Upto' + Jitter
                          /\ \A i \in DOMAIN track :
                               i < decoder'.next /\ track[i].start # Unstamped =>
                                 track[i].start + track[i].count
                                   <= decoder'.expected + DecoderJitter
      BY <1>1 DEF DecodedInv
    <3>2. decoder'.expected <= Upto' + Jitter
      BY <2>2, <2>4
    <3>3. ASSUME NEW i \in DOMAIN track, i < decoder'.next, track[i].start # Unstamped
          PROVE  track[i].start + track[i].count <= decoder'.expected + DecoderJitter
      <4>1. i = k \/ i < k
        BY <1>2, <1>3, <2>2, <3>3
      <4>2. track[i].start + track[i].count <= chunk.start + chunk.count
        <5>1. CASE i = k
          <6>1. track[i].start \in Nat /\ track[i].count \in Nat
            BY <1>3, <3>3
          <6> QED BY <5>1, <6>1
        <5>2. CASE i < k
          BY <1>3, <1>10, <3>1, <3>3, <5>2 DEF InOrder
        <5> QED BY <4>1, <5>1, <5>2
      <4>3. track[i].start \in Nat /\ track[i].count \in Nat
        BY <1>3, <3>3
      <4> HIDE DEF chunk
      <4>4. /\ chunk.count \in Nat /\ chunk.start \in Nat /\ s \in Nat
            /\ chunk.start <= s + DecoderJitter
        BY <1>7, <2>1
      <4>5. DecoderJitter \in Nat
        BY Domains
      <4> QED BY <2>2, <4>2, <4>3, <4>4, <4>5
    <3> QED BY <3>2, <3>3
  <2> QED BY <2>5, <2>6, <2>7 DEF ProgressInv
<1> QED BY <1>9, <1>10

(* The decoder is at its end: what fills the length up follows all that sounds. *)
LEMMA EndProgress ==
  ASSUME IInv, DecodeEnd
  PROVE  ProgressInv'
<1>1. /\ TypeOK /\ producer = "decode" /\ decoder.next > Len(track)
      /\ UNCHANGED <<track, cursor, decoder>>
      /\ work' = [work EXCEPT !.gap = Max2(0, total - cursor.produced), !.finished = TRUE]
  BY DEF IInv, Core, DecodeEnd, ring
<1>2. /\ track # <<>> /\ work.gap = 0 /\ work.pending = <<>>
      /\ decoder.next \in Nat \ {0} /\ decoder.expected \in Nat \cup {Unknown}
      /\ cursor.produced \in Nat /\ total \in Nat
      /\ work \in [pending : Seq(Frame), gap : Nat, finished : BOOLEAN]
  <2>1. track # <<>> /\ work.gap = 0 /\ work.pending = <<>>
    BY <1>1 DEF IInv, Core, ClosedInv, WorkInv
  <2>2. total \in Nat
    <3>1. total \in Lengths \cup {0}
      BY <1>1 DEF TypeOK
    <3> QED BY <3>1, Domains
  <2>3. /\ decoder.next \in Nat \ {0} /\ decoder.expected \in Nat \cup {Unknown}
        /\ cursor.produced \in Nat
        /\ work \in [pending : Seq(Frame), gap : Nat, finished : BOOLEAN]
    BY <1>1 DEF TypeOK
  <2> QED BY <2>1, <2>2, <2>3
<1>3. /\ track \in Seq(Chunk) /\ DOMAIN track \subseteq Nat \ {0}
      /\ \A i \in DOMAIN track : /\ track[i].count \in Nat \ {0}
                                 /\ track[i].start \in Nat \cup {Unstamped}
      /\ \A i \in DOMAIN track : i < decoder.next
  BY <1>1, <1>2, TrackFacts
<1>4. decoder.expected # Unknown
  BY <1>2, <1>3 DEF IInv, ProgressInv, SoughtInv
<1>5. work'.gap \in Nat /\ work'.pending = <<>>
  BY <1>1, <1>2 DEF Max2
<1>6. Upto = cursor.produced /\ Upto' = cursor.produced + work'.gap
  BY <1>1, <1>2, <1>5 DEF Upto
<1>7. InOrder(track) =>
        /\ decoder.expected <= cursor.produced + Jitter
        /\ \A i \in DOMAIN track :
             track[i].start # Unstamped =>
               track[i].start + track[i].count <= decoder.expected + DecoderJitter
  BY <1>2, <1>3, <1>4, <1>6 DEF IInv, ProgressInv, DecodedInv
<1>8. GapInv'
  <2>1. SUFFICES ASSUME NEW p \in cursor.produced .. cursor.produced + work'.gap - 1
                 PROVE  Right(track, Silence, p)
    BY <1>1 DEF GapInv
  <2>2. p \in Int /\ p >= cursor.produced /\ Near(p, p, Slack)
    BY <1>2, <1>5, Domains DEF Near
  <2>3. CASE ~InOrder(track)
    BY <2>2, <2>3, QuietNearby DEF Sounding
  <2>4. CASE InOrder(track)
    <3> DEFINE heardTo == decoder.expected + DecoderJitter
               t == Max2(p, heardTo)
    <3>1. heardTo \in Nat /\ p \in Nat /\ heardTo <= p + Slack
      <4>1. /\ decoder.expected \in Nat /\ cursor.produced \in Nat /\ p \in Nat
            /\ p >= cursor.produced /\ decoder.expected <= cursor.produced + Jitter
        BY <1>2, <1>4, <1>7, <2>2, <2>4
      <4>2. Jitter \in Nat /\ DecoderJitter \in Nat /\ Slack = Jitter + DecoderJitter
        BY Domains DEF Slack
      <4> QED BY <4>1, <4>2
    <3>2. \A i \in DOMAIN track :
            track[i].start # Unstamped => track[i].start + track[i].count <= heardTo
      BY <1>7, <2>4
    <3> HIDE DEF heardTo
    <3>3. (t = p \/ t = heardTo) /\ t >= heardTo /\ t >= p
      BY <3>1 DEF Max2
    <3> HIDE DEF t
    <3>4. t \in Nat /\ Near(t, p, Slack)
      BY <3>1, <3>3, Domains DEF Near
    <3>5. ASSUME NEW i \in DOMAIN track, track[i].start # Unstamped
          PROVE  t >= track[i].start + track[i].count
      <4>1. track[i].start \in Nat /\ track[i].count \in Nat
        BY <1>3, <3>5
      <4>2. track[i].start + track[i].count <= heardTo
        BY <3>2, <3>5
      <4> QED BY <3>1, <3>3, <3>4, <4>1, <4>2
    <3>6. t \notin Sounding(track)
      <4>1. ASSUME NEW i \in DOMAIN track, track[i].start # Unstamped
            PROVE  ~(t < track[i].start + track[i].count)
        <5>1. track[i].start + track[i].count \in Nat
          BY <1>3, <4>1
        <5> QED BY <3>4, <3>5, <4>1, <5>1
      <4> QED BY <2>4, <4>1 DEF Sounding, StampsOf
    <3> QED BY <2>2, <3>4, <3>6, QuietNearby
  <2> QED BY <2>3, <2>4
<1>9. SoughtInv'
  BY <1>1, <1>4 DEF SoughtInv
<1>10. DecodedInv'
  <2>1. SUFFICES ASSUME InOrder(track)
                 PROVE  /\ decoder.expected <= Upto' + Jitter
                        /\ \A i \in DOMAIN track :
                             track[i].start # Unstamped =>
                               track[i].start + track[i].count
                                 <= decoder.expected + DecoderJitter
    BY <1>1 DEF DecodedInv
  <2>2. decoder.expected <= Upto' + Jitter
    BY <1>2, <1>4, <1>5, <1>6, <1>7, <2>1, Domains
  <2> QED BY <1>7, <2>1, <2>2
<1> QED BY <1>8, <1>9, <1>10 DEF ProgressInv

(* A seek: the decoder stands at a stamped chunk, at or before the place. *)
LEMMA SeekProgress ==
  ASSUME IInv, Reposition
  PROVE  ProgressInv'
<1> DEFINE to == IF total > 0 THEN Min2(control.to, total) ELSE control.to
<1>1. PICK i \in SeekPoints(to) : decoder' = [next |-> i, expected |-> Unknown]
  BY DEF Reposition
<1>2. /\ cursor' = [base |-> to, produced |-> to, delivered |-> 0] /\ work' = NoWork
      /\ track' = track
  BY DEF Reposition, StartProducer
<1>3. to \in Nat
  BY Domains DEF IInv, Core, TypeOK, Min2
<1> HIDE DEF to
<1>4. /\ i \in DOMAIN track /\ track[i].start # Unstamped
      /\ track[i].start <= Max2(to, track[1].start)
  BY <1>1 DEF SeekPoints
<1>5. GapInv'
  BY <1>2, <1>3 DEF GapInv, NoWork
<1>6. SoughtInv'
  BY <1>1, <1>2, <1>4 DEF SoughtInv, NoWork
<1>7. DecodedInv'
  BY <1>1 DEF DecodedInv
<1> QED BY <1>5, <1>6, <1>7 DEF ProgressInv

LEMMA OpenProgress ==
  ASSUME IInv, Open
  PROVE  ProgressInv'
<1>1. /\ track' \in Soundtracks /\ decoder' = [next |-> 1, expected |-> Unknown]
      /\ cursor' = [base |-> 0, produced |-> 0, delivered |-> 0] /\ work' = NoWork
  BY DEF Open, StartProducer
<1>2. /\ 1 \in DOMAIN track' /\ track'[1].start # Unstamped /\ track'[1].start \in Nat
  <2>1. track' \in Seq(Chunk) /\ track' # <<>> /\ track'[1].start # Unstamped
    BY <1>1, AudioAssumption, Domains
  <2>2. 1 \in DOMAIN track'
    BY <2>1
  <2>3. track'[1] \in Chunk
    BY <2>1, <2>2
  <2> QED BY <2>1, <2>2, <2>3, Domains DEF Chunk
<1>3. GapInv'
  BY <1>1 DEF GapInv, NoWork
<1>4. SoughtInv'
  BY <1>1, <1>2 DEF SoughtInv, NoWork, Max2
<1>5. DecodedInv'
  BY <1>1 DEF DecodedInv
<1> QED BY <1>3, <1>4, <1>5 DEF ProgressInv

(* Nothing is open: nothing is filled, and there is nothing to be behind. *)
LEMMA ClosedProgress ==
  /\ Init => ProgressInv
  /\ JoinAndClose => ProgressInv'
<1>1. ASSUME track = <<>>, work = NoWork, cursor.produced = 0 PROVE ProgressInv
  BY <1>1 DEF ProgressInv, GapInv, SoughtInv, DecodedInv, NoWork
<1>2. ASSUME track' = <<>>, work' = NoWork, cursor'.produced = 0 PROVE ProgressInv'
  BY <1>2 DEF ProgressInv, GapInv, SoughtInv, DecodedInv, NoWork
<1>3. Init => track = <<>> /\ work = NoWork /\ cursor.produced = 0
  BY DEF Init
<1>4. JoinAndClose => track' = <<>> /\ work' = NoWork /\ cursor'.produced = 0
  BY DEF JoinAndClose
<1> QED BY <1>1, <1>2, <1>3, <1>4

(* The steps that neither open, seek, decode nor append leave the progress alone. *)
LEMMA ProgressKeeps == IInv /\ [Next]_vars => ProgressInv'
<1> SUFFICES ASSUME IInv, [Next]_vars PROVE ProgressInv'
  OBVIOUS
<1> USE DEF ring, user
<1> DEFINE Same == UNCHANGED <<track, decoder, work>> /\ cursor'.produced = cursor.produced
<1>1. ASSUME Same PROVE ProgressInv'
  BY <1>1, SameProgress DEF IInv
<1>2. cursor \in [base : 0 .. End, produced : Nat, delivered : Nat]
  BY DEF IInv, Core, TypeOK
<1>3. UNCHANGED vars => Same
  BY DEF vars
<1>4. ProducerStep => Same \/ AppendFrames \/ DecodeChunk \/ DecodeEnd
  BY DEF ProducerStep, Check, AppendBlocked, Finish, DecodeFails
<1>5. DeviceStep => Same
  BY <1>2 DEF DeviceStep, Read, ReadAgain, Take, Fill, Hear
<1>6. UserStep => Same \/ Open
  BY DEF UserStep, PlayAt, Stop, Close, Begin, Pause, Resume, RefreshFilters
<1>7. ControlStep => Same \/ Reposition \/ JoinAndClose
  BY DEF ControlStep, SeekFails, Prime, OpenPrimed
<1> HIDE DEF Same
<1> QED BY <1>1, <1>3, <1>4, <1>5, <1>6, <1>7, AppendProgress, DecodeProgress, EndProgress,
           SeekProgress, OpenProgress, ClosedProgress DEF Next

(* The invariant holds of every behaviour. *)
LEMMA Inductive == Spec => []IInv
<1>1. Init => IInv
  BY InitInv, ClosedProgress DEF IInv
<1>2. IInv /\ [Next]_vars => IInv'
  BY NextKeeps, ProgressKeeps DEF IInv
<1> QED BY <1>1, <1>2, PTL DEF Spec

(* The layers, laid end to end, are all the sound there is. *)
LEMMA LayersAreInPlace == IInv => Placed(track, Stream, First)
<1> SUFFICES ASSUME IInv PROVE Placed(track, Stream, First)
  OBVIOUS
<1> DEFINE bufferPlace     == cursor.produced - Len(buffer)
           prefetchedPlace == bufferPlace - Len(prefetched)
           downstreamPlace == prefetchedPlace - Len(downstream)
           heardPlace      == downstreamPlace - Len(heard)
           ahead           == prefetched \o buffer
<1>1. /\ buffer \in Seq(Frame) /\ prefetched \in Seq(Frame) /\ downstream \in Seq(Frame)
      /\ heard \in Seq(Frame) /\ cursor.produced \in Nat
  BY DEF IInv, Core, TypeOK
<1>2. /\ Len(buffer) \in Nat /\ Len(prefetched) \in Nat /\ Len(downstream) \in Nat
      /\ Len(heard) \in Nat
  BY <1>1
<1>3. /\ bufferPlace \in Int /\ prefetchedPlace \in Int
      /\ downstreamPlace \in Int /\ heardPlace \in Int
      /\ prefetchedPlace + Len(prefetched) = bufferPlace
      /\ downstreamPlace + Len(downstream) = prefetchedPlace
      /\ heardPlace + Len(heard) = downstreamPlace
      /\ cursor.produced = bufferPlace + Len(buffer)
  <2> DEFINE c == cursor.produced
             b == Len(buffer)
             p == Len(prefetched)
             d == Len(downstream)
             h == Len(heard)
  <2>1. c \in Int /\ b \in Int /\ p \in Int /\ d \in Int /\ h \in Int
    BY <1>1, <1>2
  <2> HIDE DEF c, b, p, d, h
  <2>2. /\ c - b \in Int /\ c - b - p \in Int /\ c - b - p - d \in Int
        /\ c - b - p - d - h \in Int
        /\ (c - b - p) + p = c - b /\ (c - b - p - d) + d = c - b - p
        /\ (c - b - p - d - h) + h = c - b - p - d /\ c = (c - b) + b
    BY <2>1
  <2> QED BY <2>2 DEF c, b, p, d, h
<1>4. /\ Placed(track, buffer, bufferPlace) /\ Placed(track, prefetched, prefetchedPlace)
      /\ sink # "stopped" => /\ Placed(track, downstream, downstreamPlace)
                             /\ Placed(track, heard, heardPlace)
  BY DEF IInv, Core, LayersInv
<1> HIDE DEF bufferPlace, prefetchedPlace, downstreamPlace, heardPlace
<1>5. CASE sink = "stopped"
  <2>1. /\ ahead \in Seq(Frame) /\ Len(ahead) = Len(prefetched) + Len(buffer)
        /\ Placed(track, ahead, prefetchedPlace)
    BY <1>1, <1>3, <1>4, JoinPlaced
  <2>2. Stream = ahead
    BY <1>1, <1>5 DEF Stream, Received
  <2> HIDE DEF ahead
  <2>3. First = prefetchedPlace
    <3>1. /\ Len(Stream) = Len(prefetched) + Len(buffer)
          /\ prefetchedPlace + Len(prefetched) = bufferPlace
          /\ cursor.produced = bufferPlace + Len(buffer)
      BY <1>3, <2>1, <2>2
    <3>2. First = cursor.produced - Len(Stream)
      BY DEF First
    <3>3. prefetchedPlace \in Int /\ Len(buffer) \in Nat /\ Len(prefetched) \in Nat
      BY <1>2, <1>3
    <3>4. cursor.produced = prefetchedPlace + Len(Stream) /\ Len(Stream) \in Int
      BY <3>1, <3>3
    <3> QED BY <3>2, <3>3, <3>4
  <2> QED BY <2>1, <2>2, <2>3
<1>6. CASE sink # "stopped"
  <2> DEFINE received == heard \o downstream
             taken    == received \o prefetched
  <2>1. /\ received \in Seq(Frame) /\ Len(received) = Len(heard) + Len(downstream)
        /\ Placed(track, received, heardPlace)
    BY <1>1, <1>3, <1>4, <1>6, JoinPlaced
  <2>2. Stream = taken \o buffer
    BY <1>6 DEF Stream, Received
  <2> HIDE DEF received
  <2>3. heardPlace + Len(received) = prefetchedPlace
    BY <1>2, <1>3, <2>1
  <2>4. /\ taken \in Seq(Frame) /\ Len(taken) = Len(received) + Len(prefetched)
        /\ Placed(track, taken, heardPlace)
    BY <1>1, <1>3, <1>4, <2>1, <2>3, JoinPlaced
  <2> HIDE DEF taken
  <2>5. heardPlace + Len(taken) = bufferPlace
    <3>1. /\ Len(received) \in Int /\ Len(prefetched) \in Int /\ heardPlace \in Int
      BY <1>2, <1>3, <2>1
    <3>2. /\ prefetchedPlace + Len(prefetched) = bufferPlace
          /\ Len(taken) = Len(received) + Len(prefetched)
      BY <1>3, <2>4
    <3> QED BY <2>3, <3>1, <3>2
  <2>6. /\ Stream \in Seq(Frame) /\ Len(Stream) = Len(taken) + Len(buffer)
        /\ Placed(track, Stream, heardPlace)
    BY <1>1, <1>3, <1>4, <2>2, <2>4, <2>5, JoinPlaced
  <2>7. First = heardPlace
    <3>1. /\ Len(Stream) = Len(taken) + Len(buffer) /\ Len(taken) \in Nat
          /\ heardPlace + Len(taken) = bufferPlace /\ cursor.produced = bufferPlace + Len(buffer)
      BY <1>3, <2>4, <2>5, <2>6
    <3>2. First = cursor.produced - Len(Stream)
      BY DEF First
    <3>3. heardPlace \in Int /\ Len(buffer) \in Nat
      BY <1>2, <1>3
    <3>4. cursor.produced = heardPlace + Len(Stream) /\ Len(Stream) \in Int
      BY <3>1, <3>3
    <3> QED BY <3>2, <3>3, <3>4
  <2> QED BY <2>6, <2>7
<1> QED BY <1>5, <1>6

(* What is in place is sound that is in place, and silence in a gap. *)
LEMMA StreamIsInPlace == IInv => SoundIsInPlace
BY LayersAreInPlace DEF Placed, Right, SoundIsInPlace, InPlace

LEMMA StampsAreSounding == TypeOK => Stamps = StampsOf(track)
<1> SUFFICES ASSUME TypeOK PROVE Stamps = StampsOf(track)
  OBVIOUS
<1> DEFINE Covered(chunk) == IF chunk.start = Unstamped THEN {}
                             ELSE chunk.start .. chunk.start + chunk.count - 1
<1>1. ASSUME NEW i \in DOMAIN track
      PROVE  track[i].start \in Nat \cup {Unstamped} /\ track[i].count \in Nat
  <2>1. track # <<>>
    BY <1>1
  <2> QED BY <1>1, <2>1, TrackFacts
<1>2. ASSUME NEW t, NEW i \in DOMAIN track
      PROVE  t \in Covered(track[i]) <=>
               t \in Nat /\ track[i].start # Unstamped /\ track[i].start <= t
                         /\ t < track[i].start + track[i].count
  <2>1. CASE track[i].start = Unstamped
    BY <2>1
  <2>2. CASE track[i].start # Unstamped
    BY <1>1, <2>2
  <2> QED BY <2>1, <2>2
<1>3. Range(track) = {track[i] : i \in DOMAIN track}
  BY DEF Range
<1> HIDE DEF Covered
<1>4. Stamps = UNION {Covered(chunk) : chunk \in Range(track)}
  BY Zenon DEF Stamps, Covered
<1>5. ASSUME NEW t
      PROVE  t \in UNION {Covered(chunk) : chunk \in Range(track)} <=>
               \E i \in DOMAIN track : t \in Covered(track[i])
  BY Zenon, <1>3
<1>6. ASSUME NEW t PROVE t \in Stamps <=> t \in StampsOf(track)
  BY <1>2, <1>4, <1>5 DEF StampsOf
<1> QED BY Zenon, <1>6

LEMMA SilenceIsInAGap == IInv => (InOrder(track) => SilenceIsAGap)
<1> SUFFICES ASSUME IInv, InOrder(track) PROVE SilenceIsAGap
  OBVIOUS
<1>1. Stamps = Sounding(track)
  BY StampsAreSounding DEF IInv, Core, Sounding
<1>2. ASSUME NEW i \in DOMAIN Stream, Stream[i] = Silence
      PROVE  ~(First + i - 1 - Slack .. First + i - 1 + Slack \subseteq Stamps)
  <2> DEFINE place == First + i - 1
  <2>1. Right(track, Stream[i], place)
    BY LayersAreInPlace DEF Placed
  <2> HIDE DEF place
  <2>2. ~(place - Slack .. place + Slack \subseteq Stamps)
    BY Zenon, <1>1, <1>2, <2>1 DEF Right
  <2>3. First + i - 1 - Slack = place - Slack /\ First + i - 1 + Slack = place + Slack
    <3>1. First \in Int /\ i \in Int
      <4>1. TypeOK
        BY DEF IInv, Core
      <4>2. /\ heard \in Seq(Frame) /\ downstream \in Seq(Frame) /\ prefetched \in Seq(Frame)
            /\ buffer \in Seq(Frame) /\ cursor.produced \in Nat
        BY <4>1 DEF TypeOK
      <4>3. Stream \in Seq(Frame)
        BY <4>2 DEF Stream, Received
      <4>4. Len(Stream) \in Nat /\ DOMAIN Stream = 1 .. Len(Stream)
        BY <4>3
      <4> QED BY <1>2, <4>2, <4>4 DEF First
    <3> QED BY <3>1, Domains DEF place
  <2> QED BY <2>2, <2>3
<1> QED BY <1>2 DEF SilenceIsAGap

-----------------------------------------------------------------------------
(* Completeness: nothing that was decoded is lost before it is played. *)

LEMMA Laid ==
  ASSUME NEW r \in Seq(Frame), NEW p \in Seq(Frame), NEW b \in Seq(Frame)
  PROVE  /\ r \o p \o b \in Seq(Frame)
         /\ Len(r \o p \o b) = Len(r) + Len(p) + Len(b)
         /\ \A t : Has(r \o p \o b, t) <=> Has(r, t) \/ Has(p, t) \/ Has(b, t)
<1> DEFINE q == r \o p
<1>1. /\ q \in Seq(Frame) /\ Len(q) = Len(r) + Len(p)
      /\ \A t : Has(q, t) <=> Has(r, t) \/ Has(p, t)
  BY HasConcat
<1> HIDE DEF q
<1>2. /\ q \o b \in Seq(Frame) /\ Len(q \o b) = Len(q) + Len(b)
      /\ \A t : Has(q \o b, t) <=> Has(q, t) \/ Has(b, t)
  BY <1>1, HasConcat
<1> QED BY <1>1, <1>2 DEF q

(* The stream, now and after a step. *)
LEMMA StreamFacts ==
  ASSUME TypeOK
  PROVE  /\ Received \in Seq(Frame) /\ prefetched \in Seq(Frame) /\ buffer \in Seq(Frame)
         /\ Len(Received) \in Nat /\ Len(prefetched) \in Nat /\ Len(buffer) \in Nat
         /\ Len(Stream) = Len(Received) + Len(prefetched) + Len(buffer)
         /\ First = cursor.produced - Len(Stream) /\ First \in Int
         /\ cursor.produced \in Nat /\ cursor.delivered \in Nat /\ cursor.base \in Nat
         /\ \A t : Has(Stream, t) <=> Has(Received, t) \/ Has(prefetched, t) \/ Has(buffer, t)
<1>1. Received \in Seq(Frame)
  <2>1. <<>> \in Seq(Frame)
    OBVIOUS
  <2>2. heard \o downstream \in Seq(Frame)
    BY HasConcat DEF TypeOK
  <2> QED BY <2>1, <2>2 DEF Received
<1>2. /\ prefetched \in Seq(Frame) /\ buffer \in Seq(Frame)
      /\ cursor.produced \in Nat /\ cursor.delivered \in Nat /\ cursor.base \in Nat
  BY Domains DEF TypeOK
<1>3. /\ Len(Stream) = Len(Received) + Len(prefetched) + Len(buffer)
      /\ \A t : Has(Stream, t) <=> Has(Received, t) \/ Has(prefetched, t) \/ Has(buffer, t)
  BY <1>1, <1>2, Laid DEF Stream
<1>4. Len(Received) \in Nat /\ Len(prefetched) \in Nat /\ Len(buffer) \in Nat
  BY <1>1, <1>2
<1>5. First = cursor.produced - Len(Stream)
  BY DEF First
<1>6. First \in Int
  BY <1>2, <1>3, <1>4, <1>5
<1> QED BY <1>1, <1>2, <1>3, <1>4, <1>5, <1>6

LEMMA StreamFactsNext ==
  ASSUME TypeOK'
  PROVE  /\ Received' \in Seq(Frame) /\ prefetched' \in Seq(Frame) /\ buffer' \in Seq(Frame)
         /\ Len(Received') \in Nat /\ Len(prefetched') \in Nat /\ Len(buffer') \in Nat
         /\ Len(Stream') = Len(Received') + Len(prefetched') + Len(buffer')
         /\ First' = cursor'.produced - Len(Stream') /\ First' \in Int
         /\ cursor'.produced \in Nat /\ cursor'.delivered \in Nat /\ cursor'.base \in Nat
         /\ \A t : Has(Stream', t) <=>
                     Has(Received', t) \/ Has(prefetched', t) \/ Has(buffer', t)
<1>1. Received' \in Seq(Frame)
  <2>1. <<>> \in Seq(Frame)
    OBVIOUS
  <2>2. heard' \o downstream' \in Seq(Frame)
    BY HasConcat DEF TypeOK
  <2> QED BY <2>1, <2>2 DEF Received
<1>2. /\ prefetched' \in Seq(Frame) /\ buffer' \in Seq(Frame)
      /\ cursor'.produced \in Nat /\ cursor'.delivered \in Nat /\ cursor'.base \in Nat
  BY Domains DEF TypeOK
<1>3. /\ Len(Stream') = Len(Received') + Len(prefetched') + Len(buffer')
      /\ \A t : Has(Stream', t) <=>
                  Has(Received', t) \/ Has(prefetched', t) \/ Has(buffer', t)
  BY <1>1, <1>2, Laid DEF Stream
<1>4. Len(Received') \in Nat /\ Len(prefetched') \in Nat /\ Len(buffer') \in Nat
  BY <1>1, <1>2
<1>5. First' = cursor'.produced - Len(Stream')
  BY DEF First
<1>6. First' \in Int
  BY <1>2, <1>3, <1>4, <1>5
<1> QED BY <1>1, <1>2, <1>3, <1>4, <1>5, <1>6

(* A step that passes sound on towards the loudspeaker, or drops what the player holds. *)
Passing ==
  /\ UNCHANGED <<track, total, decoder, work>>
  /\ cursor'.produced = cursor.produced /\ cursor'.base = cursor.base
  /\ Len(Received') + Len(prefetched') - cursor'.delivered
       <= Len(Received) + Len(prefetched) - cursor.delivered
  /\ First <= First'
  /\ \A t \in Nat : Has(Stream, t) => Has(Stream', t) \/ t < First' + Slack

LEMMA StillPasses ==
  ASSUME TypeOK, UNCHANGED <<track, total, decoder, work, buffer, cursor, prefetched>>,
         Received' = Received
  PROVE  Passing
<1>1. Stream' = Stream /\ First' = First
  BY DEF Stream, First
<1>2. First \in Int /\ Len(Received) + Len(prefetched) - cursor.delivered \in Int
  BY StreamFacts
<1> QED BY <1>1, <1>2 DEF Passing

(* Sound that is dropped is at places before what is played next. *)
LEMMA CutPasses ==
  ASSUME IInv, TypeOK', Received' = <<>>,
         UNCHANGED <<track, total, decoder, work, buffer, cursor, prefetched>>
  PROVE  Passing
<1>1. TypeOK
  BY DEF IInv, Core
<1>2. Len(Received') = 0 /\ First' = First + Len(Received)
  <2>1. /\ First = cursor.produced - Len(Stream)
        /\ Len(Stream) = Len(Received) + Len(prefetched) + Len(buffer)
        /\ Len(Received) \in Nat /\ Len(prefetched) \in Nat /\ Len(buffer) \in Nat
        /\ cursor.produced \in Nat
    BY <1>1, StreamFacts
  <2>2. /\ First' = cursor'.produced - Len(Stream')
        /\ Len(Stream') = Len(Received') + Len(prefetched') + Len(buffer')
    BY StreamFactsNext
  <2>3. Len(Received') = 0
    OBVIOUS
  <2>4. Len(Stream') = Len(prefetched) + Len(buffer)
    BY <2>1, <2>2, <2>3
  <2>5. Len(Stream') = Len(Stream) - Len(Received) /\ cursor' = cursor
    BY <2>1, <2>4
  <2>6. Len(Stream) \in Nat
    BY <2>1
  <2> QED BY <2>1, <2>2, <2>3, <2>5, <2>6
<1>3. ASSUME NEW t \in Nat, Has(Received, t) PROVE t < First' + Slack
  <2>1. PICK i \in DOMAIN Received : Received[i] = t
    BY <1>3 DEF Has
  <2>2. Received[i] = Stream[i] /\ i \in DOMAIN Stream /\ i \in 1 .. Len(Received)
    <3> DEFINE rest == prefetched \o buffer
    <3>1. rest \in Seq(Frame) /\ Received \in Seq(Frame) /\ prefetched \in Seq(Frame)
          /\ buffer \in Seq(Frame)
      BY <1>1, StreamFacts, HasConcat
    <3>2. Stream = Received \o rest
      BY <3>1 DEF Stream
    <3> HIDE DEF rest
    <3> QED BY <3>1, <3>2
  <2>3. Right(track, t, First + i - 1)
    BY <2>1, <2>2, LayersAreInPlace DEF Placed
  <2>4. t <= First + i - 1 + Slack
    BY <2>3, <1>3 DEF Right, Near
  <2>5. First \in Int /\ Len(Received) \in Nat /\ i \in Nat /\ i <= Len(Received)
    BY <1>1, <2>2, StreamFacts
  <2>6. Slack \in Nat
    BY Domains
  <2> QED BY <1>2, <2>4, <2>5, <2>6
<1>4. ASSUME NEW t \in Nat, Has(Stream, t) PROVE Has(Stream', t) \/ t < First' + Slack
  BY <1>1, <1>3, <1>4, StreamFacts, StreamFactsNext
<1>5. Len(Received') + Len(prefetched') - cursor'.delivered
        <= Len(Received) + Len(prefetched) - cursor.delivered
  BY <1>1, <1>2, StreamFacts
<1>6. First <= First'
  BY <1>1, <1>2, StreamFacts
<1> QED BY <1>4, <1>5, <1>6 DEF Passing

LEMMA TakePasses ==
  ASSUME IInv, TypeOK', NEW n \in 0 .. Len(buffer), Take(n),
         UNCHANGED <<track, total, decoder, work, downstream, sink, heard>>
  PROVE  Passing
<1>1. TypeOK
  BY DEF IInv, Core
<1>2. /\ cursor \in [base : 0 .. End, produced : Nat, delivered : Nat] /\ n \in Nat
      /\ buffer \in Seq(Frame) /\ Len(buffer) \in Nat /\ n <= Len(buffer)
  BY <1>1 DEF TypeOK
<1>3. /\ prefetched' = prefetched \o SubSeq(buffer, 1, n)
      /\ buffer' = SubSeq(buffer, n + 1, Len(buffer))
      /\ cursor' = [cursor EXCEPT !.delivered = @ + n]
  BY DEF Take
<1>4. /\ cursor'.produced = cursor.produced /\ cursor'.base = cursor.base
      /\ cursor'.delivered = cursor.delivered + n
  BY <1>2, <1>3
<1>5. Received' = Received
  BY DEF Received
<1>6. /\ SubSeq(buffer, 1, n) \in Seq(Frame) /\ Len(SubSeq(buffer, 1, n)) = n
      /\ Len(buffer') = Len(buffer) - n
  <2>1. SubSeq(buffer, 1, n) \in Seq(Frame) /\ Len(SubSeq(buffer, 1, n)) = n
    BY <1>2
  <2>2. Len(SubSeq(buffer, n + 1, Len(buffer))) = Len(buffer) - n
    BY <1>2
  <2> QED BY <1>3, <2>1, <2>2
<1>7. Len(prefetched') = Len(prefetched) + n
  <2> DEFINE taken == SubSeq(buffer, 1, n)
  <2>1. /\ prefetched \in Seq(Frame) /\ taken \in Seq(Frame) /\ Len(taken) = n
        /\ prefetched' = prefetched \o taken
    BY <1>1, <1>3, <1>6, StreamFacts
  <2> HIDE DEF taken
  <2>2. Len(prefetched \o taken) = Len(prefetched) + Len(taken)
    BY <2>1, HasConcat
  <2> QED BY <2>1, <2>2
<1>8. First' = First
  <2>1. /\ First = cursor.produced - Len(Stream)
        /\ Len(Stream) = Len(Received) + Len(prefetched) + Len(buffer)
        /\ Len(Received) \in Nat /\ Len(prefetched) \in Nat /\ Len(buffer) \in Nat
    BY <1>1, StreamFacts
  <2>2. /\ First' = cursor'.produced - Len(Stream')
        /\ Len(Stream') = Len(Received') + Len(prefetched') + Len(buffer')
    BY StreamFactsNext
  <2>3. Len(Stream') = Len(Stream)
    BY <1>2, <1>5, <1>6, <1>7, <2>1, <2>2
  <2> QED BY <1>4, <2>1, <2>2, <2>3
<1>9. ASSUME NEW t \in Nat, Has(Stream, t) PROVE Has(Stream', t)
  <2>1. Has(buffer, t) => Has(SubSeq(buffer, 1, n), t) \/ Has(buffer', t)
    BY <1>1, <1>3, StreamFacts, HasSplit
  <2>2. Has(prefetched', t) <=> Has(prefetched, t) \/ Has(SubSeq(buffer, 1, n), t)
    BY <1>1, <1>3, <1>6, StreamFacts, HasConcat
  <2> QED BY <1>1, <1>5, <1>9, <2>1, <2>2, StreamFacts, StreamFactsNext
<1>10. Len(Received') + Len(prefetched') - cursor'.delivered
         <= Len(Received) + Len(prefetched) - cursor.delivered
  <2>1. Len(Received) \in Nat /\ Len(prefetched) \in Nat /\ cursor.delivered \in Nat
    BY <1>1, StreamFacts
  <2>2. /\ Len(prefetched') = Len(prefetched) + n /\ Received' = Received
        /\ cursor'.delivered = cursor.delivered + n /\ n \in Nat
    BY <1>2, <1>4, <1>5, <1>7
  <2> QED BY <2>1, <2>2
<1>11. First <= First'
  <2>1. First \in Int
    BY <1>1, StreamFacts
  <2> QED BY <1>8, <2>1
<1> QED BY <1>4, <1>9, <1>10, <1>11 DEF Passing

LEMMA FillPasses ==
  ASSUME IInv, TypeOK', Fill
  PROVE  Passing
<1>1. TypeOK
  BY DEF IInv, Core
<1>2. /\ prefetched # <<>> /\ sink = "running" /\ sink' = sink
      /\ downstream' = Append(downstream, Head(prefetched)) /\ prefetched' = Tail(prefetched)
      /\ UNCHANGED <<track, total, decoder, work, buffer, cursor, heard>>
  BY DEF Fill, ring, user
<1>3. /\ heard \in Seq(Frame) /\ downstream \in Seq(Frame) /\ prefetched \in Seq(Frame)
      /\ Head(prefetched) \in Frame
  BY <1>1, <1>2 DEF TypeOK
<1>4. /\ Received = heard \o downstream /\ Received' = heard \o downstream'
      /\ downstream' \in Seq(Frame) /\ Len(downstream') = Len(downstream) + 1
      /\ Len(prefetched') = Len(prefetched) - 1
  BY <1>2, <1>3 DEF Received
<1>5. Len(Received) = Len(heard) + Len(downstream) /\ Len(Received') = Len(heard) + Len(downstream')
  BY <1>3, <1>4, HasConcat
<1>6. Len(Received') = Len(Received) + 1
  BY <1>3, <1>4, <1>5
<1>7. First' = First
  <2>1. /\ First = cursor.produced - Len(Stream)
        /\ Len(Stream) = Len(Received) + Len(prefetched) + Len(buffer)
        /\ Len(Received) \in Nat /\ Len(prefetched) \in Nat /\ Len(buffer) \in Nat
    BY <1>1, StreamFacts
  <2>2. /\ First' = cursor'.produced - Len(Stream')
        /\ Len(Stream') = Len(Received') + Len(prefetched') + Len(buffer')
    BY StreamFactsNext
  <2>3. /\ Len(prefetched') = Len(prefetched) - 1 /\ Len(Received') = Len(Received) + 1
        /\ buffer' = buffer /\ cursor' = cursor
    BY <1>2, <1>4, <1>6
  <2>4. Len(Stream') = Len(Stream)
    BY <2>1, <2>2, <2>3
  <2> QED BY <2>1, <2>2, <2>3, <2>4
<1>8. ASSUME NEW t \in Nat, Has(Stream, t) PROVE Has(Stream', t)
  <2>1. /\ Has(Received, t) <=> Has(heard, t) \/ Has(downstream, t)
        /\ Has(Received', t) <=> Has(heard, t) \/ Has(downstream', t)
    BY <1>3, <1>4, HasConcat
  <2>2. /\ Has(downstream', t) <=> Has(downstream, t) \/ t = Head(prefetched)
        /\ Has(prefetched, t) <=> t = Head(prefetched) \/ Has(prefetched', t)
    BY <1>2, <1>3, HasEnds
  <2> QED BY <1>1, <1>2, <1>8, <2>1, <2>2, StreamFacts, StreamFactsNext
<1>9. Len(Received') + Len(prefetched') - cursor'.delivered
        <= Len(Received) + Len(prefetched) - cursor.delivered
  <2>1. Len(Received) \in Nat /\ Len(prefetched) \in Nat /\ cursor.delivered \in Nat
    BY <1>1, StreamFacts
  <2>2. /\ Len(prefetched') = Len(prefetched) - 1 /\ Len(Received') = Len(Received) + 1
        /\ cursor'.delivered = cursor.delivered
    BY <1>2, <1>4, <1>6
  <2> QED BY <2>1, <2>2
<1>10. First <= First'
  <2>1. First \in Int
    BY <1>1, StreamFacts
  <2> QED BY <1>7, <2>1
<1> QED BY <1>2, <1>8, <1>9, <1>10 DEF Passing

LEMMA HearPasses ==
  ASSUME IInv, TypeOK', Hear
  PROVE  Passing
<1>1. TypeOK
  BY DEF IInv, Core
<1>2. /\ downstream # <<>> /\ sink = "running" /\ sink' = sink
      /\ heard' = Append(heard, Head(downstream)) /\ downstream' = Tail(downstream)
      /\ UNCHANGED <<track, total, decoder, work, buffer, cursor, prefetched>>
  BY DEF Hear, ring
<1>3. /\ heard \in Seq(Frame) /\ downstream \in Seq(Frame) /\ Head(downstream) \in Frame
  BY <1>1, <1>2 DEF TypeOK
<1>4. /\ Received = heard \o downstream /\ Received' = heard' \o downstream'
      /\ heard' \in Seq(Frame) /\ Len(heard') = Len(heard) + 1
      /\ downstream' \in Seq(Frame) /\ Len(downstream') = Len(downstream) - 1
  BY <1>2, <1>3 DEF Received
<1>5. /\ Len(Received) = Len(heard) + Len(downstream)
      /\ Len(Received') = Len(heard') + Len(downstream')
  BY <1>3, <1>4, HasConcat
<1>6. Len(Received') = Len(Received)
  BY <1>3, <1>4, <1>5
<1>7. First' = First
  BY <1>1, <1>2, <1>6, StreamFacts, StreamFactsNext
<1>8. ASSUME NEW t \in Nat, Has(Stream, t) PROVE Has(Stream', t)
  <2>1. /\ Has(Received, t) <=> Has(heard, t) \/ Has(downstream, t)
        /\ Has(Received', t) <=> Has(heard', t) \/ Has(downstream', t)
    BY <1>3, <1>4, HasConcat
  <2>2. /\ Has(heard', t) <=> Has(heard, t) \/ t = Head(downstream)
        /\ Has(downstream, t) <=> t = Head(downstream) \/ Has(downstream', t)
    BY <1>2, <1>3, HasEnds
  <2> QED BY <1>1, <1>2, <1>8, <2>1, <2>2, StreamFacts, StreamFactsNext
<1>9. Len(Received') + Len(prefetched') - cursor'.delivered
        <= Len(Received) + Len(prefetched) - cursor.delivered
  BY <1>1, <1>2, <1>6, StreamFacts
<1>10. First <= First'
  <2>1. First \in Int
    BY <1>1, StreamFacts
  <2> QED BY <1>7, <2>1
<1> QED BY <1>2, <1>8, <1>9, <1>10 DEF Passing

(* The player settles: it holds nothing before, and nothing after. *)
LEMMA SettlePasses ==
  ASSUME IInv, TypeOK', NEW sought \in BOOLEAN, Settle(sought), sink = "stopped",
         UNCHANGED <<track, total, decoder, work, ring, prefetched>>
  PROVE  Passing
<1>1. Received = <<>>
  BY DEF Received
<1>2. downstream' = <<>> /\ (sink' # "stopped" => heard' = <<>>)
  BY DEF Settle, Presenting
<1>3. Received' = <<>>
  BY <1>2 DEF Received
<1> QED BY <1>1, <1>3, StillPasses DEF IInv, Core, ring

LEMMA StepsPass ==
  ASSUME IInv, TypeOK', [Next]_vars
  PROVE  \/ Passing
         \/ AppendFrames \/ DecodeChunk \/ DecodeEnd \/ Reposition \/ Open \/ JoinAndClose
<1> USE DEF ring, user
<1> DEFINE Still == /\ UNCHANGED <<track, total, decoder, work, buffer, cursor, prefetched>>
                    /\ UNCHANGED <<sink, heard, downstream>>
<1>1. ASSUME Still PROVE Passing
  BY <1>1, StillPasses DEF IInv, Core, Received
<1>2. CASE UNCHANGED vars
  BY <1>1, <1>2 DEF vars
<1>3. CASE ProducerStep
  BY <1>1, <1>3 DEF ProducerStep, Check, AppendBlocked, Finish, DecodeFails
<1>4. CASE DeviceStep
  <2>1. CASE Read
    <3>1. Min2(ReadAhead, Len(buffer)) \in 0 .. Len(buffer)
      <4>1. Len(buffer) \in Nat
        BY DEF IInv, Core, TypeOK
      <4> QED BY <4>1, Domains DEF Min2
    <3> QED BY <2>1, <3>1, TakePasses DEF Read
  <2>2. CASE ReadAgain
    <3>1. Min2(ReadAhead - Len(prefetched), Len(buffer)) \in 0 .. Len(buffer)
      <4>1. /\ buffer \in Seq(Frame) /\ prefetched \in Seq(Frame)
            /\ Len(prefetched) <= ReadAhead
        BY DEF IInv, Core, TypeOK
      <4>2. Len(buffer) \in Nat /\ Len(prefetched) \in Nat
        BY <4>1
      <4> QED BY <4>1, <4>2, Domains DEF Min2
    <3> QED BY <2>2, <3>1, TakePasses DEF ReadAgain
  <2> QED BY <1>4, <2>1, <2>2, FillPasses, HearPasses DEF DeviceStep
<1>5. CASE UserStep
  <2>1. ASSUME NEW operation, NEW to, Begin(operation, to) PROVE Passing
    <3>1. Received' = <<>>
      BY <2>1 DEF Begin, Presenting, Received
    <3> QED BY <2>1, <3>1, CutPasses DEF Begin
  <2>2. CASE RefreshFilters
    <3>1. heard' = <<>> /\ downstream' = <<>>
      BY <2>2 DEF RefreshFilters, Presenting
    <3>2. Received' = <<>>
      BY <3>1 DEF Received
    <3> QED BY <2>2, <3>2, CutPasses DEF RefreshFilters
  <2>3. CASE Pause \/ Resume
    <3>1. /\ UNCHANGED <<track, total, decoder, work, buffer, cursor, prefetched>>
          /\ sink # "stopped" /\ sink' # "stopped" /\ UNCHANGED <<heard, downstream>>
      BY <2>3 DEF Pause, Resume
    <3> QED BY <3>1, StillPasses DEF IInv, Core, Received
  <2> QED BY <1>5, <2>1, <2>2, <2>3 DEF UserStep, PlayAt, Stop, Close
<1>6. CASE ControlStep
  <2>1. CASE SeekFails
    <3>1. sink = "stopped"
      BY <2>1 DEF SeekFails, Joined, IInv, Core, BusyInv
    <3> QED BY <2>1, <3>1, SettlePasses DEF SeekFails
  <2>2. CASE Prime
    <3>1. sink = "stopped" /\ Primed \in BOOLEAN
      BY <2>2 DEF Prime, Primed, IInv, Core, BusyInv
    <3> QED BY <2>2, <3>1, SettlePasses DEF Prime
  <2>3. CASE OpenPrimed
    BY <1>1, <2>3 DEF OpenPrimed
  <2> QED BY <1>6, <2>1, <2>2, <2>3 DEF ControlStep
<1> QED BY <1>2, <1>3, <1>4, <1>5, <1>6 DEF Next

(* A chunk of a soundtrack that is complete in itself. *)
LEMMA StampedChunk ==
  ASSUME TypeOK, Disjoint(track), NEW i \in DOMAIN track
  PROVE  /\ track # <<>> /\ track \in Seq(Chunk) /\ track[i] \in Chunk /\ i \in Nat /\ i >= 1
         /\ 1 \in DOMAIN track
         /\ track[i].start \in Nat /\ track[i].count \in Nat \ {0}
         /\ track[i].start # Unstamped
<1>1. track # <<>>
  OBVIOUS
<1>2. track \in Seq(Chunk) /\ 1 \in DOMAIN track
  BY <1>1, TrackFacts
<1>3. track[i].start # Unstamped
  BY DEF Disjoint
<1>4. track[i].start \in Nat /\ track[i].count \in Nat \ {0}
  BY <1>1, <1>3, TrackFacts
<1>5. track[i] \in Chunk /\ i \in Nat /\ i >= 1
  BY <1>2
<1> QED BY <1>1, <1>2, <1>3, <1>4, <1>5

LEMMA PassingKeeps ==
  ASSUME IInv, CompleteInv, TypeOK', Passing
  PROVE  DeliveredInv' /\ PaceInv' /\ KeptInv'
<1>1. TypeOK
  BY DEF IInv, Core
<1>2. /\ UNCHANGED <<track, total, decoder, work>>
      /\ cursor'.produced = cursor.produced /\ cursor'.base = cursor.base
      /\ First <= First' /\ First \in Int /\ First' \in Int
      /\ \A t \in Nat : Has(Stream, t) => Has(Stream', t) \/ t < First' + Slack
  BY <1>1, StreamFacts, StreamFactsNext DEF Passing
<1>3. DeliveredInv'
  <2>1. /\ Len(Received) \in Nat /\ Len(prefetched) \in Nat /\ cursor.delivered \in Nat
        /\ Len(Received') \in Nat /\ Len(prefetched') \in Nat /\ cursor'.delivered \in Nat
    BY <1>1, StreamFacts, StreamFactsNext
  <2>2. Len(Received) + Len(prefetched) <= cursor.delivered
    BY DEF CompleteInv, DeliveredInv
  <2>3. Len(Received') + Len(prefetched') - cursor'.delivered
          <= Len(Received) + Len(prefetched) - cursor.delivered
    BY DEF Passing
  <2>4. Len(Received') + Len(prefetched') <= cursor'.delivered
    BY <2>1, <2>2, <2>3
  <2> QED BY <2>4 DEF DeliveredInv
<1>4. PaceInv'
  BY <1>2 DEF CompleteInv, PaceInv, Upto
<1>5. KeptInv'
  <2>0. \A u \in Nat : u < First + Slack => u < First' + Slack
    <3>1. \A a, b \in Int, c, u \in Nat : a <= b /\ u < a + c => u < b + c
      OBVIOUS
    <3>2. First \in Int /\ First' \in Int /\ First <= First'
      BY <1>2
    <3>3. Slack \in Nat
      BY Domains
    <3> QED BY <3>1, <3>2, <3>3
  <2>1. SUFFICES ASSUME Disjoint(track), NEW i \in DOMAIN track, i < decoder.next,
                        NEW t \in track[i].start .. track[i].start + track[i].count - 1
                 PROVE  Kept(t)'
    BY <1>2 DEF KeptInv
  <2>2. t \in Nat
    BY <1>1, <2>1, StampedChunk
  <2>3. t < First + Slack \/ Has(Stream, t) \/ Has(work.pending, t)
    BY <2>1 DEF CompleteInv, KeptInv, Kept
  <2>4. t < First + Slack => t < First' + Slack
    BY <2>0, <2>2
  <2> QED BY <1>2, <2>2, <2>3, <2>4 DEF Kept
<1> QED BY <1>3, <1>4, <1>5

(* What is appended comes from what was pending, at the place it was for. *)
LEMMA AppendingKeeps ==
  ASSUME IInv, CompleteInv, TypeOK', AppendFrames
  PROVE  CompleteInv'
<1>1. TypeOK
  BY DEF IInv, Core
<1>2. PICK n \in Nat :
        /\ cursor' = [cursor EXCEPT !.produced = @ + n] /\ Upto' = Upto
        /\ UNCHANGED <<track, decoder>> /\ work'.finished = work.finished
        /\ Len(buffer') = Len(buffer) + n
        /\ \A t : Has(buffer, t) => Has(buffer', t)
        /\ \A t : Has(work.pending, t) => Has(buffer', t) \/ Has(work'.pending, t)
  BY AppendFacts
<1>3. /\ producer = "append" /\ producer' = "check"
      /\ UNCHANGED <<total, eof, failed, prefetched, downstream, sink, heard>>
  BY DEF AppendFrames, user
<1>4. cursor \in [base : 0 .. End, produced : Nat, delivered : Nat]
  BY <1>1 DEF TypeOK
<1>5. /\ cursor'.produced = cursor.produced + n /\ cursor'.base = cursor.base
      /\ cursor'.delivered = cursor.delivered
  BY <1>2, <1>4
<1>6. Received' = Received
  BY <1>3 DEF Received
<1>7. First' = First
  <2>1. /\ First = cursor.produced - Len(Stream)
        /\ Len(Stream) = Len(Received) + Len(prefetched) + Len(buffer)
        /\ Len(Received) \in Nat /\ Len(prefetched) \in Nat /\ Len(buffer) \in Nat
    BY <1>1, StreamFacts
  <2>2. /\ First' = cursor'.produced - Len(Stream')
        /\ Len(Stream') = Len(Received') + Len(prefetched') + Len(buffer')
    BY StreamFactsNext
  <2>3. Len(Stream') = Len(Stream) + n
    BY <1>2, <1>3, <1>6, <2>1, <2>2
  <2> QED BY <1>4, <1>5, <2>1, <2>2, <2>3
<1>8. DeliveredInv'
  BY <1>3, <1>5, <1>6 DEF CompleteInv, DeliveredInv
<1>9. EndInv'
  BY <1>2, <1>3 DEF CompleteInv, EndInv
<1>10. PaceInv'
  BY <1>2, <1>5 DEF CompleteInv, PaceInv
<1>11. KeptInv'
  <2>1. SUFFICES ASSUME Disjoint(track), NEW i \in DOMAIN track, i < decoder.next,
                        NEW t \in track[i].start .. track[i].start + track[i].count - 1
                 PROVE  Kept(t)'
    BY <1>2 DEF KeptInv
  <2>2. t < First + Slack \/ Has(Stream, t) \/ Has(work.pending, t)
    BY <2>1 DEF CompleteInv, KeptInv, Kept
  <2>3. Has(Stream, t) => Has(Stream', t)
    BY <1>1, <1>2, <1>3, <1>6, StreamFacts, StreamFactsNext
  <2>4. Has(work.pending, t) => Has(Stream', t) \/ Has(work'.pending, t)
    BY <1>2, StreamFactsNext
  <2> QED BY <1>7, <2>2, <2>3, <2>4 DEF Kept
<1> QED BY <1>8, <1>9, <1>10, <1>11 DEF CompleteInv

(* What the decoder does with a chunk that has a time stamp, and where it ends. *)
LEMMA DecodeFacts ==
  ASSUME IInv, DecodeChunk, Disjoint(track),
         NEW chunk, chunk = track[decoder.next],
         NEW s, s = StampedStart(chunk), NEW place, place = PlaceOf(chunk),
         NEW late, late = Max2(0, cursor.produced - place)
  PROVE  /\ producer = "decode" /\ producer' = "check"
         /\ UNCHANGED <<track, total, buffer, cursor, eof, failed, prefetched, downstream,
                        sink, heard>>
         /\ decoder.next \in DOMAIN track /\ decoder.next \in Nat /\ decoder.next > 0
         /\ decoder.expected \in Nat \cup {Unknown}
         /\ chunk.start \in Nat /\ chunk.count \in Nat \ {0} /\ chunk.start # Unstamped
         /\ s \in Nat /\ place \in Nat /\ late \in Nat
         /\ work.gap = 0 /\ work.pending = <<>> /\ Upto = cursor.produced
         /\ cursor.produced \in Nat
         /\ Near(chunk.start, s, DecoderJitter)
         /\ \/ decoder.expected # Unknown /\ s = decoder.expected
            \/ s = chunk.start /\ (decoder.expected = Unknown
                                    \/ ~Near(chunk.start, decoder.expected, DecoderJitter))
         /\ \/ place = cursor.produced /\ Near(s, cursor.produced, Jitter)
            \/ place = s /\ ~Near(s, cursor.produced, Jitter)
         /\ decoder' = [next |-> decoder.next + 1, expected |-> s + chunk.count]
         /\ work'.finished = work.finished
         /\ late >= chunk.count => work' = work
         /\ ~(late >= chunk.count) => /\ work'.pending = Frames(chunk, late)
                                      /\ Upto' = place + chunk.count
<1>1. /\ TypeOK /\ producer = "decode" /\ decoder.next <= Len(track)
      /\ UNCHANGED <<track, total, buffer, cursor, eof, failed, prefetched, downstream,
                     sink, heard>>
      /\ producer' = "check"
      /\ decoder' = [next |-> decoder.next + 1,
                     expected |-> IF chunk.start = Unstamped THEN decoder.expected
                                  ELSE s + chunk.count]
      /\ work' = IF late >= chunk.count THEN work
                 ELSE [work EXCEPT !.gap = Max2(0, place - cursor.produced),
                                   !.pending = Frames(chunk, late)]
  BY DEF IInv, Core, DecodeChunk, ring, user
<1>2. /\ work.gap = 0 /\ work.pending = <<>> /\ track # <<>>
      /\ decoder.next \in Nat \ {0} /\ decoder.expected \in Nat \cup {Unknown}
      /\ cursor.produced \in Nat
      /\ work \in [pending : Seq(Frame), gap : Nat, finished : BOOLEAN]
  BY <1>1 DEF IInv, Core, ClosedInv, WorkInv, TypeOK
<1>3. decoder.next \in DOMAIN track
  <2>1. track \in Seq(Chunk)
    BY <1>1, <1>2, TrackFacts
  <2> QED BY <1>1, <1>2, <2>1
<1>4. /\ chunk \in Chunk /\ chunk.start \in Nat /\ chunk.count \in Nat \ {0}
      /\ chunk.start # Unstamped
  BY <1>1, <1>3, StampedChunk
<1>5. /\ s \in Nat /\ place \in Nat
      /\ Near(chunk.start, s, DecoderJitter)
      /\ \/ decoder.expected # Unknown /\ s = decoder.expected
         \/ s = chunk.start /\ (decoder.expected = Unknown
                                 \/ ~Near(chunk.start, decoder.expected, DecoderJitter))
      /\ \/ place = cursor.produced /\ Near(s, cursor.produced, Jitter)
         \/ place = s /\ ~Near(s, cursor.produced, Jitter)
  BY <1>1, <1>4, StampFacts
<1>6. late \in Nat
  BY <1>2, <1>5 DEF Max2
<1>7. Upto = cursor.produced
  BY <1>2 DEF Upto
<1>8. late >= chunk.count => work' = work
  BY <1>1
<1>9. ASSUME ~(late >= chunk.count)
      PROVE  /\ work'.pending = Frames(chunk, late) /\ Upto' = place + chunk.count
             /\ work'.finished = work.finished
  <2>1. /\ work'.gap = Max2(0, place - cursor.produced)
        /\ work'.pending = Frames(chunk, late) /\ work'.finished = work.finished
    BY <1>1, <1>2, <1>9
  <2>2. Len(Frames(chunk, late)) = chunk.count - late
    <3>1. chunk.count - late \in Nat
      BY <1>4, <1>6, <1>9
    <3> QED BY <3>1 DEF Frames
  <2>3. work'.gap - late = place - cursor.produced /\ work'.gap \in Nat
    BY <1>2, <1>5, <2>1 DEF Max2
  <2>4. Upto' = cursor.produced + work'.gap + (chunk.count - late)
    BY <1>1, <2>1, <2>2 DEF Upto
  <2>5. Upto' = place + chunk.count
    <3>1. /\ cursor.produced \in Nat /\ place \in Nat /\ late \in Nat
          /\ chunk.count \in Nat /\ work'.gap \in Nat
      BY <1>2, <1>4, <1>5, <1>6, <2>3
    <3> DEFINE c == cursor.produced
               g == work'.gap
               l == late
               p == place
               m == chunk.count
    <3>2. /\ c \in Nat /\ p \in Nat /\ l \in Nat /\ m \in Nat /\ g \in Nat
          /\ g - l = p - c /\ Upto' = c + g + (m - l)
      BY <2>3, <2>4, <3>1
    <3> HIDE DEF c, g, l, p, m
    <3>3. Upto' = p + m
      BY <3>2
    <3> QED BY <3>3 DEF p, m
  <2> QED BY <2>1, <2>5
<1>10. decoder' = [next |-> decoder.next + 1, expected |-> s + chunk.count]
  BY <1>1, <1>4
<1>11. work'.finished = work.finished
  BY <1>8, <1>9
<1> QED BY <1>1, <1>2, <1>3, <1>4, <1>5, <1>6, <1>7, <1>8, <1>9, <1>10, <1>11

(* Of the sound that is decoded the producer keeps what was not to be played before
   the place that was sought. *)
LEMMA DecodingKeeps ==
  ASSUME IInv, CompleteInv, TypeOK', DecodeChunk
  PROVE  CompleteInv'
<1> DEFINE k == decoder.next
<1>1. TypeOK
  BY DEF IInv, Core
<1>2. /\ UNCHANGED <<track, total, buffer, cursor, eof, failed, prefetched, downstream,
                     sink, heard>>
      /\ producer = "decode" /\ producer' = "check" /\ k <= Len(track) /\ track # <<>>
      /\ work'.finished = work.finished
  <2>1. work \in [pending : Seq(Frame), gap : Nat, finished : BOOLEAN]
    BY <1>1 DEF TypeOK
  <2> QED BY <2>1 DEF DecodeChunk, ring, user, IInv, Core, ClosedInv
<1>3. Received' = Received /\ Stream' = Stream /\ First' = First
  BY <1>2 DEF Received, Stream, First
<1>4. DeliveredInv'
  BY <1>2, <1>3 DEF CompleteInv, DeliveredInv
<1>5. EndInv'
  <2>1. ~work.finished
    <3>1. k \in Nat /\ Len(track) \in Nat
      <4>1. track \in Seq(Chunk)
        BY <1>1, <1>2, TrackFacts
      <4> QED BY <1>1, <4>1 DEF TypeOK
    <3> QED BY <1>2, <3>1 DEF CompleteInv, EndInv
  <2> QED BY <1>2, <2>1 DEF CompleteInv, EndInv
<1>6. ASSUME Disjoint(track) PROVE PaceInv' /\ KeptInv'
  <2> DEFINE chunk == track[k]
             s     == StampedStart(chunk)
             place == PlaceOf(chunk)
             late  == Max2(0, cursor.produced - place)
  <2>1. /\ k \in DOMAIN track /\ k \in Nat /\ k > 0
        /\ decoder.expected \in Nat \cup {Unknown}
        /\ chunk.start \in Nat /\ chunk.count \in Nat \ {0}
        /\ s \in Nat /\ place \in Nat /\ late \in Nat
        /\ work.pending = <<>> /\ Upto = cursor.produced /\ cursor.produced \in Nat
        /\ Near(chunk.start, s, DecoderJitter)
        /\ \/ decoder.expected # Unknown /\ s = decoder.expected
           \/ s = chunk.start /\ (decoder.expected = Unknown
                                   \/ ~Near(chunk.start, decoder.expected, DecoderJitter))
        /\ \/ place = cursor.produced /\ Near(s, cursor.produced, Jitter)
           \/ place = s /\ ~Near(s, cursor.produced, Jitter)
        /\ decoder' = [next |-> k + 1, expected |-> s + chunk.count]
        /\ late >= chunk.count => work' = work
        /\ ~(late >= chunk.count) => /\ work'.pending = Frames(chunk, late)
                                     /\ Upto' = place + chunk.count
    <3>1. /\ chunk = track[decoder.next] /\ s = StampedStart(chunk) /\ place = PlaceOf(chunk)
          /\ late = Max2(0, cursor.produced - place)
      OBVIOUS
    <3> HIDE DEF chunk, s, place, late
    <3>2. /\ decoder.next \in DOMAIN track /\ k \in Nat /\ k > 0
          /\ decoder.expected \in Nat \cup {Unknown}
          /\ chunk.start \in Nat /\ chunk.count \in Nat \ {0}
          /\ s \in Nat /\ place \in Nat /\ late \in Nat
          /\ work.pending = <<>> /\ Upto = cursor.produced /\ cursor.produced \in Nat
      BY <1>6, <3>1, DecodeFacts
    <3>3. /\ Near(chunk.start, s, DecoderJitter)
          /\ \/ decoder.expected # Unknown /\ s = decoder.expected
             \/ s = chunk.start /\ (decoder.expected = Unknown
                                     \/ ~Near(chunk.start, decoder.expected, DecoderJitter))
          /\ \/ place = cursor.produced /\ Near(s, cursor.produced, Jitter)
             \/ place = s /\ ~Near(s, cursor.produced, Jitter)
      BY <1>6, <3>1, DecodeFacts
    <3>4. /\ decoder' = [next |-> decoder.next + 1, expected |-> s + chunk.count]
          /\ late >= chunk.count => work' = work
          /\ ~(late >= chunk.count) => /\ work'.pending = Frames(chunk, late)
                                       /\ Upto' = place + chunk.count
      BY <1>6, <3>1, DecodeFacts
    <3> QED BY <3>2, <3>3, <3>4
  <2>2. late = Max2(0, cursor.produced - place)
    OBVIOUS
  <2>3. decoder'.next = k + 1 /\ decoder'.expected = s + chunk.count
    BY <2>1
  <2> HIDE DEF s, place, late
  <2>4. /\ late = 0 => place >= cursor.produced
        /\ late > 0 => late = cursor.produced - place /\ place = s
    BY <2>1, <2>2 DEF Max2
  <2>5. /\ cursor.base \in Nat /\ cursor.delivered \in Nat
        /\ cursor.base + cursor.delivered + Len(buffer) = cursor.produced
        /\ Len(buffer) \in Nat
    BY <1>1, StreamFacts DEF IInv, Core, CursorIsTrue
  <2>6. Upto = cursor.base \/ late = 0
    <3>1. CASE decoder.expected = Unknown
      BY <1>2, <1>6, <3>1 DEF CompleteInv, PaceInv
    <3>2. CASE decoder.expected # Unknown /\ Upto # cursor.base
      <4>1. /\ k > 1 /\ k - 1 \in DOMAIN track
            /\ decoder.expected <= track[k - 1].start + track[k - 1].count + DecoderJitter
            /\ Upto <= decoder.expected + Jitter
        BY <1>2, <1>6, <2>1, <3>2 DEF CompleteInv, PaceInv
      <4>2. /\ track[k - 1].start + track[k - 1].count <= chunk.start
            /\ track[k - 1].start \in Nat /\ track[k - 1].count \in Nat
        <5>1. k - 1 < k
          BY <2>1
        <5>2. track[k - 1].start \in Nat /\ track[k - 1].count \in Nat
          BY <1>1, <1>6, <4>1, StampedChunk
        <5> QED BY <1>6, <2>1, <4>1, <5>1, <5>2 DEF Disjoint
      <4> HIDE DEF chunk
      <4>3. decoder.expected <= s
        <5>1. decoder.expected \in Nat /\ decoder.expected <= chunk.start + DecoderJitter
          <6>1. decoder.expected \in Nat /\ chunk.start \in Nat
            BY <2>1, <3>2
          <6>2. DecoderJitter \in Nat
            BY Domains
          <6> QED BY <4>1, <4>2, <6>1, <6>2
        <5>2. CASE s = chunk.start /\ ~Near(chunk.start, decoder.expected, DecoderJitter)
          BY <2>1, <5>1, <5>2, Domains DEF Near
        <5> QED BY <2>1, <3>2, <5>1, <5>2
      <4>4. cursor.produced <= s + Jitter
        <5>1. /\ cursor.produced <= decoder.expected + Jitter
              /\ decoder.expected \in Nat /\ s \in Nat /\ cursor.produced \in Nat
          BY <2>1, <3>2, <4>1
        <5>2. Jitter \in Nat
          BY Domains
        <5> QED BY <4>3, <5>1, <5>2
      <4>5. place >= cursor.produced
        <5>1. CASE place = s /\ ~Near(s, cursor.produced, Jitter)
          BY <2>1, <4>4, <5>1, Domains DEF Near
        <5> QED BY <2>1, <5>1
      <4> QED BY <2>1, <2>4, <4>5
    <3> QED BY <3>1, <3>2
  <2>7. PaceInv'
    <3>1. s + chunk.count # Unknown
      <4> HIDE DEF chunk
      <4> QED BY <2>1 DEF Unknown
    <3>2. /\ k + 1 > 1 /\ (k + 1) - 1 = k
          /\ s + chunk.count <= chunk.start + chunk.count + DecoderJitter
      <4> HIDE DEF chunk
      <4>1. k \in Nat /\ k > 0
        BY <2>1
      <4>2. s \in Nat /\ chunk.start \in Nat /\ chunk.count \in Nat
            /\ s <= chunk.start + DecoderJitter
        BY <2>1 DEF Near
      <4>3. k + 1 > 1 /\ (k + 1) - 1 = k
        BY <4>1
      <4>4. s + chunk.count <= chunk.start + chunk.count + DecoderJitter
        BY <4>2, Domains
      <4> QED BY <4>3, <4>4
    <3>3. Upto' = cursor.base \/ Upto' <= s + chunk.count + Jitter
      <4> HIDE DEF chunk
      <4>1. CASE late >= chunk.count
        <5>1. Upto' = Upto
          BY <1>2, <2>1, <4>1 DEF Upto
        <5> QED BY <2>1, <2>6, <4>1, <5>1
      <4>2. CASE ~(late >= chunk.count)
        <5>1. place <= s + Jitter
          BY <2>1, Domains DEF Near
        <5> QED BY <2>1, <4>2, <5>1, Domains
      <4> QED BY <4>1, <4>2
    <3> QED BY <1>2, <2>1, <2>3, <3>1, <3>2, <3>3 DEF PaceInv
  <2>8. KeptInv'
    <3>0. cursor.produced = cursor.base => First = cursor.produced
      <4>1. /\ First = cursor.produced - Len(Stream)
            /\ Len(Stream) = Len(Received) + Len(prefetched) + Len(buffer)
            /\ Len(Received) \in Nat /\ Len(prefetched) \in Nat
        BY <1>1, StreamFacts
      <4>2. Len(Received) + Len(prefetched) <= cursor.delivered
        BY DEF CompleteInv, DeliveredInv
      <4>3. cursor.produced = cursor.base => Len(Stream) = 0
        <5>1. Len(Received) + Len(prefetched) + Len(buffer) \in Nat
          BY <2>5, <4>1
        <5>2. cursor.produced = cursor.base => cursor.delivered + Len(buffer) = 0
          BY <2>5
        <5> QED BY <2>5, <4>1, <4>2, <5>1, <5>2
      <4>4. cursor.produced \in Nat
        BY <2>1
      <4> QED BY <4>1, <4>3, <4>4
    <3>1. SUFFICES ASSUME NEW i \in DOMAIN track, i < k + 1,
                          NEW t \in track[i].start .. track[i].start + track[i].count - 1
                   PROVE  t < First + Slack \/ Has(Stream, t) \/ Has(work'.pending, t)
      BY <1>2, <1>3, <2>3 DEF KeptInv, Kept
    <3>2. i \in Nat
      BY <1>1, <1>6, StampedChunk
    <3>3. CASE i < k
      <4>1. t < First + Slack \/ Has(Stream, t) \/ Has(work.pending, t)
        BY <1>6, <3>1, <3>3 DEF CompleteInv, KeptInv, Kept
      <4>2. ~Has(work.pending, t)
        BY <2>1 DEF Has
      <4> QED BY <4>1, <4>2
    <3>4. CASE i = k
      <4>1. t \in Nat /\ chunk.start <= t /\ t < chunk.start + chunk.count
        <5>1. t \in chunk.start .. chunk.start + chunk.count - 1
          BY <3>1, <3>4
        <5>2. chunk.start \in Nat /\ chunk.count \in Nat
          BY <2>1
        <5> HIDE DEF chunk
        <5> QED BY <5>1, <5>2
      <4> HIDE DEF chunk
      <4>2. CASE t >= chunk.start + late
        <5>1. ~(late >= chunk.count)
          BY <2>1, <4>1, <4>2
        <5> DEFINE j == t - chunk.start - late + 1
        <5>2. j \in 1 .. chunk.count - late /\ chunk.start + late + j - 1 = t
          <6>1. chunk.start \in Nat /\ late \in Nat /\ chunk.count \in Nat
            BY <2>1
          <6> QED BY <4>1, <4>2, <6>1
        <5> HIDE DEF j
        <5>3. j \in DOMAIN Frames(chunk, late) /\ Frames(chunk, late)[j] = t
          BY <2>1, <5>2, <1>6, StampedChunk DEF Frames, chunk, Unstamped
        <5> QED BY <2>1, <5>1, <5>3 DEF Has
      <4>3. CASE ~(t >= chunk.start + late)
        <5>1. late > 0 /\ late = cursor.produced - place /\ place = s
          BY <2>1, <2>4, <4>1, <4>3
        <5>2. cursor.produced = cursor.base
          BY <2>1, <2>6, <5>1
        <5>4. First = cursor.produced
          BY <3>0, <5>2
        <5>5. chunk.start <= s + DecoderJitter
          BY <2>1 DEF Near
        <5>6. t < cursor.produced + DecoderJitter
          <6>1. /\ t \in Nat /\ cursor.produced \in Nat /\ chunk.start \in Nat /\ late \in Nat
                /\ s \in Nat
            BY <2>1, <4>1
          <6>2. DecoderJitter \in Nat
            BY Domains
          <6> QED BY <4>1, <4>3, <5>1, <5>5, <6>1, <6>2
        <5>7. t < First + Slack
          <6>1. t \in Nat /\ cursor.produced \in Nat
            BY <2>1, <4>1
          <6>2. Jitter \in Nat /\ DecoderJitter \in Nat /\ Slack = Jitter + DecoderJitter
            BY Domains DEF Slack
          <6> QED BY <5>4, <5>6, <6>1, <6>2
        <5> QED BY <5>7
      <4> QED BY <4>2, <4>3
    <3> QED BY <2>1, <3>1, <3>2, <3>3, <3>4
  <2> QED BY <2>7, <2>8
<1>7. ASSUME ~Disjoint(track) PROVE PaceInv' /\ KeptInv'
  BY <1>2, <1>7 DEF PaceInv, KeptInv
<1> QED BY <1>4, <1>5, <1>6, <1>7 DEF CompleteInv

(* The decoder is at its end: nothing is left out, and what is to be filled is known. *)
LEMMA EndingKeeps ==
  ASSUME IInv, CompleteInv, TypeOK', DecodeEnd
  PROVE  CompleteInv'
<1>1. /\ TypeOK /\ producer = "decode" /\ producer' = "check" /\ decoder.next > Len(track)
      /\ UNCHANGED <<track, total, decoder, buffer, cursor, eof, failed, prefetched, downstream,
                     sink, heard>>
      /\ work' = [work EXCEPT !.gap = Max2(0, total - cursor.produced), !.finished = TRUE]
  BY DEF IInv, Core, DecodeEnd, ring, user
<1>2. /\ track # <<>> /\ work.gap = 0 /\ work.pending = <<>> /\ total \in Nat
      /\ decoder.next \in Nat /\ cursor.produced \in Nat
  <2>1. track # <<>> /\ work.gap = 0 /\ work.pending = <<>>
    BY <1>1 DEF IInv, Core, ClosedInv, WorkInv
  <2>2. total \in Lengths \cup {0} /\ decoder.next \in Nat /\ cursor.produced \in Nat
    BY <1>1 DEF TypeOK
  <2> QED BY <2>1, <2>2, Domains
<1>3. /\ work'.pending = <<>> /\ work'.finished /\ work'.gap = Max2(0, total - cursor.produced)
  <2>1. work \in [pending : Seq(Frame), gap : Nat, finished : BOOLEAN]
    BY <1>1 DEF TypeOK
  <2> QED BY <1>1, <1>2, <2>1
<1>4. Received' = Received /\ Stream' = Stream /\ First' = First
  BY <1>1 DEF Received, Stream, First
<1>5. DeliveredInv'
  BY <1>1, <1>4 DEF CompleteInv, DeliveredInv
<1>6. EndInv'
  <2>1. Upto' >= total
    <3>1. Len(work'.pending) = 0 /\ work'.gap \in Nat /\ work'.gap >= total - cursor.produced
      BY <1>2, <1>3 DEF Max2
    <3> QED BY <1>1, <1>2, <3>1 DEF Upto
  <2> QED BY <1>1, <1>3, <2>1 DEF CompleteInv, EndInv
<1>7. decoder.next \notin DOMAIN track
  <2>1. track \in Seq(Chunk)
    BY <1>1, <1>2, TrackFacts
  <2> QED BY <1>1, <1>2, <2>1
<1>8. PaceInv'
  <2>1. decoder.expected # Unknown
    BY <1>2, <1>7 DEF IInv, ProgressInv, SoughtInv
  <2> QED BY <1>1, <1>7, <2>1 DEF CompleteInv, PaceInv
<1>9. KeptInv'
  BY <1>1, <1>2, <1>3, <1>4 DEF CompleteInv, KeptInv, Kept
<1> QED BY <1>5, <1>6, <1>8, <1>9 DEF CompleteInv

(* A seek: the chunks that are skipped end before the place that was sought. *)
LEMMA SeekingKeeps ==
  ASSUME IInv, TypeOK', Reposition
  PROVE  CompleteInv'
<1> DEFINE to == IF total > 0 THEN Min2(control.to, total) ELSE control.to
<1>1. PICK k \in SeekPoints(to) : decoder' = [next |-> k, expected |-> Unknown]
  BY DEF Reposition
<1>2. /\ cursor' = [base |-> to, produced |-> to, delivered |-> 0] /\ work' = NoWork
      /\ UNCHANGED <<track, total, sink>> /\ prefetched' = <<>> /\ buffer' = <<>>
      /\ producer' = "check" /\ ~eof' /\ sink = "stopped" /\ TypeOK
  BY DEF Reposition, StartProducer, Joined, IInv, Core, BusyInv
<1>3. to \in Nat
  BY Domains DEF IInv, Core, TypeOK, Min2
<1> HIDE DEF to
<1>4. /\ k \in DOMAIN track /\ track[k].start # Unstamped
      /\ track[k].start <= Max2(to, track[1].start)
  BY <1>1 DEF SeekPoints
<1>5. Received' = <<>> /\ Stream' = <<>>
  BY <1>2 DEF Received, Stream
<1>6. First' = to
  BY <1>2, <1>3, <1>5 DEF First
<1>7. /\ decoder'.next = k /\ decoder'.expected = Unknown
      /\ cursor'.produced = to /\ cursor'.base = to /\ cursor'.delivered = 0
      /\ work'.gap = 0 /\ work'.pending = <<>> /\ work'.finished = FALSE
  BY <1>1, <1>2 DEF NoWork
<1>8. DeliveredInv'
  BY <1>2, <1>5, <1>7 DEF DeliveredInv
<1>9. EndInv'
  BY <1>2, <1>7 DEF EndInv
<1>10. PaceInv'
  <2>1. Upto' = to
    BY <1>3, <1>7 DEF Upto
  <2> QED BY <1>7, <2>1 DEF PaceInv
<1>11. KeptInv'
  <2>1. \A a \in Nat : a < to => a < First' + Slack
    BY <1>3, <1>6, Domains
  <2>2. SUFFICES ASSUME Disjoint(track), NEW i \in DOMAIN track, i < k,
                        NEW t \in track[i].start .. track[i].start + track[i].count - 1
                 PROVE  t < First' + Slack
    BY <1>2, <1>7 DEF KeptInv, Kept
  <2>3. /\ track[i].start \in Nat /\ track[i].count \in Nat \ {0} /\ i \in Nat /\ i >= 1
        /\ track[1].start \in Nat /\ track[1].count \in Nat \ {0} /\ 1 \in DOMAIN track
        /\ track[k].start \in Nat /\ k \in Nat
    BY <1>2, <1>4, <2>2, StampedChunk
  <2>4. track[1].start < track[k].start
    <3>1. track[1].start + track[1].count <= track[k].start
      BY <1>4, <2>2, <2>3 DEF Disjoint
    <3> QED BY <2>3, <3>1
  <2>5. track[k].start <= to
    BY <1>3, <1>4, <2>3, <2>4 DEF Max2
  <2>6. track[i].start + track[i].count <= track[k].start
    BY <1>4, <2>2 DEF Disjoint
  <2>7. t \in Nat /\ t < to
    BY <1>3, <2>3, <2>5, <2>6
  <2> QED BY <2>1, <2>7
<1> QED BY <1>8, <1>9, <1>10, <1>11 DEF CompleteInv

LEMMA OpeningKeeps ==
  ASSUME IInv, TypeOK', Open
  PROVE  CompleteInv'
<1>1. /\ decoder' = [next |-> 1, expected |-> Unknown] /\ track' \in Soundtracks
      /\ cursor' = [base |-> 0, produced |-> 0, delivered |-> 0] /\ work' = NoWork
      /\ sink' = "stopped" /\ prefetched' = <<>> /\ buffer' = <<>>
      /\ producer' = "check" /\ ~eof'
  BY DEF Open, StartProducer, IInv, Core, ClosedInv
<1>2. Received' = <<>>
  BY <1>1 DEF Received
<1>3. /\ decoder'.next = 1 /\ decoder'.expected = Unknown
      /\ cursor'.produced = 0 /\ cursor'.base = 0 /\ cursor'.delivered = 0
      /\ work'.gap = 0 /\ work'.pending = <<>> /\ work'.finished = FALSE
  BY <1>1 DEF NoWork
<1>4. DeliveredInv'
  BY <1>1, <1>2, <1>3 DEF DeliveredInv
<1>5. EndInv'
  BY <1>1, <1>3 DEF EndInv
<1>6. PaceInv'
  BY <1>3 DEF PaceInv, Upto
<1>7. KeptInv'
  <2>1. track' \in Seq(Chunk)
    BY <1>1, Domains
  <2>2. \A i \in DOMAIN track' : ~(i < 1)
    BY <2>1
  <2> QED BY <1>3, <2>2 DEF KeptInv
<1> QED BY <1>4, <1>5, <1>6, <1>7 DEF CompleteInv

(* While nothing is open nothing is missing. *)
LEMMA ClosedComplete ==
  /\ Init => CompleteInv
  /\ IInv /\ JoinAndClose => CompleteInv'
<1>1. ASSUME Init PROVE CompleteInv
  <2>1. /\ track = <<>> /\ Received = <<>> /\ prefetched = <<>> /\ cursor.delivered = 0
        /\ ~eof /\ producer = "done" /\ work = NoWork
    BY <1>1 DEF Init, Received
  <2> QED BY <2>1 DEF CompleteInv, DeliveredInv, EndInv, PaceInv, KeptInv, NoWork
<1>2. ASSUME IInv, JoinAndClose PROVE CompleteInv'
  <2>1. /\ track' = <<>> /\ sink' = "stopped" /\ prefetched' = <<>> /\ cursor'.delivered = 0
        /\ ~eof' /\ producer' = "done" /\ work' = NoWork
    BY <1>2 DEF JoinAndClose, Joined, IInv, Core, BusyInv
  <2>2. Received' = <<>>
    BY <2>1 DEF Received
  <2> QED BY <2>1, <2>2 DEF CompleteInv, DeliveredInv, EndInv, PaceInv, KeptInv, NoWork
<1> QED BY <1>1, <1>2

(* The end, in the steps that neither decode, append, seek nor open. *)
LEMMA SameEnd ==
  ASSUME EndInv, UNCHANGED <<track, total, decoder, work, eof, failed>>,
         cursor'.produced = cursor.produced,
         producer' = "finish" => producer = "finish", producer = "done" => producer' = "done"
  PROVE  EndInv'
BY DEF EndInv, Upto

LEMMA EndKeeps ==
  ASSUME IInv, EndInv, [Next]_vars
  PROVE  \/ EndInv'
         \/ AppendFrames \/ DecodeChunk \/ DecodeEnd \/ Reposition \/ Open \/ JoinAndClose
<1> USE DEF ring, user
<1>1. /\ cursor \in [base : 0 .. End, produced : Nat, delivered : Nat]
      /\ work.gap \in Nat
  BY DEF IInv, Core, TypeOK
<1>2. CASE UNCHANGED vars
  BY <1>2, SameEnd DEF vars
<1>3. CASE ProducerStep
  <2>1. CASE Check
    <3>1. /\ producer = "check" /\ UNCHANGED <<track, total, decoder, work, eof, failed, cursor>>
          /\ producer' = "finish" => work.finished /\ work.gap = 0 /\ work.pending = <<>>
      BY <1>1, <2>1 DEF Check
    <3> QED BY <3>1 DEF EndInv, Upto
  <2>2. CASE AppendBlocked
    BY <2>2, SameEnd DEF AppendBlocked
  <2>3. CASE Finish
    BY <2>3 DEF Finish, EndInv, Upto
  <2>4. CASE DecodeFails
    BY <2>4 DEF DecodeFails, EndInv, Upto
  <2> QED BY <1>3, <2>1, <2>2, <2>3, <2>4 DEF ProducerStep
<1>4. CASE DeviceStep
  <2>1. ASSUME NEW n, Take(n), UNCHANGED <<track, total, decoder, work, eof, failed>>
        PROVE  EndInv'
    <3>1. cursor'.produced = cursor.produced
      BY <1>1, <2>1 DEF Take
    <3> QED BY <2>1, <3>1, SameEnd DEF Take, Woken
  <2>2. CASE Fill \/ Hear
    BY <2>2, SameEnd DEF Fill, Hear
  <2> QED BY <1>4, <2>1, <2>2 DEF DeviceStep, Read, ReadAgain
<1>5. CASE UserStep
  <2>1. ASSUME NEW operation, NEW to, Begin(operation, to) PROVE EndInv'
    BY <2>1, SameEnd DEF Begin, Woken
  <2>2. CASE Pause \/ Resume \/ RefreshFilters
    BY <2>2, SameEnd DEF Pause, Resume, RefreshFilters
  <2> QED BY <1>5, <2>1, <2>2 DEF UserStep, PlayAt, Stop, Close
<1>6. CASE ControlStep
  BY <1>6, SameEnd DEF ControlStep, SeekFails, Prime, OpenPrimed, Woken
<1> QED BY <1>2, <1>3, <1>4, <1>5, <1>6 DEF Next

(* Nothing of the soundtrack is lost on the way. *)
LEMMA CompleteKeeps == IInv /\ CompleteInv /\ [Next]_vars => CompleteInv'
<1> SUFFICES ASSUME IInv, CompleteInv, [Next]_vars PROVE CompleteInv'
  OBVIOUS
<1>1. TypeOK'
  BY NextKeeps DEF Core
<1>2. CASE AppendFrames \/ DecodeChunk \/ DecodeEnd \/ Reposition \/ Open \/ JoinAndClose
  BY <1>1, <1>2, AppendingKeeps, DecodingKeeps, EndingKeeps, SeekingKeeps, OpeningKeeps,
     ClosedComplete
<1>3. CASE ~(AppendFrames \/ DecodeChunk \/ DecodeEnd \/ Reposition \/ Open \/ JoinAndClose)
  <2>1. Passing
    BY <1>1, <1>3, StepsPass
  <2>2. EndInv'
    BY <1>3, EndKeeps DEF CompleteInv
  <2> QED BY <1>1, <2>1, <2>2, PassingKeeps DEF CompleteInv
<1> QED BY <1>2, <1>3

LEMMA CompleteInductive == Spec => [](IInv /\ CompleteInv)
<1>1. Init => CompleteInv
  BY ClosedComplete
<1> QED BY <1>1, CompleteKeeps, Inductive, PTL DEF Spec

(* At the end nothing is on its way any more: what was kept has been handed over. *)
LEMMA EndFacts ==
  ASSUME IInv, CompleteInv, AtEnd, ~failed
  PROVE  /\ cursor.produced >= total
         /\ Stream = Received /\ work.pending = <<>>
         /\ \A i \in DOMAIN track : i < decoder.next
<1>1. TypeOK
  BY DEF IInv, Core
<1>2. /\ eof /\ buffer = <<>> /\ prefetched = <<>>
      /\ work.finished /\ work.gap = 0 /\ work.pending = <<>>
      /\ decoder.next > Len(track) /\ Upto >= total
  BY DEF AtEnd, CompleteInv, EndInv
<1>3. Upto = cursor.produced
  <2>1. Len(work.pending) = 0 /\ cursor.produced \in Nat
    BY <1>1, <1>2 DEF TypeOK
  <2> QED BY <1>2, <2>1 DEF Upto
<1>4. Stream = Received
  <2>1. Received \in Seq(Frame)
    BY <1>1, StreamFacts
  <2>2. Stream = Received \o <<>> \o <<>>
    BY <1>2 DEF Stream
  <2> QED BY <2>1, <2>2
<1>5. \A i \in DOMAIN track : i < decoder.next
  <2>1. decoder.next \in Nat
    BY <1>1 DEF TypeOK
  <2>2. CASE track # <<>>
    <3>1. track \in Seq(Chunk)
      BY <1>1, <2>2, TrackFacts
    <3> QED BY <1>2, <2>1, <3>1
  <2>3. CASE track = <<>>
    BY <2>3
  <2> QED BY <2>2, <2>3
<1> QED BY <1>2, <1>3, <1>4, <1>5

LEMMA NothingIsMissing == IInv /\ CompleteInv => (Disjoint(track) => EndIsComplete)
<1> SUFFICES ASSUME IInv, CompleteInv, Disjoint(track), AtEnd, ~failed PROVE
      /\ \A t \in Stamps :
           t >= cursor.produced - Len(Received) + Slack =>
             \E i \in DOMAIN Received : Received[i] >= 0 /\ Near(Received[i], t, Slack)
      /\ cursor.produced >= total
  BY DEF EndIsComplete
<1>1. TypeOK
  BY DEF IInv, Core
<1>2. First = cursor.produced - Len(Received) /\ First \in Int
  BY <1>1, EndFacts, StreamFacts DEF First
<1>3. \A t \in Nat : t >= First + Slack => ~(t < First + Slack) /\ t >= 0 /\ Near(t, t, Slack)
  BY <1>2, Domains DEF Near
<1>4. ASSUME NEW t \in Stamps, t >= cursor.produced - Len(Received) + Slack
      PROVE  \E i \in DOMAIN Received : Received[i] >= 0 /\ Near(Received[i], t, Slack)
  <2>1. t \in StampsOf(track)
    BY <1>1, StampsAreSounding
  <2>2. PICK i \in DOMAIN track : track[i].start <= t /\ t < track[i].start + track[i].count
    BY <2>1 DEF StampsOf
  <2>3. t \in Nat /\ t \in track[i].start .. track[i].start + track[i].count - 1
    <3>1. t \in Nat
      BY <2>1 DEF StampsOf
    <3>2. track[i].start \in Nat /\ track[i].count \in Nat
      BY <1>1, StampedChunk
    <3> QED BY <2>2, <3>1, <3>2
  <2>4. t < First + Slack \/ Has(Stream, t) \/ Has(work.pending, t)
    BY <2>2, <2>3, EndFacts DEF CompleteInv, KeptInv, Kept
  <2>5. t >= First + Slack
    BY <1>2, <1>4
  <2>6. ~Has(work.pending, t)
    BY EndFacts DEF Has
  <2>7. Has(Received, t)
    BY <1>3, <2>3, <2>4, <2>5, <2>6, EndFacts
  <2> QED BY <1>3, <2>3, <2>5, <2>7 DEF Has
<1> QED BY <1>4, EndFacts

-----------------------------------------------------------------------------
(* Types and bounds: neither the decode-ahead buffer nor the read-ahead ever
   outgrows its size, whatever is played, sought or stopped. *)
THEOREM TypeCorrect == Spec => []TypeOK
<1>1. IInv => TypeOK
  BY DEF IInv, Core
<1> QED BY <1>1, Inductive, PTL

(* The producer never sleeps with room in the buffer, nor through a request to stop,
   so that no wake-up of readData() or stopDecodeThread() comes too early. *)
THEOREM NoWakeupIsLost == Spec => []NoLostWakeup
<1>1. IInv => NoLostWakeup
  BY DEF IInv, Core
<1> QED BY <1>1, Inductive, PTL

(* currentSample() plus what is buffered is where the producer is. *)
THEOREM CursorAgrees == Spec => []CursorIsTrue
<1>1. IInv => CursorIsTrue
  BY DEF IInv, Core
<1> QED BY <1>1, Inductive, PTL

(* Everything heard, or on its way through any of the four buffers, is at the place
   its time stamp says, up to the two tolerances, through every seek, gap and overlap. *)
THEOREM SoundStaysInPlace == Spec => []SoundIsInPlace
BY StreamIsInPlace, Inductive, PTL

(* Of a soundtrack in presentation order nothing is replaced by silence: what the device
   fills, before a chunk or up to the length it was told, is no place where all that
   is within the tolerances sounds, however chunks overlap, lack time stamps or
   jitter, wherever playback was sought to. *)
THEOREM SilenceFillsGaps == Spec => [](InOrder(track) => SilenceIsAGap)
BY SilenceIsInAGap, Inductive, PTL

(* Of a soundtrack that is complete in itself all sound from where playback was started
   has been handed to the player when the device reports its end, however its time
   stamps jitter, wherever it was sought to and however the buffers divide it. *)
THEOREM NothingIsLost == Spec => [](Disjoint(track) => EndIsComplete)
BY NothingIsMissing, CompleteInductive, PTL

(* A device that reports its end, and did not fail, has produced at least the length it
   was told, whatever the soundtrack. *)
THEOREM LengthIsFilled == Spec => [](AtEnd /\ ~failed => cursor.produced >= total)
<1>1. IInv /\ CompleteInv => (AtEnd /\ ~failed => cursor.produced >= total)
  BY EndFacts
<1> QED BY <1>1, CompleteInductive, PTL
=============================================================================
