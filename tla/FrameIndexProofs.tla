--------------------------- MODULE FrameIndexProofs ---------------------------
(***************************************************************************)
(* For every file, set of error modes and demuxer: the index is a true     *)
(* prefix of the open file, whole when it is called complete; and where    *)
(* no time stamp repeats, a picture that is returned as frame f is frame   *)
(* f, wherever the demuxer lands.                                          *)
(***************************************************************************)
EXTENDS FrameIndex, TLAPS, FiniteSetTheorems

(* While the count is unbroken the next number is the number of pictures so far. *)
PlaceIsCounted == contiguous /\ target = Absent => next = Frames(video, mode, pos)

(* After a seek the count waits at the only frame with the time stamp it sought. *)
AnchorIsUnique ==
  contiguous /\ target # Absent =>
    /\ complete /\ next < Len(index) /\ index[next + 1].stamp = target
    /\ \A g \in 0 .. Len(index) - 1 : index[g + 1].stamp = target => g = next

ScansAreUntargeted == Scanning => target = Absent

IInv == TypeOK /\ IndexIsTrue /\ PlaceIsCounted /\ AnchorIsUnique /\ ScansAreUntargeted

-----------------------------------------------------------------------------
(* Counting pictures. *)

LEMMA FramesType ==
  ASSUME NEW v \in Video, NEW m \in Mode, NEW n \in Int
  PROVE  Frames(v, m, n) \in Nat
<1>1. IsFiniteSet(1 .. n)
  BY FS_Interval
<1>2. IsFiniteSet({k \in 1 .. n : v.packets[k].fate[m] = "shown"})
  BY <1>1, FS_Subset
<1>3. QED
  BY <1>2, FS_CardinalityType DEF Frames

LEMMA FramesStart ==
  ASSUME NEW v, NEW m PROVE Frames(v, m, 0) = 0
<1>1. {k \in 1 .. 0 : v.packets[k].fate[m] = "shown"} = {}
  OBVIOUS
<1>2. QED
  BY <1>1, FS_EmptySet DEF Frames

\* one more packet is one more frame if it is shown
LEMMA FramesStep ==
  ASSUME NEW v \in Video, NEW m \in Mode, NEW n \in Nat \ {0}
  PROVE  Frames(v, m, n) = IF v.packets[n].fate[m] = "shown" THEN Frames(v, m, n - 1) + 1
                           ELSE Frames(v, m, n - 1)
<1> DEFINE before == {k \in 1 .. n - 1 : v.packets[k].fate[m] = "shown"}
<1>1. IsFiniteSet(before)
  BY FS_Interval, FS_Subset, IsFiniteSet(1 .. n - 1)
<1>2. n \notin before
  OBVIOUS
<1>3. CASE v.packets[n].fate[m] = "shown"
  <2>1. {k \in 1 .. n : v.packets[k].fate[m] = "shown"} = before \cup {n}
    BY <1>3
  <2>2. Cardinality(before \cup {n}) = Cardinality(before) + 1
    BY <1>1, <1>2, FS_AddElement
  <2>3. QED
    BY <2>1, <2>2, <1>3 DEF Frames
<1>4. CASE v.packets[n].fate[m] # "shown"
  <2>1. {k \in 1 .. n : v.packets[k].fate[m] = "shown"} = before
    BY <1>4
  <2>2. QED
    BY <2>1, <1>4 DEF Frames
<1>5. QED
  BY <1>3, <1>4

LEMMA FramesGrow ==
  ASSUME NEW v \in Video, NEW m \in Mode, NEW i \in Int, NEW j \in Int, i <= j
  PROVE  Frames(v, m, i) <= Frames(v, m, j)
<1> DEFINE S(n) == {k \in 1 .. n : v.packets[k].fate[m] = "shown"}
<1>1. IsFiniteSet(1 .. j)
  BY FS_Interval
<1>2. IsFiniteSet(S(j)) /\ S(i) \subseteq S(j)
  BY <1>1, FS_Subset
<1>3. Cardinality(S(i)) <= Cardinality(S(j))
  BY <1>2, FS_Subset
<1>4. QED
  BY <1>3 DEF Frames

\* no two pictures have the same number
LEMMA FramesDiffer ==
  ASSUME NEW v \in Video, NEW m \in Mode, NEW i \in Nat \ {0}, NEW j \in Nat \ {0},
         v.packets[i].fate[m] = "shown", v.packets[j].fate[m] = "shown",
         Frames(v, m, i - 1) = Frames(v, m, j - 1)
  PROVE  i = j
<1>1. ASSUME NEW a \in Nat \ {0}, NEW b \in Nat \ {0}, a < b,
             v.packets[a].fate[m] = "shown"
      PROVE  Frames(v, m, a - 1) # Frames(v, m, b - 1)
  <2>1. Frames(v, m, a) = Frames(v, m, a - 1) + 1
    BY <1>1, FramesStep
  <2>2. Frames(v, m, a) <= Frames(v, m, b - 1)
    BY <1>1, FramesGrow, a <= b - 1
  <2>3. Frames(v, m, a - 1) \in Nat /\ Frames(v, m, b - 1) \in Nat
    BY FramesType
  <2>4. QED
    BY <2>1, <2>2, <2>3
<1>2. QED
  BY <1>1

-----------------------------------------------------------------------------
(* What a label is worth. *)

LEMMA PacketType ==
  ASSUME TypeOK
  PROVE  /\ packets \in Seq(Packet) /\ Len(packets) \in Nat
         /\ \A n \in 1 .. Len(packets) : packets[n] \in Packet /\ EntryOf(n) \in Entry
<1>1. video \in [packets : Seq(Packet), late : BOOLEAN]
  BY IndexAssumption DEF TypeOK
<1>2. packets \in Seq(Packet)
  BY <1>1 DEF packets
<1>3. Len(packets) \in Nat /\ \A n \in 1 .. Len(packets) : packets[n] \in Packet
  BY <1>2
<1>4. ASSUME NEW n \in 1 .. Len(packets) PROVE EntryOf(n) \in Entry
  <2>1. packets[n] \in Packet
    BY <1>3
  <2>2. QED
    BY <2>1 DEF EntryOf, Packet, Entry
<1>5. QED
  BY <1>2, <1>3, <1>4

\* a label is the next number of an unbroken count, or a frame with the same time stamp
LEMMA LabelCases ==
  ASSUME TypeOK, NEW n
  PROVE  \/ Label(n) = Unrecognized
         \/ Label(n) = next /\ contiguous /\ next = Len(index)
         \/ Label(n) \in 0 .. Len(index) - 1 /\ index[Label(n) + 1].stamp = packets[n].stamp
<1> DEFINE stamp == packets[n].stamp
           matches == IF stamp = Absent THEN {} ELSE Nearest(stamp, next)
<1>1. CASE contiguous /\ next = Len(index)
  BY <1>1 DEF Label
<1>2. CASE next < Len(index) /\ index[next + 1].stamp = stamp
  <2>1. next \in 0 .. Len(index) - 1
    BY <1>2 DEF TypeOK
  <2>2. QED
    BY <1>2, <2>1 DEF Label
<1>3. CASE /\ ~(contiguous /\ next = Len(index))
           /\ ~(next < Len(index) /\ index[next + 1].stamp = stamp)
  <2>1. CASE matches = {}
    BY <1>3, <2>1 DEF Label
  <2>2. CASE matches # {}
    <3>1. Label(n) = CHOOSE f \in matches : TRUE
      BY <1>3, <2>2 DEF Label
    <3>2. Label(n) \in matches
      BY <3>1, <2>2
    <3>3. \A f \in matches : f \in 0 .. Len(index) - 1 /\ index[f + 1].stamp = stamp
      BY DEF Nearest
    <3>4. QED
      BY <3>2, <3>3
  <2>3. QED
    BY <2>1, <2>2
<1>4. QED
  BY <1>1, <1>2, <1>3

\* a label that keeps the count unbroken is the number of the picture
LEMMA CountedIsTrue ==
  ASSUME IInv, AtPicture, Label(picture) = next, contiguous
  PROVE  next = Frames(video, mode, pos)
<1>1. CASE target = Absent
  BY <1>1 DEF IInv, PlaceIsCounted
<1>2. CASE target # Absent
  <2>1. /\ complete /\ next < Len(index) /\ index[next + 1].stamp = target
        /\ \A g \in 0 .. Len(index) - 1 : index[g + 1].stamp = target => g = next
    BY <1>2 DEF IInv, AnchorIsUnique
  <2>2. packets[picture].stamp = target
    <3>1. next \in Nat /\ Len(index) \in Nat
      BY DEF IInv, TypeOK
    <3>2. Label(picture) # Unrecognized
      BY <3>1 DEF Unrecognized
    <3>3. QED
      BY <2>1, <3>1, <3>2, LabelCases DEF IInv
  <2>3. /\ Len(index) = Frames(video, mode, Len(packets))
        /\ TrueOf(video, mode, index)
    BY <2>1 DEF IInv, IndexIsTrue, WholeOf, packets
  <2>4. /\ picture \in Nat \ {0} /\ pos \in Nat /\ picture <= Len(packets) /\ picture - 1 = pos
        /\ video \in Video /\ mode \in Mode /\ Len(packets) \in Nat
    BY PacketType DEF IInv, TypeOK, AtPicture, picture
  <2>5. Frames(video, mode, picture) = Frames(video, mode, pos) + 1
    BY <2>4, FramesStep DEF AtPicture, Shown, packets
  <2>6. Frames(video, mode, picture) <= Frames(video, mode, Len(packets))
    BY <2>4, FramesGrow
  <2>7. Frames(video, mode, pos) \in 0 .. Len(index) - 1
    BY <2>3, <2>4, <2>5, <2>6, FramesType
  <2>8. PICK n \in 1 .. Len(packets) :
          /\ packets[n].fate[mode] = "shown"
          /\ Frames(video, mode, n - 1) = Frames(video, mode, pos)
          /\ index[Frames(video, mode, pos) + 1].stamp = packets[n].stamp
    BY <2>3, <2>7 DEF TrueOf, packets
  <2>9. n = picture
    <3>1. n \in Nat \ {0}
      BY <2>4
    <3>2. QED
      BY <2>4, <2>8, <3>1, FramesDiffer DEF AtPicture, Shown, packets
  <2>10. index[Frames(video, mode, pos) + 1].stamp = target
    BY <2>2, <2>8, <2>9
  <2>11. QED
    BY <2>1, <2>7, <2>10
<1>3. QED
  BY <1>1, <1>2

-----------------------------------------------------------------------------
(* Types. *)

LEMMA InitType == Init => TypeOK
<1>1. SUFFICES ASSUME Init PROVE TypeOK
  OBVIOUS
<1>2. video \in [packets : Seq(Packet), late : BOOLEAN]
  BY <1>1, IndexAssumption DEF Init
<1>3. Len(packets) \in Nat
  BY <1>2 DEF packets
<1>4. pos \in 0 .. Len(packets) /\ next \in Nat
  BY <1>1, <1>3 DEF Init
<1>5. index \in Seq(Entry) /\ cache \subseteq Nat \X (1 .. Len(packets))
  BY <1>1 DEF Init
<1>6. call \in [step : {"idle", "index", "survey", "decode"}, want : Nat \cup {NoFrame},
               retried : BOOLEAN]
  BY <1>1 DEF Init, Idle
<1>7. QED
  BY <1>1, <1>4, <1>5, <1>6 DEF Init, TypeOK

\* a label is a frame number, or none
LEMMA LabelType ==
  ASSUME TypeOK, NEW n PROVE Label(n) \in Nat \cup {Unrecognized}
<1>1. Len(index) \in Nat /\ next \in Nat
  BY DEF TypeOK
<1>2. QED
  BY <1>1, LabelCases

LEMMA RegisterType ==
  ASSUME TypeOK, NEW n \in 1 .. Len(packets), NEW f \in Nat \cup {Unrecognized}, Register(n, f)
  PROVE  /\ index' \in Seq(Entry) /\ complete' \in BOOLEAN /\ exact' \in Nat \cup {Unknown}
         /\ snapshot' \in Snapshot \cup {Nothing}
<1>1. index' = IndexWith(n, f) /\ snapshot' \in {snapshot, Nothing}
  BY DEF Register
<1>2. EntryOf(n) \in Entry /\ index \in Seq(Entry)
  BY PacketType DEF TypeOK
<1>3. Append(index, EntryOf(n)) \in Seq(Entry)
  BY <1>2
<1>4. CASE f \in 0 .. Len(index) - 1
  <2>1. f + 1 \in 1 .. Len(index) /\ Len(index) \in Nat
    BY <1>2, <1>4
  <2>2. index[f + 1] \in Entry
    BY <1>2, <2>1
  <2>3. [index[f + 1] EXCEPT !.key = TRUE] \in Entry
    BY <2>2 DEF Entry
  <2>4. [index EXCEPT ![f + 1].key = TRUE] \in Seq(Entry)
    BY <1>2, <2>1, <2>3
  <2>5. index' \in Seq(Entry)
    BY <1>1, <1>2, <1>3, <2>4 DEF IndexWith
  <2>6. QED
    BY <1>1, <2>5 DEF Register, TypeOK
<1>5. CASE f \notin 0 .. Len(index) - 1
  <2>1. index' \in Seq(Entry)
    BY <1>1, <1>2, <1>3, <1>5 DEF IndexWith
  <2>2. QED
    BY <1>1, <2>1 DEF Register, TypeOK
<1>6. QED
  BY <1>4, <1>5

PlaceType == /\ pos \in 0 .. Len(packets) /\ next \in Nat /\ contiguous \in BOOLEAN
             /\ target \in Stamp \cup {Absent} /\ eof \in BOOLEAN

LEMMA StartType ==
  ASSUME Len(packets)' \in Nat, AtStart PROVE PlaceType'
<1>1. pos' = 0 /\ next' = 0 /\ contiguous' = TRUE /\ target' = Absent /\ eof' = FALSE
  BY DEF AtStart
<1>2. pos' \in 0 .. Len(packets)' /\ next' \in Nat
  BY <1>1
<1>3. QED
  BY <1>1, <1>2 DEF PlaceType

LEMMA SeekType ==
  ASSUME TypeOK, NEW f, Seek(f), UNCHANGED video PROVE PlaceType'
<1>1. Len(packets)' = Len(packets) /\ Len(packets) \in Nat
  BY PacketType DEF packets
<1>2. CASE AtStart
  BY <1>1, <1>2, StartType
<1>3. ASSUME NEW a \in Anchors(f), pos' \in Landings(a), next' = a, contiguous' = TRUE,
             eof' = FALSE, target' = index[a + 1].stamp
      PROVE  PlaceType'
  <2>1. a \in 1 .. Len(index) - 1 /\ index \in Seq(Entry)
    BY <1>3 DEF Anchors, TypeOK
  <2>2. index[a + 1] \in Entry
    BY <2>1
  <2>3. index[a + 1].stamp \in Stamp \cup {Absent}
    BY <2>2 DEF Entry
  <2>4. pos' \in 0 .. Len(packets) - 1
    BY <1>3 DEF Landings
  <2>5. pos' \in 0 .. Len(packets)' /\ next' \in Nat
    BY <1>1, <1>3, <2>1, <2>4
  <2>6. QED
    BY <1>3, <2>3, <2>5 DEF PlaceType
<1>4. QED
  BY <1>2, <1>3 DEF Seek

KnownType == /\ index \in Seq(Entry) /\ complete \in BOOLEAN /\ exact \in Nat \cup {Unknown}
             /\ snapshot \in Snapshot \cup {Nothing}

CallType == call \in [step : {"idle", "index", "survey", "decode"},
                      want : Nat \cup {NoFrame}, retried : BOOLEAN]

RestType == /\ video \in Video /\ mode \in Mode
            /\ cache \subseteq Nat \X (1 .. Len(packets)) /\ offer \in Snapshot \cup {Nothing}

LEMMA TypeParts == TypeOK <=> PlaceType /\ KnownType /\ CallType /\ RestType
  BY DEF TypeOK, PlaceType, KnownType, CallType, RestType

LEMMA TypeOfParts ==
  ASSUME PlaceType', KnownType', CallType', RestType' PROVE TypeOK'
  BY DEF TypeOK, PlaceType, KnownType, CallType, RestType

LEMMA SamePackets ==
  ASSUME TypeOK, UNCHANGED video PROVE UNCHANGED packets /\ Len(packets) \in Nat
  BY PacketType DEF packets

LEMMA SettleType ==
  ASSUME TypeOK, Settle PROVE KnownType'
<1>1. index' = index /\ snapshot' = snapshot /\ Len(index) \in Nat
  BY DEF TypeOK, Settle
<1>2. complete' \in BOOLEAN
  BY DEF TypeOK, Settle
<1>3. exact' \in Nat \cup {Unknown}
  BY <1>1 DEF TypeOK, Settle
<1>4. QED
  BY <1>1, <1>2, <1>3 DEF KnownType, TypeOK

LEMMA ForgetType == ASSUME Forget, exact' \in Nat \cup {Unknown} PROVE KnownType'
<1>1. index' = <<>> /\ <<>> \in Seq(Entry) /\ complete' = FALSE /\ snapshot' = Nothing
  BY DEF Forget
<1>2. QED
  BY <1>1 DEF KnownType

LEMMA BeginIndexType ==
  ASSUME TypeOK, NEW want \in Nat \cup {NoFrame}, BeginIndex(want), UNCHANGED <<video, mode, offer>>
  PROVE  TypeOK'
<1>1. UNCHANGED packets /\ Len(packets) \in Nat
  BY SamePackets
<1>2. CallType'
  BY DEF BeginIndex, CallType
<1>3. CASE UNCHANGED <<place, known, cache>>
  <2>1. PlaceType' /\ KnownType' /\ RestType'
    BY <1>1, <1>3, TypeParts DEF place, known, PlaceType, KnownType, RestType
  <2>2. QED
    BY <1>2, <2>1, TypeOfParts
<1>4. CASE Afresh
  <2>1. PlaceType'
    BY <1>1, <1>4, StartType DEF Afresh
  <2>2. KnownType'
    BY <1>4, ForgetType DEF Afresh, TypeOK
  <2>3. RestType'
    BY <1>1, <1>4, TypeParts DEF Afresh, RestType
  <2>4. QED
    BY <1>2, <2>1, <2>2, <2>3, TypeOfParts
<1>5. QED
  BY <1>3, <1>4 DEF BeginIndex

LEMMA ReadType ==
  ASSUME TypeOK, busy, pos < Len(packets), pos' \in pos + 1 .. Len(packets),
         contiguous' \in BOOLEAN, complete' \in BOOLEAN, snapshot' \in {snapshot, Nothing},
         UNCHANGED <<video, mode, next, target, eof, index, exact, cache, offer, call>>
  PROVE  TypeOK'
<1>1. UNCHANGED packets /\ Len(packets) \in Nat /\ pos \in Nat
  BY SamePackets DEF TypeOK
<1>2. pos' \in 0 .. Len(packets)'
  BY <1>1
<1>3. PlaceType' /\ KnownType' /\ CallType' /\ RestType'
  BY <1>1, <1>2 DEF TypeOK, PlaceType, KnownType, CallType, RestType
<1>4. QED
  BY <1>3, TypeOfParts

\* the steps inside a call keep the types
LEMMA TypeRead ==
  ASSUME TypeOK, Drop \/ Reject \/ ReadError \/ PassTowardsTarget PROVE TypeOK'
<1>1. Len(packets) \in Nat /\ pos \in Nat /\ contiguous \in BOOLEAN /\ complete \in BOOLEAN
  BY PacketType DEF TypeOK
<1>2. CASE Drop
  <2>1. UNCHANGED <<complete, snapshot, index, exact>>
    BY <1>2 DEF Drop, known
  <2>2. busy /\ pos < Len(packets) /\ pos' \in pos + 1 .. Len(packets)
    BY <1>1, <1>2 DEF Drop, More
  <2>3. QED
    BY <1>1, <1>2, <2>1, <2>2, ReadType DEF Drop
<1>3. CASE Reject
  <2>1. busy /\ pos < Len(packets) /\ pos' \in pos + 1 .. Len(packets)
    BY <1>1, <1>3 DEF Reject, More, GoOn
  <2>2. QED
    BY <1>3, <2>1, ReadType DEF Reject
<1>4. CASE ReadError
  <2>1. busy /\ pos < Len(packets) /\ pos' \in pos + 1 .. Len(packets)
    BY <1>1, <1>4 DEF ReadError, More
  <2>2. QED
    BY <1>4, <2>1, ReadType DEF ReadError
<1>5. CASE PassTowardsTarget
  <2>1. UNCHANGED <<complete, snapshot, index, exact>>
    BY <1>5 DEF PassTowardsTarget, known
  <2>2. busy /\ pos < Len(packets) /\ pos' \in pos + 1 .. Len(packets)
    BY <1>1, <1>5 DEF PassTowardsTarget, AtPicture, picture, busy
  <2>3. QED
    BY <1>1, <1>5, <2>1, <2>2, ReadType DEF PassTowardsTarget
<1>6. QED
  BY <1>2, <1>3, <1>4, <1>5

LEMMA PictureType ==
  ASSUME TypeOK, AtPicture
  PROVE  picture \in 1 .. Len(packets) /\ Label(picture) \in Nat \cup {Unrecognized}
<1>1. Len(packets) \in Nat /\ pos \in Nat
  BY PacketType DEF TypeOK
<1>2. QED
  BY <1>1, LabelType DEF AtPicture, picture

LEMMA TypeScanPicture == ASSUME TypeOK, ScanPicture PROVE TypeOK'
<1>1. /\ picture \in 1 .. Len(packets) /\ Label(picture) \in Nat
      /\ UNCHANGED packets /\ Len(packets) \in Nat
  BY PictureType, SamePackets DEF ScanPicture
<1>2. KnownType'
  BY <1>1, RegisterType DEF ScanPicture, KnownType
<1>3. next' \in Nat /\ contiguous' \in BOOLEAN /\ pos' \in 0 .. Len(packets)'
  BY <1>1 DEF ScanPicture, CountOn, Counted, TypeOK
<1>4. PlaceType' /\ CallType' /\ RestType'
  BY <1>1, <1>3 DEF ScanPicture, TypeOK, PlaceType, CallType, RestType
<1>5. QED
  BY <1>2, <1>4, TypeOfParts

LEMMA IdleType == ASSUME call' = Idle PROVE CallType'
<1>1. call' = [step |-> "idle", want |-> 0, retried |-> FALSE]
  BY DEF Idle
<1>2. QED
  BY <1>1 DEF CallType

LEMMA DecodeType == ASSUME NEW f \in Nat, Decode(f) PROVE CallType'
  BY DEF Decode, CallType

LEMMA TypeScanFails == ASSUME TypeOK, ScanFails PROVE TypeOK'
<1>1. picture \in 1 .. Len(packets) /\ UNCHANGED packets /\ Len(packets) \in Nat
  BY PictureType, SamePackets DEF ScanFails
<1>3. PlaceType'
  <2>1. CASE AtStart
    BY <1>1, <2>1, StartType
  <2>2. CASE pos' = picture /\ contiguous' = FALSE /\ UNCHANGED <<next, target, eof>>
    <3>1. pos' \in 0 .. Len(packets)'
      BY <1>1, <2>2
    <3>2. QED
      BY <2>2, <3>1 DEF PlaceType, TypeOK
  <2>3. QED
    BY <2>1, <2>2 DEF ScanFails
<1>4. KnownType' /\ RestType'
  BY <1>1 DEF ScanFails, known, TypeOK, KnownType, RestType
<1>5. QED
  BY <1>3, <1>4, IdleType, TypeOfParts DEF ScanFails

LEMMA TypeScanEnds == ASSUME TypeOK, ScanEnds PROVE TypeOK'
<1>1. UNCHANGED packets /\ Len(packets) \in Nat /\ UNCHANGED video
  BY SamePackets DEF ScanEnds
<1>2. KnownType'
  BY SettleType DEF ScanEnds
<1>3. RestType'
  BY <1>1 DEF ScanEnds, RestType, TypeOK
<1>4. PlaceType' /\ CallType'
  <2>1. CASE call.want # NoFrame /\ Seek(call.want) /\ Decode(call.want)
    <3>1. call.want \in Nat
      BY <2>1 DEF TypeOK
    <3>2. QED
      BY <1>1, <2>1, <3>1, SeekType, DecodeType
  <2>2. CASE call' = Idle /\ AtStart
    BY <1>1, <2>2, StartType, IdleType
  <2>3. CASE call' = Idle /\ eof' = TRUE /\ UNCHANGED <<pos, next, contiguous, target>>
    <3>1. PlaceType'
      BY <1>1, <2>3 DEF PlaceType, TypeOK
    <3>2. QED
      BY <2>3, <3>1, IdleType
  <2>4. QED
    BY <2>1, <2>2, <2>3 DEF ScanEnds
<1>5. QED
  BY <1>2, <1>3, <1>4, TypeOfParts

LEMMA TypeDecodePicture == ASSUME TypeOK, DecodePicture PROVE TypeOK'
<1>1. /\ picture \in 1 .. Len(packets) /\ Label(picture) \in 0 .. call.want
      /\ UNCHANGED packets /\ Len(packets) \in Nat
  BY PictureType, SamePackets DEF DecodePicture
<1>2. Label(picture) \in Nat /\ call.want \in Nat
  BY <1>1 DEF TypeOK, NoFrame
<1>3. KnownType'
  BY <1>1, <1>2, RegisterType DEF DecodePicture, KnownType
<1>4. next' \in Nat /\ contiguous' \in BOOLEAN /\ pos' \in 0 .. Len(packets)'
  BY <1>1, <1>2 DEF DecodePicture, CountOn, Counted, TypeOK
<1>5. PlaceType'
  BY <1>4 DEF DecodePicture, PlaceType, TypeOK
<1>6. cache' \subseteq Nat \X (1 .. Len(packets)) /\ CallType'
  <2>1. CASE UNCHANGED <<cache, call>>
    BY <2>1 DEF TypeOK, CallType
  <2>2. CASE call' = Idle /\ \E kept \in SUBSET cache : cache' = kept \cup {<<call.want, picture>>}
    BY <1>1, <1>2, <2>2, IdleType DEF TypeOK
  <2>3. QED
    BY <2>1, <2>2 DEF DecodePicture
<1>7. RestType'
  BY <1>1, <1>6 DEF DecodePicture, RestType, TypeOK
<1>8. QED
  BY <1>3, <1>5, <1>6, <1>7, TypeOfParts

LEMMA TypeLost == ASSUME TypeOK, Lost PROVE TypeOK'
<1>1. /\ picture \in 1 .. Len(packets) /\ Label(picture) \in Nat \cup {Unrecognized}
      /\ UNCHANGED packets /\ Len(packets) \in Nat
  BY PictureType, SamePackets DEF Lost
<1>2. KnownType'
  BY <1>1, RegisterType DEF Lost, KnownType
<1>3. RestType'
  BY <1>1 DEF Lost, RestType, TypeOK
<1>4. CASE AtStart /\ call' = [call EXCEPT !.retried = TRUE]
  <2>1. CallType'
    BY <1>4 DEF CallType, TypeOK
  <2>2. QED
    BY <1>1, <1>2, <1>3, <1>4, <2>1, StartType, TypeOfParts
<1>5. CASE /\ call' = Idle
           /\ pos' = picture /\ target' = Absent /\ UNCHANGED eof
           /\ IF Label(picture) = Unrecognized THEN contiguous' = FALSE /\ UNCHANGED next
              ELSE CountOn(Label(picture))
  <2>1. next' \in Nat /\ contiguous' \in BOOLEAN
    <3>1. CASE Label(picture) = Unrecognized
      BY <1>5, <3>1 DEF TypeOK
    <3>2. CASE Label(picture) # Unrecognized
      <4>1. CountOn(Label(picture)) /\ Label(picture) \in Nat
        BY <1>1, <1>5, <3>2
      <4>2. next' = Label(picture) + 1 /\ contiguous' \in BOOLEAN
        BY <4>1 DEF CountOn, Counted
      <4>3. QED
        BY <4>1, <4>2
    <3>3. QED
      BY <3>1, <3>2
  <2>2. pos' \in 0 .. Len(packets)'
    BY <1>1, <1>5
  <2>3. PlaceType'
    BY <1>5, <2>1, <2>2 DEF PlaceType, TypeOK
  <2>4. QED
    BY <1>2, <1>3, <1>5, <2>3, IdleType, TypeOfParts
<1>6. QED
  BY <1>4, <1>5 DEF Lost

LEMMA TypeDecodeEnds == ASSUME TypeOK, DecodeEnds PROVE TypeOK'
<1>1. UNCHANGED packets
  BY SamePackets DEF DecodeEnds
<1>2. KnownType'
  BY SettleType DEF DecodeEnds
<1>3. PlaceType' /\ RestType'
  BY <1>1 DEF DecodeEnds, PlaceType, RestType, TypeOK
<1>4. QED
  BY <1>2, <1>3, IdleType, TypeOfParts DEF DecodeEnds

LEMMA TypeProgress == ASSUME TypeOK, Progress PROVE TypeOK'
  BY TypeRead, TypeScanPicture, TypeScanFails, TypeScanEnds, TypeDecodePicture, TypeLost,
     TypeDecodeEnds DEF Progress

LEMMA TypeCancel == ASSUME TypeOK, Cancel PROVE TypeOK'
<1>1. UNCHANGED packets /\ Len(packets) \in Nat
  BY SamePackets DEF Cancel
<1>2. KnownType' /\ CallType'
  BY IdleType DEF Cancel, known, TypeOK, KnownType
<1>3. RestType'
  BY <1>1 DEF Cancel, RestType, TypeOK
<1>4. CASE AtStart
  BY <1>1, <1>2, <1>3, <1>4, StartType, TypeOfParts
<1>5. CASE UNCHANGED place
  <2>1. PlaceType'
    BY <1>1, <1>5 DEF place, PlaceType, TypeOK
  <2>2. QED
    BY <1>2, <1>3, <2>1, TypeOfParts
<1>6. QED
  BY <1>4, <1>5 DEF Cancel, place

\* the calls that begin and the calls that do not decode
LEMMA TypeSurvey == ASSUME TypeOK, Survey PROVE TypeOK'
<1>1. UNCHANGED packets /\ Len(packets) \in Nat
  BY SamePackets DEF Survey
<1>2. PlaceType' /\ KnownType'
  BY <1>1, StartType, ForgetType DEF Survey, Afresh, TypeOK
<1>3. CallType' /\ RestType'
  BY <1>1 DEF Survey, Afresh, CallType, RestType, TypeOK
<1>4. QED
  BY <1>2, <1>3, TypeOfParts

LEMMA TypeRequest ==
  ASSUME TypeOK, NEW f \in Nat, NEW preserve \in BOOLEAN, Request(f, preserve) PROVE TypeOK'
<1>1. UNCHANGED packets /\ Len(packets) \in Nat /\ UNCHANGED <<video, mode, offer>>
  BY SamePackets DEF Request
<1>2. CASE Decode(f) /\ UNCHANGED <<place, known, cache>>
  <2>1. PlaceType' /\ KnownType' /\ RestType'
    BY <1>1, <1>2 DEF place, known, PlaceType, KnownType, RestType, TypeOK
  <2>2. QED
    BY <1>2, <2>1, DecodeType, TypeOfParts
<1>3. CASE BeginIndex(f)
  BY <1>1, <1>3, BeginIndexType
<1>4. CASE Seek(f) /\ Decode(f) /\ UNCHANGED <<known, cache>>
  <2>1. KnownType' /\ RestType'
    BY <1>1, <1>4 DEF known, KnownType, RestType, TypeOK
  <2>2. QED
    BY <1>1, <1>4, <2>1, SeekType, DecodeType, TypeOfParts
<1>5. QED
  BY <1>2, <1>3, <1>4 DEF Request

LEMMA TypeOpen == ASSUME TypeOK, NEW v \in Video, Open(v) PROVE TypeOK'
<1>1. video' \in [packets : Seq(Packet), late : BOOLEAN]
  BY IndexAssumption DEF Open
<1>2. Len(packets)' \in Nat
  BY <1>1 DEF packets
<1>3. PlaceType'
  BY <1>2, StartType DEF Open
<1>4. KnownType'
  BY ForgetType DEF Open
<1>5. RestType' /\ CallType'
  BY DEF Open, RestType, CallType, TypeOK
<1>6. QED
  BY <1>3, <1>4, <1>5, TypeOfParts

LEMMA TypeSetErrorMode == ASSUME TypeOK, NEW m \in Mode, SetErrorMode(m) PROVE TypeOK'
<1>1. UNCHANGED packets
  BY SamePackets DEF SetErrorMode
<1>2. KnownType'
  BY ForgetType DEF SetErrorMode
<1>3. PlaceType' /\ CallType' /\ RestType'
  BY <1>1 DEF SetErrorMode, PlaceType, CallType, RestType, TypeOK
<1>4. QED
  BY <1>2, <1>3, TypeOfParts

LEMMA TypePublish == ASSUME TypeOK, Publish PROVE TypeOK'
<1>1. UNCHANGED packets
  BY SamePackets DEF Publish
<1>2. [file |-> video, mode |-> mode, entries |-> index] \in Snapshot
  BY DEF TypeOK, Snapshot
<1>3. snapshot' \in Snapshot \cup {Nothing}
  BY <1>2 DEF Publish, TypeOK
<1>4. KnownType' /\ RestType'
  BY <1>1, <1>3 DEF Publish, KnownType, RestType, TypeOK
<1>5. PlaceType' /\ CallType'
  BY <1>1 DEF Publish, place, PlaceType, CallType, TypeOK
<1>6. QED
  BY <1>4, <1>5, TypeOfParts

LEMMA TypeAdopt == ASSUME TypeOK, Adopt PROVE TypeOK'
<1>1. UNCHANGED packets /\ Len(packets) \in Nat
  BY SamePackets DEF Adopt
<1>2. offer \in Snapshot
  BY DEF Adopt, TypeOK
<1>3. offer.entries \in Seq(Entry)
  BY <1>2 DEF Snapshot
<1>4. Len(offer.entries) \in Nat
  BY <1>3
<1>5. KnownType'
  BY <1>2, <1>3, <1>4 DEF Adopt, KnownType
<1>6. PlaceType' /\ CallType' /\ RestType'
  BY <1>1, StartType DEF Adopt, CallType, RestType, TypeOK
<1>7. QED
  BY <1>5, <1>6, TypeOfParts

LEMMA TypeStep == TypeOK /\ [Next]_vars => TypeOK'
<1>1. SUFFICES ASSUME TypeOK, [Next]_vars PROVE TypeOK'
  OBVIOUS
<1>2. CASE UNCHANGED vars
  <2>1. UNCHANGED packets
    BY <1>2 DEF vars, packets
  <2>2. PlaceType' /\ KnownType' /\ CallType' /\ RestType'
    BY <1>1, <1>2, <2>1 DEF vars, place, known, TypeOK, PlaceType, KnownType, CallType, RestType
  <2>3. QED
    BY <2>2, TypeOfParts
<1>3. CASE Progress \/ Cancel \/ Survey \/ Publish \/ Adopt
  BY <1>1, <1>3, TypeProgress, TypeCancel, TypeSurvey, TypePublish, TypeAdopt
<1>4. CASE Ensure
  BY <1>1, <1>4, BeginIndexType DEF Ensure
<1>5. ASSUME NEW f \in Wanted, NEW preserve \in BOOLEAN, Request(f, preserve) PROVE TypeOK'
  <2>1. f \in Nat
    BY <1>5 DEF Wanted
  <2>2. QED
    BY <1>1, <1>5, <2>1, TypeRequest
<1>6. ASSUME NEW v \in Video, Open(v) PROVE TypeOK'
  BY <1>1, <1>6, TypeOpen
<1>7. ASSUME NEW m \in Mode, SetErrorMode(m) PROVE TypeOK'
  BY <1>1, <1>7, TypeSetErrorMode
<1>8. QED
  BY <1>1, <1>2, <1>3, <1>4, <1>5, <1>6, <1>7 DEF Next

(* Every variable of the frame index keeps its type, for all files, modes and stamps: the
   decoder is never past the end of the open file, and no cached picture is one it lacks. *)
THEOREM TypeCorrect == Spec => []TypeOK
<1>1. QED
  BY InitType, TypeStep, PTL DEF Spec

-----------------------------------------------------------------------------
(* The index. *)

LEMMA InitIInv == Init => IInv
<1>1. SUFFICES ASSUME Init PROVE IInv
  OBVIOUS
<1>2. TypeOK
  BY <1>1, InitType
<1>3. next = Frames(video, mode, pos)
  BY <1>1, FramesStart DEF Init
<1>4. IndexIsTrue
  <2>1. Len(index) = 0
    BY <1>1 DEF Init
  <2>2. TrueOf(video, mode, index)
    BY <2>1 DEF TrueOf
  <2>3. QED
    BY <1>1, <2>2 DEF Init, IndexIsTrue
<1>5. ~Scanning
  BY <1>1 DEF Init, Idle, Scanning
<1>6. QED
  BY <1>1, <1>2, <1>3, <1>4, <1>5 DEF Init, IInv, PlaceIsCounted, AnchorIsUnique,
     ScansAreUntargeted

EmptyIsTrue == \A v, m : TrueOf(v, m, <<>>)

LEMMA NoEntries == EmptyIsTrue
<1>1. Len(<<>>) = 0
  OBVIOUS
<1>2. QED
  BY <1>1 DEF EmptyIsTrue, TrueOf

\* at the start of a file nothing has been counted
LEMMA StartIsCounted ==
  ASSUME AtStart PROVE PlaceIsCounted' /\ AnchorIsUnique' /\ ScansAreUntargeted'
<1>1. pos' = 0 /\ next' = 0 /\ target' = Absent
  BY DEF AtStart
<1>2. Frames(video, mode, pos)' = 0
  BY <1>1, FramesStart
<1>3. QED
  BY <1>1, <1>2 DEF PlaceIsCounted, AnchorIsUnique, ScansAreUntargeted

\* what is no longer counted claims nothing
LEMMA BrokenIsCounted ==
  ASSUME ~contiguous' PROVE PlaceIsCounted' /\ AnchorIsUnique'
  BY DEF PlaceIsCounted, AnchorIsUnique

LEMMA SameIndexIsTrue ==
  ASSUME IndexIsTrue, UNCHANGED <<video, mode, index, exact, offer>>,
         complete' => complete, snapshot' \in {snapshot, Nothing}
  PROVE  IndexIsTrue'
<1>1. UNCHANGED packets
  BY DEF packets
<1>2. TrueOf(video, mode, index)' /\ (complete' => WholeOf(video, mode, index)')
  BY DEF IndexIsTrue
<1>3. (exact # Unknown => exact = Frames(video, mode, Len(packets)))'
  BY <1>1 DEF IndexIsTrue
<1>4. \A t \in {snapshot', offer'} \ {Nothing} : WholeOf(t.file, t.mode, t.entries)
  BY DEF IndexIsTrue
<1>5. QED
  BY <1>2, <1>3, <1>4 DEF IndexIsTrue

LEMMA ForgetIsTrue ==
  ASSUME IndexIsTrue, Forget, exact' = Unknown, UNCHANGED offer PROVE IndexIsTrue'
<1>1. index' = <<>> /\ complete' = FALSE /\ snapshot' = Nothing
  BY DEF Forget
<1>2. TrueOf(video, mode, index)'
  BY <1>1, NoEntries DEF EmptyIsTrue
<1>3. \A t \in {snapshot', offer'} \ {Nothing} : WholeOf(t.file, t.mode, t.entries)
  BY <1>1 DEF IndexIsTrue
<1>4. QED
  BY <1>1, <1>2, <1>3 DEF IndexIsTrue

LEMMA AfreshIsTrue ==
  ASSUME IndexIsTrue, Afresh, UNCHANGED <<video, mode, offer>> PROVE IndexIsTrue'
<1>1. index' = <<>> /\ complete' = FALSE /\ snapshot' = Nothing /\ exact' = exact
  BY DEF Afresh, Forget
<1>2. TrueOf(video, mode, index)'
  BY <1>1, NoEntries DEF EmptyIsTrue
<1>3. \A t \in {snapshot', offer'} \ {Nothing} : WholeOf(t.file, t.mode, t.entries)
  BY <1>1 DEF IndexIsTrue
<1>4. (exact # Unknown => exact = Frames(video, mode, Len(packets)))'
  BY <1>1 DEF IndexIsTrue, packets
<1>5. QED
  BY <1>1, <1>2, <1>3, <1>4 DEF IndexIsTrue

\* an entry that is a key frame after all has the time stamp it had
LEMMA SameStampsAreTrue ==
  ASSUME NEW v, NEW m, NEW e, NEW e2, Len(e2) = Len(e),
         \A f \in 0 .. Len(e) - 1 : e2[f + 1].stamp = e[f + 1].stamp
  PROVE  (TrueOf(v, m, e) => TrueOf(v, m, e2)) /\ (WholeOf(v, m, e) => WholeOf(v, m, e2))
  BY DEF TrueOf, WholeOf

LEMMA KeyIsMarked ==
  ASSUME NEW e \in Seq(Entry), NEW f \in 0 .. Len(e) - 1
  PROVE  /\ Len([e EXCEPT ![f + 1].key = TRUE]) = Len(e)
         /\ \A g \in 0 .. Len(e) - 1 : [e EXCEPT ![f + 1].key = TRUE][g + 1].stamp = e[g + 1].stamp
<1> DEFINE marked == [e EXCEPT ![f + 1].key = TRUE]
<1>1. Len(e) \in Nat /\ DOMAIN e = 1 .. Len(e) /\ f + 1 \in 1 .. Len(e)
  OBVIOUS
<1>2. e[f + 1] \in Entry
  BY <1>1
<1>3. [e[f + 1] EXCEPT !.key = TRUE].stamp = e[f + 1].stamp
  BY <1>2 DEF Entry
<1>4. marked[f + 1].stamp = e[f + 1].stamp
  BY <1>1, <1>3
<1>5. \A h \in 1 .. Len(e) : h # f + 1 => marked[h] = e[h]
  BY <1>1
<1>6. ASSUME NEW g \in 0 .. Len(e) - 1 PROVE marked[g + 1].stamp = e[g + 1].stamp
  <2>1. g + 1 \in 1 .. Len(e)
    BY <1>1
  <2>2. QED
    BY <1>4, <1>5, <2>1
<1>7. [e[f + 1] EXCEPT !.key = TRUE] \in Entry
  BY <1>2 DEF Entry
<1>8. marked \in Seq(Entry) /\ Len(marked) = Len(e)
  BY <1>1, <1>7
<1>9. QED
  BY <1>6, <1>8

\* a picture that is registered under its label leaves the index true
LEMMA RegisterIsTrue ==
  ASSUME IInv, AtPicture, Register(picture, Label(picture)), UNCHANGED <<video, mode, offer>>
  PROVE  /\ IndexIsTrue'
         /\ Counted(Label(picture)) => next + 1 = Frames(video, mode, picture)
<1> DEFINE f == Label(picture)
<1>1. /\ picture \in 1 .. Len(packets) /\ pos = picture - 1 /\ f \in Nat \cup {Unrecognized}
      /\ Len(packets) \in Nat /\ packets[picture].fate[mode] = "shown" /\ UNCHANGED packets
  BY PictureType, SamePackets DEF IInv, AtPicture, Shown, picture, TypeOK
<1>2. EntryOf(picture) \in Entry /\ index \in Seq(Entry) /\ Len(index) \in Nat /\ next \in Nat
  BY <1>1, PacketType DEF IInv, TypeOK
<1>3. video \in Video /\ mode \in Mode
  BY DEF IInv, TypeOK
<1>4. Counted(f) => next = Frames(video, mode, pos) /\ next + 1 = Frames(video, mode, picture)
  <2>1. ASSUME Counted(f) PROVE next = Frames(video, mode, pos)
    BY <2>1, CountedIsTrue DEF Counted
  <2>2. picture \in Nat \ {0}
    BY <1>1
  <2>3. Frames(video, mode, picture) = Frames(video, mode, pos) + 1
    BY <1>1, <1>3, <2>2, FramesStep DEF packets
  <2>4. QED
    BY <2>1, <2>3
<1>5. CASE Counted(f) /\ f = Len(index)
  <2>1. index' = Append(index, EntryOf(picture)) /\ complete' = complete /\ exact' = exact
    BY <1>5 DEF Register, IndexWith
  <2>2. Len(index') = Len(index) + 1
    BY <1>2, <2>1
  <2>3. snapshot' = snapshot
    BY <1>2, <2>2 DEF Register
  <2>4. TrueOf(video, mode, index')
    <3>1. SUFFICES ASSUME NEW g \in 0 .. Len(index') - 1
          PROVE \E n \in 1 .. Len(video.packets) :
                  /\ video.packets[n].fate[mode] = "shown" /\ Frames(video, mode, n - 1) = g
                  /\ index'[g + 1].stamp = video.packets[n].stamp
      BY DEF TrueOf
    <3>2. CASE g \in 0 .. Len(index) - 1
      <4>1. index'[g + 1] = index[g + 1]
        BY <1>2, <2>1, <3>2
      <4>2. TrueOf(video, mode, index)
        BY DEF IInv, IndexIsTrue
      <4>3. QED
        BY <3>2, <4>1, <4>2 DEF TrueOf
    <3>3. CASE g = Len(index)
      <4>1. index'[g + 1] = EntryOf(picture)
        BY <1>2, <2>1, <3>3
      <4>2. index'[g + 1].stamp = video.packets[picture].stamp
        BY <4>1 DEF EntryOf, packets
      <4>3. Frames(video, mode, picture - 1) = g
        BY <1>1, <1>4, <1>5, <3>3 DEF Counted
      <4>4. QED
        BY <1>1, <4>2, <4>3 DEF packets
    <3>4. QED
      BY <1>2, <2>2, <3>2, <3>3
  <2>5. ~complete
    <3>1. SUFFICES ASSUME complete PROVE FALSE
      OBVIOUS
    <3>2. Len(index) = Frames(video, mode, Len(packets))
      BY <3>1 DEF IInv, IndexIsTrue, WholeOf, packets
    <3>3. Frames(video, mode, picture) <= Frames(video, mode, Len(packets))
      BY <1>1, <1>3, FramesGrow
    <3>4. next = Len(index)
      BY <1>5 DEF Counted
    <3>5. QED
      BY <1>2, <1>4, <1>5, <3>2, <3>3, <3>4
  <2>6. (exact # Unknown => exact = Frames(video, mode, Len(packets)))'
    BY <1>1, <2>1 DEF IInv, IndexIsTrue
  <2>7. \A t \in {snapshot', offer'} \ {Nothing} : WholeOf(t.file, t.mode, t.entries)
    BY <2>3 DEF IInv, IndexIsTrue
  <2>8. IndexIsTrue'
    BY <2>1, <2>4, <2>5, <2>6, <2>7 DEF IndexIsTrue
  <2>9. QED
    BY <1>4, <2>8
<1>6. CASE ~(Counted(f) /\ f = Len(index))
  <2>1. /\ Len(index') = Len(index)
        /\ \A g \in 0 .. Len(index) - 1 : index'[g + 1].stamp = index[g + 1].stamp
    <3>1. CASE f \in 0 .. Len(index) - 1 /\ packets[picture].key
      <4>1. index' = [index EXCEPT ![f + 1].key = TRUE]
        BY <1>6, <3>1 DEF Register, IndexWith
      <4>2. QED
        BY <1>2, <3>1, <4>1, KeyIsMarked
    <3>2. CASE ~(f \in 0 .. Len(index) - 1 /\ packets[picture].key)
      <4>1. index' = index
        BY <1>6, <3>2 DEF Register, IndexWith
      <4>2. QED
        BY <4>1
    <3>3. QED
      BY <3>1, <3>2
  <2>2. complete' = complete /\ exact' = exact /\ snapshot' \in {snapshot, Nothing}
    BY DEF Register
  <2>3. /\ TrueOf(video, mode, index')
        /\ complete => WholeOf(video, mode, index')
    BY <2>1, SameStampsAreTrue DEF IInv, IndexIsTrue
  <2>4. (exact # Unknown => exact = Frames(video, mode, Len(packets)))'
    BY <1>1, <2>2 DEF IInv, IndexIsTrue
  <2>5. \A t \in {snapshot', offer'} \ {Nothing} : WholeOf(t.file, t.mode, t.entries)
    BY <2>2 DEF IInv, IndexIsTrue
  <2>6. IndexIsTrue'
    BY <2>2, <2>3, <2>4, <2>5 DEF IndexIsTrue
  <2>7. QED
    BY <1>4, <2>6
<1>7. QED
  BY <1>5, <1>6

\* at the end of the stream
LEMMA SettleIsTrue ==
  ASSUME IInv, Settle, pos = Len(packets), UNCHANGED <<video, mode, offer>>
  PROVE  IndexIsTrue'
<1>1. /\ UNCHANGED packets /\ index' = index /\ snapshot' = snapshot
      /\ Len(index) \in Nat /\ next \in Nat
  BY SamePackets DEF IInv, Settle, TypeOK
<1>2. ASSUME IndexEnds PROVE WholeOf(video, mode, index)
  <2>1. target = Absent
    <3>1. SUFFICES ASSUME target # Absent PROVE FALSE
      OBVIOUS
    <3>2. next < Len(index) /\ next = Len(index)
      BY <1>2, <3>1 DEF IInv, AnchorIsUnique, IndexEnds
    <3>3. QED
      BY <1>1, <3>2
  <2>2. next = Frames(video, mode, Len(packets)) /\ next = Len(index)
    BY <1>2, <2>1 DEF IInv, PlaceIsCounted, IndexEnds
  <2>3. QED
    BY <2>2 DEF IInv, IndexIsTrue, WholeOf, packets
<1>3. (complete => WholeOf(video, mode, index))'
  BY <1>1, <1>2 DEF Settle, IInv, IndexIsTrue
<1>4. (exact # Unknown => exact = Frames(video, mode, Len(packets)))'
  <2>1. CASE IndexEnds
    BY <1>1, <1>2, <2>1 DEF Settle, WholeOf, packets
  <2>2. CASE ~IndexEnds
    BY <1>1, <2>2 DEF Settle, IInv, IndexIsTrue
  <2>3. QED
    BY <2>1, <2>2
<1>5. \A t \in {snapshot', offer'} \ {Nothing} : WholeOf(t.file, t.mode, t.entries)
  BY <1>1 DEF IInv, IndexIsTrue
<1>6. QED
  BY <1>1, <1>3, <1>4, <1>5 DEF IInv, IndexIsTrue

\* a seek on a complete index waits at an anchor of its own
LEMMA SeekIsCounted ==
  ASSUME TypeOK, NEW f \in Nat, Seek(f), complete' \/ f = 0, UNCHANGED index
  PROVE  PlaceIsCounted' /\ AnchorIsUnique'
<1>1. CASE AtStart
  BY <1>1, StartIsCounted
<1>2. ASSUME NEW a \in Anchors(f), next' = a, target' = index[a + 1].stamp
      PROVE  PlaceIsCounted' /\ AnchorIsUnique'
  <2>1. /\ a \in 1 .. Len(index) - 1 /\ a <= f /\ index[a + 1].stamp # Absent
        /\ \A g \in 0 .. Len(index) - 1 : index[g + 1].stamp = index[a + 1].stamp => g = a
    BY <1>2 DEF Anchors
  <2>2. Len(index) \in Nat
    BY DEF TypeOK
  <2>3. complete' /\ a < Len(index)
    BY <2>1, <2>2
  <2>4. QED
    BY <1>2, <2>1, <2>3 DEF PlaceIsCounted, AnchorIsUnique
<1>3. QED
  BY <1>1, <1>2 DEF Seek

LEMMA NoScan ==
  ASSUME call' = Idle \/ \E f : Decode(f) PROVE ScansAreUntargeted'
  BY DEF Idle, Decode, ScansAreUntargeted, Scanning

\* nothing that is counted or sought changes
LEMMA PlaceStays ==
  ASSUME IInv, UNCHANGED <<video, mode, pos, next, contiguous, target, index>>,
         complete => complete'
  PROVE  PlaceIsCounted' /\ AnchorIsUnique'
  BY DEF IInv, PlaceIsCounted, AnchorIsUnique

LEMMA ReadSteps ==
  ASSUME IInv, Drop \/ Reject \/ ReadError \/ PassTowardsTarget PROVE IInv'
<1>1. TypeOK'
  BY TypeRead DEF IInv
<1>2. ScansAreUntargeted'
  BY DEF IInv, Drop, Reject, ReadError, PassTowardsTarget, ScansAreUntargeted, Scanning
<1>3. IndexIsTrue'
  BY SameIndexIsTrue DEF IInv, Drop, Reject, ReadError, PassTowardsTarget, known
<1>4. PlaceIsCounted' /\ AnchorIsUnique'
  <2>1. CASE Drop
    <3>1. /\ pos \in Nat /\ pos + 1 \in Nat \ {0} /\ video \in Video /\ mode \in Mode
          /\ video.packets[pos + 1].fate[mode] # "shown"
      BY <2>1, PacketType DEF IInv, TypeOK, Drop, packets
    <3>2. Frames(video, mode, pos + 1) = Frames(video, mode, pos)
      BY <3>1, FramesStep
    <3>3. QED
      BY <2>1, <3>2 DEF Drop, known, IInv, PlaceIsCounted, AnchorIsUnique
  <2>2. CASE Reject \/ ReadError
    BY <2>2, BrokenIsCounted DEF Reject, ReadError
  <2>3. CASE PassTowardsTarget
    BY <2>3 DEF PassTowardsTarget, Before, known, IInv, PlaceIsCounted, AnchorIsUnique
  <2>4. QED
    BY <2>1, <2>2, <2>3
<1>5. QED
  BY <1>1, <1>2, <1>3, <1>4 DEF IInv

\* counting on from a picture
LEMMA CountOnIsCounted ==
  ASSUME IInv, AtPicture, Register(picture, Label(picture)), CountOn(Label(picture)),
         pos' = picture, target' = Absent, UNCHANGED <<video, mode, offer>>
  PROVE  PlaceIsCounted' /\ AnchorIsUnique'
<1>1. CASE Counted(Label(picture))
  <2>1. next' = next + 1
    BY <1>1 DEF CountOn, Counted
  <2>2. next + 1 = Frames(video, mode, picture)
    BY <1>1, RegisterIsTrue
  <2>3. QED
    BY <2>1, <2>2 DEF PlaceIsCounted, AnchorIsUnique
<1>2. CASE ~Counted(Label(picture))
  BY <1>2, BrokenIsCounted DEF CountOn
<1>3. QED
  BY <1>1, <1>2

LEMMA ScanPictureStep == ASSUME IInv, ScanPicture PROVE IInv'
<1>1. TypeOK'
  BY TypeScanPicture DEF IInv
<1>2. target = Absent /\ target' = Absent
  BY DEF IInv, ScanPicture, ScansAreUntargeted
<1>3. IndexIsTrue'
  BY RegisterIsTrue DEF ScanPicture
<1>4. PlaceIsCounted' /\ AnchorIsUnique'
  BY <1>2, CountOnIsCounted DEF ScanPicture
<1>5. QED
  BY <1>1, <1>2, <1>3, <1>4 DEF IInv, ScansAreUntargeted

LEMMA ScanFailsStep == ASSUME IInv, ScanFails PROVE IInv'
<1>1. TypeOK'
  BY TypeScanFails DEF IInv
<1>2. IndexIsTrue'
  BY SameIndexIsTrue DEF IInv, ScanFails, known
<1>3. PlaceIsCounted' /\ AnchorIsUnique'
  BY StartIsCounted, BrokenIsCounted DEF ScanFails
<1>4. QED
  BY <1>1, <1>2, <1>3, NoScan DEF IInv, ScanFails

LEMMA ScanEndsStep == ASSUME IInv, ScanEnds PROVE IInv'
<1>1. TypeOK'
  BY TypeScanEnds DEF IInv
<1>2. IndexIsTrue'
  BY SettleIsTrue DEF ScanEnds
<1>3. PlaceIsCounted' /\ AnchorIsUnique'
  <2>1. CASE call.want # NoFrame /\ complete' /\ Seek(call.want)
    <3>1. call.want \in Nat
      BY <2>1 DEF IInv, TypeOK
    <3>2. UNCHANGED index
      BY DEF ScanEnds, Settle
    <3>3. QED
      BY <2>1, <3>1, <3>2, SeekIsCounted DEF IInv
  <2>2. CASE AtStart
    BY <2>2, StartIsCounted
  <2>3. CASE UNCHANGED <<pos, next, contiguous, target>>
    BY <2>3, PlaceStays DEF ScanEnds, Settle
  <2>4. QED
    BY <2>1, <2>2, <2>3 DEF ScanEnds
<1>4. ScansAreUntargeted'
  BY NoScan DEF ScanEnds
<1>5. QED
  BY <1>1, <1>2, <1>3, <1>4 DEF IInv

LEMMA DecodePictureStep == ASSUME IInv, DecodePicture PROVE IInv'
<1>1. TypeOK'
  BY TypeDecodePicture DEF IInv
<1>2. IndexIsTrue'
  BY RegisterIsTrue DEF DecodePicture
<1>3. PlaceIsCounted' /\ AnchorIsUnique'
  BY CountOnIsCounted DEF DecodePicture
<1>4. target' = Absent
  BY DEF DecodePicture
<1>5. QED
  BY <1>1, <1>2, <1>3, <1>4 DEF IInv, ScansAreUntargeted

LEMMA LostStep == ASSUME IInv, Lost PROVE IInv'
<1>1. TypeOK'
  BY TypeLost DEF IInv
<1>2. IndexIsTrue'
  BY RegisterIsTrue DEF Lost
<1>3. PlaceIsCounted' /\ AnchorIsUnique'
  <2>1. CASE AtStart
    BY <2>1, StartIsCounted
  <2>2. CASE Label(picture) = Unrecognized /\ contiguous' = FALSE
    BY <2>2, BrokenIsCounted
  <2>3. CASE CountOn(Label(picture)) /\ pos' = picture /\ target' = Absent
    BY <2>3, CountOnIsCounted DEF Lost
  <2>4. QED
    BY <2>1, <2>2, <2>3 DEF Lost
<1>4. target' = Absent
  BY DEF Lost, AtStart
<1>5. QED
  BY <1>1, <1>2, <1>3, <1>4 DEF IInv, ScansAreUntargeted

LEMMA DecodeEndsStep == ASSUME IInv, DecodeEnds PROVE IInv'
<1>1. TypeOK'
  BY TypeDecodeEnds DEF IInv
<1>2. IndexIsTrue'
  BY SettleIsTrue DEF DecodeEnds
<1>3. PlaceIsCounted' /\ AnchorIsUnique'
  BY PlaceStays DEF DecodeEnds, Settle
<1>4. QED
  BY <1>1, <1>2, <1>3, NoScan DEF IInv, DecodeEnds

LEMMA CancelStep == ASSUME IInv, Cancel PROVE IInv'
<1>1. TypeOK'
  BY TypeCancel DEF IInv
<1>2. IndexIsTrue'
  BY SameIndexIsTrue DEF IInv, Cancel, known
<1>3. PlaceIsCounted' /\ AnchorIsUnique'
  <2>1. CASE AtStart
    BY <2>1, StartIsCounted
  <2>2. CASE UNCHANGED place
    BY <2>2, PlaceStays DEF Cancel, place, known
  <2>3. QED
    BY <2>1, <2>2 DEF Cancel, place
<1>4. QED
  BY <1>1, <1>2, <1>3, NoScan DEF IInv, Cancel

LEMMA BeginIndexStep ==
  ASSUME IInv, NEW want \in Nat \cup {NoFrame}, BeginIndex(want), UNCHANGED <<video, mode, offer>>
  PROVE  IInv'
<1>1. TypeOK'
  BY BeginIndexType DEF IInv
<1>2. CASE canResume /\ UNCHANGED <<place, known, cache>>
  <2>1. IndexIsTrue'
    BY <1>2, SameIndexIsTrue DEF IInv, known
  <2>2. PlaceIsCounted' /\ AnchorIsUnique'
    BY <1>2, PlaceStays DEF place, known
  <2>3. target' = Absent
    BY <1>2 DEF canResume, place
  <2>4. QED
    BY <1>1, <2>1, <2>2, <2>3 DEF IInv, ScansAreUntargeted
<1>3. CASE Afresh
  BY <1>1, <1>3, AfreshIsTrue, StartIsCounted DEF IInv, Afresh
<1>4. QED
  BY <1>2, <1>3 DEF BeginIndex

LEMMA SurveyStep == ASSUME IInv, Survey PROVE IInv'
  BY TypeSurvey, AfreshIsTrue, StartIsCounted DEF IInv, Survey, Afresh

LEMMA RequestStep ==
  ASSUME IInv, NEW f \in Nat, NEW preserve \in BOOLEAN, Request(f, preserve) PROVE IInv'
<1>1. TypeOK' /\ UNCHANGED <<video, mode, offer>>
  BY TypeRequest DEF IInv, Request
<1>2. CASE Decode(f) /\ UNCHANGED <<place, known, cache>>
  <2>1. IndexIsTrue'
    BY <1>1, <1>2, SameIndexIsTrue DEF IInv, known
  <2>2. PlaceIsCounted' /\ AnchorIsUnique'
    BY <1>1, <1>2, PlaceStays DEF place, known
  <2>3. QED
    BY <1>1, <1>2, <2>1, <2>2, NoScan DEF IInv
<1>3. CASE BeginIndex(f)
  BY <1>1, <1>3, BeginIndexStep
<1>4. CASE (complete \/ f = 0) /\ Seek(f) /\ Decode(f) /\ UNCHANGED <<known, cache>>
  <2>1. IndexIsTrue'
    BY <1>1, <1>4, SameIndexIsTrue DEF IInv, known
  <2>2. PlaceIsCounted' /\ AnchorIsUnique'
    BY <1>4, SeekIsCounted DEF IInv, known
  <2>3. QED
    BY <1>1, <1>4, <2>1, <2>2, NoScan DEF IInv
<1>5. QED
  BY <1>2, <1>3, <1>4 DEF Request

LEMMA OpenStep == ASSUME IInv, NEW v \in Video, Open(v) PROVE IInv'
<1>1. TypeOK'
  BY TypeOpen DEF IInv
<1>2. IndexIsTrue'
  BY ForgetIsTrue DEF IInv, Open
<1>3. QED
  BY <1>1, <1>2, StartIsCounted DEF IInv, Open

LEMMA SetErrorModeStep == ASSUME IInv, NEW m \in Mode, SetErrorMode(m) PROVE IInv'
<1>1. TypeOK'
  BY TypeSetErrorMode DEF IInv
<1>2. IndexIsTrue'
  BY ForgetIsTrue DEF IInv, SetErrorMode
<1>3. ScansAreUntargeted'
  BY DEF SetErrorMode, IInv, ScansAreUntargeted, Scanning
<1>4. QED
  BY <1>1, <1>2, <1>3, BrokenIsCounted DEF IInv, SetErrorMode

LEMMA PublishStep == ASSUME IInv, Publish PROVE IInv'
<1>1. TypeOK'
  BY TypePublish DEF IInv
<1>2. WholeOf(video, mode, index) /\ \A t \in {snapshot, offer} \ {Nothing} : WholeOf(t.file, t.mode, t.entries)
  BY DEF IInv, IndexIsTrue, Publish
<1>3. \A t \in {snapshot', offer'} \ {Nothing} : WholeOf(t.file, t.mode, t.entries)
  BY <1>2 DEF Publish
<1>4. IndexIsTrue'
  BY <1>3 DEF IInv, IndexIsTrue, Publish, packets
<1>5. PlaceIsCounted' /\ AnchorIsUnique'
  BY PlaceStays DEF Publish, place
<1>6. ScansAreUntargeted'
  BY DEF IInv, Publish, place, ScansAreUntargeted, Scanning
<1>7. QED
  BY <1>1, <1>4, <1>5, <1>6 DEF IInv

LEMMA AdoptStep == ASSUME IInv, Adopt PROVE IInv'
<1>1. TypeOK'
  BY TypeAdopt DEF IInv
<1>2. WholeOf(video, mode, offer.entries)
  BY DEF IInv, IndexIsTrue, Adopt
<1>3. \A t \in {snapshot', offer'} \ {Nothing} : WholeOf(t.file, t.mode, t.entries)
  BY DEF IInv, IndexIsTrue, Adopt
<1>4. IndexIsTrue'
  BY <1>2, <1>3 DEF IndexIsTrue, Adopt, WholeOf, packets
<1>5. QED
  BY <1>1, <1>4, StartIsCounted DEF IInv, Adopt

LEMMA StepIInv == IInv /\ [Next]_vars => IInv'
<1>1. SUFFICES ASSUME IInv, [Next]_vars PROVE IInv'
  OBVIOUS
<1>2. CASE UNCHANGED vars
  <2>1. TypeOK'
    BY <1>1, TypeStep DEF IInv
  <2>2. UNCHANGED <<video, mode, pos, next, contiguous, target, index, complete, exact, snapshot, offer, call>>
    BY <1>2 DEF vars, place, known
  <2>3. IndexIsTrue' /\ PlaceIsCounted' /\ AnchorIsUnique'
    BY <1>1, <2>2, SameIndexIsTrue, PlaceStays DEF IInv
  <2>4. ScansAreUntargeted'
    BY <1>1, <2>2 DEF IInv, ScansAreUntargeted, Scanning
  <2>5. QED
    BY <2>1, <2>3, <2>4 DEF IInv
<1>3. CASE Progress
  BY <1>1, <1>3, ReadSteps, ScanPictureStep, ScanFailsStep, ScanEndsStep, DecodePictureStep,
     LostStep, DecodeEndsStep DEF Progress
<1>4. CASE Cancel \/ Survey \/ Publish \/ Adopt
  BY <1>1, <1>4, CancelStep, SurveyStep, PublishStep, AdoptStep
<1>5. CASE Ensure
  BY <1>1, <1>5, BeginIndexStep DEF Ensure
<1>6. ASSUME NEW f \in Wanted, NEW preserve \in BOOLEAN, Request(f, preserve) PROVE IInv'
  <2>1. f \in Nat
    BY <1>6 DEF Wanted
  <2>2. QED
    BY <1>1, <1>6, <2>1, RequestStep
<1>7. ASSUME NEW v \in Video, Open(v) PROVE IInv'
  BY <1>1, <1>7, OpenStep
<1>8. ASSUME NEW m \in Mode, SetErrorMode(m) PROVE IInv'
  BY <1>1, <1>8, SetErrorModeStep
<1>9. QED
  BY <1>1, <1>2, <1>3, <1>4, <1>5, <1>6, <1>7, <1>8 DEF Next

(* For every file and whatever its demuxer does: the index is what counting the pictures
   of the file in the present error mode gives, and whole when it says so. *)
THEOREM IndexStaysTrue == Spec => []IndexIsTrue
<1>1. IInv => IndexIsTrue
  BY DEF IInv
<1>2. QED
  BY <1>1, InitIInv, StepIInv, PTL DEF Spec

-----------------------------------------------------------------------------
(* Where the codec rejected nothing. *)

Clean(v, m, n) == \A k \in 1 .. n : v.packets[k].fate[m] # "rejected"

(* An unbroken count has met no packet the codec rejects. *)
UnbrokenIsClean == contiguous /\ target = Absent => Clean(video, mode, pos)

(* A stream that was counted to its end has none. *)
CompleteIsClean ==
  /\ complete => Clean(video, mode, Len(packets))
  /\ \A s \in {snapshot, offer} \ {Nothing} : Clean(s.file, s.mode, Len(s.file.packets))

(* The index ends before the first of them. *)
RejectedAfterIndex ==
  \A n \in 1 .. Len(packets) :
    packets[n].fate[mode] = "rejected" => Frames(video, mode, n - 1) >= Len(index)

(* A seek that still waits for its anchor has a verified index, unless nothing can come
   of it. *)
PendingIsPlaced == target # Absent => contiguous \/ pos = Len(packets) \/ index = <<>>

CInv == UnbrokenIsClean /\ CompleteIsClean /\ RejectedAfterIndex /\ PendingIsPlaced

\* a seek that waits has a stream without rejected packets
LEMMA PendingIsClean ==
  ASSUME IInv, CInv, target # Absent, contiguous PROVE complete /\ Clean(video, mode, Len(packets))
BY DEF IInv, AnchorIsUnique, CInv, CompleteIsClean

LEMMA InitCInv == Init => CInv
<1>1. SUFFICES ASSUME Init PROVE CInv
  OBVIOUS
<1>2. TypeOK /\ Len(index) = 0 /\ pos = 0
  BY <1>1, InitType DEF Init
<1>3. RejectedAfterIndex
  <2>1. SUFFICES ASSUME NEW n \in 1 .. Len(packets) PROVE Frames(video, mode, n - 1) >= 0
    BY <1>2 DEF RejectedAfterIndex
  <2>2. n - 1 \in Int /\ video \in Video /\ mode \in Mode
    BY <1>2, PacketType DEF TypeOK
  <2>3. QED
    BY <2>2, FramesType
<1>4. QED
  BY <1>1, <1>2, <1>3 DEF Init, CInv, UnbrokenIsClean, Clean, CompleteIsClean, PendingIsPlaced

\* the start of a stream, a forgotten index, and an index that stays
LEMMA StartIsClean == ASSUME AtStart PROVE UnbrokenIsClean' /\ PendingIsPlaced'
  BY DEF AtStart, UnbrokenIsClean, Clean, PendingIsPlaced

LEMMA BrokenIsClean == ASSUME ~contiguous' PROVE UnbrokenIsClean'
  BY DEF UnbrokenIsClean

LEMMA EmptyIsClean ==
  ASSUME TypeOK', index' = <<>> PROVE RejectedAfterIndex'
<1>1. Len(index') = 0
  OBVIOUS
<1>2. ASSUME NEW n \in 1 .. Len(packets') PROVE Frames(video', mode', n - 1) >= 0
  <2>1. n - 1 \in Int /\ video' \in Video /\ mode' \in Mode
    BY DEF TypeOK
  <2>2. QED
    BY <2>1, FramesType
<1>3. QED
  BY <1>1, <1>2 DEF RejectedAfterIndex

LEMMA SameIsClean ==
  ASSUME CInv, UNCHANGED <<video, mode, offer>>, Len(index') = Len(index),
         complete' => complete, snapshot' \in {snapshot, Nothing}
  PROVE  CompleteIsClean' /\ RejectedAfterIndex'
<1>1. UNCHANGED packets
  BY DEF packets
<1>2. QED
  BY <1>1 DEF CInv, CompleteIsClean, RejectedAfterIndex, Clean

LEMMA SamePlaceIsClean ==
  ASSUME CInv, UNCHANGED <<video, mode, pos, contiguous, target>>, index' = index
  PROVE  UnbrokenIsClean' /\ PendingIsPlaced'
BY DEF CInv, UnbrokenIsClean, PendingIsPlaced, Clean, packets

LEMMA ForgetIsClean ==
  ASSUME CInv, TypeOK', Forget, UNCHANGED offer PROVE CompleteIsClean' /\ RejectedAfterIndex'
<1>1. index' = <<>> /\ complete' = FALSE /\ snapshot' = Nothing
  BY DEF Forget
<1>2. RejectedAfterIndex'
  BY <1>1, EmptyIsClean
<1>3. CompleteIsClean'
  BY <1>1 DEF CInv, CompleteIsClean
<1>4. QED
  BY <1>2, <1>3

LEMMA SeekIsClean ==
  ASSUME TypeOK, NEW f, Seek(f), index' = index PROVE UnbrokenIsClean' /\ PendingIsPlaced'
<1>1. CASE AtStart
  BY <1>1, StartIsClean
<1>2. ASSUME NEW a \in Anchors(f), contiguous' = TRUE, target' = index[a + 1].stamp
      PROVE  UnbrokenIsClean' /\ PendingIsPlaced'
  BY <1>2 DEF Anchors, UnbrokenIsClean, PendingIsPlaced
<1>3. QED
  BY <1>1, <1>2 DEF Seek

\* the pictures so far, when one more was counted
LEMMA CleanSoFar ==
  ASSUME IInv, CInv, AtPicture, contiguous PROVE Clean(video, mode, picture)
<1>1. /\ picture \in 1 .. Len(packets) /\ pos = picture - 1
      /\ Len(packets) \in Nat /\ video.packets[picture].fate[mode] = "shown"
  BY PictureType, PacketType DEF IInv, AtPicture, Shown, picture, TypeOK, packets
<1>2. CASE target = Absent
  BY <1>1, <1>2 DEF CInv, UnbrokenIsClean, Clean
<1>3. CASE target # Absent
  BY <1>1, <1>3, PendingIsClean DEF Clean
<1>4. QED
  BY <1>2, <1>3

\* a registered picture leaves rejected packets beyond the index
LEMMA RegisterIsClean ==
  ASSUME IInv, CInv, AtPicture, Register(picture, Label(picture)),
         UNCHANGED <<video, mode, offer>>
  PROVE  CompleteIsClean' /\ RejectedAfterIndex'
<1> DEFINE f == Label(picture)
<1>1. /\ picture \in 1 .. Len(packets) /\ pos = picture - 1 /\ Len(packets) \in Nat
      /\ UNCHANGED packets /\ video \in Video /\ mode \in Mode
      /\ index \in Seq(Entry) /\ Len(index) \in Nat
  BY PictureType, SamePackets DEF IInv, AtPicture, picture, TypeOK
<1>2. CASE Counted(f) /\ f = Len(index)
  <2>1. index' = Append(index, EntryOf(picture)) /\ complete' = complete
    BY <1>2 DEF Register, IndexWith
  <2>2. Len(index') = Len(index) + 1 /\ snapshot' \in {snapshot, Nothing}
    BY <1>1, <2>1 DEF Register
  <2>3. Len(index') = Frames(video, mode, picture)
    BY <1>2, <2>2, RegisterIsTrue DEF Counted
  <2>4. ASSUME NEW n \in 1 .. Len(packets), packets[n].fate[mode] = "rejected"
        PROVE  Frames(video, mode, n - 1) >= Len(index')
    <3>1. Clean(video, mode, picture)
      BY <1>2, CleanSoFar DEF Counted
    <3>2. ~(n <= picture)
      BY <1>1, <2>4, <3>1 DEF Clean, packets
    <3>3. picture <= n - 1 /\ n - 1 \in Int /\ picture \in Int
      BY <1>1, <3>2
    <3>4. Frames(video, mode, picture) <= Frames(video, mode, n - 1)
      BY <1>1, <3>3, FramesGrow
    <3>5. Frames(video, mode, picture) \in Nat /\ Frames(video, mode, n - 1) \in Nat
      BY <1>1, <3>3, FramesType
    <3>6. QED
      BY <2>3, <3>4, <3>5
  <2>5. RejectedAfterIndex'
    BY <1>1, <2>4 DEF RejectedAfterIndex
  <2>6. CompleteIsClean'
    BY <1>1, <2>1, <2>2 DEF CInv, CompleteIsClean, Clean
  <2>7. QED
    BY <2>5, <2>6
<1>3. CASE ~(Counted(f) /\ f = Len(index))
  <2>1. Len(index') = Len(index)
    <3>1. CASE f \in 0 .. Len(index) - 1 /\ packets[picture].key
      <4>1. index' = [index EXCEPT ![f + 1].key = TRUE]
        BY <1>3, <3>1 DEF Register, IndexWith
      <4>2. QED
        BY <1>1, <3>1, <4>1, KeyIsMarked
    <3>2. CASE ~(f \in 0 .. Len(index) - 1 /\ packets[picture].key)
      BY <1>3, <3>2 DEF Register, IndexWith
    <3>3. QED
      BY <3>1, <3>2
  <2>2. QED
    BY <2>1, SameIsClean DEF Register
<1>4. QED
  BY <1>2, <1>3

LEMMA CountOnIsClean ==
  ASSUME IInv, CInv, AtPicture, CountOn(Label(picture)), pos' = picture, target' = Absent,
         UNCHANGED <<video, mode>>
  PROVE  UnbrokenIsClean' /\ PendingIsPlaced'
<1>1. contiguous' => Clean(video, mode, picture)
  BY CleanSoFar DEF CountOn, Counted
<1>2. QED
  BY <1>1 DEF UnbrokenIsClean, PendingIsPlaced, Clean

\* the end of the stream
LEMMA SettleIsClean ==
  ASSUME IInv, CInv, Settle, pos = Len(packets), UNCHANGED <<video, mode, offer>>
  PROVE  CompleteIsClean' /\ RejectedAfterIndex'
<1>1. UNCHANGED <<packets, index, snapshot>>
  BY DEF Settle, packets
<1>2. ASSUME IndexEnds PROVE Clean(video, mode, Len(packets))
  <2>1. CASE target = Absent
    BY <1>2, <2>1 DEF IndexEnds, CInv, UnbrokenIsClean
  <2>2. CASE target # Absent
    BY <1>2, <2>2, PendingIsClean DEF IndexEnds
  <2>3. QED
    BY <2>1, <2>2
<1>3. CompleteIsClean'
  BY <1>1, <1>2 DEF Settle, CInv, CompleteIsClean, Clean
<1>4. RejectedAfterIndex'
  BY <1>1 DEF CInv, RejectedAfterIndex
<1>5. QED
  BY <1>3, <1>4

LEMMA CleanReads ==
  ASSUME IInv, CInv, Drop \/ Reject \/ ReadError \/ PassTowardsTarget PROVE CInv'
<1>1. CompleteIsClean' /\ RejectedAfterIndex'
  BY SameIsClean DEF Drop, Reject, ReadError, PassTowardsTarget, known
<1>2. UNCHANGED packets /\ Len(packets) \in Nat /\ pos \in 0 .. Len(packets)
  BY SamePackets DEF IInv, TypeOK, Drop, Reject, ReadError, PassTowardsTarget
<1>3. UnbrokenIsClean' /\ PendingIsPlaced'
  <2>1. CASE Drop
    <3>1. pos' = pos + 1 /\ video.packets[pos + 1].fate[mode] = "dropped"
      BY <2>1 DEF Drop, packets
    <3>2. UnbrokenIsClean'
      BY <1>2, <2>1, <3>1 DEF Drop, CInv, UnbrokenIsClean, Clean
    <3>3. PendingIsPlaced'
      BY <1>2, <2>1 DEF Drop, More, known, CInv, PendingIsPlaced
    <3>4. QED
      BY <3>2, <3>3
  <2>2. CASE Reject
    <3>1. packets[pos + 1].fate[mode] = "rejected" /\ pos < Len(packets) /\ UNCHANGED <<target, index>>
      BY <2>2 DEF Reject, More
    <3>2. ~(target # Absent /\ contiguous)
      BY <1>2, <3>1, PendingIsClean DEF Clean, packets
    <3>3. PendingIsPlaced'
      BY <1>2, <3>1, <3>2 DEF CInv, PendingIsPlaced
    <3>4. QED
      BY <2>2, <3>3, BrokenIsClean DEF Reject
  <2>3. CASE ReadError
    BY <1>2, <2>3, BrokenIsClean DEF ReadError, PendingIsPlaced
  <2>4. CASE PassTowardsTarget
    BY <1>2, <2>4 DEF PassTowardsTarget, AtPicture, Before, known, CInv, UnbrokenIsClean, PendingIsPlaced
  <2>5. QED
    BY <2>1, <2>2, <2>3, <2>4
<1>4. QED
  BY <1>1, <1>3 DEF CInv

LEMMA CleanPictures ==
  ASSUME IInv, CInv, ScanPicture \/ ScanFails \/ DecodePicture \/ Lost PROVE CInv'
<1>1. CASE ScanPicture
  <2>1. target' = Absent
    BY <1>1 DEF IInv, ScanPicture, ScansAreUntargeted
  <2>2. QED
    BY <1>1, <2>1, RegisterIsClean, CountOnIsClean DEF ScanPicture, CInv
<1>2. CASE ScanFails
  <2>1. CompleteIsClean' /\ RejectedAfterIndex'
    BY <1>2, SameIsClean DEF ScanFails, known
  <2>2. UnbrokenIsClean' /\ PendingIsPlaced'
    <3>1. CASE AtStart
      BY <3>1, StartIsClean
    <3>2. CASE contiguous' = FALSE /\ target' = target
      BY <1>2, <3>2, BrokenIsClean DEF IInv, ScanFails, ScansAreUntargeted, PendingIsPlaced
    <3>3. QED
      BY <1>2, <3>1, <3>2 DEF ScanFails
  <2>3. QED
    BY <2>1, <2>2 DEF CInv
<1>3. CASE DecodePicture
  BY <1>3, RegisterIsClean, CountOnIsClean DEF DecodePicture, CInv
<1>4. CASE Lost
  <2>1. CompleteIsClean' /\ RejectedAfterIndex'
    BY <1>4, RegisterIsClean DEF Lost
  <2>2. UnbrokenIsClean' /\ PendingIsPlaced'
    <3>1. CASE AtStart
      BY <3>1, StartIsClean
    <3>2. CASE contiguous' = FALSE /\ target' = Absent
      BY <3>2, BrokenIsClean DEF PendingIsPlaced
    <3>3. CASE CountOn(Label(picture)) /\ pos' = picture /\ target' = Absent
      BY <1>4, <3>3, CountOnIsClean DEF Lost
    <3>4. QED
      BY <1>4, <3>1, <3>2, <3>3 DEF Lost
  <2>3. QED
    BY <2>1, <2>2 DEF CInv
<1>5. QED
  BY <1>1, <1>2, <1>3, <1>4

LEMMA CleanEnds ==
  ASSUME IInv, CInv, ScanEnds \/ DecodeEnds PROVE CInv'
<1>1. CompleteIsClean' /\ RejectedAfterIndex'
  BY SettleIsClean DEF ScanEnds, DecodeEnds
<1>2. index' = index
  BY DEF ScanEnds, DecodeEnds, Settle
<1>3. UnbrokenIsClean' /\ PendingIsPlaced'
  <2>1. CASE Seek(call.want)
    BY <1>2, <2>1, SeekIsClean DEF IInv
  <2>2. CASE AtStart
    BY <2>2, StartIsClean
  <2>3. CASE UNCHANGED <<pos, next, contiguous, target>>
    BY <1>2, <2>3, SamePlaceIsClean DEF ScanEnds, DecodeEnds
  <2>4. QED
    BY <2>1, <2>2, <2>3 DEF ScanEnds, DecodeEnds
<1>4. QED
  BY <1>1, <1>3 DEF CInv

LEMMA CleanBegin ==
  ASSUME IInv, CInv, TypeOK', NEW want, BeginIndex(want), UNCHANGED <<video, mode, offer>>
  PROVE  CInv'
<1>1. CASE UNCHANGED <<place, known, cache>>
  BY <1>1, SameIsClean, SamePlaceIsClean DEF place, known, CInv
<1>2. CASE Afresh
  BY <1>2, ForgetIsClean, StartIsClean DEF Afresh, CInv
<1>3. QED
  BY <1>1, <1>2 DEF BeginIndex

LEMMA CleanCalls ==
  ASSUME IInv, CInv, TypeOK', Cancel \/ Survey \/ Ensure \/ Publish \/ Adopt PROVE CInv'
<1>1. CASE Cancel
  <2>1. CompleteIsClean' /\ RejectedAfterIndex' /\ index' = index
    BY <1>1, SameIsClean DEF Cancel, known
  <2>2. UnbrokenIsClean' /\ PendingIsPlaced'
    <3>1. CASE AtStart
      BY <3>1, StartIsClean
    <3>2. CASE UNCHANGED place
      BY <1>1, <2>1, <3>2, SamePlaceIsClean DEF Cancel, place
    <3>3. QED
      BY <1>1, <3>1, <3>2 DEF Cancel, place
  <2>3. QED
    BY <2>1, <2>2 DEF CInv
<1>2. CASE Survey
  BY <1>2, ForgetIsClean, StartIsClean DEF Survey, Afresh, CInv
<1>3. CASE Ensure
  BY <1>3, CleanBegin DEF Ensure
<1>4. CASE Publish
  <2>1. \A t \in {snapshot', offer'} \ {Nothing} : Clean(t.file, t.mode, Len(t.file.packets))
    BY <1>4 DEF Publish, CInv, CompleteIsClean, packets
  <2>2. CompleteIsClean' /\ RejectedAfterIndex'
    BY <1>4, <2>1 DEF Publish, CInv, CompleteIsClean, RejectedAfterIndex, packets
  <2>3. UnbrokenIsClean' /\ PendingIsPlaced'
    BY <1>4, SamePlaceIsClean DEF Publish, place
  <2>4. QED
    BY <2>2, <2>3 DEF CInv
<1>5. CASE Adopt
  <2>1. Clean(video, mode, Len(packets)) /\ UNCHANGED <<video, mode, packets>>
    BY <1>5 DEF Adopt, CInv, CompleteIsClean, packets
  <2>2. \A t \in {snapshot', offer'} \ {Nothing} : Clean(t.file, t.mode, Len(t.file.packets))
    BY <1>5 DEF Adopt, CInv, CompleteIsClean
  <2>3. CompleteIsClean'
    BY <2>1, <2>2 DEF CompleteIsClean
  <2>4. RejectedAfterIndex'
    BY <2>1 DEF RejectedAfterIndex, Clean, packets
  <2>5. QED
    BY <1>5, <2>3, <2>4, StartIsClean DEF Adopt, CInv
<1>6. QED
  BY <1>1, <1>2, <1>3, <1>4, <1>5

LEMMA StepCInv == IInv /\ IInv' /\ CInv /\ [Next]_vars => CInv'
<1>1. SUFFICES ASSUME IInv, IInv', CInv, [Next]_vars PROVE CInv'
  OBVIOUS
<1>2. TypeOK'
  BY <1>1 DEF IInv
<1>3. CASE UNCHANGED vars
  BY <1>1, <1>3, SameIsClean, SamePlaceIsClean DEF vars, place, known, CInv
<1>4. CASE Progress
  BY <1>1, <1>4, CleanReads, CleanPictures, CleanEnds DEF Progress
<1>5. CASE Cancel \/ Survey \/ Ensure \/ Publish \/ Adopt
  BY <1>1, <1>2, <1>5, CleanCalls
<1>6. ASSUME NEW f \in Wanted, NEW preserve \in BOOLEAN, Request(f, preserve) PROVE CInv'
  <2>1. UNCHANGED <<video, mode, offer>>
    BY <1>6 DEF Request
  <2>2. CASE UNCHANGED <<place, known, cache>>
    BY <1>1, <2>1, <2>2, SameIsClean, SamePlaceIsClean DEF place, known, CInv
  <2>3. CASE BeginIndex(f)
    BY <1>1, <1>2, <2>1, <2>3, CleanBegin
  <2>4. CASE Seek(f) /\ UNCHANGED <<known, cache>>
    BY <1>1, <2>1, <2>4, SameIsClean, SeekIsClean DEF IInv, known, CInv
  <2>5. QED
    BY <1>6, <2>2, <2>3, <2>4 DEF Request
<1>7. ASSUME NEW v \in Video, Open(v) PROVE CInv'
  BY <1>1, <1>2, <1>7, ForgetIsClean, StartIsClean DEF Open, CInv
<1>8. ASSUME NEW m \in Mode, SetErrorMode(m) PROVE CInv'
  <2>1. CompleteIsClean' /\ RejectedAfterIndex' /\ UnbrokenIsClean'
    BY <1>1, <1>2, <1>8, ForgetIsClean, BrokenIsClean DEF SetErrorMode
  <2>2. PendingIsPlaced'
    BY <1>8 DEF SetErrorMode, Forget, PendingIsPlaced
  <2>3. QED
    BY <2>1, <2>2 DEF CInv
<1>9. QED
  BY <1>1, <1>3, <1>4, <1>5, <1>6, <1>7, <1>8 DEF Next

-----------------------------------------------------------------------------
(* The pictures. *)

(* A place in the index whose entry has no time stamp is the place of the next picture:
   such a picture is recognized by nothing but the count. *)
BlankIsNext ==
  pos < Len(packets) /\ next < Len(index) /\ index[next + 1].stamp = Absent =>
    next = Frames(video, mode, pos)

\* the entry of a picture has its stamp
LEMMA EntryOfPicture ==
  ASSUME IInv, AtPicture, Frames(video, mode, pos) < Len(index)
  PROVE  index[Frames(video, mode, pos) + 1].stamp = packets[picture].stamp
<1>1. /\ picture \in Nat \ {0} /\ pos = picture - 1 /\ video \in Video /\ mode \in Mode
      /\ video.packets[picture].fate[mode] = "shown" /\ Len(packets) \in Nat /\ Len(index) \in Nat
      /\ pos \in Int
  BY PictureType, PacketType DEF IInv, AtPicture, Shown, picture, TypeOK, packets
<1>2. Frames(video, mode, pos) \in 0 .. Len(index) - 1
  BY <1>1, FramesType
<1>3. PICK n \in 1 .. Len(packets) :
        /\ video.packets[n].fate[mode] = "shown"
        /\ Frames(video, mode, n - 1) = Frames(video, mode, pos)
        /\ index[Frames(video, mode, pos) + 1].stamp = video.packets[n].stamp
  BY <1>2 DEF IInv, IndexIsTrue, TrueOf, packets
<1>4. n \in Nat \ {0}
  BY <1>1
<1>5. n = picture
  BY <1>1, <1>3, <1>4, FramesDiffer
<1>6. QED
  BY <1>3, <1>5 DEF packets

\* where no time stamp repeats a picture's label is its number, whatever the demuxer did
LEMMA LabelIsNumber ==
  ASSUME IInv, NoRepeats(video), BlankIsNext, AtPicture, Label(picture) # Unrecognized
  PROVE  Frames(video, mode, pos) = Label(picture)
<1>1. /\ picture \in 1 .. Len(packets) /\ pos = picture - 1 /\ video \in Video
      /\ Len(packets) \in Nat
  BY PictureType, PacketType DEF IInv, AtPicture, picture, TypeOK
<1>2. CASE Label(picture) = next /\ contiguous
  BY <1>2, CountedIsTrue
<1>3. CASE /\ Label(picture) \in 0 .. Len(index) - 1
           /\ index[Label(picture) + 1].stamp = packets[picture].stamp
           /\ packets[picture].stamp # Absent
  <2>1. PICK n \in 1 .. Len(packets) :
          /\ Frames(video, mode, n - 1) = Label(picture)
          /\ index[Label(picture) + 1].stamp = packets[n].stamp
    BY <1>3 DEF IInv, IndexIsTrue, TrueOf, packets
  <2>2. n = picture
    BY <1>1, <1>3, <2>1 DEF NoRepeats, packets
  <2>3. QED
    BY <1>1, <2>1, <2>2
<1>4. CASE packets[picture].stamp = Absent /\ ~(Label(picture) = next /\ contiguous)
  <2>1. next < Len(index) /\ index[next + 1].stamp = Absent /\ Label(picture) = next
    BY <1>4, LabelCases DEF Label, IInv
  <2>2. QED
    BY <2>1 DEF BlankIsNext, AtPicture
<1>5. QED
  BY <1>2, <1>3, <1>4, LabelCases DEF IInv

\* a picture that is not recognized has no blank entry
LEMMA LostIsNotBlank ==
  ASSUME IInv, BlankIsNext, AtPicture, Label(picture) = Unrecognized, next < Len(index)
  PROVE  index[next + 1].stamp # Absent
<1>1. SUFFICES ASSUME index[next + 1].stamp = Absent PROVE FALSE
  OBVIOUS
<1>2. next = Frames(video, mode, pos)
  BY <1>1 DEF BlankIsNext, AtPicture
<1>3. index[next + 1].stamp = packets[picture].stamp
  BY <1>2, EntryOfPicture
<1>4. Label(picture) = next /\ next \in Nat
  BY <1>3 DEF Label, IInv, TypeOK
<1>5. QED
  BY <1>4 DEF Unrecognized

LEMMA SamePlaceIsNext ==
  ASSUME BlankIsNext, UNCHANGED <<video, mode, pos, next>>, index' = index PROVE BlankIsNext'
  BY DEF BlankIsNext, packets

LEMMA StartIsNext == ASSUME AtStart PROVE BlankIsNext'
<1>1. Frames(video', mode', 0) = 0
  BY FramesStart
<1>2. QED
  BY <1>1 DEF AtStart, BlankIsNext

LEMMA EmptyIsNext == ASSUME TypeOK', index' = <<>> PROVE BlankIsNext'
<1>1. Len(index') = 0 /\ next' \in Nat
  BY DEF TypeOK
<1>2. QED
  BY <1>1 DEF BlankIsNext

LEMMA SeekIsNext == ASSUME NEW f, Seek(f), index' = index PROVE BlankIsNext'
<1>1. CASE AtStart
  BY <1>1, StartIsNext
<1>2. ASSUME NEW a \in Anchors(f), next' = a PROVE BlankIsNext'
  BY <1>2 DEF Anchors, BlankIsNext
<1>3. QED
  BY <1>1, <1>2 DEF Seek

LEMMA CountOnIsNext ==
  ASSUME IInv, NoRepeats(video), BlankIsNext, AtPicture, Label(picture) # Unrecognized,
         CountOn(Label(picture)), pos' = picture, UNCHANGED <<video, mode>>
  PROVE  BlankIsNext'
<1>1. /\ picture \in Nat \ {0} /\ pos = picture - 1 /\ video \in Video /\ mode \in Mode
      /\ video.packets[picture].fate[mode] = "shown"
  BY PictureType, PacketType DEF IInv, AtPicture, Shown, picture, TypeOK, packets
<1>2. Frames(video, mode, picture) = Label(picture) + 1
  BY <1>1, LabelIsNumber, FramesStep
<1>3. QED
  BY <1>2 DEF CountOn, BlankIsNext

\* a picture that is not recognized is not registered either
LEMMA LostIsNext ==
  ASSUME IInv, BlankIsNext, AtPicture, Label(picture) = Unrecognized, next' = next,
         index' \in {index, IndexWith(picture, Unrecognized)}, UNCHANGED <<video, mode>>
  PROVE  BlankIsNext'
<1>1. next \in Nat /\ Len(index) \in Nat
  BY DEF IInv, TypeOK
<1>2. index' = index
  BY <1>1 DEF IndexWith, Counted, Unrecognized
<1>3. QED
  BY <1>2, LostIsNotBlank DEF BlankIsNext

LEMMA NextReads ==
  ASSUME IInv, CInv, BlankIsNext, Drop \/ Reject \/ ReadError \/ PassTowardsTarget
  PROVE  BlankIsNext'
<1>1. /\ UNCHANGED packets /\ Len(packets) \in Nat /\ pos \in Nat /\ Len(index) \in Nat
      /\ next \in Nat /\ video \in Video /\ mode \in Mode
  BY SamePackets DEF IInv, TypeOK, Drop, Reject, ReadError, PassTowardsTarget
<1>2. CASE Drop
  <2>1. pos + 1 \in Nat \ {0} /\ video.packets[pos + 1].fate[mode] # "shown"
    BY <1>1, <1>2 DEF Drop, packets
  <2>2. Frames(video, mode, pos + 1) = Frames(video, mode, pos)
    BY <1>1, <2>1, FramesStep
  <2>3. QED
    BY <1>1, <1>2, <2>2 DEF Drop, More, known, BlankIsNext
<1>3. CASE Reject
  <2>1. /\ pos + 1 \in 1 .. Len(packets) /\ packets[pos + 1].fate[mode] = "rejected"
        /\ pos < Len(packets) /\ UNCHANGED <<next, index, mode, video>>
    BY <1>1, <1>3 DEF Reject, More
  <2>2. PICK n \in 1 .. Len(packets) : n = pos + 1 /\ packets[n].fate[mode] = "rejected"
    BY <2>1
  <2>3. Frames(video, mode, pos) >= Len(index) /\ Frames(video, mode, pos) \in Nat
    <3>1. Frames(video, mode, n - 1) >= Len(index)
      BY <2>2 DEF CInv, RejectedAfterIndex
    <3>2. n - 1 = pos /\ pos \in Int
      BY <1>1, <2>2
    <3>3. QED
      BY <1>1, <3>1, <3>2, FramesType
  <2>4. ~(next < Len(index) /\ index[next + 1].stamp = Absent)
    BY <1>1, <2>1, <2>3 DEF BlankIsNext
  <2>5. QED
    BY <2>1, <2>4 DEF BlankIsNext
<1>4. CASE ReadError
  BY <1>1, <1>4 DEF ReadError, BlankIsNext
<1>5. CASE PassTowardsTarget
  <2>1. target # Absent /\ pos < Len(packets) /\ UNCHANGED <<next, index>>
    BY <1>5 DEF PassTowardsTarget, Before, AtPicture, known
  <2>2. CASE contiguous
    BY <1>1, <2>1, <2>2 DEF IInv, AnchorIsUnique, BlankIsNext
  <2>3. CASE index = <<>>
    <3>1. Len(index) = 0
      BY <2>3
    <3>2. QED
      BY <1>1, <2>1, <3>1 DEF BlankIsNext
  <2>4. QED
    BY <1>1, <2>1, <2>2, <2>3 DEF CInv, PendingIsPlaced
<1>6. QED
  BY <1>2, <1>3, <1>4, <1>5

LEMMA NextPictures ==
  ASSUME IInv, NoRepeats(video), BlankIsNext, ScanPicture \/ ScanFails \/ DecodePicture \/ Lost
  PROVE  BlankIsNext'
<1>1. CASE ScanPicture
  BY <1>1, CountOnIsNext DEF ScanPicture
<1>2. CASE ScanFails
  <2>1. CASE AtStart
    BY <2>1, StartIsNext
  <2>2. CASE next' = next
    BY <1>2, <2>2, LostIsNext DEF ScanFails, known
  <2>3. QED
    BY <1>2, <2>1, <2>2 DEF ScanFails
<1>3. CASE DecodePicture
  <2>1. Label(picture) # Unrecognized
    BY <1>3 DEF DecodePicture, Unrecognized
  <2>2. QED
    BY <1>3, <2>1, CountOnIsNext DEF DecodePicture
<1>4. CASE Lost
  <2>1. CASE AtStart
    BY <2>1, StartIsNext
  <2>2. CASE Label(picture) = Unrecognized /\ next' = next
    BY <1>4, <2>2, LostIsNext DEF Lost, Register
  <2>3. CASE Label(picture) # Unrecognized /\ CountOn(Label(picture)) /\ pos' = picture
    BY <1>4, <2>3, CountOnIsNext DEF Lost
  <2>4. QED
    BY <1>4, <2>1, <2>2, <2>3 DEF Lost
<1>5. QED
  BY <1>1, <1>2, <1>3, <1>4

LEMMA NextBegin ==
  ASSUME BlankIsNext, NEW want, BeginIndex(want), UNCHANGED <<video, mode>> PROVE BlankIsNext'
<1>1. CASE UNCHANGED <<place, known, cache>>
  BY <1>1, SamePlaceIsNext DEF place, known
<1>2. CASE Afresh
  BY <1>2, StartIsNext DEF Afresh
<1>3. QED
  BY <1>1, <1>2 DEF BeginIndex

\* the calls that leave the file open
LEMMA StepNext ==
  ASSUME IInv, IInv', CInv, NoRepeats(video), BlankIsNext, [Next]_vars PROVE BlankIsNext'
<1>1. CASE UNCHANGED vars
  BY <1>1, SamePlaceIsNext DEF vars, place, known
<1>2. CASE Progress
  <2>1. CASE ScanEnds \/ DecodeEnds
    <3>1. index' = index /\ UNCHANGED <<video, mode>>
      BY <2>1 DEF ScanEnds, DecodeEnds, Settle
    <3>2. QED
      BY <2>1, <3>1, SeekIsNext, StartIsNext, SamePlaceIsNext DEF ScanEnds, DecodeEnds
  <2>2. QED
    BY <1>2, <2>1, NextReads, NextPictures DEF Progress
<1>3. CASE Cancel \/ Survey \/ Publish \/ Adopt
  BY <1>3, SamePlaceIsNext, StartIsNext DEF Cancel, Survey, Afresh, Publish, Adopt, place, known
<1>4. CASE Ensure
  BY <1>4, NextBegin DEF Ensure
<1>5. ASSUME NEW f \in Wanted, NEW preserve \in BOOLEAN, Request(f, preserve) PROVE BlankIsNext'
  BY <1>5, NextBegin, SeekIsNext, SamePlaceIsNext DEF Request, place, known
<1>6. ASSUME NEW v \in Video, Open(v) PROVE BlankIsNext'
  BY <1>6, StartIsNext DEF Open
<1>7. ASSUME NEW m \in Mode, SetErrorMode(m) PROVE BlankIsNext'
  BY <1>7, EmptyIsNext DEF SetErrorMode, Forget, IInv
<1>8. QED
  BY <1>1, <1>2, <1>3, <1>4, <1>5, <1>6, <1>7 DEF Next

LEMMA PicturesStay ==
  ASSUME PictureIsFrame, UNCHANGED <<video, mode>>, cache' \subseteq cache PROVE PictureIsFrame'
  BY DEF PictureIsFrame, Shown, packets

LEMMA NoPictures == ASSUME cache' = {} PROVE PictureIsFrame'
  BY DEF PictureIsFrame

LEMMA DecodedPicture ==
  ASSUME IInv, NoRepeats(video), BlankIsNext, PictureIsFrame, DecodePicture PROVE PictureIsFrame'
<1>1. UNCHANGED <<video, mode>> /\ AtPicture /\ Label(picture) \in 0 .. call.want
  BY DEF DecodePicture
<1>2. CASE UNCHANGED cache
  BY <1>1, <1>2, PicturesStay
<1>3. ASSUME Label(picture) >= call.want, NEW kept \in SUBSET cache,
             cache' = kept \cup {<<call.want, picture>>}
      PROVE  PictureIsFrame'
  <2>1. call.want \in Nat /\ pos \in Nat /\ picture - 1 = pos
    BY <1>1, PacketType DEF IInv, TypeOK, NoFrame, picture
  <2>2. Label(picture) = call.want /\ Label(picture) # Unrecognized
    BY <1>1, <1>3, <2>1 DEF Unrecognized
  <2>3. Frames(video, mode, picture - 1) = call.want
    BY <1>1, <2>1, <2>2, LabelIsNumber
  <2>4. Shown(picture)
    BY <1>1 DEF AtPicture
  <2>5. ASSUME NEW c \in cache' PROVE Shown(c[2])' /\ Frames(video, mode, c[2] - 1)' = c[1]
    <3>1. Shown(c[2]) /\ Frames(video, mode, c[2] - 1) = c[1]
      BY <1>3, <2>3, <2>4 DEF PictureIsFrame
    <3>2. QED
      BY <1>1, <3>1 DEF Shown, packets
  <2>6. QED
    BY <2>5 DEF PictureIsFrame
<1>4. Label(picture) < call.want \/ Label(picture) >= call.want
  BY <1>1 DEF IInv, TypeOK, NoFrame
<1>5. QED
  BY <1>2, <1>3, <1>4 DEF DecodePicture

LEMMA StepPicture ==
  ASSUME IInv, NoRepeats(video), BlankIsNext, PictureIsFrame, [Next]_vars PROVE PictureIsFrame'
<1>1. CASE UNCHANGED vars
  BY <1>1, PicturesStay DEF vars
<1>2. CASE Progress
  <2>1. CASE DecodePicture
    BY <2>1, DecodedPicture
  <2>2. CASE ~DecodePicture
    BY <1>2, <2>2, PicturesStay, NoPictures
       DEF Progress, Drop, Reject, ReadError, ScanPicture, ScanFails, ScanEnds,
           PassTowardsTarget, Lost, DecodeEnds
  <2>3. QED
    BY <2>1, <2>2
<1>3. CASE Cancel \/ Survey \/ Publish \/ Adopt
  BY <1>3, PicturesStay, NoPictures DEF Cancel, Survey, Afresh, Publish, Adopt
<1>4. CASE Ensure
  BY <1>4, PicturesStay, NoPictures DEF Ensure, BeginIndex, Afresh
<1>5. ASSUME NEW f \in Wanted, NEW preserve \in BOOLEAN, Request(f, preserve) PROVE PictureIsFrame'
  BY <1>5, PicturesStay, NoPictures DEF Request, BeginIndex, Afresh
<1>6. ASSUME NEW v \in Video, Open(v) PROVE PictureIsFrame'
  BY <1>6, NoPictures DEF Open
<1>7. ASSUME NEW m \in Mode, SetErrorMode(m) PROVE PictureIsFrame'
  BY <1>7, NoPictures DEF SetErrorMode
<1>8. QED
  BY <1>1, <1>2, <1>3, <1>4, <1>5, <1>6, <1>7 DEF Next

\* the file changes only by opening one
LEMMA FileStays ==
  ASSUME [Next]_vars, ~\E v \in Video : Open(v) PROVE UNCHANGED video
BY DEF Next, vars, Progress, Drop, Reject, ReadError, ScanPicture, ScanFails, ScanEnds,
   PassTowardsTarget, DecodePicture, Lost, DecodeEnds, Cancel, Ensure, Survey, Request,
   SetErrorMode, Publish, Adopt

PInv == NoRepeats(video) => PictureIsFrame /\ BlankIsNext

LEMMA StepPInv == IInv /\ IInv' /\ CInv /\ PInv /\ [Next]_vars => PInv'
<1>1. SUFFICES ASSUME IInv, IInv', CInv, PInv, [Next]_vars PROVE PInv'
  OBVIOUS
<1>2. ASSUME NEW v \in Video, Open(v) PROVE PictureIsFrame' /\ BlankIsNext'
  BY <1>2, NoPictures, StartIsNext DEF Open
<1>3. ASSUME UNCHANGED video, NoRepeats(video) PROVE PictureIsFrame' /\ BlankIsNext'
  BY <1>1, <1>3, StepPicture, StepNext DEF PInv
<1>4. UNCHANGED video => (NoRepeats(video') => NoRepeats(video))
  BY DEF NoRepeats
<1>5. QED
  BY <1>1, <1>2, <1>3, <1>4, FileStays DEF PInv

(* Where no time stamp repeats (some may be missing, as none repeats in a stream without
   any), getFrameImage() never returns another picture than the one asked for, even from
   a demuxer that lands anywhere. *)
THEOREM PicturesAreTheirFrames == Spec => []PictureIsFrameByStamp
<1>1. Init => PInv
  <2>1. SUFFICES ASSUME Init PROVE PictureIsFrame /\ BlankIsNext
    BY DEF PInv
  <2>2. index = <<>> /\ next = 0 /\ cache = {}
    BY <2>1 DEF Init
  <2>3. Len(index) = 0
    BY <2>2
  <2>4. QED
    BY <2>2, <2>3 DEF PictureIsFrame, BlankIsNext
<1>2. PInv => PictureIsFrameByStamp
  BY DEF PInv, PictureIsFrameByStamp
<1>3. QED
  BY <1>1, <1>2, InitIInv, StepIInv, InitCInv, StepCInv, StepPInv, PTL DEF Spec
=============================================================================
