------------------------------ MODULE Timeline ------------------------------
(***************************************************************************)
(* VDQtTimeline, the edit list: segments of the source in the order in      *)
(* which they are shown, always merged where they touch, with a bounded     *)
(* undo history of complete segment lists.  An unedited timeline knows that *)
(* it is one ("identity") and follows the source's length as that becomes   *)
(* known; an edited one is never changed by metadata.  The editor makes the *)
(* length exact before any edit (ensureExactFrameRange).                    *)
(***************************************************************************)
EXTENDS Integers, Sequences, SequencesExt, FiniteSetsExt

CONSTANTS
  Length,       \* the verified length of a source
  Extended,     \* its verified length once a further file is appended
  Estimates,    \* what metadata and decoding say before it is verified
  Clips,        \* segment lists that are pasted
  Loads,        \* segment lists that projects, jobs and scripts bring along
  MaxHistory,   \* kMaximumHistoryEntries
  FrameLimit    \* the most frames a timeline may have (INT_MAX)

Segment == [start : Nat, count : Nat \ {0}, masked : BOOLEAN]

ASSUME TimelineAssumption ==
  /\ {Length, Extended, MaxHistory, FrameLimit} \subseteq Nat \ {0}
  /\ Length < Extended
  /\ Estimates \subseteq Nat
  /\ Clips \subseteq Seq(Segment)
  /\ Loads \subseteq Seq([start : Nat, count : Nat, masked : BOOLEAN])

VARIABLES
  segments,   \* mSegments
  identity,   \* mIdentity
  count,      \* mSourceFrameCount
  exact,      \* mSourceFrameCountExact
  undo,       \* mUndoStack
  redo        \* mRedoStack

source == <<count, exact>>
vars   == <<segments, identity, count, exact, undo, redo>>

-----------------------------------------------------------------------------
(* Segment lists. *)
(* Where the segments of a list end, one after the other. *)
Ends(s) ==
  LET end[n \in 0 .. Len(s)] == IF n = 0 THEN 0 ELSE end[n - 1] + s[n].count
  IN end

Total(s)       == Ends(s)[Len(s)]
Offset(s, i)   == Ends(s)[i - 1]
WholeSource(n) == IF n > 0 THEN <<[start |-> 0, count |-> n, masked |-> FALSE]>> ELSE <<>>

(* Mutant of Touching: masks are merged with what they follow. *)
TouchingOverMasks(g, h) == g.start + g.count = h.start

Touching(g, h) == g.start + g.count = h.start /\ g.masked = h.masked

(* normalized(): drop what is empty, merge what continues the segment before. *)
Joined(list, g) ==
  IF g.count = 0 THEN list
  ELSE IF list # <<>> /\ Touching(Last(list), g)
       THEN [list EXCEPT ![Len(list)].count = @ + g.count]
       ELSE Append(list, g)

Merged(s) ==
  LET result[n \in 0 .. Len(s)] == IF n = 0 THEN <<>> ELSE Joined(result[n - 1], s[n])
  IN result

Normalized(s) == Merged(s)[Len(s)]

(* slice(): the parts of the segments that lie in places b .. e-1, an empty part
   for a segment that has none there. *)
Part(s, b, e, i) ==
  LET from == Max({b - Offset(s, i), 0})
      to   == Min({e - Offset(s, i), s[i].count})
  IN [s[i] EXCEPT !.start = @ + from, !.count = Max({to - from, 0})]

Slice(s, b, e) == Normalized([i \in DOMAIN s |-> Part(s, b, e, i)])

(* validateSegments() *)
Valid(s) ==
  /\ exact => \A i \in DOMAIN s : s[i].start + s[i].count <= count
  /\ Total(s) <= FrameLimit

(* The segment that place f lies in, if any. *)
At(f) == {i \in DOMAIN segments :
            Offset(segments, i) <= f /\ f < Offset(segments, i) + segments[i].count}

(* mapOutputToSource(): the frame whose picture is shown at place f.  A mask
   holds the last frame of the unmasked segment before it. *)
MapOutputToSource(f) ==
  IF identity THEN IF ~exact \/ f < count THEN f ELSE -1
  ELSE IF At(f) = {} THEN -1
  ELSE LET i       == Max(At(f))
           visible == {k \in 1 .. i : ~segments[k].masked}
       IN IF ~segments[i].masked THEN segments[i].start + f - Offset(segments, i)
          ELSE IF visible = {} THEN segments[i].start
          ELSE segments[Max(visible)].start + segments[Max(visible)].count - 1

(* mapOutputToAudioSource(): masks do not hold sound. *)
MapOutputToAudioSource(f) ==
  IF identity THEN IF ~exact \/ f < count THEN f ELSE -1
  ELSE IF At(f) = {} THEN -1
  ELSE segments[Max(At(f))].start + f - Offset(segments, Max(At(f)))

(* mapSourceToOutput(): the places of a source frame, and which of them the
   loop settles for. *)
Candidates(f) ==
  {Offset(segments, i) + f - segments[i].start :
     i \in {k \in DOMAIN segments :
              segments[k].start <= f /\ f < segments[k].start + segments[k].count}}

MapSourceToOutput(f, hint, forward) ==
  LET fitting == {p \in Candidates(f) : IF forward THEN p >= hint ELSE p <= hint}
  IN IF identity
     THEN IF (exact /\ f >= count) \/ (IF forward THEN f < hint ELSE f > hint) THEN -1 ELSE f
     ELSE IF fitting = {} THEN -1
     ELSE IF forward THEN Min(fitting) ELSE Max(fitting)

-----------------------------------------------------------------------------
Init ==
  /\ segments = <<>> /\ identity = TRUE
  /\ count = 0 /\ exact = TRUE
  /\ undo = <<>> /\ redo = <<>>

State == [segments |-> segments, identity |-> identity]

(* reset(): another source was opened, or closed. *)
Reset(n, isExact) ==
  /\ count' = n /\ exact' = isExact
  /\ identity' = TRUE /\ segments' = WholeSource(n)
  /\ undo' = <<>> /\ redo' = <<>>

OpenSource ==
  \/ Reset(Length, TRUE)
  \/ \E n \in Estimates : Reset(n, FALSE)
  \/ Reset(0, TRUE)

(* Mutant of SetSourceFrameCount: an edited list that shows all that was known
   of the source grows with it. *)
SetSourceFrameCountGuessing(n, isExact) ==
  /\ n # count \/ isExact # exact
  /\ count' = n /\ exact' = isExact
  /\ segments' = IF identity \/ segments = WholeSource(count) \/ segments = <<>>
                 THEN WholeSource(n) ELSE segments
  /\ UNCHANGED <<identity, undo, redo>>

(* setSourceFrameCount(): an untouched timeline follows the source. *)
SetSourceFrameCount(n, isExact) ==
  /\ n # count \/ isExact # exact
  /\ count' = n /\ exact' = isExact
  /\ segments' = IF identity THEN WholeSource(n) ELSE segments
  /\ UNCHANGED <<identity, undo, redo>>

(* Decoding finds more frames, and in the end the last. *)
RefineLength ==
  /\ ~exact
  /\ \/ SetSourceFrameCount(Length, TRUE)
     \/ \E n \in Estimates : n > count /\ SetSourceFrameCount(n, FALSE)

(* replaceSegments(), with the history cleared: a list that comes with a
   project, a job or a script.  Only an empty one may meet an unverified length. *)
ReplaceSegments(s) ==
  /\ exact \/ s = <<>>
  /\ Valid(Normalized(s))
  /\ segments' = Normalized(s) /\ identity' = FALSE
  /\ undo' = <<>> /\ redo' = <<>>
  /\ UNCHANGED source

(* What was there can be undone; the oldest entry may have to go. *)
Remembered ==
  LET longer == Append(undo, State)
  IN undo' = IF Len(longer) > MaxHistory THEN Tail(longer) ELSE longer

(* applyEdit(): what every edit comes down to.  A list that is not valid is
   refused, and one that changes nothing leaves the history alone. *)
ApplyEdit(s, isIdentity) ==
  /\ Valid(Normalized(s))
  /\ Normalized(s) # segments \/ isIdentity # identity
  /\ Remembered
  /\ redo' = <<>>
  /\ segments' = Normalized(s) /\ identity' = isIdentity
  /\ UNCHANGED source

FrameCount == Total(segments)

DeleteRange(b, e) ==
  /\ exact /\ b < e /\ e <= FrameCount
  /\ ApplyEdit(Slice(segments, 0, b) \o Slice(segments, e, FrameCount), FALSE)

CropToRange(b, e) ==
  /\ exact /\ b < e /\ e <= FrameCount
  /\ ApplyEdit(Slice(segments, b, e), FALSE)

(* insert() at b = e, which wants something to insert, and replaceRange() *)
ReplaceRange(b, e, s) ==
  /\ exact /\ b <= e /\ e <= FrameCount
  /\ b = e => Normalized(s) # <<>>
  /\ Valid(Normalized(s))
  /\ ApplyEdit(Slice(segments, 0, b) \o Normalized(s) \o Slice(segments, e, FrameCount), FALSE)

(* insert() at the end of a list that knows its source was extended: appending
   a file.  An untouched timeline follows its source, an edited one is edited. *)
AppendSource ==
  /\ exact /\ 0 < count /\ count < Extended
  /\ count' = Extended /\ UNCHANGED exact
  /\ LET longer == Normalized(Append(segments,
                    [start |-> count, count |-> Extended - count, masked |-> FALSE]))
     IN IF identity THEN segments' = WholeSource(Extended) /\ UNCHANGED <<identity, undo, redo>>
        ELSE /\ Total(longer) <= FrameLimit
             /\ segments' = longer /\ UNCHANGED identity
             /\ Remembered /\ redo' = <<>>

(* isModified(): a verified list of the whole source counts as untouched. *)
IsModified == ~identity /\ (~exact \/ segments # WholeSource(count))

ResetEdits == IsModified /\ ApplyEdit(WholeSource(count), TRUE)

(* restoreState(): an undone identity is the source as it is known now. *)
Restore(state) ==
  /\ identity' = state.identity
  /\ segments' = IF state.identity THEN WholeSource(count) ELSE state.segments

Undo ==
  /\ undo # <<>>
  /\ Restore(Last(undo))
  /\ undo' = Front(undo)
  /\ redo' = Append(redo, State)
  /\ UNCHANGED source

Redo ==
  /\ redo # <<>>
  /\ Restore(Last(redo))
  /\ redo' = Front(redo)
  /\ undo' = Append(undo, State)
  /\ UNCHANGED source

Places == 0 .. FrameCount

Next ==
  \/ OpenSource \/ RefineLength \/ AppendSource
  \/ \E s \in Loads : ReplaceSegments(s)
  \/ \E b, e \in Places :
       \/ DeleteRange(b, e) \/ CropToRange(b, e)
       \/ \E s \in Clips : ReplaceRange(b, e, s)
  \/ ResetEdits \/ Undo \/ Redo

Spec == Init /\ [][Next]_vars

-----------------------------------------------------------------------------
(* The list of frames that the segments stand for. *)
Frames(g) == [k \in 1 .. g.count |-> [source |-> g.start + k - 1, masked |-> g.masked]]

Shown(s) ==
  LET items[n \in 0 .. Len(s)] == IF n = 0 THEN <<>> ELSE items[n - 1] \o Frames(s[n])
  IN items

Expand(s) == Shown(s)[Len(s)]

Content(state) ==
  IF state.identity THEN [whole |-> TRUE, items |-> <<>>]
  ELSE [whole |-> FALSE, items |-> Expand(state.segments)]

Edits == INSTANCE EditList
           WITH Pastes  <- {Expand(s) : s \in Clips},
                length  <- count,
                content <- Content(State),
                past    <- [i \in DOMAIN undo |-> Content(undo[i])],
                future  <- [i \in DOMAIN redo |-> Content(redo[i])]

(* Types, and the bound on the history: undo() and redo() push without trimming,
   and both stacks together still hold no more than the limit. *)
TypeOK ==
  /\ segments \in Seq(Segment)
  /\ {identity, exact} \subseteq BOOLEAN /\ count \in Nat
  /\ {undo, redo} \subseteq Seq([segments : Seq(Segment), identity : BOOLEAN])
  /\ Len(undo) + Len(redo) <= MaxHistory

(* The segment list is canonical and within its source, whatever was edited,
   undone and refined: nothing that could be merged, nothing past a verified
   end, no more than the editor's limit; and the same holds of every list the
   history can bring back. *)
Sound(state) ==
  /\ Normalized(state.segments) = state.segments
  /\ state.identity \/ Valid(state.segments)

ListsAreSound ==
  /\ TypeOK
  /\ Sound(State) /\ (identity => segments = WholeSource(count))
  /\ \A i \in DOMAIN undo : Sound(undo[i])
  /\ \A i \in DOMAIN redo : Sound(redo[i])

(* The mappings of the code agree with the list of frames: picture, sound and
   the way back, at every place of an edited timeline. *)
MappingsAgree ==
  LET items == Expand(segments)
  IN ~identity =>
       \A f \in 0 .. FrameLimit :
         IF f >= Len(items) THEN MapOutputToSource(f) = -1 /\ MapOutputToAudioSource(f) = -1
         ELSE /\ MapOutputToSource(f) = Edits!Picture(items, f)
              /\ MapOutputToAudioSource(f) = items[f + 1].source
              /\ MapSourceToOutput(items[f + 1].source, f, TRUE) = f
              /\ MapSourceToOutput(items[f + 1].source, f, FALSE) = f

(* The segment editor implements the plain list of frames with its history. *)
ImplementsEditList == Edits!Spec

=============================================================================
