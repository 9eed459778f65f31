------------------------------ MODULE EditList ------------------------------
(***************************************************************************)
(* What VDQtTimeline promises: a list of frames, edited like any list, with *)
(* a bounded history of undo and redo.  A list that was never edited is     *)
(* "the source, whatever its length turns out to be", and stays different   *)
(* from a list that merely holds all of the source's frames.                *)
(***************************************************************************)
EXTENDS Integers, Sequences, SequencesExt, FiniteSetsExt

CONSTANTS
  MaxHistory,   \* VDQtTimeline::kMaximumHistoryEntries
  Pastes        \* the lists of items that can be pasted

VARIABLES
  length,    \* the length of the source as known by now
  content,   \* the list: the whole source, or frames of it in some order
  past,      \* what undo returns to
  future     \* what redo returns to

vars == <<length, content, past, future>>

(* An item is a source frame, whose picture a mask may hide. *)
Whole    == [whole |-> TRUE, items |-> <<>>]
List(s)  == [whole |-> FALSE, items |-> s]
Items(c) == IF c.whole THEN [k \in 1 .. length |-> [source |-> k - 1, masked |-> FALSE]]
            ELSE c.items

(* The picture at place f, counted from 0.  A mask shows the last picture before
   it, and a mask at the very beginning the first frame of its own run. *)
Picture(s, f) ==
  LET visible == {k \in 1 .. f + 1 : ~s[k].masked}
      runs    == {k \in 1 .. f + 1 : \A m \in k + 1 .. f + 1 : s[m].source = s[m - 1].source + 1}
  IN s[IF visible = {} THEN Min(runs) ELSE Max(visible)].source

Init == length \in Nat /\ content = Whole /\ past = <<>> /\ future = <<>>

(* Any edit: what was there can be undone, the oldest entry may have to go. *)
Change(c) ==
  /\ c # content
  /\ content' = c
  /\ LET longer == Append(past, content)
     IN past' = IF Len(longer) > MaxHistory THEN Tail(longer) ELSE longer
  /\ future' = <<>>

Edit(c) == Change(c) /\ UNCHANGED length

(* Frames b .. e-1 give way to those of another list, perhaps to none. *)
Splice(b, e, s) ==
  /\ 0 <= b /\ b <= e /\ e <= Len(Items(content))
  /\ Edit(List(SubSeq(Items(content), 1, b) \o s \o SubSeq(Items(content), e + 1, Len(Items(content)))))

Crop(b, e) ==
  /\ 0 <= b /\ b < e /\ e <= Len(Items(content))
  /\ Edit(List(SubSeq(Items(content), b + 1, e)))

Undo ==
  /\ past # <<>>
  /\ content' = Last(past)
  /\ past' = Front(past)
  /\ future' = Append(future, content)
  /\ UNCHANGED length

Redo ==
  /\ future # <<>>
  /\ content' = Last(future)
  /\ future' = Front(future)
  /\ past' = Append(past, content)
  /\ UNCHANGED length

(* The length of the source was refined; the user's work is not touched. *)
Refine == length' \in Nat /\ UNCHANGED <<content, past, future>>

(* The source grew by some frames.  They follow at the end of an edited list. *)
Extend ==
  /\ ~content.whole /\ length' \in Nat /\ length < length'
  /\ Change(List(content.items \o
                  [k \in 1 .. length' - length |-> [source |-> length + k - 1, masked |-> FALSE]]))

(* A new source, or a list that a project brings along. *)
Install ==
  /\ length' \in Nat
  /\ content'.whole \/ length' = length
  /\ past' = <<>> /\ future' = <<>>

Places == 0 .. Len(Items(content))

Next ==
  \/ \E b, e \in Places : Crop(b, e) \/ \E s \in Pastes \cup {<<>>} : Splice(b, e, s)
  \/ Edit(Whole) \/ Undo \/ Redo \/ Refine \/ Extend \/ Install

Spec == Init /\ [][Next]_vars
=============================================================================
