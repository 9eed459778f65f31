---------------------------- MODULE TimelineProofs ----------------------------
(***************************************************************************)
(* What the timeline does, for any source, any lists that are pasted or     *)
(* loaded, any history and any limit.                                       *)
(*                                                                          *)
(* A segment list stands for the frames that it shows (Expand).  Merging    *)
(* keeps them (NormalizedFacts), slicing cuts them (SliceFacts), and two    *)
(* merged lists of the same frames are the same list (Unique), so that      *)
(* "the segments changed" and "the frames changed" are one thing.  IInv     *)
(* says that all lists, those of the history too, are merged and valid;     *)
(* from it follow that the lists stay sound, that the mappings of the code  *)
(* agree with the frames, and that every edit is an edit of the frames.     *)
(***************************************************************************)
EXTENDS Timeline, TLAPS, WellFoundedInduction, NaturalsInduction, FiniteSetTheorems,
        SequenceTheorems

(* A segment that may be empty, and a shown frame. *)
Piece == [start : Nat, count : Nat, masked : BOOLEAN]
Item  == [source : Nat, masked : BOOLEAN]

-----------------------------------------------------------------------------
(* Sums.  The induction principles of the library are about operators; this one is
   about sets, and follows from the least member of a set of numbers. *)

(* The numbers are well-founded. *)
LEMMA Less == IsWellFoundedOn({p \in Nat \X Nat : p[1] < p[2]}, Nat)
  BY NatLessThanWellFounded DEF OpToRel

(* A set of numbers has a least member. *)
LEMMA Least ==
  ASSUME NEW T \in SUBSET Nat, T # {}
  PROVE  \E x \in T : \A y \in T : x <= y
<1> DEFINE R == {p \in Nat \X Nat : p[1] < p[2]}
<1>1. IsWellFoundedOn(R, Nat)
  BY Less
<1> HIDE DEF R
<1>2. PICK x \in T : \A y \in T : ~(<<y, x>> \in R)
  BY <1>1, WFMin
<1>3. ASSUME NEW y \in T PROVE x <= y
  <2>1. ~(<<y, x>> \in R)
    BY <1>2
  <2>2. QED
    BY <2>1 DEF R
<1>4. QED
  BY <1>3

(* What holds of 0 and is handed on holds up to n. *)
LEMMA SetInduction ==
  ASSUME NEW n \in Nat, NEW S, 0 \in S, \A k \in 0 .. n - 1 : k \in S => k + 1 \in S
  PROVE  \A k \in 0 .. n : k \in S
<1>1. SUFFICES ASSUME NEW k \in 0 .. n, k \notin S PROVE FALSE
  OBVIOUS
<1> DEFINE T == {i \in 0 .. n : i \notin S}
<1>2. T \in SUBSET Nat /\ T # {}
  BY <1>1
<1>3. PICK x \in T : \A y \in T : x <= y
  <2> HIDE DEF T
  <2>1. QED
    BY <1>2, Least
<1>4. x > 0 /\ x - 1 \in 0 .. n - 1
  BY <1>3
<1>5. x - 1 \in S
  BY <1>3, <1>4
<1>6. QED
  BY <1>3, <1>4, <1>5

(* What a step computes from what came before it exists, as a function. *)
Paths(n, V, v, step) ==
  {f \in [0 .. n -> V] : f[0] = v /\ \A k \in 1 .. n : f[k] = step[<<k, f[k - 1]>>]}

(* A recursion over 0 .. n with a start and a step in V has a value, and it is in V. *)
LEMMA Recursion ==
  ASSUME NEW n \in Nat, NEW V, NEW v \in V, NEW step \in [(1 .. n) \X V -> V]
  PROVE  Paths(n, V, v, step) # {}
<1> DEFINE IsPath(f, m) == f[0] = v /\ \A k \in 1 .. m : f[k] = step[<<k, f[k - 1]>>]
           S == {m \in 0 .. n : \E f \in [0 .. m -> V] : IsPath(f, m)}
<1>1. 0 \in S
  <2> DEFINE z == [k \in 0 .. 0 |-> v]
  <2>1. z \in [0 .. 0 -> V] /\ IsPath(z, 0)
    OBVIOUS
  <2>2. 0 \in 0 .. n
    OBVIOUS
  <2> HIDE DEF z, IsPath
  <2>3. QED
    BY <2>1, <2>2
<1>2. \A m \in 0 .. n - 1 : m \in S => m + 1 \in S
  <2> SUFFICES ASSUME NEW m \in 0 .. n - 1, m \in S PROVE m + 1 \in S
    OBVIOUS
  <2>1. PICK f \in [0 .. m -> V] : IsPath(f, m)
    OBVIOUS
  <2> DEFINE w == step[<<m + 1, f[m]>>]
             g == [k \in 0 .. m + 1 |-> IF k = m + 1 THEN w ELSE f[k]]
  <2>2. m \in Nat /\ m + 1 \in 1 .. n /\ f[m] \in V
    OBVIOUS
  <2>3. w \in V
    BY <2>2
  <2> HIDE DEF w
  <2>4. g \in [0 .. m + 1 -> V]
    BY <2>2, <2>3
  <2>5. g[0] = v
    BY <2>1, <2>2
  <2>6. ASSUME NEW k \in 1 .. m + 1 PROVE g[k] = step[<<k, g[k - 1]>>]
    <3>1. CASE k = m + 1
      BY SMTT(30), <3>1, <2>2 DEF w
    <3>2. CASE k \in 1 .. m
      BY <3>2, <2>1, <2>2
    <3>3. QED
      BY <3>1, <3>2, <2>2
  <2>7. IsPath(g, m + 1)
    BY <2>5, <2>6
  <2>8. m + 1 \in 0 .. n
    BY <2>2
  <2> HIDE DEF g, IsPath
  <2>9. QED
    BY <2>4, <2>7, <2>8
<1>3. n \in S
  <2> HIDE DEF S
  <2>1. \A k \in 0 .. n : k \in S
    BY <1>1, <1>2, SetInduction
  <2>2. QED
    BY <2>1
<1>4. PICK f \in [0 .. n -> V] : IsPath(f, n)
  BY <1>3
<1>5. QED
  BY <1>4 DEF Paths

(* Its values are of the type that the steps stay in. *)
LEMMA Typed ==
  ASSUME NEW n \in Nat, NEW V, NEW f, f[0] \in V,
         \A k \in 0 .. n - 1 : f[k] \in V => f[k + 1] \in V
  PROVE  \A k \in 0 .. n : f[k] \in V
<1> DEFINE S == {k \in 0 .. n : f[k] \in V}
<1>1. 0 \in S /\ \A k \in 0 .. n - 1 : k \in S => k + 1 \in S
  OBVIOUS
<1>2. \A k \in 0 .. n : k \in S
  <2> HIDE DEF S
  <2>1. QED
    BY <1>1, SetInduction
<1>3. QED
  BY <1>2

-----------------------------------------------------------------------------
(* The recursions over a segment list. *)

(* Sequences of segments, empty or not. *)
LEMMA PieceFacts ==
  ASSUME NEW s \in Seq(Piece)
  PROVE  /\ Len(s) \in Nat /\ DOMAIN s = 1 .. Len(s)
         /\ \A i \in 1 .. Len(s) : /\ s[i] \in Piece
                                   /\ s[i].start \in Nat /\ s[i].count \in Nat
                                   /\ s[i].masked \in BOOLEAN
<1>1. Len(s) \in Nat /\ DOMAIN s = 1 .. Len(s) /\ \A i \in 1 .. Len(s) : s[i] \in Piece
  OBVIOUS
<1>2. QED
  BY <1>1 DEF Piece

LEMMA SegmentPiece == Segment \subseteq Piece /\ \A g \in Piece : g.count # 0 => g \in Segment
  BY DEF Segment, Piece

LEMMA SegmentFields ==
  /\ \A g \in Segment : g.start \in Nat /\ g.count \in Nat \ {0} /\ g.masked \in BOOLEAN
  /\ \A g, h \in Segment : g.start = h.start /\ g.count = h.count /\ g.masked = h.masked => g = h
  BY DEF Segment

LEMMA SegmentFacts ==
  ASSUME NEW s \in Seq(Segment)
  PROVE  /\ s \in Seq(Piece) /\ Len(s) \in Nat
         /\ \A i \in 1 .. Len(s) : s[i] \in Segment /\ s[i].count > 0
<1>1. s \in Seq(Piece)
  BY SegmentPiece, SeqMonotonic
<1>2. Len(s) \in Nat /\ \A i \in 1 .. Len(s) : s[i] \in Segment
  OBVIOUS
<1>3. QED
  BY <1>1, <1>2 DEF Segment

(* Each segment ends its count of places after the one before it. *)
LEMMA EndsDef ==
  ASSUME NEW s \in Seq(Piece)
  PROVE  /\ Ends(s)[0] = 0
         /\ \A k \in 1 .. Len(s) : Ends(s)[k] = Ends(s)[k - 1] + s[k].count
         /\ \A k \in 0 .. Len(s) : Ends(s)[k] \in Nat
<1> DEFINE n == Len(s)
           N == Nat
           zero == 0
           step == [p \in (1 .. n) \X N |-> p[2] + s[p[1]].count]
<1>1. n \in Nat /\ zero \in N /\ \A k \in 1 .. n : s[k].count \in Nat
  BY PieceFacts
<1>2. step \in [(1 .. n) \X N -> N]
  BY <1>1
<1>3. PICK f : f \in Paths(n, N, zero, step)
  <2> HIDE DEF n, step, N, zero
  <2>1. QED
    BY <1>1, <1>2, Recursion
<1>4. f \in [0 .. n -> N] /\ f[0] = 0 /\ \A k \in 1 .. n : f[k] = step[<<k, f[k - 1]>>]
  BY <1>3 DEF Paths
<1>5. ASSUME NEW k \in 1 .. n PROVE f[k] = f[k - 1] + s[k].count
  <2>1. k \in 0 .. n /\ k - 1 \in 0 .. n
    BY <1>1
  <2>2. QED
    BY <1>1, <1>4, <2>1
<1>6. f = [k \in 0 .. n |-> IF k = 0 THEN 0 ELSE f[k - 1] + s[k].count]
  <2>1. \A k \in 0 .. n : k # 0 => k \in 1 .. n
    BY <1>1
  <2> HIDE DEF step
  <2>2. QED
    BY <1>4, <1>5, <2>1
<1>7. Ends(s) = [k \in 0 .. n |-> IF k = 0 THEN 0 ELSE Ends(s)[k - 1] + s[k].count]
  BY <1>6, Zenon DEF Ends
<1> DEFINE E == Ends(s)
<1>8. E[0] = 0 /\ \A k \in 1 .. n : E[k] = E[k - 1] + s[k].count
  <2> HIDE DEF n
  <2>1. QED
    BY <1>1, <1>7
<1>9. \A k \in 0 .. n : E[k] \in N
  <2>1. ASSUME NEW k \in 0 .. n - 1, E[k] \in N PROVE E[k + 1] \in N
    <3>1. k + 1 \in 1 .. n /\ (k + 1) - 1 = k
      BY <1>1
    <3> HIDE DEF E, n
    <3>2. E[k + 1] = E[k] + s[k + 1].count /\ s[k + 1].count \in Nat
      BY <1>1, <1>8, <3>1
    <3>3. QED
      BY <2>1, <3>2
  <2>2. E[0] \in N
    BY <1>8
  <2> HIDE DEF E, n, N
  <2>3. QED
    BY <1>1, <2>1, <2>2, Typed
<1>10. QED
  BY <1>8, <1>9

(* A segment that is continued by another. *)
Widened(g, h) == [g EXCEPT !.count = @ + h.count]

(* The three things that joining a segment to a list can do. *)
LEMMA JoinedCases ==
  ASSUME NEW list \in Seq(Segment), NEW g \in Piece
  PROVE  /\ g.count = 0 => Joined(list, g) = list
         /\ g.count # 0 /\ (list = <<>> \/ ~Touching(list[Len(list)], g)) =>
              g \in Segment /\ Joined(list, g) = Append(list, g)
         /\ g.count # 0 /\ list # <<>> /\ Touching(list[Len(list)], g) =>
              /\ Len(list) \in 1 .. Len(list)
              /\ Widened(list[Len(list)], g) \in Segment
              /\ Joined(list, g) = [list EXCEPT ![Len(list)] = Widened(list[Len(list)], g)]
         /\ Joined(list, g) \in Seq(Segment)
<1>1. g.count = 0 => Joined(list, g) = list
  BY DEF Joined
<1>2. g.count # 0 => g \in Segment
  BY SegmentPiece
<1>3. g.count # 0 /\ (list = <<>> \/ ~Touching(list[Len(list)], g)) => Joined(list, g) = Append(list, g)
  BY DEF Joined, Last
<1>4. list # <<>> => Len(list) \in 1 .. Len(list) /\ list[Len(list)] \in Segment
  OBVIOUS
<1>5. ASSUME NEW h \in Segment PROVE Widened(h, g) \in Segment
  BY SMTT(30) DEF Widened, Segment, Piece
<1>6. g.count # 0 /\ list # <<>> /\ Touching(list[Len(list)], g) =>
        Joined(list, g) = [list EXCEPT ![Len(list)] = Widened(list[Len(list)], g)]
  BY <1>4 DEF Joined, Last, Widened
<1>7. Append(list, g) \in Seq(Segment) \/ g.count = 0
  BY <1>2
<1>8. list # <<>> => [list EXCEPT ![Len(list)] = Widened(list[Len(list)], g)] \in Seq(Segment)
  BY <1>4, <1>5, ExceptSeq
<1>9. QED
  BY <1>1, <1>2, <1>3, <1>4, <1>5, <1>6, <1>7, <1>8

(* The merged list, segment by segment. *)
LEMMA MergedDef ==
  ASSUME NEW s \in Seq(Piece)
  PROVE  /\ Merged(s)[0] = <<>>
         /\ \A k \in 1 .. Len(s) : Merged(s)[k] = Joined(Merged(s)[k - 1], s[k])
         /\ \A k \in 0 .. Len(s) : Merged(s)[k] \in Seq(Segment)
<1> DEFINE n == Len(s)
           V == Seq(Segment)
           step == [p \in (1 .. n) \X V |-> Joined(p[2], s[p[1]])]
           none == <<>>
<1>1. n \in Nat /\ none \in V /\ \A k \in 1 .. n : s[k] \in Piece
  BY PieceFacts
<1>2. \A list \in V, k \in 1 .. n : Joined(list, s[k]) \in V
  BY <1>1, JoinedCases
<1>3. step \in [(1 .. n) \X V -> V]
  <2> HIDE DEF V, n
  <2>1. QED
    BY <1>2
<1>4. PICK f : f \in Paths(n, V, none, step)
  <2> HIDE DEF n, step, V, none
  <2>1. QED
    BY <1>1, <1>3, Recursion
<1>5. f \in [0 .. n -> V] /\ f[0] = <<>> /\ \A k \in 1 .. n : f[k] = step[<<k, f[k - 1]>>]
  BY <1>4 DEF Paths
<1>6. ASSUME NEW k \in 1 .. n PROVE f[k] = Joined(f[k - 1], s[k])
  <2>1. k \in 0 .. n /\ k - 1 \in 0 .. n
    BY <1>1
  <2> HIDE DEF V
  <2>2. QED
    BY <1>1, <1>5, <2>1
<1>7. f = [k \in 0 .. n |-> IF k = 0 THEN <<>> ELSE Joined(f[k - 1], s[k])]
  <2>1. \A k \in 0 .. n : k # 0 => k \in 1 .. n
    BY <1>1
  <2> HIDE DEF step, V
  <2>2. QED
    BY <1>5, <1>6, <2>1
<1>8. Merged(s) = [k \in 0 .. n |-> IF k = 0 THEN <<>> ELSE Joined(Merged(s)[k - 1], s[k])]
  BY <1>7, Zenon DEF Merged
<1> DEFINE M == Merged(s)
<1>9. M[0] = <<>> /\ \A k \in 1 .. n : M[k] = Joined(M[k - 1], s[k])
  <2> HIDE DEF n
  <2>1. QED
    BY <1>1, <1>8
<1>10. \A k \in 0 .. n : M[k] \in V
  <2>1. ASSUME NEW k \in 0 .. n - 1, M[k] \in V PROVE M[k + 1] \in V
    <3>1. k + 1 \in 1 .. n /\ (k + 1) - 1 = k
      BY <1>1
    <3> HIDE DEF M, n, V
    <3>2. M[k + 1] = Joined(M[k], s[k + 1])
      BY <1>9, <3>1
    <3>3. QED
      BY <1>2, <2>1, <3>1, <3>2
  <2>2. M[0] \in V
    BY <1>9
  <2> HIDE DEF M, n, V
  <2>3. QED
    BY <1>1, <2>1, <2>2, Typed
<1>11. QED
  BY <1>9, <1>10

(* The frames of a segment. *)
LEMMA FramesFacts ==
  ASSUME NEW g \in Piece
  PROVE  /\ Frames(g) \in Seq(Item) /\ Len(Frames(g)) = g.count
         /\ \A k \in 1 .. g.count : Frames(g)[k] = [source |-> g.start + k - 1, masked |-> g.masked]
<1>1. g.start \in Nat /\ g.count \in Nat /\ g.masked \in BOOLEAN
  BY DEF Piece
<1>2. \A k \in 1 .. g.count : [source |-> g.start + k - 1, masked |-> g.masked] \in Item
  BY <1>1 DEF Item
<1>3. QED
  BY <1>1, <1>2 DEF Frames

(* The shown frames, segment by segment. *)
LEMMA ShownDef ==
  ASSUME NEW s \in Seq(Piece)
  PROVE  /\ Shown(s)[0] = <<>>
         /\ \A k \in 1 .. Len(s) : Shown(s)[k] = Shown(s)[k - 1] \o Frames(s[k])
         /\ \A k \in 0 .. Len(s) : Shown(s)[k] \in Seq(Item)
<1> DEFINE n == Len(s)
           V == Seq(Item)
           step == [p \in (1 .. n) \X V |-> p[2] \o Frames(s[p[1]])]
           none == <<>>
<1>1. n \in Nat /\ none \in V /\ \A k \in 1 .. n : s[k] \in Piece
  BY PieceFacts
<1>2. \A list \in V, k \in 1 .. n : list \o Frames(s[k]) \in V
  <2>1. \A k \in 1 .. n : Frames(s[k]) \in V
    BY <1>1, FramesFacts
  <2>2. QED
    BY <2>1
<1>3. step \in [(1 .. n) \X V -> V]
  <2> HIDE DEF V, n
  <2>1. QED
    BY <1>2
<1>4. PICK f : f \in Paths(n, V, none, step)
  <2> HIDE DEF n, step, V, none
  <2>1. QED
    BY <1>1, <1>3, Recursion
<1>5. f \in [0 .. n -> V] /\ f[0] = <<>> /\ \A k \in 1 .. n : f[k] = step[<<k, f[k - 1]>>]
  BY <1>4 DEF Paths
<1>6. ASSUME NEW k \in 1 .. n PROVE f[k] = f[k - 1] \o Frames(s[k])
  <2>1. k \in 0 .. n /\ k - 1 \in 0 .. n
    BY <1>1
  <2> HIDE DEF V
  <2>2. QED
    BY <1>1, <1>5, <2>1
<1>7. f = [k \in 0 .. n |-> IF k = 0 THEN <<>> ELSE f[k - 1] \o Frames(s[k])]
  <2>1. \A k \in 0 .. n : k # 0 => k \in 1 .. n
    BY <1>1
  <2> HIDE DEF step, V
  <2>2. QED
    BY <1>5, <1>6, <2>1
<1>8. Shown(s) = [k \in 0 .. n |-> IF k = 0 THEN <<>> ELSE Shown(s)[k - 1] \o Frames(s[k])]
  BY <1>7, Zenon DEF Shown
<1> DEFINE M == Shown(s)
<1>9. M[0] = <<>> /\ \A k \in 1 .. n : M[k] = M[k - 1] \o Frames(s[k])
  <2> HIDE DEF n
  <2>1. QED
    BY <1>1, <1>8
<1>10. \A k \in 0 .. n : M[k] \in V
  <2>1. ASSUME NEW k \in 0 .. n - 1, M[k] \in V PROVE M[k + 1] \in V
    <3>1. k + 1 \in 1 .. n /\ (k + 1) - 1 = k
      BY <1>1
    <3> HIDE DEF M, n, V
    <3>2. M[k + 1] = M[k] \o Frames(s[k + 1])
      BY <1>9, <3>1
    <3>3. QED
      BY <1>2, <2>1, <3>1, <3>2
  <2>2. M[0] \in V
    BY <1>9
  <2> HIDE DEF M, n, V
  <2>3. QED
    BY <1>1, <2>1, <2>2, Typed
<1>11. QED
  BY <1>9, <1>10

(* What holds of neighbours holds of any two. *)
LEMMA GrowsByOne ==
  ASSUME NEW n \in Nat, NEW F \in [0 .. n -> Int], \A j \in 0 .. n - 1 : F[j] <= F[j + 1]
  PROVE  \A k \in 0 .. n : \A i \in 0 .. k : F[i] <= F[k]
<1> DEFINE S == {k \in 0 .. n : \A i \in 0 .. k : F[i] <= F[k]}
<1>1. 0 \in S
  OBVIOUS
<1>2. \A k \in 0 .. n - 1 : k \in S => k + 1 \in S
  <2>1. SUFFICES ASSUME NEW k \in 0 .. n - 1, k \in S, NEW i \in 0 .. k + 1
                 PROVE  F[i] <= F[k + 1]
    OBVIOUS
  <2>2. F[k] \in Int /\ F[k + 1] \in Int /\ F[i] \in Int /\ F[k] <= F[k + 1]
    OBVIOUS
  <2>3. CASE i = k + 1
    BY <2>2, <2>3
  <2>4. CASE i # k + 1
    <3>1. i \in 0 .. k
      BY <2>4
    <3>2. F[i] <= F[k]
      BY <2>1, <3>1
    <3>3. QED
      BY <2>2, <3>2
  <2>5. QED
    BY <2>3, <2>4
<1>3. \A k \in 0 .. n : k \in S
  <2> HIDE DEF S
  <2>1. QED
    BY <1>1, <1>2, SetInduction
<1>4. QED
  BY <1>3

(* Each segment begins where the one before it ends. *)
LEMMA OffsetFacts ==
  ASSUME NEW s \in Seq(Piece)
  PROVE  /\ Offset(s, 1) = 0 /\ Total(s) = Offset(s, Len(s) + 1) /\ Total(s) \in Nat
         /\ \A k \in 1 .. Len(s) : Offset(s, k + 1) = Offset(s, k) + s[k].count
         /\ \A k \in 1 .. Len(s) + 1 : Offset(s, k) \in Nat
         /\ \A k \in 1 .. Len(s) + 1 : \A i \in 1 .. k : Offset(s, i) <= Offset(s, k)
<1> DEFINE n == Len(s)
           F == [k \in 0 .. n |-> Ends(s)[k]]
<1>1. n \in Nat /\ \A k \in 1 .. n : s[k].count \in Nat
  BY PieceFacts
<1>2. \A k : Offset(s, k) = Ends(s)[k - 1]
  BY DEF Offset
<1>3. F \in [0 .. n -> Int] /\ \A k \in 0 .. n : F[k] = Ends(s)[k] /\ F[k] \in Nat
  BY EndsDef
<1>4. \A k \in 1 .. n : F[k] = F[k - 1] + s[k].count
  <2> SUFFICES ASSUME NEW k \in 1 .. n PROVE F[k] = F[k - 1] + s[k].count
    OBVIOUS
  <2>1. k \in 0 .. n /\ k - 1 \in 0 .. n
    BY <1>1
  <2>2. Ends(s)[k] = Ends(s)[k - 1] + s[k].count
    BY EndsDef
  <2> HIDE DEF F
  <2>3. QED
    BY <1>3, <2>1, <2>2
<1>5. ASSUME NEW j \in 0 .. n - 1 PROVE F[j] <= F[j + 1]
  <2>1. j + 1 \in 1 .. n /\ (j + 1) - 1 = j /\ j \in 0 .. n
    BY <1>1
  <2> HIDE DEF F, n
  <2>2. F[j + 1] = F[j] + s[j + 1].count /\ F[j] \in Nat /\ s[j + 1].count \in Nat
    BY <1>1, <1>3, <1>4, <2>1
  <2>3. QED
    BY <2>2
<1>6. \A k \in 0 .. n : \A i \in 0 .. k : F[i] <= F[k]
  <2> HIDE DEF F, n
  <2>1. QED
    BY <1>1, <1>3, <1>5, GrowsByOne
<1> HIDE DEF F
<1>7. ASSUME NEW k \in 1 .. n + 1, NEW i \in 1 .. k
      PROVE  Offset(s, i) <= Offset(s, k) /\ Offset(s, k) \in Nat
  <2>1. k - 1 \in 0 .. n /\ i - 1 \in 0 .. k - 1 /\ i - 1 \in 0 .. n
    BY <1>1
  <2>2. F[i - 1] <= F[k - 1] /\ F[i - 1] = Ends(s)[i - 1] /\ F[k - 1] = Ends(s)[k - 1] /\ F[k - 1] \in Nat
    BY <1>3, <1>6, <2>1
  <2>3. QED
    BY <1>2, <2>2
<1>8. ASSUME NEW k \in 1 .. n PROVE Offset(s, k + 1) = Offset(s, k) + s[k].count
  <2>1. (k + 1) - 1 = k
    OBVIOUS
  <2>2. QED
    BY <1>2, <2>1, EndsDef
<1>9. Offset(s, 1) = 0 /\ Total(s) = Offset(s, n + 1)
  <2>1. 1 - 1 = 0 /\ (n + 1) - 1 = n
    BY <1>1
  <2>2. QED
    BY <1>2, <2>1, EndsDef DEF Total
<1>10. \A k \in 1 .. n + 1 : Offset(s, k) \in Nat
  <2>1. \A k \in 1 .. n + 1 : k \in 1 .. k
    BY <1>1
  <2>2. QED
    BY <1>7, <2>1
<1>11. Total(s) \in Nat
  BY <1>1, <1>9, <1>10
<1>12. QED
  BY <1>7, <1>8, <1>9, <1>10, <1>11

(* Concatenation of frames. *)
LEMMA Concat ==
  ASSUME NEW a \in Seq(Item), NEW b \in Seq(Item)
  PROVE  /\ a \o b \in Seq(Item) /\ Len(a \o b) = Len(a) + Len(b)
         /\ Len(a) \in Nat /\ Len(b) \in Nat
         /\ \A q \in 1 .. Len(a) + Len(b) :
              (a \o b)[q] = IF q <= Len(a) THEN a[q] ELSE b[q - Len(a)]
  OBVIOUS

(* It does not matter which two lists are joined first. *)
LEMMA ConcatTwice == \A x, y, z \in Seq(Item) : (x \o y) \o z = x \o (y \o z)
  BY ConcatAssociative

(* There are as many frames before a segment as its offset says. *)
LEMMA ShownLen ==
  ASSUME NEW s \in Seq(Piece)
  PROVE  /\ \A k \in 0 .. Len(s) : Len(Shown(s)[k]) = Ends(s)[k]
         /\ Expand(s) \in Seq(Item) /\ Len(Expand(s)) = Total(s)
<1> DEFINE n == Len(s)
           S == {k \in 0 .. n : Len(Shown(s)[k]) = Ends(s)[k]}
<1>1. n \in Nat /\ \A k \in 1 .. n : s[k] \in Piece
  BY PieceFacts
<1>2. 0 \in S
  <2>1. Ends(s)[0] = 0
    BY EndsDef
  <2>2. Shown(s)[0] = <<>>
    BY ShownDef
  <2>3. QED
    BY <1>1, <2>1, <2>2
<1>3. ASSUME NEW k \in 0 .. n - 1, k \in S PROVE k + 1 \in S
  <2>1. k + 1 \in 1 .. n /\ (k + 1) - 1 = k /\ k \in 0 .. n /\ k + 1 \in 0 .. n
    BY <1>1
  <2>2. Ends(s)[k + 1] = Ends(s)[k] + s[k + 1].count
    BY <2>1, EndsDef
  <2>3. Shown(s)[k + 1] = Shown(s)[k] \o Frames(s[k + 1]) /\ Shown(s)[k] \in Seq(Item)
    BY <2>1, ShownDef
  <2>4. Frames(s[k + 1]) \in Seq(Item) /\ Len(Frames(s[k + 1])) = s[k + 1].count
    BY <1>1, <2>1, FramesFacts
  <2>5. Len(Shown(s)[k + 1]) = Len(Shown(s)[k]) + s[k + 1].count
    BY ZenonT(30), <2>3, <2>4, Concat
  <2>6. QED
    BY <1>3, <2>1, <2>2, <2>5
<1>4. \A k \in 0 .. n : k \in S
  <2> HIDE DEF S, n
  <2>1. QED
    BY <1>1, <1>2, <1>3, SetInduction
<1>5. n \in 0 .. n
  BY <1>1
<1>6. QED
  BY <1>4, <1>5, ShownDef DEF Expand, Total

(* Lists that begin alike are counted, shown and merged alike so far. *)
LEMMA Prefix ==
  ASSUME NEW s \in Seq(Piece), NEW t \in Seq(Piece), NEW m \in 0 .. Len(s), m <= Len(t),
         \A i \in 1 .. m : s[i] = t[i]
  PROVE  \A k \in 0 .. m : /\ Ends(s)[k] = Ends(t)[k]
                           /\ Shown(s)[k] = Shown(t)[k]
                           /\ Merged(s)[k] = Merged(t)[k]
<1> DEFINE S == {k \in 0 .. m : /\ Ends(s)[k] = Ends(t)[k]
                                /\ Shown(s)[k] = Shown(t)[k]
                                /\ Merged(s)[k] = Merged(t)[k]}
<1>1. m \in Nat /\ Len(s) \in Nat /\ Len(t) \in Nat
  BY PieceFacts
<1>2. 0 \in S
  <2>1. Ends(s)[0] = 0 /\ Ends(t)[0] = 0
    BY EndsDef
  <2>2. Shown(s)[0] = <<>> /\ Shown(t)[0] = <<>>
    BY ShownDef
  <2>3. Merged(s)[0] = <<>> /\ Merged(t)[0] = <<>>
    BY MergedDef
  <2>4. QED
    BY <1>1, <2>1, <2>2, <2>3
<1>3. ASSUME NEW k \in 0 .. m - 1, k \in S PROVE k + 1 \in S
  <2>1. /\ k + 1 \in 1 .. m /\ (k + 1) - 1 = k /\ k + 1 \in 0 .. m
        /\ k + 1 \in 1 .. Len(s) /\ k + 1 \in 1 .. Len(t)
    BY <1>1
  <2>2. s[k + 1] = t[k + 1]
    BY <2>1
  <2>3. /\ Ends(s)[k + 1] = Ends(s)[k] + s[k + 1].count
        /\ Ends(t)[k + 1] = Ends(t)[k] + t[k + 1].count
    BY <2>1, EndsDef
  <2>4. /\ Shown(s)[k + 1] = Shown(s)[k] \o Frames(s[k + 1])
        /\ Shown(t)[k + 1] = Shown(t)[k] \o Frames(t[k + 1])
    BY <2>1, ShownDef
  <2>5. /\ Merged(s)[k + 1] = Joined(Merged(s)[k], s[k + 1])
        /\ Merged(t)[k + 1] = Joined(Merged(t)[k], t[k + 1])
    BY <2>1, MergedDef
  <2>6. QED
    BY <1>3, <2>1, <2>2, <2>3, <2>4, <2>5
<1>4. \A k \in 0 .. m : k \in S
  <2> HIDE DEF S
  <2>1. QED
    BY <1>1, <1>2, <1>3, SetInduction
<1>5. QED
  BY <1>4

(* One segment more. *)
LEMMA OneMore ==
  ASSUME NEW s \in Seq(Piece), NEW g \in Piece
  PROVE  /\ Append(s, g) \in Seq(Piece)
         /\ Total(Append(s, g)) = Total(s) + g.count
         /\ Expand(Append(s, g)) = Expand(s) \o Frames(g)
         /\ Normalized(Append(s, g)) = Joined(Normalized(s), g)
<1> DEFINE t == Append(s, g)
           n == Len(s)
<1>1. n \in Nat /\ t \in Seq(Piece) /\ Len(t) = n + 1 /\ t[n + 1] = g /\ \A i \in 1 .. n : t[i] = s[i]
  OBVIOUS
<1> HIDE DEF t
<1>2. \A k \in 0 .. n : Ends(s)[k] = Ends(t)[k] /\ Shown(s)[k] = Shown(t)[k] /\ Merged(s)[k] = Merged(t)[k]
  <2>1. n \in 0 .. Len(s) /\ n <= Len(t) /\ \A i \in 1 .. n : s[i] = t[i]
    BY <1>1
  <2> HIDE DEF n
  <2>2. QED
    BY <1>1, <2>1, Prefix
<1>3. n + 1 \in 1 .. Len(t) /\ (n + 1) - 1 = n /\ n \in 0 .. n
  BY <1>1
<1>4. Ends(t)[n + 1] = Ends(t)[n] + g.count
  BY <1>1, <1>3, EndsDef
<1>5. Shown(t)[n + 1] = Shown(t)[n] \o Frames(g)
  BY <1>1, <1>3, ShownDef
<1>6. Merged(t)[n + 1] = Joined(Merged(t)[n], g)
  BY <1>1, <1>3, MergedDef
<1>7. Ends(t)[n] = Ends(s)[n] /\ Shown(t)[n] = Shown(s)[n] /\ Merged(t)[n] = Merged(s)[n]
  BY <1>2, <1>3
<1>8. /\ Total(t) = Total(s) + g.count
      /\ Expand(t) = Expand(s) \o Frames(g)
      /\ Normalized(t) = Joined(Normalized(s), g)
  BY <1>1, <1>4, <1>5, <1>6, <1>7 DEF Total, Expand, Normalized
<1>9. QED
  BY <1>1, <1>8 DEF t

(* Each segment shows its frames at its own places. *)
LEMMA ItemAt ==
  ASSUME NEW s \in Seq(Piece), NEW i \in 1 .. Len(s), NEW k \in 1 .. s[i].count
  PROVE  /\ Offset(s, i) + k \in 1 .. Total(s)
         /\ Expand(s)[Offset(s, i) + k] = [source |-> s[i].start + k - 1, masked |-> s[i].masked]
<1> DEFINE n == Len(s)
           p == Offset(s, i) + k
           item == [source |-> s[i].start + k - 1, masked |-> s[i].masked]
           S == {j \in 0 .. n : j >= i => Shown(s)[j][p] = item}
<1>1. n \in Nat /\ i \in 1 .. n /\ k \in Nat /\ \A j \in 1 .. n : s[j] \in Piece /\ s[j].count \in Nat
  BY PieceFacts
<1>2. Offset(s, i) \in Nat /\ Offset(s, i + 1) = Offset(s, i) + s[i].count
  BY <1>1, OffsetFacts
<1>3. \A j \in i .. n : p \in 1 .. Ends(s)[j]
  <2> SUFFICES ASSUME NEW j \in i .. n PROVE p \in 1 .. Ends(s)[j]
    OBVIOUS
  <2>1. j + 1 \in 1 .. n + 1 /\ i + 1 \in 1 .. j + 1 /\ (j + 1) - 1 = j
    BY <1>1
  <2>2. Offset(s, i + 1) <= Offset(s, j + 1) /\ Offset(s, j + 1) \in Nat
    BY <2>1, OffsetFacts
  <2>3. Offset(s, j + 1) = Ends(s)[j]
    BY <2>1 DEF Offset
  <2>4. QED
    BY SMTT(30), <1>1, <1>2, <2>2, <2>3
<1> HIDE DEF item
<1>4. 0 \in S
  BY <1>1
<1>5. ASSUME NEW j \in 0 .. n - 1, j \in S PROVE j + 1 \in S
  <2>1. j + 1 \in 1 .. n /\ (j + 1) - 1 = j /\ j \in 0 .. n /\ j + 1 \in 0 .. n
    BY <1>1
  <2>2. /\ Shown(s)[j + 1] = Shown(s)[j] \o Frames(s[j + 1])
        /\ Shown(s)[j] \in Seq(Item)
    BY <2>1, ShownDef
  <2>3. Len(Shown(s)[j]) = Ends(s)[j] /\ Ends(s)[j] \in Nat
    BY <2>1, ShownLen, EndsDef
  <2>4. /\ Frames(s[j + 1]) \in Seq(Item) /\ Len(Frames(s[j + 1])) = s[j + 1].count
        /\ s[j + 1].count \in Nat
    BY <1>1, <2>1, FramesFacts
  <2>5. \A q \in 1 .. Ends(s)[j] + s[j + 1].count :
           Shown(s)[j + 1][q] = IF q <= Ends(s)[j] THEN Shown(s)[j][q]
                                ELSE Frames(s[j + 1])[q - Ends(s)[j]]
    <3> DEFINE a == Shown(s)[j]
               b == Frames(s[j + 1])
    <3>1. a \in Seq(Item) /\ b \in Seq(Item) /\ Len(a) = Ends(s)[j] /\ Len(b) = s[j + 1].count
      BY <2>2, <2>3, <2>4
    <3>2. Shown(s)[j + 1] = a \o b
      BY <2>2
    <3> HIDE DEF a, b
    <3>3. \A q \in 1 .. Len(a) + Len(b) :
              (a \o b)[q] = IF q <= Len(a) THEN a[q] ELSE b[q - Len(a)]
      BY <3>1, Concat
    <3>4. QED
      BY <3>1, <3>2, <3>3 DEF a, b
  <2>6. CASE j + 1 = i
    <3>1. Offset(s, i) = Ends(s)[j]
      BY <2>1, <2>6 DEF Offset
    <3>2. p - Ends(s)[j] = k /\ p \in 1 .. Ends(s)[j] + s[j + 1].count /\ ~(p <= Ends(s)[j])
      BY SMTT(30), <1>1, <1>2, <2>3, <2>6, <3>1
    <3>3. Frames(s[i])[k] = item
      BY <1>1, FramesFacts DEF item
    <3> HIDE DEF p
    <3>4. Shown(s)[j + 1][p] = item
      BY <2>5, <2>6, <3>2, <3>3
    <3>5. QED
      BY <2>1, <3>4
  <2>7. CASE j >= i
    <3>1. p \in 1 .. Ends(s)[j]
      BY <1>1, <1>3, <2>7
    <3>2. Shown(s)[j][p] = item
      BY <1>5, <2>7
    <3> HIDE DEF p
    <3>3. p \in 1 .. Ends(s)[j] + s[j + 1].count /\ p <= Ends(s)[j]
      BY <2>3, <2>4, <3>1
    <3>4. Shown(s)[j + 1][p] = item
      BY <2>5, <3>2, <3>3
    <3>5. QED
      BY <2>1, <3>4
  <2>8. CASE j + 1 < i
    BY <1>1, <2>1, <2>8
  <2>9. QED
    BY <1>1, <2>1, <2>6, <2>7, <2>8
<1>6. \A j \in 0 .. n : j \in S
  <2> HIDE DEF S, n
  <2>1. QED
    BY <1>1, <1>4, <1>5, SetInduction
<1>7. n \in 0 .. n /\ n \in i .. n /\ n >= i
  BY <1>1
<1>8. QED
  BY <1>3, <1>6, <1>7 DEF Expand, Total, item

-----------------------------------------------------------------------------
(* Merging. *)

(* Nothing could be merged. *)
Canonical(s) == \A i \in 1 .. Len(s) - 1 : ~Touching(s[i], s[i + 1])

(* Every segment that is not empty ends by frame N. *)
Within(s, N) == \A i \in 1 .. Len(s) : s[i].count # 0 => s[i].start + s[i].count <= N

(* A list is what comes before its last segment, and that. *)
LEMMA LastOfList ==
  ASSUME NEW s \in Seq(Segment), s # <<>>, NEW w \in Segment
  PROVE  \E f \in Seq(Segment) :
           /\ s = Append(f, s[Len(s)]) /\ [s EXCEPT ![Len(s)] = w] = Append(f, w)
           /\ Len(f) = Len(s) - 1 /\ Len(s) \in Nat \ {0} /\ s[Len(s)] \in Segment
           /\ \A i \in 1 .. Len(s) - 1 : f[i] = s[i]
<1> DEFINE n == Len(s)
           f == [i \in 1 .. n - 1 |-> s[i]]
           r == [s EXCEPT ![n] = w]
<1>1. n \in Nat \ {0} /\ s \in [1 .. n -> Segment] /\ s[n] \in Segment
  BY LenProperties, EmptySeq
<1>2. f \in Seq(Segment) /\ Len(f) = n - 1 /\ \A i \in 1 .. n - 1 : f[i] = s[i]
  BY <1>1
<1>3. r \in Seq(Segment) /\ Len(r) = n /\ \A i \in 1 .. n : r[i] = IF i = n THEN w ELSE s[i]
  <2>1. n \in 1 .. Len(s)
    BY <1>1
  <2>2. QED
    BY <1>1, <2>1, ExceptSeq
<1> HIDE DEF f, r
<1>4. ASSUME NEW v \in Segment
      PROVE  /\ Append(f, v) \in Seq(Segment) /\ Len(Append(f, v)) = n
             /\ \A i \in 1 .. n : Append(f, v)[i] = IF i = n THEN v ELSE s[i]
  <2>1. /\ Append(f, v) \in Seq(Segment) /\ Len(Append(f, v)) = (n - 1) + 1
        /\ Append(f, v)[(n - 1) + 1] = v
        /\ \A i \in 1 .. n - 1 : Append(f, v)[i] = f[i]
    BY <1>2, <1>4
  <2>2. n \in Nat
    BY <1>1
  <2> HIDE DEF n
  <2>3. (n - 1) + 1 = n
    BY <2>2
  <2>4. \A i \in 1 .. n : i # n => i \in 1 .. n - 1
    BY <2>2
  <2>5. QED
    BY <1>2, <2>1, <2>3, <2>4
<1>5. s = Append(f, s[n])
  <2>1. \A i \in 1 .. n : s[i] = Append(f, s[n])[i]
    BY ZenonT(30), <1>1, <1>4
  <2>2. Append(f, s[n]) \in Seq(Segment) /\ Len(Append(f, s[n])) = Len(s)
    BY <1>1, <1>4
  <2>3. QED
    BY SMTT(30), <2>1, <2>2, SeqEqual
<1>6. r = Append(f, w)
  <2>1. \A i \in 1 .. n : r[i] = Append(f, w)[i]
    BY <1>3, <1>4
  <2>2. Append(f, w) \in Seq(Segment) /\ Len(Append(f, w)) = Len(r)
    BY <1>3, <1>4
  <2>3. QED
    BY <1>3, <2>1, <2>2, SeqEqual
<1>7. QED
  BY <1>1, <1>2, <1>5, <1>6 DEF r

(* A segment that is continued shows the frames of both. *)
LEMMA FramesWidened ==
  ASSUME NEW g \in Segment, NEW h \in Piece, Touching(g, h)
  PROVE  /\ Widened(g, h) \in Segment
         /\ Widened(g, h).start = g.start /\ Widened(g, h).masked = g.masked
         /\ Widened(g, h).count = g.count + h.count
         /\ Frames(Widened(g, h)) = Frames(g) \o Frames(h)
<1> DEFINE w == Widened(g, h)
<1>1. /\ g.start \in Nat /\ g.count \in Nat \ {0} /\ h.start \in Nat /\ h.count \in Nat
      /\ g.start + g.count = h.start /\ g.masked = h.masked /\ g \in Piece
  BY DEF Segment, Piece, Touching
<1>2. w \in Segment /\ w.start = g.start /\ w.masked = g.masked /\ w.count = g.count + h.count
  BY <1>1 DEF Widened, Segment, Piece
<1>3. w \in Piece
  BY <1>2, SegmentPiece
<1> HIDE DEF w
<1>4. /\ Frames(w) \in Seq(Item) /\ Len(Frames(w)) = w.count
      /\ \A k \in 1 .. w.count : Frames(w)[k] = [source |-> w.start + k - 1, masked |-> w.masked]
  BY <1>3, FramesFacts
<1> DEFINE a == Frames(g)
           b == Frames(h)
<1>5. /\ a \in Seq(Item) /\ Len(a) = g.count
      /\ \A k \in 1 .. g.count : a[k] = [source |-> g.start + k - 1, masked |-> g.masked]
  BY <1>1, FramesFacts
<1>6. /\ b \in Seq(Item) /\ Len(b) = h.count
      /\ \A k \in 1 .. h.count : b[k] = [source |-> h.start + k - 1, masked |-> h.masked]
  BY <1>1, FramesFacts
<1> HIDE DEF a, b
<1>7. /\ a \o b \in Seq(Item) /\ Len(a \o b) = w.count
      /\ \A k \in 1 .. w.count : (a \o b)[k] = IF k <= g.count THEN a[k] ELSE b[k - g.count]
  <2>1. /\ a \o b \in Seq(Item) /\ Len(a \o b) = Len(a) + Len(b)
        /\ \A q \in 1 .. Len(a) + Len(b) : (a \o b)[q] = IF q <= Len(a) THEN a[q] ELSE b[q - Len(a)]
    BY <1>5, <1>6, Concat
  <2>2. Len(a) = g.count /\ Len(a) + Len(b) = w.count
    BY <1>2, <1>5, <1>6
  <2>3. QED
    BY <2>1, <2>2
<1>8. ASSUME NEW k \in 1 .. w.count PROVE Frames(w)[k] = (a \o b)[k]
  <2>1. CASE k <= g.count
    BY <1>1, <1>2, <1>4, <1>5, <1>7, <1>8, <2>1
  <2>2. CASE ~(k <= g.count)
    <3>1. k - g.count \in 1 .. h.count /\ h.start + (k - g.count) - 1 = w.start + k - 1
      BY <1>1, <1>2, <2>2
    <3>2. b[k - g.count] = [source |-> h.start + (k - g.count) - 1, masked |-> h.masked]
      BY <1>6, <3>1
    <3>3. QED
      BY <1>1, <1>2, <1>4, <1>7, <1>8, <2>2, <3>1, <3>2
  <2>3. QED
    BY <2>1, <2>2
<1>9. Frames(w) = a \o b
  BY <1>4, <1>7, <1>8, SeqEqual
<1>10. QED
  BY <1>2, <1>9 DEF w, a, b

(* Joining a segment to a list shows its frames after those of the list, leaves
   nothing to be merged, and reaches no further into the source. *)
LEMMA JoinedFacts ==
  ASSUME NEW list \in Seq(Segment), Canonical(list), NEW g \in Piece
  PROVE  /\ Joined(list, g) \in Seq(Segment)
         /\ Expand(Joined(list, g)) = Expand(list) \o Frames(g)
         /\ Canonical(Joined(list, g))
         /\ \A N \in Nat : Within(list, N) /\ (g.count # 0 => g.start + g.count <= N)
                             => Within(Joined(list, g), N)
<1> DEFINE n == Len(list)
           result == Joined(list, g)
<1>1. list \in Seq(Piece) /\ n \in Nat /\ \A i \in 1 .. n : list[i] \in Segment
  BY SegmentFacts
<1>2. Expand(list) \in Seq(Item) /\ Frames(g) \in Seq(Item) /\ Len(Frames(g)) = g.count
  BY <1>1, ShownLen, FramesFacts
<1>3. CASE g.count = 0
  <2>1. result = list
    BY <1>3, JoinedCases
  <2>2. Frames(g) = <<>>
    BY <1>2, <1>3, EmptySeq
  <2>3. Expand(list) \o Frames(g) = Expand(list)
    BY <1>2, <2>2, ConcatEmptySeq
  <2>4. QED
    BY <2>1, <2>3
<1>4. CASE g.count # 0 /\ (list = <<>> \/ ~Touching(list[n], g))
  <2>1. result = Append(list, g) /\ g \in Segment
    BY <1>4, JoinedCases
  <2>2. Expand(result) = Expand(list) \o Frames(g)
    BY <1>1, <2>1, OneMore
  <2>3. /\ result \in Seq(Segment) /\ Len(result) = n + 1 /\ result[n + 1] = g
        /\ \A i \in 1 .. n : result[i] = list[i]
    BY <1>1, <2>1
  <2> HIDE DEF result
  <2>4. Canonical(result)
    <3>1. SUFFICES ASSUME NEW i \in 1 .. n PROVE ~Touching(result[i], result[i + 1])
      BY <1>1, <2>3 DEF Canonical
    <3>2. CASE i = n
      <4>1. list # <<>>
        BY <1>1, <3>1
      <4>2. QED
        BY <1>4, <2>3, <3>2, <4>1
    <3>3. CASE i # n
      <4>1. i \in 1 .. n - 1 /\ i + 1 \in 1 .. n
        BY <1>1, <3>3
      <4>2. QED
        BY <2>3, <4>1 DEF Canonical
    <3>4. QED
      BY <3>2, <3>3
  <2>5. ASSUME NEW N \in Nat, Within(list, N), g.start + g.count <= N PROVE Within(result, N)
    <3>1. SUFFICES ASSUME NEW i \in 1 .. n + 1 PROVE result[i].count # 0 => result[i].start + result[i].count <= N
      BY <2>3 DEF Within
    <3>2. i = n + 1 \/ i \in 1 .. n
      BY <1>1
    <3>3. QED
      BY <2>3, <2>5, <3>2 DEF Within
  <2>6. QED
    BY <1>4, <2>2, <2>3, <2>4, <2>5 DEF result
<1>5. CASE g.count # 0 /\ list # <<>> /\ Touching(list[n], g)
  <2> DEFINE last == list[n]
             w    == Widened(last, g)
  <2>1. n \in 1 .. n /\ last \in Segment /\ result = [list EXCEPT ![n] = w]
    BY <1>1, <1>5, JoinedCases
  <2>2. /\ w \in Segment /\ w.start = last.start /\ w.masked = last.masked
        /\ w.count = last.count + g.count /\ Frames(w) = Frames(last) \o Frames(g)
    BY <1>5, <2>1, FramesWidened
  <2> HIDE DEF w
  <2>3. PICK f \in Seq(Segment) :
           /\ list = Append(f, last) /\ result = Append(f, w)
           /\ Len(f) = n - 1 /\ \A i \in 1 .. n - 1 : f[i] = list[i]
    <3> HIDE DEF result
    <3>1. QED
      BY <1>5, <2>1, <2>2, LastOfList
  <2>4. f \in Seq(Piece) /\ w \in Piece /\ last \in Piece
    BY <2>1, <2>2, <2>3, SegmentPiece, SegmentFacts
  <2>5. Expand(result) = Expand(f) \o Frames(w) /\ Expand(list) = Expand(f) \o Frames(last)
    BY <2>3, <2>4, OneMore
  <2>6. Expand(f) \in Seq(Item) /\ Frames(last) \in Seq(Item)
    BY <2>4, ShownLen, FramesFacts
  <2> DEFINE x == Expand(f)
             y == Frames(last)
             z == Frames(g)
  <2>7. Expand(result) = Expand(list) \o Frames(g)
    <3>1. x \in Seq(Item) /\ y \in Seq(Item) /\ z \in Seq(Item)
      BY <1>2, <2>6
    <3>2. Expand(result) = x \o (y \o z) /\ Expand(list) = x \o y
      BY <2>2, <2>5
    <3> HIDE DEF x, y, z
    <3>3. (x \o y) \o z = x \o (y \o z)
      BY <3>1, ConcatTwice
    <3>4. Expand(result) = Expand(list) \o z
      BY <3>2, <3>3
    <3>5. QED
      BY <3>4 DEF z
  <2>8. /\ result \in Seq(Segment) /\ Len(result) = n /\ result[n] = w
        /\ \A i \in 1 .. n - 1 : result[i] = list[i]
    BY <2>1, <2>2, <2>3
  <2> HIDE DEF result, last
  <2>9. Canonical(result)
    <3>1. SUFFICES ASSUME NEW i \in 1 .. n - 1 PROVE ~Touching(result[i], result[i + 1])
      BY <2>8 DEF Canonical
    <3>2. ~Touching(list[i], list[i + 1])
      BY DEF Canonical
    <3>3. CASE i + 1 = n
      BY <2>2, <2>8, <3>2, <3>3 DEF Touching, last
    <3>4. CASE i + 1 # n
      <4>1. i + 1 \in 1 .. n - 1
        BY <1>1, <3>4
      <4>2. QED
        BY <2>8, <3>2, <4>1
    <3>5. QED
      BY <3>3, <3>4
  <2>10. ASSUME NEW N \in Nat, Within(list, N), g.start + g.count <= N PROVE Within(result, N)
    <3>1. w.start + w.count <= N
      <4>1. last.start \in Nat /\ last.count \in Nat /\ last.start + last.count = g.start
        BY <1>5, <2>1 DEF Touching, last, Segment
      <4>2. g.start \in Nat /\ g.count \in Nat
        BY DEF Piece
      <4>3. QED
        BY <2>2, <2>10, <4>1, <4>2
    <3>2. SUFFICES ASSUME NEW i \in 1 .. n PROVE result[i].count # 0 => result[i].start + result[i].count <= N
      BY <2>8 DEF Within
    <3>3. i = n \/ i \in 1 .. n - 1
      BY <1>1
    <3>4. QED
      BY <2>8, <2>10, <3>1, <3>3 DEF Within
  <2>11. QED
    BY <1>5, <2>7, <2>8, <2>9, <2>10 DEF result
<1>6. QED
  BY <1>3, <1>4, <1>5

(* normalized() shows what it was given, leaves nothing to merge and no empty
   segment, and reaches no further into the source. *)
LEMMA NormalizedFacts ==
  ASSUME NEW s \in Seq(Piece)
  PROVE  /\ Normalized(s) \in Seq(Segment) /\ Canonical(Normalized(s))
         /\ Expand(Normalized(s)) = Expand(s) /\ Total(Normalized(s)) = Total(s)
         /\ \A N \in Nat : Within(s, N) => Within(Normalized(s), N)
<1> DEFINE n == Len(s)
           M(k) == Merged(s)[k]
           Good(k) == /\ Canonical(M(k)) /\ Expand(M(k)) = Shown(s)[k]
                      /\ \A N \in Nat : Within(s, N) => Within(M(k), N)
           S == {k \in 0 .. n : Good(k)}
<1>1. n \in Nat /\ \A k \in 1 .. n : s[k] \in Piece
  BY PieceFacts
<1>2. \A k \in 0 .. n : M(k) \in Seq(Segment)
  BY MergedDef
<1>3. 0 \in S
  <2>1. M(0) = <<>>
    BY MergedDef
  <2>2. <<>> \in Seq(Piece) /\ Len(<<>>) = 0
    OBVIOUS
  <2>3. Expand(<<>>) = <<>>
    BY <2>2, ShownDef DEF Expand
  <2>4. Shown(s)[0] = <<>>
    BY ShownDef
  <2>5. Canonical(<<>>) /\ \A N : Within(<<>>, N)
    BY <2>2 DEF Canonical, Within
  <2>6. QED
    BY <1>1, <2>1, <2>3, <2>4, <2>5
<1>4. ASSUME NEW k \in 0 .. n - 1, k \in S PROVE k + 1 \in S
  <2>1. k + 1 \in 1 .. n /\ (k + 1) - 1 = k /\ k \in 0 .. n /\ k + 1 \in 0 .. n
    BY <1>1
  <2>2. M(k + 1) = Joined(M(k), s[k + 1])
    BY <2>1, MergedDef
  <2>3. Shown(s)[k + 1] = Shown(s)[k] \o Frames(s[k + 1])
    BY <2>1, ShownDef
  <2>4. M(k) \in Seq(Segment) /\ Canonical(M(k)) /\ s[k + 1] \in Piece
    BY <1>1, <1>2, <1>4, <2>1
  <2> HIDE DEF M
  <2>5. /\ Expand(M(k + 1)) = Expand(M(k)) \o Frames(s[k + 1])
        /\ Canonical(M(k + 1))
        /\ \A N \in Nat : Within(M(k), N) /\ (s[k + 1].count # 0 => s[k + 1].start + s[k + 1].count <= N)
                            => Within(M(k + 1), N)
    BY <2>2, <2>4, JoinedFacts
  <2>6. \A N \in Nat : Within(s, N) => Within(M(k + 1), N)
    <3> SUFFICES ASSUME NEW N \in Nat, Within(s, N) PROVE Within(M(k + 1), N)
      OBVIOUS
    <3>1. Within(M(k), N)
      BY <1>4
    <3>2. s[k + 1].count # 0 => s[k + 1].start + s[k + 1].count <= N
      BY <2>1 DEF Within
    <3>3. QED
      BY <2>5, <3>1, <3>2
  <2>7. Expand(M(k + 1)) = Shown(s)[k + 1]
    BY <1>4, <2>3, <2>5
  <2>8. QED
    BY <2>1, <2>5, <2>6, <2>7
<1>5. \A k \in 0 .. n : k \in S
  <2> HIDE DEF S, n
  <2>1. QED
    BY <1>1, <1>3, <1>4, SetInduction
<1>6. n \in 0 .. n
  BY <1>1
<1>7. Good(n) /\ M(n) \in Seq(Segment)
  BY <1>2, <1>5, <1>6
<1>8. /\ Normalized(s) \in Seq(Segment) /\ Canonical(Normalized(s)) /\ Expand(Normalized(s)) = Expand(s)
      /\ \A N \in Nat : Within(s, N) => Within(Normalized(s), N)
  BY <1>7 DEF Normalized, Expand
<1>9. Total(Normalized(s)) = Total(s)
  <2>1. Normalized(s) \in Seq(Piece)
    BY <1>8, SegmentFacts
  <2>2. Len(Expand(Normalized(s))) = Total(Normalized(s)) /\ Len(Expand(s)) = Total(s)
    BY <2>1, ShownLen
  <2>3. QED
    BY <1>8, <2>2
<1>10. QED
  BY <1>8, <1>9

(* A list after another shows its frames after those of the other. *)
LEMMA ConcatLists ==
  ASSUME NEW a \in Seq(Piece), NEW b \in Seq(Piece)
  PROVE  a \o b \in Seq(Piece) /\ Expand(a \o b) = Expand(a) \o Expand(b)
<1> DEFINE c == a \o b
           m == Len(a)
           n == Len(b)
           x == Expand(a)
           S == {k \in 0 .. n : Shown(c)[m + k] = x \o Shown(b)[k]}
<1>1. /\ m \in Nat /\ n \in Nat /\ c \in Seq(Piece) /\ Len(c) = m + n
      /\ \A i \in 1 .. m : a[i] = c[i]
      /\ \A k \in 1 .. n : c[m + k] = b[k]
  <2>1. /\ c \in Seq(Piece) /\ Len(c) = m + n
        /\ \A i \in 1 .. m + n : c[i] = IF i <= m THEN a[i] ELSE b[i - m]
    BY ConcatProperties
  <2>2. m \in Nat /\ n \in Nat
    OBVIOUS
  <2> HIDE DEF c, m, n
  <2>3. ASSUME NEW k \in 1 .. n PROVE c[m + k] = b[k]
    <3>1. m + k \in 1 .. m + n /\ ~(m + k <= m) /\ (m + k) - m = k
      BY <2>2
    <3>2. QED
      BY <2>1, <3>1
  <2>4. \A i \in 1 .. m : a[i] = c[i]
    BY <2>1, <2>2
  <2>5. QED
    BY <2>1, <2>2, <2>3, <2>4
<1> HIDE DEF c
<1>2. x \in Seq(Item) /\ x = Shown(a)[m]
  BY ShownLen DEF Expand
<1>3. Shown(c)[m] = x
  <2>1. m \in 0 .. Len(a) /\ m <= Len(c) /\ m \in 0 .. m
    BY <1>1
  <2> HIDE DEF m
  <2>2. \A k \in 0 .. m : Shown(a)[k] = Shown(c)[k]
    BY <1>1, <2>1, Prefix
  <2>3. QED
    BY <1>2, <2>1, <2>2
<1> HIDE DEF x
<1>4. 0 \in S
  <2>1. Shown(b)[0] = <<>>
    BY ShownDef
  <2>2. x \o <<>> = x
    BY <1>2, ConcatEmptySeq
  <2> HIDE DEF m, n
  <2>3. m + 0 = m /\ 0 \in 0 .. n
    BY <1>1
  <2>4. Shown(c)[m + 0] = x \o Shown(b)[0]
    BY <1>3, <2>1, <2>2, <2>3
  <2>5. QED
    BY <2>3, <2>4
<1>5. ASSUME NEW k \in 0 .. n - 1, k \in S PROVE k + 1 \in S
  <2>1. /\ k + 1 \in 1 .. n /\ (k + 1) - 1 = k /\ k \in 0 .. n /\ k + 1 \in 0 .. n
        /\ m + (k + 1) \in 1 .. Len(c) /\ (m + (k + 1)) - 1 = m + k
    BY <1>1
  <2>2. Shown(c)[m + (k + 1)] = Shown(c)[m + k] \o Frames(b[k + 1])
    BY <1>1, <2>1, ShownDef
  <2>3. Shown(b)[k + 1] = Shown(b)[k] \o Frames(b[k + 1]) /\ Shown(b)[k] \in Seq(Item)
    BY <2>1, ShownDef
  <2>4. Frames(b[k + 1]) \in Seq(Item)
    BY <2>1, PieceFacts, FramesFacts
  <2> DEFINE y == Shown(b)[k]
             z == Frames(b[k + 1])
  <2>5. (x \o y) \o z = x \o (y \o z)
    <3>1. y \in Seq(Item) /\ z \in Seq(Item)
      BY <2>3, <2>4
    <3> HIDE DEF y, z
    <3>2. QED
      BY <1>2, <3>1, ConcatTwice
  <2>6. Shown(c)[m + k] = x \o y
    BY <1>5
  <2>7. Shown(c)[m + (k + 1)] = x \o Shown(b)[k + 1]
    BY <2>2, <2>3, <2>5, <2>6
  <2>8. QED
    BY <2>1, <2>7
<1>6. \A k \in 0 .. n : k \in S
  <2> HIDE DEF S, n
  <2>1. QED
    BY <1>1, <1>4, <1>5, SetInduction
<1>7. n \in 0 .. n
  BY <1>1
<1>8. Shown(c)[m + n] = x \o Shown(b)[n]
  BY <1>6, <1>7
<1>9. Expand(c) = x \o Expand(b)
  BY <1>1, <1>8 DEF Expand
<1>10. QED
  BY <1>1, <1>9 DEF c, x

(* The place of segment k. *)
Covers(s, k, f) == Offset(s, k) <= f /\ f < Offset(s, k) + s[k].count

(* Every frame of the edit is in a segment. *)
LEMMA Locate ==
  ASSUME NEW s \in Seq(Piece), NEW f \in Nat, f < Total(s)
  PROVE  \E k \in 1 .. Len(s) : Covers(s, k, f)
<1> DEFINE n == Len(s)
           S == {k \in 0 .. n : Offset(s, k + 1) <= f}
<1>1. n \in Nat
  BY PieceFacts
<1>2. SUFFICES ASSUME \A k \in 1 .. n : ~Covers(s, k, f) PROVE FALSE
  OBVIOUS
<1>3. 0 \in S
  BY <1>1, OffsetFacts
<1>4. \A k \in 0 .. n - 1 : k \in S => k + 1 \in S
  <2> SUFFICES ASSUME NEW k \in 0 .. n - 1, k \in S PROVE k + 1 \in S
    OBVIOUS
  <2>1. k + 1 \in 1 .. n /\ k + 1 \in 0 .. n /\ k + 1 \in 1 .. n + 1 /\ k + 1 + 1 \in 1 .. n + 1
    BY <1>1
  <2>2. Offset(s, k + 1) <= f /\ ~Covers(s, k + 1, f)
    BY <1>2, <2>1
  <2>3. Offset(s, k + 1 + 1) = Offset(s, k + 1) + s[k + 1].count
    BY <2>1, OffsetFacts
  <2>4. Offset(s, k + 1) \in Nat /\ Offset(s, k + 1 + 1) \in Nat
    BY <2>1, OffsetFacts
  <2>5. Offset(s, k + 1 + 1) <= f
    BY <2>2, <2>3, <2>4 DEF Covers
  <2>6. QED
    BY <2>1, <2>5
<1>5. n \in S
  <2> HIDE DEF S, n
  <2>1. \A k \in 0 .. n : k \in S
    BY <1>1, <1>3, <1>4, SetInduction
  <2>2. QED
    BY <1>1, <2>1
<1>6. Offset(s, n + 1) <= f
  BY <1>5
<1>7. Total(s) = Offset(s, n + 1) /\ Total(s) \in Nat
  BY OffsetFacts
<1>8. QED
  BY <1>6, <1>7

(* A frame is in one segment, behind those before it and before those after. *)
LEMMA OneSegment ==
  ASSUME NEW s \in Seq(Piece), NEW k \in 1 .. Len(s), NEW f \in Nat, Covers(s, k, f)
  PROVE  /\ \A j \in 1 .. Len(s) : j < k => Offset(s, j) + s[j].count <= Offset(s, k)
         /\ \A j \in 1 .. Len(s) : j > k => Offset(s, k) + s[k].count <= Offset(s, j)
         /\ \A j \in 1 .. Len(s) : Covers(s, j, f) => j = k
<1> DEFINE n == Len(s)
<1>1. n \in Nat /\ \A j \in 1 .. n : s[j].count \in Nat /\ Offset(s, j) \in Nat
  BY PieceFacts, OffsetFacts
<1>2. ASSUME NEW j \in 1 .. n, NEW i \in 1 .. n, j < i
      PROVE  Offset(s, j) + s[j].count <= Offset(s, i)
  <2>1. i \in 1 .. n + 1 /\ j + 1 \in 1 .. i
    BY <1>1, <1>2
  <2>2. Offset(s, j + 1) <= Offset(s, i)
    BY <2>1, OffsetFacts
  <2>3. Offset(s, j + 1) = Offset(s, j) + s[j].count
    BY OffsetFacts
  <2>4. QED
    BY <2>2, <2>3
<1>3. ASSUME NEW j \in 1 .. n, Covers(s, j, f) PROVE j = k
  <2>1. CASE j < k
    BY <1>1, <1>2, <1>3, <2>1 DEF Covers
  <2>2. CASE k < j
    BY <1>1, <1>2, <1>3, <2>2 DEF Covers
  <2>3. QED
    BY <1>1, <2>1, <2>2
<1>4. QED
  BY <1>2, <1>3

(* The smaller and the greater of two numbers, and of a set. *)
LEMMA MinOfTwo == \A a, b \in Int : Min({a, b}) = IF a <= b THEN a ELSE b
<1>1. SUFFICES ASSUME NEW a \in Int, NEW b \in Int PROVE Min({a, b}) = IF a <= b THEN a ELSE b
  OBVIOUS
<1> DEFINE m == IF a <= b THEN a ELSE b
<1>2. m \in {a, b} /\ \A y \in {a, b} : m <= y
  OBVIOUS
<1>3. \A x \in {a, b} : (\A y \in {a, b} : x <= y) => x = m
  OBVIOUS
<1> HIDE DEF m
<1>4. Min({a, b}) = m
  BY <1>2, <1>3 DEF Min
<1>5. QED
  BY <1>4 DEF m

LEMMA MaxOfTwo == \A a, b \in Int : Max({a, b}) = IF a >= b THEN a ELSE b
<1>1. SUFFICES ASSUME NEW a \in Int, NEW b \in Int PROVE Max({a, b}) = IF a >= b THEN a ELSE b
  OBVIOUS
<1> DEFINE m == IF a >= b THEN a ELSE b
<1>2. m \in {a, b} /\ \A y \in {a, b} : m >= y
  OBVIOUS
<1>3. \A x \in {a, b} : (\A y \in {a, b} : x >= y) => x = m
  OBVIOUS
<1> HIDE DEF m
<1>4. Max({a, b}) = m
  BY <1>2, <1>3 DEF Max
<1>5. QED
  BY <1>4 DEF m

(* The greatest number of a set is the one that bounds the others. *)
LEMMA MaxIs ==
  ASSUME NEW S \in SUBSET Int, NEW m \in S, \A y \in S : y <= m
  PROVE  Max(S) = m
<1>1. m \in S /\ \A y \in S : m >= y
  OBVIOUS
<1>2. \A x \in S : (\A y \in S : x >= y) => x = m
  OBVIOUS
<1>3. QED
  BY <1>1, <1>2 DEF Max

LEMMA MinIs ==
  ASSUME NEW S \in SUBSET Int, NEW m \in S, \A y \in S : m <= y
  PROVE  Min(S) = m
<1>1. \A x \in S : (\A y \in S : x <= y) => x = m
  OBVIOUS
<1>2. QED
  BY <1>1 DEF Min

-----------------------------------------------------------------------------
(* A merged list is the only one that shows its frames. *)

(* In a list that shows the same, a segment that begins at the same place is not
   longer: it would have to show the next one's first frame, with which the
   shorter one could have been merged. *)
LEMMA NotLonger ==
  ASSUME NEW s \in Seq(Segment), NEW t \in Seq(Segment), Canonical(s), Expand(s) = Expand(t),
         NEW k \in 1 .. Len(s), k <= Len(t), Offset(s, k) = Offset(t, k)
  PROVE  /\ s[k].start = t[k].start /\ s[k].masked = t[k].masked
         /\ t[k].count <= s[k].count
<1> DEFINE n == Len(s)
           g == s[k]
           h == t[k]
           o == Offset(s, k)
<1>1. /\ s \in Seq(Piece) /\ t \in Seq(Piece) /\ n \in Nat /\ k \in 1 .. n /\ k \in 1 .. Len(t)
      /\ g \in Segment /\ h \in Segment
  BY SegmentFacts
<1>2. /\ g.start \in Nat /\ g.count \in Nat \ {0} /\ g.masked \in BOOLEAN
      /\ h.start \in Nat /\ h.count \in Nat \ {0} /\ h.masked \in BOOLEAN
  BY <1>1 DEF Segment
<1>3. /\ \A j \in 1 .. g.count : Expand(s)[o + j] = [source |-> g.start + j - 1, masked |-> g.masked]
      /\ \A j \in 1 .. h.count : Expand(t)[o + j] = [source |-> h.start + j - 1, masked |-> h.masked]
      /\ \A j \in 1 .. h.count : o + j \in 1 .. Total(t)
  BY <1>1, ItemAt
<1>4. Total(s) = Total(t)
  <2>1. Len(Expand(s)) = Total(s) /\ Len(Expand(t)) = Total(t)
    BY <1>1, ShownLen
  <2>2. QED
    BY <2>1
<1>5. g.start = h.start /\ g.masked = h.masked
  <2>1. 1 \in 1 .. g.count /\ 1 \in 1 .. h.count
    BY <1>2
  <2>2. [source |-> g.start + 1 - 1, masked |-> g.masked] = [source |-> h.start + 1 - 1, masked |-> h.masked]
    BY <1>3, <2>1
  <2> HIDE DEF g, h, o
  <2>3. QED
    BY <1>2, <2>2
<1>6. ASSUME g.count < h.count PROVE FALSE
  <2> DEFINE j == g.count + 1
  <2>1. j \in 1 .. h.count /\ j - 1 = g.count
    BY <1>2, <1>6
  <2>2. o + j \in 1 .. Total(s) /\ Expand(s)[o + j] = [source |-> h.start + j - 1, masked |-> h.masked]
    BY <1>3, <1>4, <2>1
  <2>3. Offset(s, k + 1) = o + g.count /\ o \in Nat
    BY <1>1, OffsetFacts
  <2>4. k < n
    <3>1. CASE k = n
      <4>1. Total(s) = o + g.count
        BY <1>1, <2>3, <3>1, OffsetFacts
      <4>2. QED
        BY <1>2, <2>2, <2>3, <4>1
    <3>2. QED
      BY <1>1, <3>1
  <2>5. k + 1 \in 1 .. n /\ k \in 1 .. n - 1 /\ s[k + 1] \in Segment
    BY <1>1, <2>4
  <2>6. s[k + 1].start \in Nat /\ s[k + 1].count \in Nat \ {0} /\ 1 \in 1 .. s[k + 1].count
    <3>1. s[k + 1].start \in Nat /\ s[k + 1].count \in Nat \ {0}
      BY <2>5, SegmentFields
    <3>2. QED
      BY <3>1
  <2>7. Expand(s)[Offset(s, k + 1) + 1] = [source |-> s[k + 1].start + 1 - 1, masked |-> s[k + 1].masked]
    BY <1>1, <2>5, <2>6, ItemAt
  <2>8. Offset(s, k + 1) + 1 = o + j
    BY <1>2, <2>3
  <2>9. [source |-> s[k + 1].start + 1 - 1, masked |-> s[k + 1].masked] = [source |-> h.start + j - 1, masked |-> h.masked]
    BY <2>2, <2>7, <2>8
  <2>10. s[k + 1].start = g.start + g.count /\ s[k + 1].masked = g.masked
    <3> HIDE DEF g, h, o, j
    <3>1. s[k + 1].start + 1 - 1 = h.start + j - 1 /\ s[k + 1].masked = h.masked
      BY <2>9
    <3>2. QED
      BY <1>2, <1>5, <2>1, <2>6, <3>1
  <2>11. ~Touching(s[k], s[k + 1])
    BY <2>5 DEF Canonical
  <2>12. QED
    BY <2>10, <2>11 DEF Touching
<1>7. QED
  BY <1>2, <1>5, <1>6

(* Segment by segment, one merged list begins with another that shows the same. *)
LEMMA SameSoFar ==
  ASSUME NEW s \in Seq(Segment), NEW t \in Seq(Segment), Canonical(s), Canonical(t),
         Expand(s) = Expand(t)
  PROVE  Len(s) <= Len(t) /\ \A i \in 1 .. Len(s) : s[i] = t[i]
<1> DEFINE n == Len(s)
           S == {k \in 0 .. n : k <= Len(t) /\ \A i \in 1 .. k : s[i] = t[i]}
<1>1. /\ s \in Seq(Piece) /\ t \in Seq(Piece) /\ n \in Nat /\ Len(t) \in Nat
      /\ \A i \in 1 .. n : s[i] \in Segment
      /\ \A i \in 1 .. Len(t) : t[i] \in Segment
  BY SegmentFacts
<1>2. 0 \in S
  BY <1>1
<1>3. ASSUME NEW k \in 0 .. n - 1, k \in S PROVE k + 1 \in S
  <2>1. k + 1 \in 1 .. n /\ (k + 1) - 1 = k /\ k \in 0 .. n /\ k + 1 \in 0 .. n /\ k \in 0 .. k
    BY <1>1
  <2>2. k <= Len(t) /\ \A i \in 1 .. k : s[i] = t[i]
    BY <1>3
  <2>3. Ends(s)[k] = Ends(t)[k]
    BY <1>1, <2>1, <2>2, Prefix
  <2>4. Offset(s, k + 1) = Ends(s)[k] /\ Offset(t, k + 1) = Ends(t)[k]
    BY <2>1 DEF Offset
  <2>5. s[k + 1] \in Segment /\ s[k + 1].count \in Nat \ {0}
    BY <1>1, <2>1 DEF Segment
  <2>6. k + 1 <= Len(t)
    <3>1. SUFFICES ASSUME k = Len(t) PROVE FALSE
      BY <1>1, <2>1, <2>2
    <3>2. Total(t) = Ends(t)[k]
      BY <3>1 DEF Total
    <3>3. Total(s) = Total(t)
      <4>1. Len(Expand(s)) = Total(s) /\ Len(Expand(t)) = Total(t)
        BY <1>1, ShownLen
      <4>2. QED
        BY <4>1
    <3>4. 1 \in 1 .. s[k + 1].count
      BY <2>5
    <3>5. Offset(s, k + 1) + 1 \in 1 .. Total(s)
      BY <1>1, <2>1, <3>4, ItemAt
    <3>6. Ends(s)[k] \in Nat
      BY <1>1, <2>1, EndsDef
    <3>7. QED
      BY <2>3, <2>4, <3>2, <3>3, <3>5, <3>6
  <2>7. /\ s[k + 1].start = t[k + 1].start /\ s[k + 1].masked = t[k + 1].masked
        /\ t[k + 1].count <= s[k + 1].count
    BY <2>1, <2>3, <2>4, <2>6, NotLonger
  <2>8. k + 1 \in 1 .. Len(t) /\ k + 1 <= n
    BY <1>1, <2>1, <2>6
  <2>9. s[k + 1].count <= t[k + 1].count
    BY <1>1, <2>3, <2>4, <2>8, NotLonger
  <2>10. t[k + 1] \in Segment
    BY <1>1, <2>8
  <2>11. s[k + 1] = t[k + 1]
    <3>1. s[k + 1].count \in Nat /\ t[k + 1].count \in Nat
      BY <2>5, <2>10, SegmentFields
    <3>2. s[k + 1].count = t[k + 1].count
      BY <2>7, <2>9, <3>1
    <3>3. QED
      BY <2>5, <2>7, <2>10, <3>2, SegmentFields
  <2>12. \A i \in 1 .. k + 1 : i \in 1 .. k \/ i = k + 1
    BY <2>1
  <2>13. QED
    BY <2>1, <2>2, <2>6, <2>11, <2>12
<1>4. \A k \in 0 .. n : k \in S
  <2> HIDE DEF S, n
  <2>1. QED
    BY <1>1, <1>2, <1>3, SetInduction
<1>5. n \in 0 .. n
  BY <1>1
<1>6. QED
  BY <1>4, <1>5

(* So two merged lists of the same frames are the same list. *)
LEMMA Unique ==
  ASSUME NEW s \in Seq(Segment), NEW t \in Seq(Segment), Canonical(s), Canonical(t),
         Expand(s) = Expand(t)
  PROVE  s = t
<1>1. Len(s) <= Len(t) /\ \A i \in 1 .. Len(s) : s[i] = t[i]
  BY SameSoFar
<1>2. Len(t) <= Len(s)
  BY SameSoFar
<1>3. Len(s) \in Nat /\ Len(t) \in Nat
  BY SegmentFacts
<1>4. Len(s) = Len(t)
  BY <1>1, <1>2, <1>3
<1>5. QED
  BY <1>1, <1>4, SeqEqual

(* normalized() leaves a list alone if and only if nothing in it can be merged. *)
LEMMA NormalizedFixed ==
  ASSUME NEW s \in Seq(Segment)
  PROVE  Normalized(s) = s <=> Canonical(s)
<1>1. s \in Seq(Piece)
  BY SegmentFacts
<1>2. Normalized(s) \in Seq(Segment) /\ Canonical(Normalized(s)) /\ Expand(Normalized(s)) = Expand(s)
  BY <1>1, NormalizedFacts
<1>3. ASSUME Canonical(s) PROVE Normalized(s) = s
  BY <1>2, <1>3, Unique
<1>4. QED
  BY <1>2, <1>3

-----------------------------------------------------------------------------
(* Slices. *)
Lower(a, b) == IF a <= b THEN a ELSE b
Positive(a) == IF a >= 0 THEN a ELSE 0

(* What places b .. e-1 of some frames are, as far as there are any. *)
Cut(x, b, e) == SubSeq(x, Lower(b, Len(x)) + 1, Lower(e, Len(x)))

LEMMA CutFacts ==
  ASSUME NEW x \in Seq(Item), NEW b \in Nat, NEW e \in Nat, b <= e
  PROVE  /\ Cut(x, b, e) \in Seq(Item)
         /\ Len(Cut(x, b, e)) = Lower(e, Len(x)) - Lower(b, Len(x))
         /\ Lower(e, Len(x)) \in Nat /\ Lower(b, Len(x)) \in Nat
         /\ Lower(b, Len(x)) <= Lower(e, Len(x)) /\ Lower(e, Len(x)) <= Len(x)
         /\ \A q \in 1 .. Lower(e, Len(x)) - Lower(b, Len(x)) : Cut(x, b, e)[q] = x[Lower(b, Len(x)) + q]
<1> DEFINE n == Len(x)
           lo == Lower(b, n)
           hi == Lower(e, n)
<1>1. n \in Nat /\ \A i \in 1 .. n : x[i] \in Item
  OBVIOUS
<1>2. lo \in Nat /\ hi \in Nat /\ lo <= hi /\ hi <= n
  BY <1>1 DEF Lower
<1>3. Cut(x, b, e) = SubSeq(x, lo + 1, hi)
  BY DEF Cut
<1> HIDE DEF n, lo, hi
<1>4. lo + 1 \in Int /\ hi \in Int /\ \A i \in lo + 1 .. hi : x[i] \in Item
  BY <1>1, <1>2
<1> DEFINE c == SubSeq(x, lo + 1, hi)
<1>5. /\ c \in Seq(Item) /\ Len(c) = IF lo + 1 <= hi THEN hi - (lo + 1) + 1 ELSE 0
      /\ \A i \in 1 .. hi - (lo + 1) + 1 : c[i] = x[(lo + 1) + i - 1]
  BY <1>4, SubSeqProperties
<1> HIDE DEF c
<1>6. Len(c) = hi - lo /\ hi - (lo + 1) + 1 = hi - lo
  BY <1>2, <1>5
<1>7. \A i \in 1 .. hi - lo : (lo + 1) + i - 1 = lo + i
  BY <1>2
<1>8. \A q \in 1 .. hi - lo : c[q] = x[lo + q]
  BY <1>5, <1>6, <1>7
<1>9. QED
  BY <1>2, <1>3, <1>5, <1>6, <1>8 DEF c, lo, hi, n

(* To cut two lists of frames, one after the other, is to cut each of them. *)
LEMMA CutConcat ==
  ASSUME NEW x \in Seq(Item), NEW y \in Seq(Item), NEW b \in Nat, NEW e \in Nat, b <= e
  PROVE  Cut(x \o y, b, e) =
           Cut(x, b, e) \o Cut(y, Positive(b - Len(x)), Positive(e - Len(x)))
<1> DEFINE m == Len(x)
           n == Len(y)
           w == x \o y
           b2 == Positive(b - m)
           e2 == Positive(e - m)
           lo == Lower(b, m + n)
           hi == Lower(e, m + n)
           lo1 == Lower(b, m)
           hi1 == Lower(e, m)
           lo2 == Lower(b2, n)
           hi2 == Lower(e2, n)
<1>1. /\ w \in Seq(Item) /\ Len(w) = m + n /\ m \in Nat /\ n \in Nat
      /\ \A q \in 1 .. m + n : w[q] = IF q <= m THEN x[q] ELSE y[q - m]
  BY Concat
<1> HIDE DEF m, n, w
<1>2. b2 \in Nat /\ e2 \in Nat /\ b2 <= e2
  BY <1>1 DEF Positive
<1>3. /\ lo = lo1 + lo2 /\ hi = hi1 + hi2 /\ lo <= hi /\ hi <= m + n
      /\ lo1 \in Nat /\ lo2 \in Nat /\ hi1 \in Nat /\ hi2 \in Nat
      /\ lo1 <= hi1 /\ hi1 <= m /\ lo2 <= hi2 /\ hi2 <= n
      /\ (lo1 < hi1 => lo2 = 0) /\ (lo2 < hi2 => hi1 = m)
  BY <1>1 DEF Positive, Lower
<1> DEFINE u == Cut(x, b, e)
           v == Cut(y, b2, e2)
           r == Cut(w, b, e)
<1>4. /\ u \in Seq(Item) /\ Len(u) = hi1 - lo1
      /\ \A q \in 1 .. hi1 - lo1 : u[q] = x[lo1 + q]
  BY CutFacts DEF m
<1> HIDE DEF b2, e2
<1>5. /\ v \in Seq(Item) /\ Len(v) = hi2 - lo2
      /\ \A q \in 1 .. hi2 - lo2 : v[q] = y[lo2 + q]
  BY <1>2, CutFacts DEF n
<1>6. /\ r \in Seq(Item) /\ Len(r) = hi - lo
      /\ \A q \in 1 .. hi - lo : r[q] = w[lo + q]
  <2>1. /\ r \in Seq(Item) /\ Len(r) = Lower(e, Len(w)) - Lower(b, Len(w))
        /\ \A q \in 1 .. Lower(e, Len(w)) - Lower(b, Len(w)) : r[q] = w[Lower(b, Len(w)) + q]
    BY <1>1, CutFacts
  <2>2. Len(w) = m + n
    BY <1>1
  <2> HIDE DEF r
  <2>3. QED
    BY <2>1, <2>2
<1> HIDE DEF lo, hi, lo1, hi1, lo2, hi2, u, v, r
<1>7. /\ u \o v \in Seq(Item) /\ Len(u \o v) = hi - lo
      /\ \A q \in 1 .. hi - lo : (u \o v)[q] = IF q <= hi1 - lo1 THEN u[q] ELSE v[q - (hi1 - lo1)]
  <2>1. /\ u \o v \in Seq(Item) /\ Len(u \o v) = Len(u) + Len(v)
        /\ \A q \in 1 .. Len(u) + Len(v) : (u \o v)[q] = IF q <= Len(u) THEN u[q] ELSE v[q - Len(u)]
    BY <1>4, <1>5, Concat
  <2>2. Len(u) + Len(v) = hi - lo
    BY <1>3, <1>4, <1>5
  <2>3. QED
    BY <1>4, <2>1, <2>2
<1>8. ASSUME NEW q \in 1 .. hi - lo PROVE r[q] = (u \o v)[q]
  <2>1. r[q] = w[lo + q] /\ lo + q \in 1 .. m + n
    <3>1. lo + q \in 1 .. m + n
      BY <1>1, <1>3
    <3>2. QED
      BY <1>6, <3>1
  <2>2. CASE q <= hi1 - lo1
    <3>1. q \in 1 .. hi1 - lo1 /\ lo + q = lo1 + q /\ lo1 + q <= m
      BY <1>1, <1>3, <2>2
    <3>2. r[q] = x[lo1 + q]
      BY <1>1, <2>1, <3>1
    <3>3. (u \o v)[q] = x[lo1 + q]
      BY <1>4, <1>7, <2>2, <3>1
    <3>4. QED
      BY <3>2, <3>3
  <2>3. CASE ~(q <= hi1 - lo1)
    <3>1. q - (hi1 - lo1) \in 1 .. hi2 - lo2
      BY <1>3, <2>3
    <3>2. ~(lo + q <= m) /\ (lo + q) - m = lo2 + (q - (hi1 - lo1))
      BY <1>1, <1>3, <2>3, <3>1
    <3>3. \A j \in 1 .. m + n : ~(j <= m) => w[j] = y[j - m]
      BY <1>1
    <3>4. r[q] = y[(lo + q) - m]
      <4> DEFINE j == lo + q
      <4>1. j \in 1 .. m + n /\ ~(j <= m) /\ r[q] = w[j]
        BY <2>1, <3>2
      <4> HIDE DEF j
      <4>2. r[q] = y[j - m]
        BY <3>3, <4>1
      <4>3. QED
        BY <4>2 DEF j
    <3>5. (u \o v)[q] = y[lo2 + (q - (hi1 - lo1))]
      BY <1>5, <1>7, <2>3, <3>1
    <3>6. QED
      BY <3>2, <3>4, <3>5
  <2>4. QED
    BY <2>2, <2>3
<1>9. r = u \o v
  BY <1>6, <1>7, <1>8, SeqEqual
<1>10. QED
  BY <1>9 DEF r, u, v, w, b2, e2, m

(* The part of a segment that lies in places b .. e-1 shows those of its frames. *)
LEMMA PartFacts ==
  ASSUME NEW s \in Seq(Piece), NEW b \in Nat, NEW e \in Nat, b <= e, NEW i \in 1 .. Len(s)
  PROVE  /\ Part(s, b, e, i) \in Piece
         /\ Frames(Part(s, b, e, i)) =
              Cut(Frames(s[i]), Positive(b - Offset(s, i)), Positive(e - Offset(s, i)))
<1> DEFINE g == s[i]
           o == Offset(s, i)
           n == g.count
           b2 == Positive(b - o)
           e2 == Positive(e - o)
           from == Max({b - o, 0})
           to == Min({e - o, n})
           p == [g EXCEPT !.start = @ + from, !.count = Max({to - from, 0})]
<1>1. /\ g \in Piece /\ g.start \in Nat /\ g.count \in Nat /\ g.masked \in BOOLEAN
      /\ i \in 1 .. Len(s) + 1
  BY PieceFacts
<1>2. o \in Nat
  BY <1>1, OffsetFacts
<1>3. Part(s, b, e, i) = p
  BY DEF Part
<1> HIDE DEF g, o
<1>4. b - o \in Int /\ e - o \in Int /\ n \in Int /\ 0 \in Int
  BY <1>1, <1>2
<1>5. from = b2
  <2>1. from = IF b - o >= 0 THEN b - o ELSE 0
    BY <1>4, MaxOfTwo
  <2>2. QED
    BY <2>1 DEF Positive
<1>6. to = Lower(e - o, n)
  <2>1. to = IF e - o <= n THEN e - o ELSE n
    BY <1>4, MinOfTwo
  <2>2. QED
    BY <2>1 DEF Lower
<1>7. Max({to - from, 0}) = Positive(to - from)
  <2>1. to - from \in Int
    BY <1>1, <1>2, <1>5, <1>6 DEF Lower, Positive
  <2> HIDE DEF to, from
  <2>2. Max({to - from, 0}) = IF to - from >= 0 THEN to - from ELSE 0
    BY <1>4, <2>1, MaxOfTwo
  <2>3. QED
    BY <2>2 DEF Positive
<1> HIDE DEF from, to
<1>8. b2 \in Nat /\ e2 \in Nat /\ b2 <= e2
  BY <1>2 DEF Positive
<1>9. Positive(to - from) = Lower(e2, n) - Lower(b2, n)
  BY <1>1, <1>2, <1>5, <1>6 DEF Lower, Positive
<1>10. /\ Lower(b2, n) \in Nat /\ Lower(e2, n) \in Nat /\ Lower(b2, n) <= Lower(e2, n)
       /\ Lower(e2, n) <= n
       /\ Lower(b2, n) < Lower(e2, n) => Lower(b2, n) = from
  BY <1>1, <1>5, <1>8 DEF Lower
<1> HIDE DEF b2, e2
<1>11. /\ p.start = g.start + from /\ p.count = Lower(e2, n) - Lower(b2, n) /\ p.masked = g.masked
       /\ p \in Piece
  <2>1. g.start + from \in Nat /\ Lower(e2, n) - Lower(b2, n) \in Nat
    BY <1>1, <1>5, <1>8, <1>10
  <2>2. QED
    BY <1>1, <1>7, <1>9, <2>1 DEF Piece
<1> HIDE DEF p
<1> DEFINE x == Frames(g)
           f == Frames(p)
           c == Cut(x, b2, e2)
<1>12. /\ f \in Seq(Item) /\ Len(f) = p.count
       /\ \A k \in 1 .. p.count : f[k] = [source |-> p.start + k - 1, masked |-> p.masked]
  BY <1>11, FramesFacts
<1>13. /\ x \in Seq(Item) /\ Len(x) = n
       /\ \A k \in 1 .. n : x[k] = [source |-> g.start + k - 1, masked |-> g.masked]
  BY <1>1, FramesFacts
<1> HIDE DEF x, f
<1>14. /\ c \in Seq(Item) /\ Len(c) = Lower(e2, n) - Lower(b2, n)
       /\ \A q \in 1 .. Lower(e2, n) - Lower(b2, n) : c[q] = x[Lower(b2, n) + q]
  <2>1. /\ c \in Seq(Item) /\ Len(c) = Lower(e2, Len(x)) - Lower(b2, Len(x))
        /\ \A q \in 1 .. Lower(e2, Len(x)) - Lower(b2, Len(x)) : c[q] = x[Lower(b2, Len(x)) + q]
    BY <1>8, <1>13, CutFacts
  <2>2. QED
    BY <1>13, <2>1
<1> HIDE DEF c, n
<1>15. ASSUME NEW k \in 1 .. p.count PROVE f[k] = c[k]
  <2>1. k \in 1 .. Lower(e2, n) - Lower(b2, n) /\ Lower(b2, n) = from
    BY <1>10, <1>11
  <2>2. Lower(b2, n) + k \in 1 .. n
    BY <1>1, <1>10, <2>1 DEF n
  <2>3. c[k] = [source |-> g.start + (Lower(b2, n) + k) - 1, masked |-> g.masked]
    BY <1>13, <1>14, <2>1, <2>2
  <2>4. f[k] = [source |-> (g.start + from) + k - 1, masked |-> g.masked]
    BY <1>11, <1>12
  <2>5. g.start + (Lower(b2, n) + k) - 1 = (g.start + from) + k - 1
    BY <1>1, <1>10, <2>1
  <2>6. QED
    BY <2>3, <2>4, <2>5
<1>16. f = c
  BY <1>11, <1>12, <1>14, <1>15, SeqEqual
<1>17. QED
  BY <1>3, <1>11, <1>16 DEF f, c, x, p, b2, e2, g, o

(* slice() shows the frames of its places, merged. *)
LEMMA SliceFacts ==
  ASSUME NEW s \in Seq(Piece), NEW b \in Nat, NEW e \in Nat, b <= e, e <= Total(s)
  PROVE  /\ Slice(s, b, e) \in Seq(Segment) /\ Canonical(Slice(s, b, e))
         /\ Expand(Slice(s, b, e)) = SubSeq(Expand(s), b + 1, e)
<1> DEFINE n == Len(s)
           parts == [i \in DOMAIN s |-> Part(s, b, e, i)]
           S == {k \in 0 .. n : Shown(parts)[k] = Cut(Shown(s)[k], b, e)}
<1>1. n \in Nat /\ DOMAIN s = 1 .. n /\ \A i \in 1 .. n : s[i] \in Piece
  BY PieceFacts
<1>2. parts \in Seq(Piece) /\ Len(parts) = n /\ \A i \in 1 .. n : parts[i] = Part(s, b, e, i)
  <2>1. \A i \in 1 .. n : Part(s, b, e, i) \in Piece
    BY PartFacts
  <2>2. QED
    BY <1>1, <2>1
<1> HIDE DEF parts
<1>3. 0 \in S
  <2>1. Shown(s)[0] = <<>>
    BY ShownDef
  <2>2. Shown(parts)[0] = <<>>
    BY <1>2, ShownDef
  <2>3. Cut(<<>>, b, e) = <<>>
    <3>1. <<>> \in Seq(Item) /\ Len(<<>>) = 0
      OBVIOUS
    <3> DEFINE z == <<>>
    <3> HIDE DEF z
    <3>2. z \in Seq(Item) /\ Len(z) = 0
      BY <3>1 DEF z
    <3>3. /\ Cut(z, b, e) \in Seq(Item)
          /\ Len(Cut(z, b, e)) = Lower(e, Len(z)) - Lower(b, Len(z))
      BY <3>2, CutFacts
    <3>4. Len(Cut(z, b, e)) = 0
      BY <3>2, <3>3 DEF Lower
    <3>5. Cut(z, b, e) = <<>>
      BY <3>3, <3>4, EmptySeq
    <3>6. QED
      BY <3>5 DEF z
  <2>4. QED
    BY <1>1, <2>1, <2>2, <2>3
<1>4. ASSUME NEW k \in 0 .. n - 1, k \in S PROVE k + 1 \in S
  <2>1. k + 1 \in 1 .. n /\ (k + 1) - 1 = k /\ k \in 0 .. n /\ k + 1 \in 0 .. n
    BY <1>1
  <2> DEFINE x == Shown(s)[k]
             y == Frames(s[k + 1])
             o == Offset(s, k + 1)
  <2>2. Shown(s)[k + 1] = x \o y /\ x \in Seq(Item)
    BY <2>1, ShownDef
  <2>3. Shown(parts)[k + 1] = Shown(parts)[k] \o Frames(parts[k + 1])
    BY <1>2, <2>1, ShownDef
  <2>4. y \in Seq(Item)
    BY <1>1, <2>1, FramesFacts
  <2>5. Len(x) = o
    BY <2>1, ShownLen DEF Offset
  <2>6. Frames(parts[k + 1]) = Cut(y, Positive(b - o), Positive(e - o))
    BY <1>2, <2>1, PartFacts
  <2> HIDE DEF y, o
  <2>7. Shown(parts)[k] = Cut(x, b, e)
    BY <1>4
  <2> HIDE DEF x
  <2>8. Cut(x \o y, b, e) = Cut(x, b, e) \o Cut(y, Positive(b - Len(x)), Positive(e - Len(x)))
    BY <2>2, <2>4, CutConcat
  <2>9. Shown(parts)[k + 1] = Cut(Shown(s)[k + 1], b, e)
    BY <2>2, <2>3, <2>5, <2>6, <2>7, <2>8
  <2>10. QED
    BY <2>1, <2>9
<1>5. \A k \in 0 .. n : k \in S
  <2> HIDE DEF S, n
  <2>1. QED
    BY <1>1, <1>3, <1>4, SetInduction
<1>6. n \in 0 .. n
  BY <1>1
<1>7. Expand(parts) = Cut(Expand(s), b, e)
  BY <1>2, <1>5, <1>6 DEF Expand
<1>8. Cut(Expand(s), b, e) = SubSeq(Expand(s), b + 1, e)
  <2>1. Len(Expand(s)) = Total(s) /\ Total(s) \in Nat
    BY ShownLen, OffsetFacts
  <2>2. Lower(b, Total(s)) = b /\ Lower(e, Total(s)) = e
    BY <2>1 DEF Lower
  <2>3. QED
    BY <2>1, <2>2 DEF Cut
<1>9. Slice(s, b, e) = Normalized(parts)
  BY DEF Slice, parts
<1>10. QED
  BY <1>2, <1>7, <1>8, <1>9, NormalizedFacts

-----------------------------------------------------------------------------
(* The invariant. *)
States == [segments : Seq(Segment), identity : BOOLEAN]

(* validateSegments(), of a source of n frames that is verified or not. *)
Fits(s, n, verified) == (verified => Within(s, n)) /\ Total(s) <= FrameLimit

(* A list is merged, and an edited one is valid.  Besides, only an empty list is
   edited while the length is not verified: everything that is valid then stays
   so whatever the length turns out to be. *)
Fine(state, n, verified) ==
  /\ Canonical(state.segments)
  /\ state.identity \/ Fits(state.segments, n, verified)
  /\ verified \/ state.identity \/ state.segments = <<>>

AllFine(history, n, verified) == \A i \in DOMAIN history : Fine(history[i], n, verified)

(* The inductive invariant. *)
IInv ==
  /\ TypeOK
  /\ identity => segments = WholeSource(count)
  /\ Fine(State, count, exact)
  /\ AllFine(undo, count, exact) /\ AllFine(redo, count, exact)

(* What the assumption says of the constants. *)
LEMMA Constants ==
  /\ Length \in Nat /\ Length > 0 /\ Extended \in Nat /\ Length < Extended
  /\ MaxHistory \in Nat /\ MaxHistory > 0 /\ FrameLimit \in Nat
  /\ \A n \in Estimates : n \in Nat
  /\ \A s \in Clips : s \in Seq(Piece)
  /\ \A s \in Loads : s \in Seq(Piece)
<1>1. \A s \in Clips : s \in Seq(Piece)
  BY TimelineAssumption, SegmentFacts
<1>2. QED
  BY <1>1, TimelineAssumption DEF Piece

(* The empty list, and the list of a whole source. *)
LEMMA EmptyFacts ==
  /\ <<>> \in Seq(Piece) /\ <<>> \in Seq(Segment) /\ Len(<<>>) = 0
  /\ Total(<<>>) = 0 /\ Canonical(<<>>) /\ Expand(<<>>) = <<>>
  /\ \A n \in Nat, verified \in BOOLEAN : Fits(<<>>, n, verified)
<1>1. <<>> \in Seq(Piece) /\ <<>> \in Seq(Segment) /\ Len(<<>>) = 0
  OBVIOUS
<1>2. Ends(<<>>)[0] = 0
  BY <1>1, EndsDef
<1>3. Shown(<<>>)[0] = <<>>
  BY <1>1, ShownDef
<1>4. Total(<<>>) = 0 /\ Expand(<<>>) = <<>>
  BY <1>1, <1>2, <1>3 DEF Total, Expand
<1>5. Canonical(<<>>) /\ \A n : Within(<<>>, n)
  BY <1>1 DEF Canonical, Within
<1>6. QED
  BY <1>1, <1>4, <1>5, Constants DEF Fits

(* The whole source is one segment, or none. *)
LEMMA WholeFacts ==
  ASSUME NEW n \in Nat
  PROVE  /\ WholeSource(n) \in Seq(Segment) /\ Canonical(WholeSource(n))
         /\ Normalized(WholeSource(n)) = WholeSource(n)
         /\ Expand(WholeSource(n)) = [k \in 1 .. n |-> [source |-> k - 1, masked |-> FALSE]]
         /\ Total(WholeSource(n)) = n
<1> DEFINE g == [start |-> 0, count |-> n, masked |-> FALSE]
           items == [k \in 1 .. n |-> [source |-> k - 1, masked |-> FALSE]]
<1>1. CASE n = 0
  <2>1. WholeSource(n) = <<>>
    BY <1>1 DEF WholeSource
  <2>2. items = <<>>
    BY <1>1
  <2>3. Normalized(<<>>) = <<>>
    BY EmptyFacts, NormalizedFixed
  <2>4. QED
    BY <1>1, <2>1, <2>2, <2>3, EmptyFacts
<1>2. CASE n > 0
  <2>1. WholeSource(n) = Append(<<>>, g)
    <3>1. WholeSource(n) = <<g>>
      BY <1>2 DEF WholeSource
    <3>2. \A c : <<c>> = Append(<<>>, c)
      OBVIOUS
    <3>3. QED
      BY <3>1, <3>2
  <2>2. g \in Segment /\ g \in Piece /\ g.count = n
    BY <1>2 DEF Segment, Piece
  <2> HIDE DEF g
  <2>3. /\ Append(<<>>, g) \in Seq(Segment) /\ Len(Append(<<>>, g)) = 1
    BY <2>2
  <2>4. Canonical(Append(<<>>, g))
    BY <2>3 DEF Canonical
  <2>5. Expand(Append(<<>>, g)) = <<>> \o Frames(g) /\ Total(Append(<<>>, g)) = n
    <3> DEFINE z == <<>>
    <3>1. z \in Seq(Piece) /\ Total(z) = 0 /\ Expand(z) = <<>>
      BY EmptyFacts
    <3> HIDE DEF z
    <3>2. Expand(Append(z, g)) = Expand(z) \o Frames(g) /\ Total(Append(z, g)) = Total(z) + g.count
      BY <2>2, <3>1, OneMore
    <3>3. Expand(Append(z, g)) = <<>> \o Frames(g) /\ Total(Append(z, g)) = n
      BY <2>2, <3>1, <3>2
    <3>4. QED
      BY <3>3 DEF z
  <2>6. Frames(g) \in Seq(Item)
    BY <2>2, FramesFacts
  <2>7. <<>> \o Frames(g) = Frames(g)
    BY <2>6, ConcatEmptySeq
  <2>8. Frames(g) = items
    <3>1. g.start = 0 /\ g.count = n /\ g.masked = FALSE
      BY DEF g
    <3>2. \A k \in 1 .. n : 0 + k - 1 = k - 1
      OBVIOUS
    <3>3. QED
      BY <3>1, <3>2 DEF Frames
  <2>9. Normalized(Append(<<>>, g)) = Append(<<>>, g)
    BY <2>3, <2>4, NormalizedFixed
  <2>10. QED
    BY <2>1, <2>3, <2>4, <2>5, <2>7, <2>8, <2>9
<1>3. QED
  BY <1>1, <1>2

(* The history, one entry longer or shorter. *)
LEMMA Pushed ==
  ASSUME NEW h \in Seq(States), NEW c \in States
  PROVE  /\ Append(h, c) \in Seq(States) /\ Len(Append(h, c)) = Len(h) + 1
         /\ \A n, verified : AllFine(h, n, verified) /\ Fine(c, n, verified)
                               => AllFine(Append(h, c), n, verified)
<1> DEFINE l == Append(h, c)
           m == Len(h)
<1>1. /\ l \in Seq(States) /\ Len(l) = m + 1 /\ m \in Nat
      /\ DOMAIN l = 1 .. m + 1 /\ DOMAIN h = 1 .. m
      /\ l[m + 1] = c /\ \A i \in 1 .. m : l[i] = h[i]
  OBVIOUS
<1> HIDE DEF l, m
<1>2. \A i \in 1 .. m + 1 : i \in 1 .. m \/ i = m + 1
  BY <1>1
<1>3. ASSUME NEW n, NEW verified, AllFine(h, n, verified), Fine(c, n, verified)
      PROVE  AllFine(l, n, verified)
  BY <1>1, <1>2, <1>3 DEF AllFine
<1>4. QED
  BY <1>1, <1>3 DEF l, m

(* A history is as good without its oldest entry, or its youngest. *)
LEMMA Forgotten ==
  ASSUME NEW h \in Seq(States), h # <<>>
  PROVE  /\ Tail(h) \in Seq(States) /\ Len(Tail(h)) = Len(h) - 1
         /\ \A n, verified : AllFine(h, n, verified) => AllFine(Tail(h), n, verified)
<1>1. /\ Tail(h) \in Seq(States) /\ Len(Tail(h)) = Len(h) - 1
      /\ \A i \in 1 .. Len(Tail(h)) : Tail(h)[i] = h[i + 1]
  BY HeadTailProperties
<1>2. DOMAIN h = 1 .. Len(h) /\ DOMAIN Tail(h) = 1 .. Len(Tail(h)) /\ Len(h) \in Nat
  BY <1>1
<1>3. \A i \in 1 .. Len(Tail(h)) : i + 1 \in 1 .. Len(h)
  BY <1>1, <1>2
<1>4. QED
  BY <1>1, <1>2, <1>3 DEF AllFine

LEMMA Popped ==
  ASSUME NEW h \in Seq(States), h # <<>>
  PROVE  /\ Front(h) \in Seq(States) /\ Len(Front(h)) = Len(h) - 1
         /\ \A i \in 1 .. Len(h) - 1 : Front(h)[i] = h[i]
         /\ Last(h) \in States /\ Len(h) \in Nat \ {0} /\ Last(h) = h[Len(h)]
         /\ \A n, verified : AllFine(h, n, verified) =>
              AllFine(Front(h), n, verified) /\ Fine(Last(h), n, verified)
<1> DEFINE m == Len(h)
<1>1. m \in Nat \ {0} /\ DOMAIN h = 1 .. m /\ \A i \in 1 .. m : h[i] \in States
  BY EmptySeq, LenProperties
<1> HIDE DEF m
<1>2. Front(h) = SubSeq(h, 1, m - 1) /\ Last(h) = h[m]
  BY DEF Front, Last, m
<1>3. 1 \in Int /\ m - 1 \in Int /\ \A i \in 1 .. m - 1 : h[i] \in States
  BY <1>1
<1>4. /\ Front(h) \in Seq(States) /\ Len(Front(h)) = IF 1 <= m - 1 THEN (m - 1) - 1 + 1 ELSE 0
      /\ \A i \in 1 .. (m - 1) - 1 + 1 : Front(h)[i] = h[1 + i - 1]
  BY <1>2, <1>3, SubSeqProperties
<1>5. (m - 1) - 1 + 1 = m - 1 /\ Len(Front(h)) = m - 1
  BY <1>1, <1>4
<1>6. \A i \in 1 .. m - 1 : 1 + i - 1 = i /\ i \in 1 .. m
  BY <1>1
<1>7. \A i \in 1 .. m - 1 : Front(h)[i] = h[i]
  BY <1>4, <1>5, <1>6
<1>8. DOMAIN Front(h) = 1 .. m - 1
  BY <1>4, <1>5
<1>9. m \in 1 .. m
  BY <1>1
<1>10. QED
  BY <1>1, <1>2, <1>4, <1>5, <1>6, <1>7, <1>8, <1>9 DEF AllFine, m

(* The types that the invariant implies. *)
LEMMA TypeFacts ==
  ASSUME IInv
  PROVE  /\ segments \in Seq(Segment) /\ segments \in Seq(Piece) /\ Canonical(segments)
         /\ identity \in BOOLEAN /\ exact \in BOOLEAN /\ count \in Nat
         /\ State \in States /\ State.segments = segments /\ State.identity = identity
         /\ undo \in Seq(States) /\ redo \in Seq(States)
         /\ Len(undo) \in Nat /\ Len(redo) \in Nat /\ Len(undo) + Len(redo) <= MaxHistory
<1>1. /\ segments \in Seq(Segment) /\ identity \in BOOLEAN /\ exact \in BOOLEAN /\ count \in Nat
      /\ undo \in Seq(States) /\ redo \in Seq(States) /\ Len(undo) + Len(redo) <= MaxHistory
  BY DEF IInv, TypeOK, States
<1>2. State \in States /\ State.segments = segments /\ State.identity = identity
  BY <1>1 DEF State, States
<1>3. segments \in Seq(Piece)
  BY <1>1, SegmentFacts
<1>4. Canonical(segments)
  BY <1>2 DEF IInv, Fine
<1>5. Len(undo) \in Nat /\ Len(redo) \in Nat
  BY <1>1
<1>6. QED
  BY <1>1, <1>2, <1>3, <1>4, <1>5

(* What the parts of the invariant are, put together in a later state. *)
LEMMA InvAgain ==
  ASSUME segments' \in Seq(Segment), identity' \in BOOLEAN, exact' \in BOOLEAN, count' \in Nat,
         undo' \in Seq(States), redo' \in Seq(States), Len(undo') + Len(redo') <= MaxHistory,
         identity' => segments' = WholeSource(count'),
         Canonical(segments'),
         identity' \/ Fits(segments', count', exact'),
         exact' \/ identity' \/ segments' = <<>>,
         AllFine(undo', count', exact'), AllFine(redo', count', exact')
  PROVE  IInv'
<1>1. TypeOK'
  BY DEF TypeOK, States
<1>2. State'.segments = segments' /\ State'.identity = identity'
  BY DEF State
<1>3. Fine(State', count', exact')
  BY <1>2 DEF Fine
<1>4. QED
  BY <1>1, <1>3 DEF IInv

(* validateSegments(), of a list without empty segments. *)
LEMMA ValidFits ==
  ASSUME NEW s \in Seq(Segment)
  PROVE  Valid(s) <=> Fits(s, count, exact)
<1>1. DOMAIN s = 1 .. Len(s) /\ \A i \in 1 .. Len(s) : s[i].count # 0
  <2>1. s \in Seq(Piece) /\ \A i \in 1 .. Len(s) : s[i].count > 0
    BY SegmentFacts
  <2>2. QED
    BY <2>1, PieceFacts
<1>2. QED
  BY <1>1 DEF Valid, Fits, Within

(* A longer source does not hurt, and before the length is verified none does. *)
LEMMA FineLater ==
  ASSUME NEW c \in States, NEW n \in Nat, NEW m \in Nat, NEW verified \in BOOLEAN
  PROVE  /\ Fine(c, n, TRUE) /\ n <= m => Fine(c, m, TRUE)
         /\ Fine(c, n, FALSE) => Fine(c, m, verified)
<1>1. ASSUME Fine(c, n, TRUE), n <= m PROVE Fine(c, m, TRUE)
  <2>1. ASSUME Within(c.segments, n) PROVE Within(c.segments, m)
    <3>1. c.segments \in Seq(Piece)
      BY SegmentFacts DEF States
    <3>2. \A i \in 1 .. Len(c.segments) : c.segments[i].start \in Nat /\ c.segments[i].count \in Nat
      BY <3>1, PieceFacts
    <3>3. QED
      BY <1>1, <2>1, <3>2 DEF Within
  <2>2. QED
    BY <1>1, <2>1 DEF Fine, Fits
<1>2. ASSUME Fine(c, n, FALSE) PROVE Fine(c, m, verified)
  BY <1>2, EmptyFacts DEF Fine
<1>3. QED
  BY <1>1, <1>2

LEMMA AllFineLater ==
  ASSUME NEW h \in Seq(States), NEW n \in Nat, NEW m \in Nat, NEW verified \in BOOLEAN
  PROVE  /\ AllFine(h, n, TRUE) /\ n <= m => AllFine(h, m, TRUE)
         /\ AllFine(h, n, FALSE) => AllFine(h, m, verified)
<1>1. \A i \in DOMAIN h : h[i] \in States
  OBVIOUS
<1>2. QED
  BY <1>1, FineLater DEF AllFine

(* Pushing the state for an edit keeps the history within its limit. *)
LEMMA RememberedFacts ==
  ASSUME IInv, Remembered
  PROVE  /\ undo' \in Seq(States) /\ Len(undo') \in Nat /\ Len(undo') <= MaxHistory
         /\ AllFine(undo', count, exact)
<1> DEFINE longer == Append(undo, State)
<1>1. undo' = IF Len(longer) > MaxHistory THEN Tail(longer) ELSE longer
  BY DEF Remembered
<1>2. /\ undo \in Seq(States) /\ State \in States /\ Len(undo) \in Nat /\ Len(redo) \in Nat
      /\ Len(undo) + Len(redo) <= MaxHistory /\ MaxHistory \in Nat
  BY TypeFacts, Constants
<1>3. AllFine(undo, count, exact) /\ Fine(State, count, exact)
  BY DEF IInv
<1>4. longer \in Seq(States) /\ Len(longer) = Len(undo) + 1 /\ AllFine(longer, count, exact)
  BY <1>2, <1>3, Pushed
<1> HIDE DEF longer
<1>5. longer # <<>>
  BY <1>2, <1>4
<1>6. /\ Tail(longer) \in Seq(States) /\ Len(Tail(longer)) = Len(longer) - 1
      /\ AllFine(Tail(longer), count, exact)
  BY <1>4, <1>5, Forgotten
<1>7. QED
  BY <1>1, <1>2, <1>4, <1>6

(* An edit. *)
LEMMA EditInv ==
  ASSUME IInv, NEW s \in Seq(Piece), NEW id \in BOOLEAN, exact \/ id,
         id => s = WholeSource(count), ApplyEdit(s, id)
  PROVE  IInv'
<1>1. Normalized(s) \in Seq(Segment) /\ Canonical(Normalized(s))
  BY NormalizedFacts
<1>2. count \in Nat /\ exact \in BOOLEAN
  BY TypeFacts
<1>3. /\ Remembered /\ redo' = <<>> /\ segments' = Normalized(s) /\ identity' = id
      /\ count' = count /\ exact' = exact /\ Valid(Normalized(s))
  BY DEF ApplyEdit, source
<1>4. Fits(Normalized(s), count, exact)
  BY <1>1, <1>3, ValidFits
<1>5. /\ undo' \in Seq(States) /\ Len(undo') \in Nat /\ Len(undo') <= MaxHistory
      /\ AllFine(undo', count, exact)
  BY <1>3, RememberedFacts
<1>6. redo' \in Seq(States) /\ Len(redo') = 0 /\ AllFine(redo', count, exact)
  <2>1. <<>> \in Seq(States) /\ Len(<<>>) = 0 /\ DOMAIN <<>> = {}
    OBVIOUS
  <2>2. QED
    BY <1>3, <2>1 DEF AllFine
<1>7. identity' => segments' = WholeSource(count')
  BY <1>2, <1>3, WholeFacts
<1>8. Len(undo') + Len(redo') <= MaxHistory
  BY <1>5, <1>6
<1>9. QED
  BY <1>1, <1>2, <1>3, <1>4, <1>5, <1>6, <1>7, <1>8, InvAgain

(* Nothing can be wrong with an empty history. *)
LEMMA NoHistory == <<>> \in Seq(States) /\ Len(<<>>) = 0 /\ \A n, verified : AllFine(<<>>, n, verified)
<1>1. <<>> \in Seq(States) /\ Len(<<>>) = 0 /\ DOMAIN <<>> = {}
  OBVIOUS
<1>2. QED
  BY <1>1 DEF AllFine

(* A new source, a refined length, and a list that was loaded. *)
LEMMA ResetInv ==
  ASSUME NEW n \in Nat, NEW isExact \in BOOLEAN, Reset(n, isExact)
  PROVE  IInv'
<1>1. /\ count' = n /\ exact' = isExact /\ identity' = TRUE /\ segments' = WholeSource(n)
      /\ undo' = <<>> /\ redo' = <<>>
  BY DEF Reset
<1>2. WholeSource(n) \in Seq(Segment) /\ Canonical(WholeSource(n))
  BY WholeFacts
<1>3. Len(undo') + Len(redo') <= MaxHistory
  BY <1>1, NoHistory, Constants
<1>4. QED
  BY <1>1, <1>2, <1>3, NoHistory, InvAgain

LEMMA SetLengthInv ==
  ASSUME IInv, ~exact, NEW n \in Nat, NEW isExact \in BOOLEAN, SetSourceFrameCount(n, isExact)
  PROVE  IInv'
<1>1. /\ count' = n /\ exact' = isExact /\ identity' = identity /\ undo' = undo /\ redo' = redo
      /\ segments' = IF identity THEN WholeSource(n) ELSE segments
  BY DEF SetSourceFrameCount
<1>2. /\ segments \in Seq(Segment) /\ Canonical(segments) /\ identity \in BOOLEAN /\ count \in Nat
      /\ undo \in Seq(States) /\ redo \in Seq(States) /\ Len(undo) + Len(redo) <= MaxHistory
      /\ State \in States /\ State.segments = segments /\ State.identity = identity
      /\ exact \in BOOLEAN
  BY TypeFacts
<1>3. exact = FALSE
  BY <1>2
<1>4. Fine(State, n, isExact)
  <2>1. Fine(State, count, FALSE)
    BY <1>3 DEF IInv
  <2>2. QED
    BY <1>2, <2>1, FineLater
<1>5. AllFine(undo, n, isExact) /\ AllFine(redo, n, isExact)
  <2>1. AllFine(undo, count, FALSE) /\ AllFine(redo, count, FALSE)
    BY <1>3 DEF IInv
  <2>2. QED
    BY <1>2, <2>1, AllFineLater
<1>6. WholeSource(n) \in Seq(Segment) /\ Canonical(WholeSource(n))
  BY WholeFacts
<1>7. segments' \in Seq(Segment) /\ Canonical(segments')
  BY <1>1, <1>2, <1>6
<1>8. /\ identity' \/ Fits(segments', count', exact')
      /\ exact' \/ identity' \/ segments' = <<>>
  BY <1>1, <1>2, <1>4 DEF Fine
<1>9. QED
  BY <1>1, <1>2, <1>5, <1>7, <1>8, InvAgain

LEMMA ReplaceInv ==
  ASSUME IInv, NEW s \in Loads, ReplaceSegments(s)
  PROVE  IInv'
<1>1. /\ exact \/ s = <<>>
      /\ Valid(Normalized(s))
      /\ segments' = Normalized(s) /\ identity' = FALSE /\ undo' = <<>> /\ redo' = <<>>
      /\ count' = count /\ exact' = exact
  BY DEF ReplaceSegments, source
<1>2. s \in Seq(Piece)
  BY Constants
<1>3. Normalized(s) \in Seq(Segment) /\ Canonical(Normalized(s))
  BY <1>2, NormalizedFacts
<1>4. count \in Nat /\ exact \in BOOLEAN
  BY TypeFacts
<1>5. exact \/ Normalized(s) = <<>>
  <2>1. Normalized(<<>>) = <<>>
    BY EmptyFacts, NormalizedFixed
  <2>2. exact \/ s = <<>>
    BY DEF ReplaceSegments
  <2>3. QED
    BY <2>1, <2>2
<1>6. Fits(Normalized(s), count, exact)
  <2>1. Valid(Normalized(s))
    BY DEF ReplaceSegments
  <2>2. QED
    BY <1>3, <2>1, ValidFits
<1>7. Len(undo') + Len(redo') <= MaxHistory
  BY <1>1, NoHistory, Constants
<1>8. QED
  BY <1>1, <1>3, <1>4, <1>5, <1>6, <1>7, NoHistory, InvAgain

(* What an edit puts in place of the list, before it is merged. *)
LEMMA EditedLists ==
  ASSUME NEW s \in Seq(Segment), NEW b \in 0 .. Total(s), NEW e \in 0 .. Total(s), b <= e
  PROVE  /\ Slice(s, b, e) \in Seq(Piece)
         /\ Expand(Slice(s, b, e)) = SubSeq(Expand(s), b + 1, e)
         /\ \A t \in Seq(Piece) :
              /\ Slice(s, 0, b) \o t \o Slice(s, e, Total(s)) \in Seq(Piece)
              /\ Expand(Slice(s, 0, b) \o t \o Slice(s, e, Total(s))) =
                   SubSeq(Expand(s), 1, b) \o Expand(t) \o SubSeq(Expand(s), e + 1, Total(s))
         /\ Slice(s, 0, b) \o Slice(s, e, Total(s)) \in Seq(Piece)
         /\ Expand(Slice(s, 0, b) \o Slice(s, e, Total(s))) =
              SubSeq(Expand(s), 1, b) \o <<>> \o SubSeq(Expand(s), e + 1, Total(s))
<1> DEFINE n == Total(s)
           x == Slice(s, 0, b)
           y == Slice(s, e, n)
           z == Slice(s, b, e)
           i == Expand(s)
<1>1. s \in Seq(Piece) /\ n \in Nat
  BY SegmentFacts, OffsetFacts
<1>2. b \in Nat /\ e \in Nat /\ 0 <= b /\ e <= n /\ b <= n /\ n <= n /\ 0 \in Nat
  BY <1>1
<1>3. x \in Seq(Segment) /\ Expand(x) = SubSeq(i, 0 + 1, b)
  <2> DEFINE o == 0
  <2>1. o \in Nat /\ o <= b
    BY <1>2
  <2> HIDE DEF o
  <2>2. Slice(s, o, b) \in Seq(Segment) /\ Expand(Slice(s, o, b)) = SubSeq(i, o + 1, b)
    BY <1>1, <1>2, <2>1, SliceFacts
  <2>3. QED
    BY <2>2 DEF o
<1>4. y \in Seq(Segment) /\ Expand(y) = SubSeq(i, e + 1, n)
  BY <1>1, <1>2, SliceFacts
<1>5. z \in Seq(Segment) /\ Expand(z) = SubSeq(i, b + 1, e)
  BY <1>1, <1>2, SliceFacts
<1> HIDE DEF x, y, z, i, n
<1>6. x \in Seq(Piece) /\ y \in Seq(Piece) /\ z \in Seq(Piece)
  BY <1>3, <1>4, <1>5, SegmentFacts
<1>7. 0 + 1 = 1
  OBVIOUS
<1>8. ASSUME NEW t \in Seq(Piece)
      PROVE  /\ x \o t \o y \in Seq(Piece)
             /\ Expand(x \o t \o y) = SubSeq(i, 1, b) \o Expand(t) \o SubSeq(i, e + 1, n)
  <2>1. x \o t \in Seq(Piece) /\ Expand(x \o t) = Expand(x) \o Expand(t)
    BY <1>6, ConcatLists
  <2> DEFINE u == x \o t
  <2>2. u \in Seq(Piece)
    BY <2>1
  <2> HIDE DEF u
  <2>3. u \o y \in Seq(Piece) /\ Expand(u \o y) = Expand(u) \o Expand(y)
    BY <1>6, <2>2, ConcatLists
  <2>4. QED
    BY <1>3, <1>4, <1>7, <2>1, <2>3 DEF u
<1>9. x \o y \in Seq(Piece) /\ Expand(x \o y) = SubSeq(i, 1, b) \o <<>> \o SubSeq(i, e + 1, n)
  <2>1. x \o y \in Seq(Piece) /\ Expand(x \o y) = Expand(x) \o Expand(y)
    BY <1>6, ConcatLists
  <2>2. Expand(x) \in Seq(Item)
    BY <1>6, ShownLen
  <2>3. Expand(x) \o <<>> = Expand(x)
    BY <2>2, ConcatEmptySeq
  <2>4. QED
    BY <1>3, <1>4, <1>7, <2>1, <2>3
<1>10. QED
  BY <1>5, <1>6, <1>8, <1>9 DEF x, y, z, i, n

(* Appending a file. *)
LEMMA AppendInv ==
  ASSUME IInv, AppendSource
  PROVE  IInv'
<1> DEFINE g == [start |-> count, count |-> Extended - count, masked |-> FALSE]
           longer == Normalized(Append(segments, g))
<1>1. /\ segments \in Seq(Segment) /\ segments \in Seq(Piece) /\ identity \in BOOLEAN /\ count \in Nat
      /\ undo \in Seq(States) /\ redo \in Seq(States) /\ Len(undo) + Len(redo) <= MaxHistory
      /\ State.segments = segments /\ State.identity = identity
  BY TypeFacts
<1>2. /\ exact /\ exact' = exact /\ count < Extended /\ count' = Extended
      /\ IF identity THEN /\ segments' = WholeSource(Extended) /\ identity' = identity
                          /\ undo' = undo /\ redo' = redo
         ELSE /\ Total(longer) <= FrameLimit
              /\ segments' = longer /\ identity' = identity
              /\ Remembered /\ redo' = <<>>
  BY DEF AppendSource
<1> HIDE DEF longer
<1>3. Extended \in Nat /\ exact' = TRUE /\ exact = TRUE /\ count <= Extended
  BY <1>1, <1>2, TypeFacts, Constants
<1>4. AllFine(undo, count, TRUE) /\ AllFine(redo, count, TRUE) /\ Fine(State, count, TRUE)
  BY <1>3 DEF IInv
<1>5. CASE identity
  <2>1. /\ segments' = WholeSource(Extended) /\ identity' /\ identity' \in BOOLEAN
        /\ undo' = undo /\ redo' = redo
    BY <1>1, <1>2, <1>5
  <2>2. AllFine(undo, Extended, TRUE) /\ AllFine(redo, Extended, TRUE)
    BY <1>1, <1>3, <1>4, AllFineLater
  <2>3. WholeSource(Extended) \in Seq(Segment) /\ Canonical(WholeSource(Extended))
    BY <1>3, WholeFacts
  <2>4. exact' \in BOOLEAN /\ (exact' \/ identity' \/ segments' = <<>>)
    BY <1>3
  <2>5. QED
    BY <1>1, <1>2, <1>3, <2>1, <2>2, <2>3, <2>4, InvAgain
<1>6. CASE ~identity
  <2>1. /\ Total(longer) <= FrameLimit /\ segments' = longer /\ identity' = FALSE
        /\ Remembered /\ redo' = <<>>
    BY <1>1, <1>2, <1>6
  <2>2. g \in Piece
    BY <1>1, <1>2, <1>3 DEF Piece
  <2>3. Append(segments, g) \in Seq(Piece)
    BY <1>1, <2>2
  <2>4. Within(Append(segments, g), Extended)
    <3>1. Within(segments, count)
      BY <1>1, <1>4, <1>6 DEF Fine, Fits
    <3>2. g.start + g.count = Extended
      BY <1>1, <1>3
    <3> HIDE DEF g
    <3>3. /\ Len(Append(segments, g)) = Len(segments) + 1 /\ Append(segments, g)[Len(segments) + 1] = g
          /\ \A i \in 1 .. Len(segments) : Append(segments, g)[i] = segments[i]
          /\ Len(segments) \in Nat
      BY <1>1, <2>2
    <3>4. \A i \in 1 .. Len(segments) : segments[i].count # 0 => segments[i].start + segments[i].count <= Extended
      <4>1. \A i \in 1 .. Len(segments) : segments[i].start \in Nat /\ segments[i].count \in Nat
        BY <1>1, PieceFacts
      <4>2. QED
        BY <1>1, <1>3, <3>1, <4>1 DEF Within
    <3>5. \A i \in 1 .. Len(segments) + 1 : i \in 1 .. Len(segments) \/ i = Len(segments) + 1
      BY <3>3
    <3>6. g.start + g.count <= Extended
      BY <1>3, <3>2
    <3>7. QED
      BY <3>3, <3>4, <3>5, <3>6 DEF Within
  <2>5. longer \in Seq(Segment) /\ Canonical(longer) /\ Within(longer, Extended)
    <3> HIDE DEF g
    <3>1. QED
      BY <1>3, <2>3, <2>4, NormalizedFacts DEF longer
  <2>6. Fits(longer, Extended, TRUE)
    BY <2>1, <2>5 DEF Fits
  <2>7. /\ undo' \in Seq(States) /\ Len(undo') \in Nat /\ Len(undo') <= MaxHistory
        /\ AllFine(undo', count, TRUE)
    BY <1>3, <2>1, RememberedFacts
  <2>8. AllFine(undo', Extended, TRUE)
    BY <1>1, <1>3, <2>7, AllFineLater
  <2>9. redo' \in Seq(States) /\ AllFine(redo', Extended, TRUE) /\ Len(undo') + Len(redo') <= MaxHistory
    <3>1. redo' \in Seq(States) /\ Len(redo') = 0
      BY <2>1, NoHistory
    <3>2. AllFine(redo', Extended, TRUE)
      BY <2>1, NoHistory
    <3>3. Len(undo') + Len(redo') <= MaxHistory
      BY <2>7, <3>1, Constants
    <3>4. QED
      BY <3>1, <3>2, <3>3
  <2>10. identity' \in BOOLEAN /\ exact' \in BOOLEAN /\ count' \in Nat
    BY <1>2, <1>3, <2>1
  <2>11. QED
    BY <1>2, <1>3, <2>1, <2>5, <2>6, <2>7, <2>8, <2>9, <2>10, InvAgain
<1>7. QED
  BY <1>1, <1>5, <1>6

(* restoreState() *)
LEMMA RestoreInv ==
  ASSUME IInv, NEW c \in States, Fine(c, count, exact), Restore(c), count' = count, exact' = exact,
         undo' \in Seq(States), redo' \in Seq(States), Len(undo') + Len(redo') <= MaxHistory,
         AllFine(undo', count, exact), AllFine(redo', count, exact)
  PROVE  IInv'
<1>1. /\ identity' = c.identity
      /\ segments' = IF c.identity THEN WholeSource(count) ELSE c.segments
  BY DEF Restore
<1>2. count \in Nat /\ exact \in BOOLEAN /\ c.segments \in Seq(Segment) /\ c.identity \in BOOLEAN
  BY TypeFacts DEF States
<1>3. WholeSource(count) \in Seq(Segment) /\ Canonical(WholeSource(count))
  BY <1>2, WholeFacts
<1>4. /\ Canonical(c.segments)
      /\ c.identity \/ Fits(c.segments, count, exact)
      /\ exact \/ c.identity \/ c.segments = <<>>
  BY DEF Fine
<1>5. /\ segments' \in Seq(Segment) /\ Canonical(segments')
      /\ identity' \/ Fits(segments', count', exact')
      /\ exact' \/ identity' \/ segments' = <<>>
  <2>1. CASE c.identity
    <3>1. identity' /\ segments' = WholeSource(count)
      BY <1>1, <2>1
    <3>2. QED
      BY <1>3, <3>1
  <2>2. CASE ~c.identity
    <3>1. segments' = c.segments
      BY <1>1, <2>2
    <3>2. Canonical(c.segments) /\ Fits(c.segments, count, exact) /\ (exact \/ c.segments = <<>>)
      BY <1>4, <2>2
    <3>3. QED
      BY <1>2, <3>1, <3>2
  <2>3. QED
    BY <2>1, <2>2
<1>6. QED
  BY <1>1, <1>2, <1>5, InvAgain

(* Undo and redo. *)
LEMMA UndoInv == IInv /\ Undo => IInv'
<1> SUFFICES ASSUME IInv, Undo PROVE IInv'
  OBVIOUS
<1>1. /\ undo # <<>> /\ Restore(Last(undo)) /\ undo' = Front(undo) /\ redo' = Append(redo, State)
      /\ count' = count /\ exact' = exact
  BY DEF Undo, source
<1>2. /\ undo \in Seq(States) /\ redo \in Seq(States) /\ State \in States
      /\ Len(undo) \in Nat /\ Len(redo) \in Nat /\ Len(undo) + Len(redo) <= MaxHistory
  BY TypeFacts
<1>3. AllFine(undo, count, exact) /\ AllFine(redo, count, exact) /\ Fine(State, count, exact)
  BY DEF IInv
<1>4. /\ Front(undo) \in Seq(States) /\ Len(Front(undo)) = Len(undo) - 1 /\ Last(undo) \in States
      /\ AllFine(Front(undo), count, exact) /\ Fine(Last(undo), count, exact)
  BY <1>1, <1>2, <1>3, Popped
<1>5. /\ Append(redo, State) \in Seq(States) /\ Len(Append(redo, State)) = Len(redo) + 1
      /\ AllFine(Append(redo, State), count, exact)
  BY <1>2, <1>3, Pushed
<1>6. Len(undo') + Len(redo') <= MaxHistory
  BY <1>1, <1>2, <1>4, <1>5, Constants
<1>7. QED
  BY <1>1, <1>4, <1>5, <1>6, RestoreInv

LEMMA RedoInv == IInv /\ Redo => IInv'
<1> SUFFICES ASSUME IInv, Redo PROVE IInv'
  OBVIOUS
<1>1. /\ redo # <<>> /\ Restore(Last(redo)) /\ redo' = Front(redo) /\ undo' = Append(undo, State)
      /\ count' = count /\ exact' = exact
  BY DEF Redo, source
<1>2. /\ undo \in Seq(States) /\ redo \in Seq(States) /\ State \in States
      /\ Len(undo) \in Nat /\ Len(redo) \in Nat /\ Len(undo) + Len(redo) <= MaxHistory
  BY TypeFacts
<1>3. AllFine(undo, count, exact) /\ AllFine(redo, count, exact) /\ Fine(State, count, exact)
  BY DEF IInv
<1>4. /\ Front(redo) \in Seq(States) /\ Len(Front(redo)) = Len(redo) - 1 /\ Last(redo) \in States
      /\ AllFine(Front(redo), count, exact) /\ Fine(Last(redo), count, exact)
  BY <1>1, <1>2, <1>3, Popped
<1>5. /\ Append(undo, State) \in Seq(States) /\ Len(Append(undo, State)) = Len(undo) + 1
      /\ AllFine(Append(undo, State), count, exact)
  BY <1>2, <1>3, Pushed
<1>6. Len(undo') + Len(redo') <= MaxHistory
  BY <1>1, <1>2, <1>4, <1>5, Constants
<1>7. QED
  BY <1>1, <1>4, <1>5, <1>6, RestoreInv

(* Every step keeps the invariant. *)
LEMMA NextInv == IInv /\ [Next]_vars => IInv'
<1> SUFFICES ASSUME IInv, [Next]_vars PROVE IInv'
  OBVIOUS
<1>1. /\ segments \in Seq(Segment) /\ segments \in Seq(Piece) /\ count \in Nat /\ FrameCount \in Nat
      /\ FrameCount = Total(segments)
  BY TypeFacts, OffsetFacts DEF FrameCount
<1>2. CASE OpenSource
  <2>1. Length \in Nat /\ 0 \in Nat /\ \A n \in Estimates : n \in Nat
    BY Constants
  <2>2. CASE Reset(Length, TRUE)
    BY <2>1, <2>2, ResetInv
  <2>3. CASE \E n \in Estimates : Reset(n, FALSE)
    BY <2>1, <2>3, ResetInv
  <2>4. CASE Reset(0, TRUE)
    <3> DEFINE z == 0
    <3>1. z \in Nat /\ Reset(z, TRUE)
      BY <2>4
    <3> HIDE DEF z
    <3>2. QED
      BY <3>1, ResetInv
  <2>5. QED
    BY <1>2, <2>2, <2>3, <2>4 DEF OpenSource
<1>3. CASE RefineLength
  <2>1. /\ ~exact
        /\ SetSourceFrameCount(Length, TRUE) \/ \E n \in Estimates : SetSourceFrameCount(n, FALSE)
    BY <1>3 DEF RefineLength
  <2>2. Length \in Nat /\ \A n \in Estimates : n \in Nat
    BY Constants
  <2>3. QED
    BY <2>1, <2>2, SetLengthInv
<1>4. CASE AppendSource
  BY <1>4, AppendInv
<1>5. CASE \E s \in Loads : ReplaceSegments(s)
  BY <1>5, ReplaceInv
<1>6. ASSUME NEW b \in Places, NEW e \in Places, DeleteRange(b, e) PROVE IInv'
  <2> DEFINE s == Slice(segments, 0, b) \o Slice(segments, e, FrameCount)
  <2>1. exact /\ b < e /\ ApplyEdit(s, FALSE)
    BY <1>6 DEF DeleteRange
  <2>2. b \in 0 .. Total(segments) /\ e \in 0 .. Total(segments) /\ b <= e
    BY <1>1, <2>1 DEF Places
  <2>3. s \in Seq(Piece)
    BY <1>1, <2>2, EditedLists
  <2> HIDE DEF s
  <2>4. QED
    BY <2>1, <2>3, EditInv
<1>7. ASSUME NEW b \in Places, NEW e \in Places, CropToRange(b, e) PROVE IInv'
  <2> DEFINE s == Slice(segments, b, e)
  <2>1. exact /\ b < e /\ ApplyEdit(s, FALSE)
    BY <1>7 DEF CropToRange
  <2>2. b \in 0 .. Total(segments) /\ e \in 0 .. Total(segments) /\ b <= e
    BY <1>1, <2>1 DEF Places
  <2>3. s \in Seq(Piece)
    BY <1>1, <2>2, EditedLists
  <2> HIDE DEF s
  <2>4. QED
    BY <2>1, <2>3, EditInv
<1>8. ASSUME NEW b \in Places, NEW e \in Places, NEW t \in Clips, ReplaceRange(b, e, t) PROVE IInv'
  <2> DEFINE s == Slice(segments, 0, b) \o Normalized(t) \o Slice(segments, e, FrameCount)
  <2>1. exact /\ b <= e /\ ApplyEdit(s, FALSE)
    BY <1>8 DEF ReplaceRange
  <2>2. b \in 0 .. Total(segments) /\ e \in 0 .. Total(segments)
    BY <1>1 DEF Places
  <2>3. Normalized(t) \in Seq(Piece)
    BY Constants, NormalizedFacts, SegmentFacts
  <2>4. s \in Seq(Piece)
    BY <1>1, <2>1, <2>2, <2>3, EditedLists
  <2> HIDE DEF s
  <2>5. QED
    BY <2>1, <2>4, EditInv
<1>9. CASE ResetEdits
  <2>1. ApplyEdit(WholeSource(count), TRUE)
    BY <1>9 DEF ResetEdits
  <2>2. WholeSource(count) \in Seq(Piece)
    BY <1>1, WholeFacts, SegmentFacts
  <2> DEFINE s == WholeSource(count)
             id == TRUE
  <2>3. s \in Seq(Piece) /\ id \in BOOLEAN /\ id /\ ApplyEdit(s, id) /\ s = WholeSource(count)
    BY <2>1, <2>2
  <2> HIDE DEF s, id
  <2>4. QED
    BY <2>3, EditInv
<1>10. CASE Undo
  BY <1>10, UndoInv
<1>11. CASE Redo
  BY <1>11, RedoInv
<1>12. CASE UNCHANGED vars
  <2>1. /\ segments' = segments /\ identity' = identity /\ count' = count /\ exact' = exact
        /\ undo' = undo /\ redo' = redo
    BY <1>12 DEF vars
  <2>2. QED
    BY <2>1 DEF IInv, TypeOK, State
<1>13. QED
  BY <1>2, <1>3, <1>4, <1>5, <1>6, <1>7, <1>8, <1>9, <1>10, <1>11, <1>12 DEF Next

(* The invariant holds at first. *)
LEMMA InitInv == Init => IInv
<1> SUFFICES ASSUME Init PROVE IInv
  OBVIOUS
<1>1. /\ segments = <<>> /\ identity = TRUE /\ count = 0 /\ exact = TRUE /\ undo = <<>> /\ redo = <<>>
  BY DEF Init
<1>2. TypeOK
  BY <1>1, NoHistory, EmptyFacts, Constants DEF TypeOK, States
<1>3. State.segments = <<>> /\ State.identity = TRUE
  BY <1>1 DEF State
<1>4. Fine(State, count, exact)
  BY <1>1, <1>3, EmptyFacts DEF Fine
<1>5. AllFine(undo, count, exact) /\ AllFine(redo, count, exact)
  BY <1>1, NoHistory
<1>6. segments = WholeSource(count)
  BY <1>1 DEF WholeSource
<1>7. QED
  BY <1>2, <1>4, <1>5, <1>6 DEF IInv

(* The invariant holds in every state: it types the timeline, and says of every
   list, shown or remembered, that it is merged and valid for the source as known. *)
THEOREM Invariance == Spec => []IInv
<1>1. IInv /\ [Next]_vars => IInv'
  BY NextInv
<1>2. Init => IInv
  BY InitInv
<1>3. QED
  BY <1>1, <1>2, PTL DEF Spec

(* The segment list and every list that undo or redo can bring back are merged
   and valid, whatever was edited, undone and refined; an unedited timeline is
   the source as it is known; and both histories together hold no more than the
   limit, although undo() and redo() push without trimming. *)
THEOREM ListsStaySound == Spec => []ListsAreSound
<1>1. IInv => ListsAreSound
  <2> SUFFICES ASSUME IInv PROVE ListsAreSound
    OBVIOUS
  <2>1. ASSUME NEW c \in States, Fine(c, count, exact) PROVE Sound(c)
    <3>1. c.segments \in Seq(Segment)
      BY DEF States
    <3>2. Normalized(c.segments) = c.segments
      BY <2>1, <3>1, NormalizedFixed DEF Fine
    <3>3. c.identity \/ Valid(c.segments)
      BY <2>1, <3>1, ValidFits DEF Fine
    <3>4. QED
      BY <3>2, <3>3 DEF Sound
  <2>2. State \in States /\ undo \in Seq(States) /\ redo \in Seq(States)
    BY TypeFacts
  <2>3. /\ \A i \in DOMAIN undo : undo[i] \in States
        /\ \A i \in DOMAIN redo : redo[i] \in States
    BY <2>2
  <2>4. /\ TypeOK /\ (identity => segments = WholeSource(count))
        /\ Fine(State, count, exact)
        /\ \A i \in DOMAIN undo : Fine(undo[i], count, exact)
        /\ \A i \in DOMAIN redo : Fine(redo[i], count, exact)
    BY DEF IInv, AllFine
  <2>5. Sound(State)
    BY <2>1, <2>2, <2>4
  <2>6. \A i \in DOMAIN undo : Sound(undo[i])
    BY <2>1, <2>3, <2>4
  <2>7. \A i \in DOMAIN redo : Sound(redo[i])
    BY <2>1, <2>3, <2>4
  <2>8. TypeOK /\ (identity => segments = WholeSource(count))
    BY <2>4
  <2>9. QED
    BY <2>5, <2>6, <2>7, <2>8, Zenon DEF ListsAreSound
<1>2. QED
  BY <1>1, Invariance, PTL

-----------------------------------------------------------------------------
(* The mappings of the code and the list of frames. *)

(* The operators of the community modules that EditList uses are those used here. *)
LEMMA SameOperators ==
  /\ \A S : Edits!Max(S) = Max(S)
  /\ \A S : Edits!Min(S) = Min(S)
  /\ \A h : Edits!Last(h) = Last(h)
  /\ \A h : Edits!Front(h) = Front(h)
BY Zenon DEF Edits!Max, Max, Edits!Min, Min, Edits!Last, Last, Edits!Front, Front

(* A set of numbers with a bound has a greatest member. *)
LEMMA Greatest ==
  ASSUME NEW n \in Nat, NEW T \in SUBSET (0 .. n), T # {}
  PROVE  \E x \in T : \A y \in T : y <= x
<1> DEFINE U == {n - x : x \in T}
<1>1. U \in SUBSET Nat /\ U # {}
  <2>1. \A x \in T : x \in 0 .. n
    OBVIOUS
  <2>2. \A x \in T : n - x \in Nat
    BY <2>1
  <2>3. PICK x \in T : TRUE
    OBVIOUS
  <2>4. n - x \in U
    OBVIOUS
  <2>5. QED
    BY <2>2, <2>4
<1>2. PICK u \in U : \A w \in U : u <= w
  <2> HIDE DEF U
  <2>1. QED
    BY <1>1, Least
<1>3. PICK x \in T : u = n - x
  BY <1>2
<1>4. \A y \in T : n - x <= n - y
  BY <1>2, <1>3
<1>5. QED
  BY <1>4

(* The item at a place, and the segment it is from. *)
LEMMA ItemOf ==
  ASSUME NEW s \in Seq(Piece), NEW i \in 1 .. Len(s), NEW f \in Nat, Covers(s, i, f)
  PROVE  /\ Expand(s)[f + 1] = [source |-> s[i].start + (f - Offset(s, i)), masked |-> s[i].masked]
         /\ f + 1 \in 1 .. Total(s)
<1> DEFINE k == f - Offset(s, i) + 1
<1>1. s[i].count \in Nat /\ s[i].start \in Nat /\ Offset(s, i) \in Nat
  BY SMTT(30), PieceFacts, OffsetFacts
<1>2. k \in 1 .. s[i].count /\ Offset(s, i) + k = f + 1
  BY <1>1 DEF Covers
<1>3. s[i].start + k - 1 = s[i].start + (f - Offset(s, i))
  BY <1>1
<1> HIDE DEF k
<1>4. /\ Offset(s, i) + k \in 1 .. Total(s)
      /\ Expand(s)[Offset(s, i) + k] = [source |-> s[i].start + k - 1, masked |-> s[i].masked]
  BY <1>2, ItemAt
<1>5. QED
  BY <1>2, <1>3, <1>4

(* The places before one in segment i are in segments up to i. *)
LEMMA ItemsBefore ==
  ASSUME NEW s \in Seq(Piece), NEW i \in 1 .. Len(s), NEW f \in Nat, Covers(s, i, f),
         NEW q \in 1 .. f + 1
  PROVE  \E j \in 1 .. i :
           /\ Covers(s, j, q - 1) /\ j \in 1 .. Len(s)
           /\ Expand(s)[q] = [source |-> s[j].start + (q - 1 - Offset(s, j)), masked |-> s[j].masked]
<1> DEFINE p == q - 1
<1>1. p \in Nat /\ p <= f /\ p + 1 = q
  OBVIOUS
<1>2. f + 1 \in 1 .. Total(s) /\ Total(s) \in Nat
  BY ItemOf, OffsetFacts
<1>3. p < Total(s)
  BY <1>1, <1>2
<1> HIDE DEF p
<1>4. PICK j \in 1 .. Len(s) : Covers(s, j, p)
  BY <1>1, <1>3, Locate
<1>5. /\ Len(s) \in Nat /\ Offset(s, j) \in Nat /\ Offset(s, i) \in Nat
      /\ s[i].count \in Nat /\ s[j].count \in Nat
  BY PieceFacts, OffsetFacts
<1>6. j <= i
  <2>1. SUFFICES ASSUME j > i PROVE FALSE
    BY <1>5
  <2>2. Offset(s, i) + s[i].count <= Offset(s, j)
    BY <2>1, OneSegment
  <2>3. QED
    BY <1>1, <1>4, <1>5, <2>2 DEF Covers
<1>7. Expand(s)[p + 1] = [source |-> s[j].start + (p - Offset(s, j)), masked |-> s[j].masked]
  BY <1>1, <1>4, ItemOf
<1>8. j \in 1 .. i
  BY <1>5, <1>6
<1>9. QED
  BY <1>1, <1>4, <1>7, <1>8 DEF p

(* Behind a mask, the picture is the last of the last unmasked segment before. *)
LEMMA HeldPicture ==
  ASSUME NEW s \in Seq(Segment), NEW i \in 1 .. Len(s), NEW f \in Nat, Covers(s, i, f), s[i].masked,
         NEW v \in 1 .. i, ~s[v].masked, \A k \in 1 .. i : ~s[k].masked => k <= v
  PROVE  Edits!Picture(Expand(s), f) = s[v].start + s[v].count - 1
<1> DEFINE x == Expand(s)
           e == Offset(s, v) + s[v].count
           visible == {k \in 1 .. f + 1 : ~x[k].masked}
<1>1. /\ s \in Seq(Piece) /\ Len(s) \in Nat /\ v \in 1 .. Len(s) /\ v # i
      /\ s[v].count \in Nat \ {0} /\ s[v].start \in Nat /\ Offset(s, v) \in Nat /\ Offset(s, i) \in Nat
  <2>1. s \in Seq(Piece) /\ Len(s) \in Nat /\ v \in 1 .. Len(s) /\ v # i
    BY SegmentFacts
  <2>2. s[v] \in Segment
    BY <2>1
  <2>3. QED
    BY <2>1, <2>2, SegmentFields, OffsetFacts
<1>2. e <= Offset(s, i) /\ e \in Nat /\ e > 0
  BY <1>1, OneSegment
<1>3. e <= f + 1 /\ e \in 1 .. f + 1
  BY <1>1, <1>2 DEF Covers
<1>4. x[e] = [source |-> s[v].start + s[v].count - 1, masked |-> s[v].masked]
  <2> DEFINE k == s[v].count
  <2>1. k \in 1 .. s[v].count
    BY <1>1
  <2> HIDE DEF k
  <2>2. x[Offset(s, v) + k] = [source |-> s[v].start + k - 1, masked |-> s[v].masked]
    BY <1>1, <2>1, ItemAt
  <2>3. QED
    BY <2>2 DEF k
<1>5. e \in visible
  BY <1>3, <1>4
<1>6. ASSUME NEW q \in visible PROVE q <= e
  <2>1. q \in 1 .. f + 1 /\ ~x[q].masked
    BY <1>6
  <2> HIDE DEF x, visible
  <2>2. PICK j \in 1 .. i :
           /\ Covers(s, j, q - 1) /\ j \in 1 .. Len(s)
           /\ Expand(s)[q] = [source |-> s[j].start + (q - 1 - Offset(s, j)), masked |-> s[j].masked]
    BY <1>1, <2>1, ItemsBefore
  <2>3. ~s[j].masked
    BY <2>1, <2>2 DEF x
  <2>4. j <= v
    BY <2>3
  <2>5. Offset(s, j) \in Nat /\ s[j].count \in Nat
    <3>1. j \in 1 .. Len(s) + 1
      BY <1>1, <2>2
    <3>2. QED
      BY <1>1, <2>2, <3>1, PieceFacts, OffsetFacts
  <2>6. q <= Offset(s, j) + s[j].count
    BY <2>1, <2>2, <2>5 DEF Covers
  <2>7. CASE j = v
    BY <2>6, <2>7
  <2>8. CASE j < v
    <3>1. Covers(s, v, Offset(s, v))
      BY <1>1 DEF Covers
    <3>2. Offset(s, j) + s[j].count <= Offset(s, v)
      BY <1>1, <2>2, <2>8, <3>1, OneSegment
    <3>3. Offset(s, v) <= e
      BY <1>1
    <3> HIDE DEF e
    <3>4. QED
      BY <1>1, <1>2, <2>1, <2>5, <2>6, <3>2, <3>3
  <2>9. QED
    BY <1>1, <2>2, <2>4, <2>7, <2>8
<1>7. visible \in SUBSET Int
  OBVIOUS
<1>8. Max(visible) = e
  <2> HIDE DEF visible, e
  <2>1. QED
    BY <1>5, <1>6, <1>7, MaxIs
<1>9. Edits!Picture(x, f) = x[Max(visible)].source
  BY <1>5, SameOperators DEF Edits!Picture
<1>10. QED
  <2> HIDE DEF x, visible, e
  <2>1. Edits!Picture(x, f) = x[e].source /\ x[e].source = s[v].start + s[v].count - 1
    BY <1>4, <1>8, <1>9
  <2>2. QED
    BY <2>1 DEF x

(* Behind masks only, it is the first frame of their run: the segment's own, since
   one before it that the run continued would have been merged with it. *)
LEMMA BarePicture ==
  ASSUME NEW s \in Seq(Segment), Canonical(s), NEW i \in 1 .. Len(s), NEW f \in Nat,
         Covers(s, i, f), \A k \in 1 .. i : s[k].masked
  PROVE  Edits!Picture(Expand(s), f) = s[i].start
<1> DEFINE x == Expand(s)
           r == Offset(s, i) + 1
           visible == {k \in 1 .. f + 1 : ~x[k].masked}
           runs == {k \in 1 .. f + 1 : \A m \in k + 1 .. f + 1 : x[m].source = x[m - 1].source + 1}
<1>1. /\ s \in Seq(Piece) /\ Len(s) \in Nat /\ s[i].count \in Nat /\ s[i].start \in Nat
      /\ Offset(s, i) \in Nat
  BY SegmentFacts, PieceFacts, OffsetFacts
<1>2. visible = {}
  <2> SUFFICES ASSUME NEW q \in 1 .. f + 1 PROVE x[q].masked
    OBVIOUS
  <2>1. \E j \in 1 .. i :
           /\ Covers(s, j, q - 1) /\ j \in 1 .. Len(s)
           /\ Expand(s)[q] = [source |-> s[j].start + (q - 1 - Offset(s, j)), masked |-> s[j].masked]
    BY <1>1, ItemsBefore
  <2>2. QED
    BY <2>1
<1>3. \A q \in r .. f + 1 : x[q].source = s[i].start + (q - 1 - Offset(s, i))
  <2> SUFFICES ASSUME NEW q \in r .. f + 1 PROVE x[q].source = s[i].start + (q - 1 - Offset(s, i))
    OBVIOUS
  <2> DEFINE p == q - 1
  <2>1. p \in Nat /\ Covers(s, i, p) /\ p + 1 = q
    BY <1>1 DEF Covers
  <2> HIDE DEF p
  <2>2. Expand(s)[p + 1] = [source |-> s[i].start + (p - Offset(s, i)), masked |-> s[i].masked]
    BY <1>1, <2>1, ItemOf
  <2>3. QED
    BY <2>1, <2>2 DEF p
<1>4. r \in runs
  <2>1. r \in 1 .. f + 1
    BY <1>1 DEF Covers
  <2>2. ASSUME NEW m \in r + 1 .. f + 1 PROVE x[m].source = x[m - 1].source + 1
    <3>1. m \in r .. f + 1 /\ m - 1 \in r .. f + 1
      BY <1>1, <2>2
    <3>2. /\ x[m].source = s[i].start + (m - 1 - Offset(s, i))
          /\ x[m - 1].source = s[i].start + (m - 1 - 1 - Offset(s, i))
      BY <1>3, <3>1
    <3>3. QED
      BY SMTT(30), <1>1, <3>1, <3>2
  <2>3. QED
    BY <2>1, <2>2
<1>5. ASSUME NEW q \in runs PROVE r <= q
  <2>1. q \in 1 .. f + 1 /\ \A m \in q + 1 .. f + 1 : x[m].source = x[m - 1].source + 1
    BY <1>5
  <2>2. SUFFICES ASSUME q < r PROVE FALSE
    BY <1>1, <2>1
  <2> DEFINE h == i - 1
             o == Offset(s, i)
  <2>3. o \in Nat /\ o >= 1 /\ r = o + 1 /\ r \in q + 1 .. f + 1 /\ o \in 1 .. f + 1
    BY <1>1, <2>1, <2>2 DEF Covers
  <2>4. i # 1
    BY <1>1, <2>3, OffsetFacts
  <2>5. h \in 1 .. Len(s) /\ h + 1 = i /\ h \in 1 .. Len(s) - 1 /\ h \in 1 .. i
    BY <1>1, <2>4
  <2> HIDE DEF h, r
  <2>6. o = Offset(s, h) + s[h].count
    BY <1>1, <2>5, OffsetFacts
  <2>7. s[h] \in Segment /\ s[h].count \in Nat \ {0} /\ s[h].start \in Nat /\ Offset(s, h) \in Nat
    BY <1>1, <2>5, SegmentFields, OffsetFacts
  <2>8. x[o].source = s[h].start + s[h].count - 1
    <3> DEFINE k == s[h].count
    <3>1. k \in 1 .. s[h].count
      BY <2>7
    <3> HIDE DEF k
    <3>2. x[Offset(s, h) + k] = [source |-> s[h].start + k - 1, masked |-> s[h].masked]
      BY <1>1, <2>5, <3>1, ItemAt
    <3>3. QED
      BY <2>6, <3>2 DEF k
  <2>9. x[r].source = x[r - 1].source + 1 /\ r - 1 = o
    BY <2>1, <2>3
  <2>10. r \in r .. f + 1
    BY <2>3
  <2>11. x[r].source = s[i].start + (r - 1 - Offset(s, i))
    BY <1>3, <2>10 DEF r
  <2>12. s[h].start + s[h].count = s[i].start
    <3>1. x[r].source = s[i].start
      BY SMTT(30), <1>1, <2>3, <2>11
    <3>2. x[r].source = s[h].start + s[h].count - 1 + 1
      BY <2>8, <2>9
    <3>3. QED
      BY SMTT(30), <1>1, <2>7, <3>1, <3>2
  <2>13. s[h].masked = s[i].masked
    <3>1. s[h].masked /\ s[i].masked
      BY <2>5
    <3>2. s[h].masked \in BOOLEAN /\ s[i].masked \in BOOLEAN
      BY <1>1, <2>5, PieceFacts
    <3>3. QED
      BY <3>1, <3>2
  <2>14. ~Touching(s[h], s[h + 1])
    BY <2>5 DEF Canonical
  <2>15. QED
    BY <2>5, <2>12, <2>13, <2>14 DEF Touching
<1>6. Min(runs) = r
  <2>1. runs \in SUBSET Int
    OBVIOUS
  <2> HIDE DEF runs, r
  <2>2. QED
    BY <1>4, <1>5, <2>1, MinIs
<1>7. Edits!Picture(x, f) = x[Min(runs)].source
  BY <1>2, SameOperators DEF Edits!Picture
<1>8. x[r].source = s[i].start
  <2>1. r \in r .. f + 1 /\ r - 1 - Offset(s, i) = 0
    BY <1>1 DEF Covers
  <2>2. x[r].source = s[i].start + (r - 1 - Offset(s, i))
    BY <1>3, <2>1
  <2>3. QED
    BY <1>1, <2>1, <2>2
<1>9. QED
  BY <1>6, <1>7, <1>8

(* Without a mask it is the frame itself. *)
LEMMA OwnPicture ==
  ASSUME NEW s \in Seq(Segment), NEW i \in 1 .. Len(s), NEW f \in Nat, Covers(s, i, f), ~s[i].masked
  PROVE  Edits!Picture(Expand(s), f) = s[i].start + (f - Offset(s, i))
<1> DEFINE x == Expand(s)
           q == f + 1
           visible == {k \in 1 .. f + 1 : ~x[k].masked}
<1>1. x[q] = [source |-> s[i].start + (f - Offset(s, i)), masked |-> s[i].masked]
  BY SegmentFacts, ItemOf
<1>2. q \in visible /\ visible \in SUBSET Int /\ \A y \in visible : y <= q
  BY <1>1
<1>3. Max(visible) = q
  <2> HIDE DEF visible, q
  <2>1. QED
    BY <1>2, MaxIs
<1>4. Edits!Picture(x, f) = x[Max(visible)].source
  BY <1>2, SameOperators DEF Edits!Picture
<1>5. QED
  BY <1>1, <1>3, <1>4

(* In an edited list every place has the picture and the sound that the code finds
   for it, and a search for its frame from there finds the place. *)
LEMMA PlaceAgrees ==
  ASSUME IInv, ~identity, NEW f \in Nat, f < Total(segments)
  PROVE  /\ MapOutputToSource(f) = Edits!Picture(Expand(segments), f)
         /\ MapOutputToAudioSource(f) = Expand(segments)[f + 1].source
         /\ MapSourceToOutput(Expand(segments)[f + 1].source, f, TRUE) = f
         /\ MapSourceToOutput(Expand(segments)[f + 1].source, f, FALSE) = f
<1>1. segments \in Seq(Segment) /\ segments \in Seq(Piece) /\ Canonical(segments)
  BY TypeFacts
<1>2. PICK i \in 1 .. Len(segments) : Covers(segments, i, f)
  BY <1>1, Locate
<1>3. /\ DOMAIN segments = 1 .. Len(segments) /\ Len(segments) \in Nat
      /\ segments[i].start \in Nat /\ segments[i].count \in Nat /\ Offset(segments, i) \in Nat
      /\ \A j \in 1 .. Len(segments) : segments[j].start \in Nat /\ Offset(segments, j) \in Nat
  BY <1>1, PieceFacts, OffsetFacts
<1>4. At(f) = {i}
  <2>1. At(f) = {j \in 1 .. Len(segments) : Covers(segments, j, f)}
    BY <1>3 DEF At, Covers
  <2>2. \A j \in 1 .. Len(segments) : Covers(segments, j, f) => j = i
    BY <1>1, <1>2, OneSegment
  <2>3. QED
    BY <1>2, <2>1, <2>2
<1>5. Max(At(f)) = i /\ At(f) # {}
  <2>1. At(f) \in SUBSET Int /\ i \in At(f) /\ \A y \in At(f) : y <= i
    BY <1>3, <1>4
  <2>2. QED
    BY <2>1, MaxIs
<1> DEFINE g == Expand(segments)[f + 1].source
           shown == segments[i].start + (f - Offset(segments, i))
<1>6. g = shown /\ g \in Nat
  <2>1. Expand(segments)[f + 1] = [source |-> segments[i].start + (f - Offset(segments, i)),
                                   masked |-> segments[i].masked]
    BY <1>1, <1>2, ItemOf
  <2>2. shown \in Nat
    BY <1>2, <1>3 DEF Covers
  <2>3. QED
    BY <2>1, <2>2
<1>7. segments[i].start + f - Offset(segments, i) = shown
  BY <1>3
<1>8. MapOutputToAudioSource(f) = g
  BY <1>5, <1>6, <1>7 DEF MapOutputToAudioSource
<1>9. MapSourceToOutput(g, f, TRUE) = f /\ MapSourceToOutput(g, f, FALSE) = f
  <2> HIDE DEF g
  <2>1. Candidates(g) \in SUBSET Int
    BY <1>3, <1>6 DEF Candidates
  <2>2. f \in Candidates(g)
    <3>1. segments[i].start <= g /\ g < segments[i].start + segments[i].count
      BY <1>2, <1>3, <1>6 DEF Covers
    <3>2. f = Offset(segments, i) + g - segments[i].start
      BY <1>3, <1>6
    <3>3. QED
      BY <1>3, <3>1, <3>2 DEF Candidates
  <2> DEFINE later == {p \in Candidates(g) : p >= f}
             earlier == {p \in Candidates(g) : p <= f}
  <2>3. /\ later \in SUBSET Int /\ f \in later /\ \A y \in later : f <= y
        /\ earlier \in SUBSET Int /\ f \in earlier /\ \A y \in earlier : y <= f
    BY <2>1, <2>2
  <2>4. Min(later) = f /\ Max(earlier) = f
    <3> HIDE DEF later, earlier
    <3>1. Min(later) = f
      BY <2>3, MinIs
    <3>2. Max(earlier) = f
      BY <2>3, MaxIs
    <3>3. QED
      BY <3>1, <3>2
  <2>5. MapSourceToOutput(g, f, TRUE) = IF later = {} THEN -1 ELSE Min(later)
    BY DEF MapSourceToOutput
  <2>6. MapSourceToOutput(g, f, FALSE) = IF earlier = {} THEN -1 ELSE Max(earlier)
    BY DEF MapSourceToOutput
  <2>7. QED
    BY <2>3, <2>4, <2>5, <2>6
<1>10. MapOutputToSource(f) = Edits!Picture(Expand(segments), f)
  <2> DEFINE visible == {k \in 1 .. i : ~segments[k].masked}
  <2>1. MapOutputToSource(f) =
          IF ~segments[i].masked THEN segments[i].start + f - Offset(segments, i)
          ELSE IF visible = {} THEN segments[i].start
          ELSE segments[Max(visible)].start + segments[Max(visible)].count - 1
    BY <1>5 DEF MapOutputToSource
  <2>2. CASE ~segments[i].masked
    <3>1. MapOutputToSource(f) = shown
      BY <1>7, <2>1, <2>2
    <3>2. Edits!Picture(Expand(segments), f) = segments[i].start + (f - Offset(segments, i))
      BY <1>1, <1>2, <2>2, OwnPicture
    <3>3. QED
      BY <3>1, <3>2
  <2>3. CASE segments[i].masked /\ visible = {}
    <3>1. \A k \in 1 .. i : segments[k].masked
      BY <2>3
    <3>2. Edits!Picture(Expand(segments), f) = segments[i].start
      BY <1>1, <1>2, <3>1, BarePicture
    <3>3. QED
      BY <2>1, <2>3, <3>2
  <2>4. CASE segments[i].masked /\ visible # {}
    <3>1. visible \in SUBSET (0 .. i) /\ i \in Nat /\ visible \in SUBSET Int
      BY <1>3
    <3>2. PICK v \in visible : \A y \in visible : y <= v
      <4> HIDE DEF visible
      <4>1. QED
        BY <2>4, <3>1, Greatest
    <3>3. Max(visible) = v
      <4> HIDE DEF visible
      <4>1. QED
        BY <3>1, <3>2, MaxIs
    <3>4. v \in 1 .. i /\ ~segments[v].masked /\ \A k \in 1 .. i : ~segments[k].masked => k <= v
      BY <3>2
    <3>5. Edits!Picture(Expand(segments), f) = segments[v].start + segments[v].count - 1
      BY <1>1, <1>2, <2>4, <3>4, HeldPicture
    <3>6. QED
      BY <2>1, <2>4, <3>3, <3>5
  <2>5. QED
    BY <2>2, <2>3, <2>4
<1>11. QED
  BY <1>8, <1>9, <1>10

(* Behind the end there is nothing. *)
LEMMA NothingBehind ==
  ASSUME IInv, ~identity, NEW f \in Nat, f >= Total(segments)
  PROVE  MapOutputToSource(f) = -1 /\ MapOutputToAudioSource(f) = -1
<1>1. segments \in Seq(Piece) /\ Len(segments) \in Nat /\ DOMAIN segments = 1 .. Len(segments)
  BY TypeFacts, PieceFacts
<1>2. ASSUME NEW i \in 1 .. Len(segments) PROVE ~(f < Offset(segments, i) + segments[i].count)
  <2>1. i + 1 \in 1 .. Len(segments) + 1 /\ Len(segments) + 1 \in 1 .. Len(segments) + 1
        /\ i + 1 \in 1 .. Len(segments) + 1
    BY <1>1
  <2> DEFINE n == Len(segments) + 1
             k == i + 1
  <2>2. n \in 1 .. Len(segments) + 1 /\ k \in 1 .. n
    BY <1>1
  <2> HIDE DEF n
  <2>3. Offset(segments, k) <= Offset(segments, n) /\ Offset(segments, k) \in Nat
    BY <1>1, <2>1, <2>2, OffsetFacts
  <2>4. Offset(segments, n) = Total(segments) /\ Total(segments) \in Nat
    BY <1>1, OffsetFacts DEF n
  <2>5. Offset(segments, i + 1) = Offset(segments, i) + segments[i].count
    BY <1>1, OffsetFacts
  <2>6. QED
    BY <2>3, <2>4, <2>5
<1>3. At(f) = {}
  BY <1>1, <1>2 DEF At
<1>4. QED
  BY <1>3 DEF MapOutputToSource, MapOutputToAudioSource

(* Picture, sound and the way back agree with the list of frames at every place of
   every edited timeline: a place lies in one segment, and where only masks have
   come before, merged segments tell where the run of the mask begins. *)
THEOREM MapsAgree == Spec => []MappingsAgree
<1>1. IInv => MappingsAgree
  <2> SUFFICES ASSUME IInv, ~identity, NEW f \in 0 .. FrameLimit
               PROVE  IF f >= Len(Expand(segments))
                      THEN MapOutputToSource(f) = -1 /\ MapOutputToAudioSource(f) = -1
                      ELSE /\ MapOutputToSource(f) = Edits!Picture(Expand(segments), f)
                           /\ MapOutputToAudioSource(f) = Expand(segments)[f + 1].source
                           /\ MapSourceToOutput(Expand(segments)[f + 1].source, f, TRUE) = f
                           /\ MapSourceToOutput(Expand(segments)[f + 1].source, f, FALSE) = f
    BY DEF MappingsAgree
  <2>1. f \in Nat
    BY Constants
  <2>2. Len(Expand(segments)) = Total(segments) /\ Total(segments) \in Nat
    BY TypeFacts, ShownLen, OffsetFacts
  <2>3. CASE f >= Total(segments)
    BY <2>1, <2>2, <2>3, NothingBehind
  <2>4. CASE f < Total(segments)
    <3>1. ~(f >= Len(Expand(segments)))
      BY <2>1, <2>2, <2>4
    <3>2. QED
      BY <2>1, <2>4, <3>1, PlaceAgrees
  <2>5. f >= Total(segments) \/ f < Total(segments)
    BY <2>1, <2>2
  <2>6. QED
    BY <2>3, <2>4, <2>5, Zenon
<1>2. QED
  BY <1>1, Invariance, PTL

-----------------------------------------------------------------------------
(* The refinement.  A segment list stands for its frames, and a history for the
   contents of its entries. *)
Mapped(h) == [i \in DOMAIN h |-> Content(h[i])]
Contents  == [whole : BOOLEAN, items : Seq(Item)]

LEMMA ContentFacts ==
  ASSUME NEW c \in States
  PROVE  Content(c) \in Contents
<1>1. c.segments \in Seq(Segment) /\ c.identity \in BOOLEAN
  BY DEF States
<1>2. c.segments \in Seq(Piece)
  BY <1>1, SegmentFacts
<1>3. Expand(c.segments) \in Seq(Item)
  BY <1>2, ShownLen
<1>4. <<>> \in Seq(Item)
  OBVIOUS
<1> QED
  BY <1>1, <1>3, <1>4 DEF Content, Contents

(* Pushing, forgetting and popping mean the same of a history and of its contents. *)
LEMMA MappedFacts ==
  ASSUME NEW h \in Seq(States)
  PROVE  /\ Mapped(h) \in Seq(Contents) /\ Len(Mapped(h)) = Len(h)
         /\ \A i \in 1 .. Len(h) : Mapped(h)[i] = Content(h[i])
<1>1. DOMAIN h = 1 .. Len(h) /\ Len(h) \in Nat /\ \A i \in 1 .. Len(h) : h[i] \in States
  OBVIOUS
<1>2. \A i \in 1 .. Len(h) : Content(h[i]) \in Contents
  BY <1>1, ContentFacts
<1>3. Mapped(h) \in [1 .. Len(h) -> Contents] /\ \A i \in 1 .. Len(h) : Mapped(h)[i] = Content(h[i])
  BY <1>1, <1>2 DEF Mapped
<1>4. Mapped(h) \in Seq(Contents)
  BY <1>1, <1>3, IsASeq
<1> QED
  BY <1>1, <1>3, <1>4

(* A pushed, a forgotten and a popped entry, seen from the list of frames. *)
LEMMA MappedPush ==
  ASSUME NEW h \in Seq(States), NEW c \in States
  PROVE  Mapped(Append(h, c)) = Append(Mapped(h), Content(c))
<1>1. /\ Append(h, c) \in Seq(States) /\ Len(Append(h, c)) = Len(h) + 1 /\ Len(h) \in Nat
      /\ \A i \in 1 .. Len(h) : Append(h, c)[i] = h[i]
      /\ Append(h, c)[Len(h) + 1] = c
  OBVIOUS
<1>2. /\ Mapped(Append(h, c)) \in Seq(Contents) /\ Len(Mapped(Append(h, c))) = Len(h) + 1
      /\ \A i \in 1 .. Len(h) + 1 : Mapped(Append(h, c))[i] = Content(Append(h, c)[i])
  BY <1>1, MappedFacts
<1>3. /\ Mapped(h) \in Seq(Contents) /\ Len(Mapped(h)) = Len(h)
      /\ \A i \in 1 .. Len(h) : Mapped(h)[i] = Content(h[i])
  BY MappedFacts
<1>4. Content(c) \in Contents
  BY ContentFacts
<1> DEFINE p == Append(Mapped(h), Content(c))
<1>5. /\ p \in Seq(Contents) /\ Len(p) = Len(h) + 1
      /\ \A i \in 1 .. Len(h) : p[i] = Mapped(h)[i]
      /\ p[Len(h) + 1] = Content(c)
  BY <1>1, <1>3, <1>4
<1>6. \A i \in 1 .. Len(h) + 1 : Mapped(Append(h, c))[i] = p[i]
  <2> TAKE i \in 1 .. Len(h) + 1
  <2>1. CASE i = Len(h) + 1
    BY <2>1, <1>1, <1>2, <1>5
  <2>2. CASE i \in 1 .. Len(h)
    BY <2>2, <1>1, <1>2, <1>3, <1>5
  <2>3. i = Len(h) + 1 \/ i \in 1 .. Len(h)
    BY <1>1
  <2> HIDE DEF p
  <2> QED
    BY <2>1, <2>2, <2>3
<1> QED
  BY <1>2, <1>5, <1>6, SeqEqual

LEMMA MappedForget ==
  ASSUME NEW h \in Seq(States), h # <<>>
  PROVE  Mapped(Tail(h)) = Tail(Mapped(h))
<1>1. /\ Tail(h) \in Seq(States) /\ Len(Tail(h)) = Len(h) - 1 /\ Len(h) \in Nat \ {0}
      /\ \A i \in 1 .. Len(h) - 1 : Tail(h)[i] = h[i + 1]
  OBVIOUS
<1>2. /\ Mapped(Tail(h)) \in Seq(Contents) /\ Len(Mapped(Tail(h))) = Len(h) - 1
      /\ \A i \in 1 .. Len(h) - 1 : Mapped(Tail(h))[i] = Content(Tail(h)[i])
  BY <1>1, MappedFacts
<1>3. /\ Mapped(h) \in Seq(Contents) /\ Len(Mapped(h)) = Len(h)
      /\ \A i \in 1 .. Len(h) : Mapped(h)[i] = Content(h[i])
  BY MappedFacts
<1>4. Mapped(h) # <<>>
  BY <1>1, <1>3
<1> DEFINE p == Tail(Mapped(h))
<1>5. /\ p \in Seq(Contents) /\ Len(p) = Len(h) - 1
      /\ \A i \in 1 .. Len(h) - 1 : p[i] = Mapped(h)[i + 1]
  BY <1>1, <1>3, <1>4
<1>6. \A i \in 1 .. Len(h) - 1 : Mapped(Tail(h))[i] = p[i]
  <2> TAKE i \in 1 .. Len(h) - 1
  <2>1. i + 1 \in 1 .. Len(h)
    BY <1>1
  <2>2. Mapped(h)[i + 1] = Content(h[i + 1])
    BY <2>1, <1>3
  <2> QED
    BY <2>2, <1>1, <1>2, <1>5
<1> QED
  BY SMTT(30), <1>2, <1>5, <1>6, SeqEqual

LEMMA MappedPop ==
  ASSUME NEW h \in Seq(States), h # <<>>
  PROVE  /\ Mapped(h) # <<>>
         /\ Edits!Last(Mapped(h)) = Content(Last(h))
         /\ Edits!Front(Mapped(h)) = Mapped(Front(h))
<1>1. /\ Front(h) \in Seq(States) /\ Len(Front(h)) = Len(h) - 1
      /\ \A i \in 1 .. Len(h) - 1 : Front(h)[i] = h[i]
      /\ Len(h) \in Nat \ {0} /\ Last(h) = h[Len(h)]
  BY Popped
<1>2. /\ Mapped(h) \in Seq(Contents) /\ Len(Mapped(h)) = Len(h)
      /\ \A i \in 1 .. Len(h) : Mapped(h)[i] = Content(h[i])
  BY MappedFacts
<1>3. Mapped(h) # <<>>
  BY <1>1, <1>2
<1>4. Last(Mapped(h)) = Mapped(h)[Len(h)]
  BY <1>2 DEF Last
<1>5. Edits!Last(Mapped(h)) = Content(Last(h))
  BY <1>1, <1>2, <1>4, SameOperators
<1>6. /\ Mapped(Front(h)) \in Seq(Contents) /\ Len(Mapped(Front(h))) = Len(h) - 1
      /\ \A i \in 1 .. Len(h) - 1 : Mapped(Front(h))[i] = Content(Front(h)[i])
  BY <1>1, MappedFacts
<1> DEFINE p == Front(Mapped(h))
<1>7. p \in Seq(Contents) /\ Len(p) = Len(h) - 1 /\ \A i \in 1 .. Len(h) - 1 : p[i] = Mapped(h)[i]
  BY <1>1, <1>2, <1>3 DEF Front
<1>8. \A i \in 1 .. Len(h) - 1 : Mapped(Front(h))[i] = p[i]
  BY <1>1, <1>2, <1>6, <1>7
<1>9. Mapped(Front(h)) = p
  BY <1>6, <1>7, <1>8, SeqEqual
<1> QED
  BY <1>3, <1>5, <1>9, SameOperators

(* What the list of frames is before and after a step. *)
LEMMA ContentNow ==
  /\ Content(State) = IF identity THEN Edits!Whole ELSE Edits!List(Expand(segments))
  /\ Content(State)' = IF identity' THEN Edits!Whole ELSE Edits!List(Expand(segments'))
  /\ Mapped(undo)' = Mapped(undo') /\ Mapped(redo)' = Mapped(redo')
<1>1. Content(State) = IF identity THEN Edits!Whole ELSE Edits!List(Expand(segments))
  BY DEF Content, State, Edits!Whole, Edits!List
<1>2. Content(State)' = IF identity' THEN Edits!Whole ELSE Edits!List(Expand(segments'))
  BY DEF Content, State, Edits!Whole, Edits!List
<1>3. Mapped(undo)' = Mapped(undo') /\ Mapped(redo)' = Mapped(redo')
  BY DEF Mapped
<1> QED
  BY <1>1, <1>2, <1>3

LEMMA ItemsNow ==
  ASSUME IInv
  PROVE  /\ Edits!Items(Content(State)) = Expand(segments)
         /\ Expand(segments) \in Seq(Item) /\ Len(Expand(segments)) = FrameCount
         /\ FrameCount \in Nat
         /\ Edits!Places = Places
<1>1. segments \in Seq(Piece) /\ identity \in BOOLEAN /\ count \in Nat
  BY TypeFacts
<1>2. /\ Expand(segments) \in Seq(Item) /\ Len(Expand(segments)) = FrameCount /\ FrameCount \in Nat
  BY <1>1, ShownLen, OffsetFacts DEF FrameCount
<1>3. Edits!Items(Content(State)) =
        IF identity THEN [k \in 1 .. count |-> [source |-> k - 1, masked |-> FALSE]]
        ELSE Expand(segments)
  BY DEF Edits!Items, Content, State
<1>4. identity => Expand(segments) = [k \in 1 .. count |-> [source |-> k - 1, masked |-> FALSE]]
  BY <1>1, WholeFacts DEF IInv
<1>5. Edits!Items(Content(State)) = Expand(segments)
  BY <1>3, <1>4
<1>6. Edits!Places = Places
  BY <1>2, <1>5 DEF Edits!Places, Places
<1> QED
  BY <1>2, <1>5, <1>6

(* Pushing the state, and letting the oldest one go if need be, is what an edit of
   the list of frames does to its past. *)
LEMMA RememberedPast ==
  ASSUME IInv, Remembered
  PROVE  LET longer == Append(Mapped(undo), Content(State))
         IN Mapped(undo') = IF Len(longer) > MaxHistory THEN Tail(longer) ELSE longer
<1> DEFINE long == Append(undo, State)
<1>1. undo \in Seq(States) /\ State \in States /\ MaxHistory \in Nat
  BY TypeFacts, Constants
<1>2. long \in Seq(States) /\ Len(long) = Len(undo) + 1 /\ Len(undo) \in Nat
  BY <1>1
<1>3. undo' = IF Len(long) > MaxHistory THEN Tail(long) ELSE long
  BY DEF Remembered
<1>4. Mapped(long) = Append(Mapped(undo), Content(State))
  BY <1>1, MappedPush
<1> HIDE DEF long
<1>5. Len(Mapped(long)) = Len(long)
  BY <1>2, MappedFacts
<1>6. long # <<>>
  BY <1>2
<1>7. Mapped(Tail(long)) = Tail(Mapped(long))
  BY <1>2, <1>6, MappedForget
<1> QED
  BY <1>3, <1>4, <1>5, <1>7

(* An edit that applies a list which is not the present one changes the frames:
   two merged lists of the same frames would be the same list. *)
LEMMA EditIsEdit ==
  ASSUME IInv, NEW s \in Seq(Piece), ApplyEdit(s, FALSE)
  PROVE  Edits!Edit(Edits!List(Expand(s)))
<1> DEFINE c == Edits!List(Expand(s))
<1>1. /\ segments \in Seq(Segment) /\ Canonical(segments) /\ identity \in BOOLEAN
  BY TypeFacts
<1>2. /\ Normalized(s) \in Seq(Segment) /\ Canonical(Normalized(s)) /\ Expand(Normalized(s)) = Expand(s)
  BY NormalizedFacts
<1>3. /\ Normalized(s) # segments \/ FALSE # identity
      /\ Remembered /\ redo' = <<>>
      /\ segments' = Normalized(s) /\ identity' = FALSE
      /\ count' = count
  BY DEF ApplyEdit, source
<1>4. Content(State)' = c
  BY <1>2, <1>3, ContentNow
<1>5. c # Content(State)
  <2>1. CASE identity
    BY <2>1 DEF Content, State, Edits!List
  <2>2. CASE ~identity
    <3>1. Expand(s) # Expand(segments)
      BY <2>2, <1>1, <1>2, <1>3, Unique
    <3> QED
      BY <2>2, <3>1 DEF Content, State, Edits!List
  <2> QED
    BY <2>1, <2>2
<1>6. LET longer == Append(Mapped(undo), Content(State))
      IN Mapped(undo)' = IF Len(longer) > MaxHistory THEN Tail(longer) ELSE longer
  BY <1>3, RememberedPast, ContentNow
<1>7. Mapped(redo)' = <<>>
  BY <1>3 DEF Mapped
<1> HIDE DEF c
<1>8. Edits!Change(c)
  BY <1>4, <1>5, <1>6, <1>7 DEF Edits!Change, Mapped
<1> QED
  BY <1>3, <1>8 DEF Edits!Edit, c

(* Every action of the editor is an action on the list of frames. *)
LEMMA DeleteIsSplice ==
  ASSUME IInv, NEW b \in Places, NEW e \in Places, DeleteRange(b, e)
  PROVE  Edits!Next
<1>1. segments \in Seq(Segment) /\ FrameCount \in Nat
  BY TypeFacts, ItemsNow
<1>2. /\ b \in Nat /\ e \in Nat /\ b <= e /\ e <= FrameCount
      /\ b \in 0 .. Total(segments) /\ e \in 0 .. Total(segments)
  BY <1>1 DEF DeleteRange, Places, FrameCount
<1> DEFINE s == Slice(segments, 0, b) \o Slice(segments, e, FrameCount)
<1>3. /\ s \in Seq(Piece)
      /\ Expand(s) = SubSeq(Expand(segments), 1, b) \o <<>> \o SubSeq(Expand(segments), e + 1, FrameCount)
  BY <1>1, <1>2, EditedLists DEF FrameCount
<1>4. ApplyEdit(s, FALSE)
  BY DEF DeleteRange
<1> HIDE DEF s
<1>5. Edits!Edit(Edits!List(Expand(s)))
  BY <1>3, <1>4, EditIsEdit
<1>6. Edits!Splice(b, e, <<>>)
  BY <1>2, <1>3, <1>5, ItemsNow DEF Edits!Splice
<1> QED
  BY <1>6, ItemsNow DEF Edits!Next

LEMMA CropIsCrop ==
  ASSUME IInv, NEW b \in Places, NEW e \in Places, CropToRange(b, e)
  PROVE  Edits!Next
<1>1. segments \in Seq(Segment) /\ FrameCount \in Nat
  BY TypeFacts, ItemsNow
<1>2. /\ b \in Nat /\ e \in Nat /\ b < e /\ b <= e /\ e <= FrameCount
      /\ b \in 0 .. Total(segments) /\ e \in 0 .. Total(segments)
  BY <1>1 DEF CropToRange, Places, FrameCount
<1> DEFINE s == Slice(segments, b, e)
<1>3. s \in Seq(Piece) /\ Expand(s) = SubSeq(Expand(segments), b + 1, e)
  BY <1>1, <1>2, EditedLists
<1>4. ApplyEdit(s, FALSE)
  BY DEF CropToRange
<1> HIDE DEF s
<1>5. Edits!Edit(Edits!List(Expand(s)))
  BY <1>3, <1>4, EditIsEdit
<1>6. Edits!Crop(b, e)
  BY <1>2, <1>3, <1>5, ItemsNow DEF Edits!Crop
<1> QED
  BY <1>6, ItemsNow DEF Edits!Next

LEMMA ReplaceIsSplice ==
  ASSUME IInv, NEW b \in Places, NEW e \in Places, NEW t \in Clips, ReplaceRange(b, e, t)
  PROVE  Edits!Next
<1>1. segments \in Seq(Segment) /\ FrameCount \in Nat /\ t \in Seq(Piece)
  BY TypeFacts, ItemsNow, Constants
<1>2. /\ b \in Nat /\ e \in Nat /\ b <= e /\ e <= FrameCount
      /\ b \in 0 .. Total(segments) /\ e \in 0 .. Total(segments)
  BY <1>1 DEF ReplaceRange, Places, FrameCount
<1>3. Normalized(t) \in Seq(Piece) /\ Expand(Normalized(t)) = Expand(t)
  BY <1>1, NormalizedFacts, SegmentFacts
<1> DEFINE s == Slice(segments, 0, b) \o Normalized(t) \o Slice(segments, e, FrameCount)
<1>4. /\ s \in Seq(Piece)
      /\ Expand(s) = SubSeq(Expand(segments), 1, b) \o Expand(t) \o SubSeq(Expand(segments), e + 1, FrameCount)
  <2>1. \A u \in Seq(Piece) :
          /\ Slice(segments, 0, b) \o u \o Slice(segments, e, FrameCount) \in Seq(Piece)
          /\ Expand(Slice(segments, 0, b) \o u \o Slice(segments, e, FrameCount)) =
               SubSeq(Expand(segments), 1, b) \o Expand(u) \o SubSeq(Expand(segments), e + 1, FrameCount)
    BY <1>1, <1>2, EditedLists DEF FrameCount
  <2> QED
    BY <2>1, <1>3
<1>5. ApplyEdit(s, FALSE)
  BY DEF ReplaceRange
<1> HIDE DEF s
<1>6. Edits!Edit(Edits!List(Expand(s)))
  BY <1>4, <1>5, EditIsEdit
<1>7. Edits!Splice(b, e, Expand(t))
  BY <1>2, <1>4, <1>6, ItemsNow DEF Edits!Splice
<1>8. Expand(t) \in {Expand(c) : c \in Clips}
  OBVIOUS
<1> QED
  BY <1>7, <1>8, ItemsNow DEF Edits!Next

LEMMA InstallIsInstall ==
  ASSUME IInv, OpenSource \/ \E s \in Loads : ReplaceSegments(s)
  PROVE  Edits!Next
<1>1. /\ count' \in Nat
      /\ identity' \/ count' = count
      /\ undo' = <<>> /\ redo' = <<>>
  <2>1. count \in Nat /\ Length \in Nat /\ \A n \in Estimates : n \in Nat
    BY TypeFacts, Constants
  <2>2. CASE OpenSource
    <3>1. ASSUME NEW n \in Nat, NEW e, Reset(n, e)
          PROVE  count' \in Nat /\ identity' /\ undo' = <<>> /\ redo' = <<>>
      BY <3>1 DEF Reset
    <3>2. Reset(Length, TRUE) \/ (\E n \in Estimates : Reset(n, FALSE)) \/ Reset(0, TRUE)
      BY <2>2 DEF OpenSource
    <3> QED
      BY <2>1, <3>1, <3>2
  <2>3. CASE \E s \in Loads : ReplaceSegments(s)
    BY <2>1, <2>3 DEF ReplaceSegments, source
  <2> QED
    BY <2>2, <2>3
<1>2. identity' => (Content(State)').whole
  <2>1. identity' => Content(State)' = Edits!Whole
    BY ContentNow
  <2>2. Edits!Whole.whole
    BY DEF Edits!Whole
  <2> QED
    BY <2>1, <2>2
<1>3. Mapped(undo)' = <<>> /\ Mapped(redo)' = <<>>
  BY <1>1 DEF Mapped
<1>4. Edits!Install
  BY <1>1, <1>2, <1>3 DEF Edits!Install, Mapped
<1> QED
  BY <1>4 DEF Edits!Next

LEMMA RefineIsRefine ==
  ASSUME IInv, RefineLength
  PROVE  Edits!Next
<1>1. Length \in Nat /\ \A n \in Estimates : n \in Nat
  BY Constants
<1>2. ASSUME NEW n \in Nat, NEW e, SetSourceFrameCount(n, e)
      PROVE  Edits!Refine
  <2>1. /\ count' \in Nat /\ undo' = undo /\ redo' = redo /\ identity' = identity
        /\ ~identity => segments' = segments
    BY <1>2 DEF SetSourceFrameCount
  <2>2. Content(State)' = Content(State)
    BY <2>1, ContentNow
  <2> QED
    BY <2>1, <2>2 DEF Edits!Refine
<1>3. SetSourceFrameCount(Length, TRUE) \/ \E n \in Estimates : SetSourceFrameCount(n, FALSE)
  BY DEF RefineLength
<1>4. Edits!Refine
  BY <1>1, <1>2, <1>3
<1> QED
  BY <1>4 DEF Edits!Next

(* Appending a file leaves "the whole source" what it is, and puts the new frames
   behind those of an edited list. *)
LEMMA AppendIsExtend ==
  ASSUME IInv, AppendSource
  PROVE  Edits!Next
<1> DEFINE g == [start |-> count, count |-> Extended - count, masked |-> FALSE]
           longer == Normalized(Append(segments, g))
<1>1. /\ segments \in Seq(Segment) /\ segments \in Seq(Piece) /\ Canonical(segments)
      /\ count \in Nat /\ Extended \in Nat /\ identity \in BOOLEAN
  BY TypeFacts, Constants
<1>2. count < Extended /\ count' = Extended
  BY DEF AppendSource
<1>3. g \in Piece /\ g.count = Extended - count /\ g.start = count /\ ~g.masked
  BY <1>1, <1>2 DEF Piece
<1>4. IF identity THEN UNCHANGED <<identity, undo, redo>>
      ELSE segments' = longer /\ identity' = identity /\ Remembered /\ redo' = <<>>
  BY DEF AppendSource
<1> HIDE DEF g, longer
<1>5. CASE identity
  <2>1. Content(State)' = Content(State) /\ undo' = undo /\ redo' = redo
    BY <1>4, <1>5, ContentNow
  <2>2. Edits!Refine
    BY <2>1, <1>1, <1>2 DEF Edits!Refine
  <2> QED
    BY <2>2 DEF Edits!Next
<1>6. CASE ~identity
  <2> DEFINE new == [k \in 1 .. count' - count |-> [source |-> count + k - 1, masked |-> FALSE]]
             c   == Edits!List(Expand(segments) \o new)
  <2>1. /\ Append(segments, g) \in Seq(Piece)
        /\ Expand(Append(segments, g)) = Expand(segments) \o Frames(g)
    BY <1>1, <1>3, OneMore
  <2>2. Expand(longer) = Expand(segments) \o Frames(g)
    BY <2>1, NormalizedFacts DEF longer
  <2>3. Frames(g) = new
    BY <1>2, <1>3 DEF Frames, g
  <2>4. Expand(segments) \in Seq(Item) /\ Frames(g) \in Seq(Item) /\ Len(Frames(g)) = Extended - count
    BY <1>1, <1>3, ShownLen, FramesFacts
  <2>5. Expand(segments) # Expand(longer)
    <3>1. Len(Expand(longer)) = Len(Expand(segments)) + (Extended - count)
      BY <2>2, <2>4, Concat
    <3>2. Len(Expand(segments)) \in Nat
      BY <2>4
    <3> QED
      BY <3>1, <3>2, <1>1, <1>2
  <2>6. c = Edits!List(Expand(longer))
    BY <2>2, <2>3
  <2>7. Content(State) = Edits!List(Expand(segments))
    BY <1>6, ContentNow
  <2>8. c # Content(State)
    <3>1. Edits!List(Expand(longer)) # Edits!List(Expand(segments))
      BY <2>5 DEF Edits!List
    <3> HIDE DEF c
    <3> QED
      BY <3>1, <2>6, <2>7
  <2>9. LET old == Append(Mapped(undo), Content(State))
        IN Mapped(undo)' = IF Len(old) > MaxHistory THEN Tail(old) ELSE old
    BY <1>4, <1>6, RememberedPast, ContentNow
  <2>10. Mapped(redo)' = <<>>
    BY <1>4, <1>6 DEF Mapped
  <2>11. ~Content(State).whole /\ Content(State).items = Expand(segments)
    BY <2>7 DEF Edits!List
  <2>12. c = Edits!List(Content(State).items \o new)
    BY <2>11
  <2> HIDE DEF c, new
  <2>13. Content(State)' = c
    BY <1>4, <1>6, <2>6, ContentNow
  <2>14. Edits!Change(c)
    BY <2>8, <2>9, <2>10, <2>13 DEF Edits!Change, Mapped
  <2>15. Edits!Change(Edits!List(Content(State).items \o
             [k \in 1 .. count' - count |-> [source |-> count + k - 1, masked |-> FALSE]]))
    BY <2>12, <2>14 DEF new
  <2>16. Edits!Extend
    BY <2>11, <2>15, <1>1, <1>2 DEF Edits!Extend
  <2> QED
    BY <2>16 DEF Edits!Next
<1> QED
  BY <1>5, <1>6, <1>1

(* Giving up all edits is an edit of its own, which can be undone. *)
LEMMA ResetIsEdit ==
  ASSUME IInv, ResetEdits
  PROVE  Edits!Next
<1>1. /\ ~identity /\ identity' = TRUE /\ Remembered /\ redo' = <<>> /\ count' = count
  BY DEF ResetEdits, IsModified, ApplyEdit, source
<1>2. Content(State)' = Edits!Whole /\ Content(State) # Edits!Whole
  BY <1>1, ContentNow DEF Edits!Whole, Edits!List
<1>3. LET longer == Append(Mapped(undo), Content(State))
      IN Mapped(undo)' = IF Len(longer) > MaxHistory THEN Tail(longer) ELSE longer
  BY <1>1, RememberedPast, ContentNow
<1>4. Mapped(redo)' = <<>>
  BY <1>1 DEF Mapped
<1>5. Edits!Change(Edits!Whole)
  BY <1>2, <1>3, <1>4 DEF Edits!Change, Mapped
<1>6. Edits!Edit(Edits!Whole)
  BY <1>1, <1>5 DEF Edits!Edit
<1> QED
  BY <1>6 DEF Edits!Next

(* What is restored is what the entry stands for, although an undone identity is
   the source as it is known by now and not as it was. *)
LEMMA RestoreIs ==
  ASSUME NEW c \in States, Restore(c)
  PROVE  Content(State)' = Content(c)
<1>1. identity' = c.identity
  BY DEF Restore
<1>2. ~c.identity => segments' = c.segments
  BY DEF Restore
<1>3. Content(c) = IF c.identity THEN Edits!Whole ELSE Edits!List(Expand(c.segments))
  BY DEF Content, Edits!Whole, Edits!List
<1> QED
  BY <1>1, <1>2, <1>3, ContentNow

LEMMA UndoIsUndo ==
  ASSUME IInv, Undo
  PROVE  Edits!Next
<1>1. /\ undo \in Seq(States) /\ redo \in Seq(States) /\ State \in States /\ undo # <<>>
      /\ Restore(Last(undo)) /\ undo' = Front(undo) /\ redo' = Append(redo, State)
      /\ count' = count
  BY TypeFacts DEF Undo, source
<1>2. /\ Mapped(undo) # <<>> /\ Edits!Last(Mapped(undo)) = Content(Last(undo))
      /\ Edits!Front(Mapped(undo)) = Mapped(Front(undo))
  BY <1>1, MappedPop
<1>3. Content(State)' = Content(Last(undo))
  BY <1>1, Popped, RestoreIs
<1>4. Mapped(Append(redo, State)) = Append(Mapped(redo), Content(State))
  BY <1>1, MappedPush
<1>5. Mapped(undo)' = Edits!Front(Mapped(undo)) /\ Mapped(redo)' = Append(Mapped(redo), Content(State))
  BY <1>1, <1>2, <1>4, ContentNow
<1>6. Edits!Undo
  BY <1>1, <1>2, <1>3, <1>5 DEF Edits!Undo, Mapped
<1> QED
  BY <1>6 DEF Edits!Next

LEMMA RedoIsRedo ==
  ASSUME IInv, Redo
  PROVE  Edits!Next
<1>1. /\ undo \in Seq(States) /\ redo \in Seq(States) /\ State \in States /\ redo # <<>>
      /\ Restore(Last(redo)) /\ redo' = Front(redo) /\ undo' = Append(undo, State)
      /\ count' = count
  BY TypeFacts DEF Redo, source
<1>2. /\ Mapped(redo) # <<>> /\ Edits!Last(Mapped(redo)) = Content(Last(redo))
      /\ Edits!Front(Mapped(redo)) = Mapped(Front(redo))
  BY <1>1, MappedPop
<1>3. Content(State)' = Content(Last(redo))
  BY <1>1, Popped, RestoreIs
<1>4. Mapped(Append(undo, State)) = Append(Mapped(undo), Content(State))
  BY <1>1, MappedPush
<1>5. Mapped(redo)' = Edits!Front(Mapped(redo)) /\ Mapped(undo)' = Append(Mapped(undo), Content(State))
  BY <1>1, <1>2, <1>4, ContentNow
<1>6. Edits!Redo
  BY <1>1, <1>2, <1>3, <1>5 DEF Edits!Redo, Mapped
<1> QED
  BY <1>6 DEF Edits!Next

(* It begins as a list of frames begins. *)
LEMMA InitIsInit == Init => Edits!Init
<1> SUFFICES ASSUME Init PROVE Edits!Init
  OBVIOUS
<1>1. count \in Nat /\ identity /\ undo = <<>> /\ redo = <<>>
  BY DEF Init
<1>2. Content(State) = Edits!Whole
  BY <1>1, ContentNow
<1>3. Mapped(undo) = <<>> /\ Mapped(redo) = <<>>
  BY <1>1 DEF Mapped
<1> QED
  BY <1>1, <1>2, <1>3 DEF Edits!Init, Mapped

(* Every step is a step on the list of frames, or none. *)
LEMMA NextIsNext == IInv /\ [Next]_vars => [Edits!Next]_(Edits!vars)
<1> SUFFICES ASSUME IInv, [Next]_vars PROVE [Edits!Next]_(Edits!vars)
  OBVIOUS
<1>1. CASE OpenSource \/ \E s \in Loads : ReplaceSegments(s)
  BY <1>1, InstallIsInstall
<1>2. CASE RefineLength
  BY <1>2, RefineIsRefine
<1>3. CASE AppendSource
  BY <1>3, AppendIsExtend
<1>4. CASE \E b, e \in Places : DeleteRange(b, e) \/ CropToRange(b, e) \/ \E s \in Clips : ReplaceRange(b, e, s)
  BY <1>4, DeleteIsSplice, CropIsCrop, ReplaceIsSplice
<1>5. CASE ResetEdits
  BY <1>5, ResetIsEdit
<1>6. CASE Undo
  BY <1>6, UndoIsUndo
<1>7. CASE Redo
  BY <1>7, RedoIsRedo
<1>8. CASE UNCHANGED vars
  <2>1. UNCHANGED Edits!vars
    BY <1>8 DEF Edits!vars, vars, State, Content
  <2> QED
    BY <2>1
<1> QED
  BY <1>1, <1>2, <1>3, <1>4, <1>5, <1>6, <1>7, <1>8 DEF Next

(* The segment editor, with its merging, slicing and normalising and with histories
   of segment lists, is the plain list of frames with a bounded history: every edit
   puts exactly the frames it names where it says, an edit that adds an entry to
   the history changed what is shown, and undo and redo bring back exactly what
   was shown. *)
THEOREM EditsAreListEdits == Spec => ImplementsEditList
<1>1. Init => Edits!Init
  BY InitIsInit
<1>2. IInv /\ [Next]_vars => [Edits!Next]_(Edits!vars)
  BY NextIsNext
<1> QED
  BY <1>1, <1>2, Invariance, PTL DEF Spec, Edits!Spec, ImplementsEditList

=============================================================================
