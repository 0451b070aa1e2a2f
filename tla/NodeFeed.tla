------------------------------- MODULE NodeFeed -------------------------------
(***************************************************************************)
(* How the node's AVX-512 scorer (score_bpp9000.h of qubic/core) knows     *)
(* which sample each window is due: two halves of one window per byte      *)
(* lane, lane l starting at sample l of its half.  A position is kept as a *)
(* byte relative to a base that all lanes of the half share; a lane too    *)
(* far from the base saturates and its position stays in memory as a word. *)
(*                                                                         *)
(* Which lanes ask for a sample in a tick is the network's business: here  *)
(* any may, in NodeScore those whose signal is UNKNOWN.                    *)
(***************************************************************************)
EXTENDS TernaryNet

CONSTANTS
  NumLanes,   \* SIMD_LANES (64)
  RelMax,     \* the greatest position a sample is gathered by (127)
  Saturated   \* the byte that says: see the word in memory (255)

ASSUME FeedAssumption ==
  /\ NumLanes \in Nat \ {0} /\ RelMax \in Nat /\ Saturated \in Nat
  /\ NumLanes <= RelMax + 1 /\ RelMax + 1 < Saturated

Lanes == 0..(NumLanes - 1)
Halves == {"lo", "hi"}

VARIABLES
  base,      \* bLo, bHi
  rel,       \* relLo, relHi
  counter,   \* simdFeedCounter, simdFeedCounterHi
  complete,  \* fcGEMaskLo, fcGEMaskHi: lanes that were fed the whole window
  done,      \* doneLo, doneHi: lanes whose output is captured, or without a window
  show,      \* the sample each lane's inputs show in this tick, or Nothing
  fed        \* history: how many samples each lane was fed

feedVars == <<base, rel, counter, complete, done, show, fed>>

Nothing == -1
NotShown == [l \in Lanes |-> Nothing]

\* A batch of windows starts: lane l at sample l, lanes without a window done.
StartBatch(active) ==
  /\ base' = [h \in Halves |-> 0]
  /\ rel' = [h \in Halves |-> [l \in Lanes |-> l]]
  /\ counter' = [h \in Halves |-> [l \in Lanes |-> l]]
  /\ complete' = [h \in Halves |-> {}]
  /\ done' = [h \in Halves |-> Lanes \ active[h]]
  /\ show' = [h \in Halves |-> NotShown]
  /\ fed' = [h \in Halves |-> [l \in Lanes |-> 0]]

\* Of the lanes whose signal is UNKNOWN, those that are through and those that are fed.
Finishing(h, unknown) == (unknown \ done[h]) \cap complete[h]
Feeding(h, unknown) == (unknown \ done[h]) \ complete[h]

\* makeThr: the relative position at which lane l is through, as a saturated byte.
Threshold(b, l) ==
  IF b <= Width
  THEN LET ahead == IF Width - b > Saturated THEN Saturated ELSE Width - b
       IN  IF l + ahead > Saturated THEN Saturated ELSE l + ahead
  ELSE LET behind == IF b - Width > Saturated THEN Saturated ELSE b - Width
       IN  IF l < behind THEN 0 ELSE l - behind

\* A word cut to a byte with saturation; a negative difference is a word near 2^16.
Narrow(x) == IF x < 0 \/ x > Saturated THEN Saturated ELSE x

Position(h, l) == IF rel[h][l] = Saturated THEN counter[h][l] ELSE base[h] + rel[h][l]
Positions(h) == [l \in Lanes |-> Position(h, l)]

Far(r, lanes) == \E l \in lanes : r[l] > RelMax

\* No lane of the half asks: its inputs show nothing.
FeedNone(h) ==
  /\ show' = [show EXCEPT ![h] = NotShown]
  /\ UNCHANGED <<base, rel, counter, complete, done, fed>>

\* The samples are read at these positions, one per lane.
Read(h, lanes, positions) ==
  /\ show' = [show EXCEPT ![h] = [l \in Lanes |-> IF l \in lanes THEN positions[l] ELSE Nothing]]
  /\ fed' = [fed EXCEPT ![h] = [l \in Lanes |-> IF l \in lanes THEN @[l] + 1 ELSE @[l]]]

\* All lanes are near base b: gather by the bytes r, count in bytes.
Gather(h, lanes, b, r) ==
  LET next == [l \in Lanes |-> IF l \in lanes THEN r[l] + 1 ELSE r[l]]
  IN  /\ ~ Far(r, lanes)
      /\ rel' = [rel EXCEPT ![h] = next]
      /\ complete' = [complete EXCEPT ![h] = @ \cup {l \in lanes : next[l] >= Threshold(b, l)}]
      /\ Read(h, lanes, [l \in Lanes |-> b + r[l]])

FeedInBytes(h, lanes) ==
  /\ lanes # {}
  /\ Gather(h, lanes, base[h], rel[h])
  /\ UNCHANGED <<base, counter, done>>

\* Some lane asked is far from the base: all positions go to memory, and the
\* lowest one asked for becomes the base ...
Rebase(h, lanes, b) ==
  /\ Far(rel[h], lanes)
  /\ b \in {Position(h, l) : l \in lanes} /\ \A l \in lanes : b <= Position(h, l)
  /\ base' = [base EXCEPT ![h] = b]

FromBase(h, b) == [l \in Lanes |-> Narrow(Position(h, l) - b)]

\* Mutant: the words in memory are left as they were.
FeedRebasedInPlace(h, lanes) ==
  /\ \E b \in {Position(h, l) : l \in lanes} :
       Rebase(h, lanes, b) /\ Gather(h, lanes, b, FromBase(h, b))
  /\ UNCHANGED <<counter, done>>

\* ... either all lanes asked are near it ...
FeedRebased(h, lanes) ==
  /\ \E b \in {Position(h, l) : l \in lanes} :
       Rebase(h, lanes, b) /\ Gather(h, lanes, b, FromBase(h, b))
  /\ counter' = [counter EXCEPT ![h] = Positions(h)]
  /\ UNCHANGED done

\* ... or they are too far apart: fed one by one from memory, all bytes saturate.
FeedByCounter(h, lanes) ==
  /\ \E b \in {Position(h, l) : l \in lanes} :
       Rebase(h, lanes, b) /\ Far(FromBase(h, b), lanes)
  /\ LET next == [l \in Lanes |-> IF l \in lanes THEN Position(h, l) + 1 ELSE Position(h, l)]
     IN  /\ counter' = [counter EXCEPT ![h] = next]
         /\ complete' = [complete EXCEPT ![h] = @ \cup {l \in lanes : next[l] >= Width + l}]
  /\ rel' = [rel EXCEPT ![h] = [l \in Lanes |-> Saturated]]
  /\ Read(h, lanes, Positions(h))
  /\ UNCHANGED done

FeedHalf(h, lanes) ==
  \/ lanes = {} /\ FeedNone(h)
  \/ FeedInBytes(h, lanes) \/ FeedRebased(h, lanes) \/ FeedByCounter(h, lanes)

\* The outputs of these lanes are captured.
Finish(finishing) ==
  /\ done' = [h \in Halves |-> done[h] \cup finishing[h]]
  /\ UNCHANGED <<base, rel, counter, complete, show, fed>>

FeedInit ==
  /\ base = [h \in Halves |-> 0]
  /\ rel = [h \in Halves |-> [l \in Lanes |-> l]]
  /\ counter = rel
  /\ complete = [h \in Halves |-> {}]
  /\ done = [h \in Halves |-> Lanes]
  /\ show = [h \in Halves |-> NotShown]
  /\ fed = [h \in Halves |-> [l \in Lanes |-> 0]]

FeedNext ==
  \/ \E active \in [Halves -> SUBSET Lanes] : StartBatch(active)
  \/ \E unknown \in [Halves -> SUBSET Lanes] : Finish([h \in Halves |-> Finishing(h, unknown[h])])
  \/ \E h \in Halves : \E unknown \in SUBSET Lanes : FeedHalf(h, Feeding(h, unknown))

FeedSpec == FeedInit /\ [][FeedNext]_feedVars

-----------------------------------------------------------------------------
FeedTypeOK ==
  /\ base \in [Halves -> Nat]
  /\ rel \in [Halves -> [Lanes -> 0..Saturated]]
  /\ counter \in [Halves -> [Lanes -> Nat]]
  /\ complete \in [Halves -> SUBSET Lanes] /\ done \in [Halves -> SUBSET Lanes]
  /\ show \in [Halves -> [Lanes -> Nat \cup {Nothing}]]
  /\ fed \in [Halves -> [Lanes -> 0..Width]]

\* Whatever the lanes of a half do, byte, base and word together place every lane
\* behind the samples it was fed, through rebases, saturation and one-by-one feeds.
PositionsExact ==
  \A h \in Halves : \A l \in Lanes : Position(h, l) = l + fed[h][l]

\* A lane counts as complete exactly when it was fed its window, although the test
\* compares saturated bytes.
CompleteExact ==
  \A h \in Halves : \A l \in Lanes : l \in complete[h] <=> fed[h][l] = Width

\* A lane that is fed shows the next sample of its own window, and none twice.
ShowsNextSample ==
  \A h \in Halves : \A l \in Lanes :
    show[h][l] # Nothing => fed[h][l] > 0 /\ show[h][l] = l + fed[h][l] - 1

FeedExact == PositionsExact /\ CompleteExact /\ ShowsNextSample
=============================================================================
