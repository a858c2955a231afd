----------------------------- MODULE MCIndexer -----------------------------
(* Small instances of Indexer for TLC. *)
EXTENDS Indexer, TLC

Faulty(edits, renames, runs) ==
  [edits |-> edits, renames |-> renames, fails |-> 1, runs |-> runs, sound |-> FALSE]
Sound(edits, renames, runs) ==
  [edits |-> edits, renames |-> renames, fails |-> 0, runs |-> runs, sound |-> TRUE]

\* Two runs around one edit and a failing call, or three edits after one run.
RunsOrEdits == {Faulty(1, 1, 2), Sound(3, 2, 1)}
TwoFaultyRuns == {Faulty(1, 0, 2)}
TwoEdits == {Sound(2, 0, 1)}

\* Files, paths, texts and slots are interchangeable where no constant tells
\* them apart and no liveness property is checked; where one path may be
\* ignored and the other may not, files and texts are.
Symmetry == Permutations(Files) \cup Permutations(Paths)
              \cup Permutations(Contents) \cup Permutations(Slots)
FilesAndTexts == Permutations(Files) \cup Permutations(Contents)
=============================================================================
