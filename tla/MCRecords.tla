----------------------------- MODULE MCRecords ------------------------------
(***************************************************************************)
(* Records for TLC.  A report has no score or the score zero; limits are   *)
(* on both sides of the bounds.                                            *)
(***************************************************************************)
EXTENDS Records, TLC

CONSTANTS done1, done2, end1, w1

MCGivenScores == {<<NULL, NULL, NULL>>, <<0, NULL, NULL>>}
MCWorkflows == {w1}
MCResults == {done1, done2}
MCConclusions == {end1}
MCSymmetry == Permutations(MCResults)
=============================================================================
