----------------------------- MODULE MCWeights -----------------------------
(***************************************************************************)
(* A small instance of Weights for TLC.  In a calm behaviour requests come *)
(* one at a time and nothing fails; in the others anything may happen.     *)
(***************************************************************************)
EXTENDS Weights, TLC

Alpha(e, t, r, y, f, p) ==
  [expertise |-> e, track |-> t, reliability |-> r, recency |-> y, fit |-> f, principle |-> p]

\* The largest and the smallest sum UpdateAlpha accepts, and one it refuses.
MCAlphas == {Alpha(0, 80, 0, 25, 0, 0), Alpha(30, 35, 0, 10, 0, 20),
             Alpha(50, 50, 50, 0, 0, 0)}

Symmetry == Permutations(Handlers)

VARIABLE calm

CalmInit == Init /\ calm \in BOOLEAN

Reliable == INSTANCE Weights WITH Faults <- FALSE

\* A calm step: of the only request, on a database that does not fail.
CalmStep(h) == Busy \subseteq {h} /\ (Reliable!Begin(h) \/ Reliable!Step(h))

CalmNext ==
  /\ Next
  /\ calm => \E h \in Handlers : CalmStep(h)
  /\ UNCHANGED calm

CalmSpec == CalmInit /\ [][CalmNext]_<<vars, calm>>

\* When no two requests overlap and nothing fails, no outcome is lost: a row
\* stands for every outcome reported, also when ComputeWeight
\* (service.go:24-64) reads and writes back the row in between.
CalmExact == calm => AllRecorded

\* When no two requests overlap, each UpdateAlpha (repository.go:96-107) has a
\* version of its own, so that the newest coefficients are one row.
CalmVersions == calm => \A u, v \in versions : u.version = v.version => u = v
=============================================================================
