----------------------------- MODULE MCWorkflow -----------------------------
(* Small instances of Workflow for TLC. *)
EXTENDS Workflow, TLC

\* A list the service replaces by the default, a short one, and one whose
\* second stage type the enum of migration 006 does not have.
MCLists == {<<"plan", "execute">>, <<"plan", "other">>}
MCDefaultLists == {<<>>}
MCGoodLists == {<<"plan", "execute">>, <<"review">>}

Symmetry == Permutations(Handlers)
=============================================================================
