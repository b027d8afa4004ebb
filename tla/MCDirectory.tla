---------------------------- MODULE MCDirectory -----------------------------
(***************************************************************************)
(* Directory for TLC.  Actors, capabilities, principles: as many as the    *)
(* bound on the rows leaves room for.                                      *)
(***************************************************************************)
EXTENDS Directory, TLC

CONSTANTS e1, p1, r1, r2, c1, strategic, n1

MCEmails == {e1}
MCPasswords == {p1}
MCRoles == {r1, r2}
MCNames == {c1}
MCLayers == {strategic}
MCPrincipleNames == {n1}
MCAskedBehaviors == {"deny", "other"}
MCSymmetry == Permutations(MCRoles)
=============================================================================
