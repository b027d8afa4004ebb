------------------------------- MODULE Pages --------------------------------
(***************************************************************************)
(* Lists of the newest rows, as long as the client asks for, within bounds.*)
(***************************************************************************)
EXTENDS Rows

CONSTANT Limits   \* limits a client asks for

ASSUME PagesAssumption == Limits \subseteq Int

\* evolution and observability: none given is 50, and 100 is the most.
Clamped(limit) == IF limit <= 0 THEN 50 ELSE IF limit > 100 THEN 100 ELSE limit

\* verification: more than 100 is taken for none given.
ClampedOrDefault(limit) == IF limit <= 0 \/ limit > 100 THEN 50 ELSE limit

\* ORDER BY created_at DESC LIMIT n, of the rows that are wanted.
Newest(table, wanted, n) ==
  {Row(table, k) : k \in {i \in wanted : Cardinality({j \in wanted : j > i}) < n}}
=============================================================================
