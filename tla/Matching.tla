------------------------------ MODULE Matching ------------------------------
(***************************************************************************)
(* MatchTask (internal/domain/capability/service.go): which capabilities   *)
(* a task is routed to.  One goroutine reads the table with one statement, *)
(* keeps the rows that qualify and match, sorts them with an exchange sort *)
(* and cuts the list; each iteration of its loops is an action.            *)
(*                                                                         *)
(* The rows are 1 .. Len(listed) in the order the statement returns them.  *)
(* The text of a row and of the task is abstracted to what scoreCapability *)
(* finds out about them: whether the task mentions the name, and how many  *)
(* of its words the description holds.  is_active is left out: every row   *)
(* is inserted active and no operation changes that.                       *)
(***************************************************************************)
EXTENDS Integers, Sequences

CONSTANTS
  MaxRows,    \* bound on the rows of the table
  MaxWords,   \* bound on the words of a task description
  Limit       \* how many matches are returned at most, 10 in the code

Levels == {"L1", "L2", "L3", "L4"}

ASSUME MatchingAssumption == MaxRows \in Nat /\ MaxWords \in Nat /\ Limit \in Nat \ {0}

VARIABLES
  listed,      \* the rows read: records [level, named, hits]
  words,       \* number of words of the task description
  required,    \* required_level of the request, "any" when it is empty
  pc,          \* "filter", "sort" or "done"
  ranked,      \* the matches, as row numbers
  i, j         \* loop variables, counted from 1

request == <<listed, words, required>>
vars == <<request, pc, ranked, i, j>>

Rows(n) == [level : Levels, named : BOOLEAN, hits : 0 .. n]
Numbers == 1 .. Len(listed)

\* Levels in their order; a level that is none of them weighs nothing.
permissionLevelWeight(l) ==
  CASE l = "L1" -> 1 [] l = "L2" -> 2 [] l = "L3" -> 3 [] l = "L4" -> 4 [] OTHER -> 0

\* min(nameScore + descScore, 1) in units of 1 / (2 * words): 0.5 for the
\* name and hits / words for the description.
scoreCapability(c) ==
  LET w == IF words = 0 THEN 1 ELSE words
      s == (IF listed[c].named THEN w ELSE 0) + 2 * listed[c].hits
  IN  IF s > 2 * w THEN 2 * w ELSE s

Matches(c) ==
  /\ required = "any" \/ permissionLevelWeight(listed[c].level) >= permissionLevelWeight(required)
  /\ scoreCapability(c) > 0

Init ==
  /\ words \in 0 .. MaxWords
  /\ required \in Levels \union {"any"}
  /\ listed \in UNION {[1 .. n -> Rows(words)] : n \in 0 .. MaxRows}
  /\ pc = "filter"
  /\ ranked = <<>>
  /\ i = 1 /\ j = 1

\* for _, cap := range caps: row i is appended or skipped.
Filter ==
  /\ pc = "filter" /\ i <= Len(listed)
  /\ ranked' = IF Matches(i) THEN Append(ranked, i) ELSE ranked
  /\ i' = i + 1
  /\ UNCHANGED <<request, pc, j>>

\* Mutant: j starts at 0 in both loops.
FilteredFromFirst ==
  /\ pc = "filter" /\ i > Len(listed)
  /\ pc' = "sort"
  /\ i' = 1 /\ j' = 1
  /\ UNCHANGED <<request, ranked>>

Filtered ==
  /\ pc = "filter" /\ i > Len(listed)
  /\ pc' = "sort"
  /\ i' = 1 /\ j' = 2
  /\ UNCHANGED <<request, ranked>>

\* Mutant: the better match is copied, not exchanged.
Overwritten == [ranked EXCEPT ![i] = ranked[j]]

Swapped == [ranked EXCEPT ![i] = ranked[j], ![j] = ranked[i]]

\* Mutant: the comparison is the wrong way round.
CompareWorse ==
  /\ pc = "sort" /\ i <= Len(ranked) /\ j <= Len(ranked)
  /\ ranked' = IF scoreCapability(ranked[j]) < scoreCapability(ranked[i]) THEN Swapped ELSE ranked
  /\ j' = j + 1
  /\ UNCHANGED <<request, pc, i>>

Compare ==
  /\ pc = "sort" /\ i <= Len(ranked) /\ j <= Len(ranked)
  /\ ranked' = IF scoreCapability(ranked[j]) > scoreCapability(ranked[i]) THEN Swapped ELSE ranked
  /\ j' = j + 1
  /\ UNCHANGED <<request, pc, i>>

\* Mutant: the outer loop forgets to advance.
NextPlaceStuck ==
  /\ pc = "sort" /\ i <= Len(ranked) /\ j > Len(ranked)
  /\ j' = i + 1
  /\ UNCHANGED <<request, pc, ranked, i>>

NextPlace ==
  /\ pc = "sort" /\ i <= Len(ranked) /\ j > Len(ranked)
  /\ i' = i + 1 /\ j' = i + 2
  /\ UNCHANGED <<request, pc, ranked>>

Truncate ==
  /\ pc = "sort" /\ i > Len(ranked)
  /\ ranked' = IF Len(ranked) > Limit THEN SubSeq(ranked, 1, Limit) ELSE ranked
  /\ pc' = "done"
  /\ UNCHANGED <<request, i, j>>

Next == Filter \/ Filtered \/ Compare \/ NextPlace \/ Truncate

Spec == Init /\ [][Next]_vars

\* The goroutine runs; nothing it waits for is left after the read.
FairSpec == Spec /\ WF_vars(Next)
-----------------------------------------------------------------------------
(***************************************************************************)
(* Properties.                                                             *)
(***************************************************************************)

\* Every variable has its type, and the sorting loops stay inside the list.
TypeOK ==
  /\ words \in Nat
  /\ required \in Levels \union {"any"}
  /\ listed \in Seq(Rows(words))
  /\ pc \in {"filter", "sort", "done"}
  /\ ranked \in Seq(Numbers)
  /\ i \in Nat \ {0} /\ j \in Nat \ {0}
  /\ pc = "filter" => i <= Len(listed) + 1
  /\ pc = "sort" => i <= Len(ranked) + 1 /\ i < j /\ j <= Len(ranked) + 2

\* While it is sorted the list holds every row that matches exactly once:
\* an exchange neither loses nor duplicates a capability.
Accounted ==
  pc = "sort" =>
    /\ \A a, b \in 1 .. Len(ranked) : ranked[a] = ranked[b] => a = b
    /\ \A c \in Numbers : Matches(c) <=> \E a \in 1 .. Len(ranked) : ranked[a] = c

\* The answer is a best answer: rows that match, each once, from the best to
\* the worst, at most Limit; and a row that matches is left out only if the
\* list is full of rows that are at least as good.
BestMatches ==
  pc = "done" =>
    /\ Len(ranked) <= Limit
    /\ \A a, b \in 1 .. Len(ranked) :
         a < b => /\ ranked[a] # ranked[b]
                  /\ scoreCapability(ranked[a]) >= scoreCapability(ranked[b])
    /\ \A a \in 1 .. Len(ranked) : Matches(ranked[a])
    /\ \A c \in Numbers : Matches(c) =>
         \/ \E a \in 1 .. Len(ranked) : ranked[a] = c
         \/ /\ Len(ranked) = Limit
            /\ \A a \in 1 .. Len(ranked) : scoreCapability(ranked[a]) >= scoreCapability(c)

\* The loops end.
Answers == <>(pc = "done")
=============================================================================
