----------------------------- MODULE MCTeamGraph ------------------------------
(* Small teams: what their members write about one or two elements.         *)
EXTENDS Reads

Upserts(e, v) == [op |-> "upsert", el |-> e, to |-> e, val |-> v]
Sets(e, v) == [op |-> "set", el |-> e, to |-> e, val |-> v]
Links(e, f) == [op |-> "link", el |-> e, to |-> f, val |-> 0]
Retires(e, f) == [op |-> "retire", el |-> e, to |-> f, val |-> 0]
Governs(e) == [op |-> "govern", el |-> e, to |-> e, val |-> 0]

\* Everybody sets the same property of the same element.
SameProperty == [d \in Decision |-> <<Sets("a", d)>>]

\* A note about (or the creation of) "a" that governs "b", a change of "a" and "b"
\* together, and a change of "b" that unlinks it.
NotesAndChanges ==
  [d \in Decision |->
     CASE d = 1 -> <<Upserts("a", 0), Governs("b")>>
       [] d = 2 -> <<Sets("a", 2), Links("b", "a")>>
       [] OTHER -> <<Upserts("b", 3), Retires("b", "a")>>]

\* The decision that was recorded first by number is an import with a late date.
Imported == [d \in Decision |-> IF d = 1 THEN 2 ELSE 1]
==============================================================================
