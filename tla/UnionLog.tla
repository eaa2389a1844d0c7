------------------------------- MODULE UnionLog -------------------------------
(***************************************************************************)
(* What team sync promises, with no shard, segment or identity in it: each *)
(* store knows a set of decisions, the remote holds a set of decisions,    *)
(* both only ever grow, and decisions travel only between a store and the  *)
(* remote (or with a copy of the store).                                   *)
(***************************************************************************)
EXTENDS Naturals

CONSTANTS Store, Decision

VARIABLES known, shared, recorded

vars == <<known, shared, recorded>>

Init ==
  /\ known = [s \in Store |-> {}]
  /\ shared = {}
  /\ recorded = {}

\* A person records a decision nobody has recorded before.
Record(s, d) ==
  /\ d \notin recorded
  /\ recorded' = recorded \cup {d}
  /\ known' = [known EXCEPT ![s] = @ \cup {d}]
  /\ UNCHANGED shared

\* A store uploads some of what it knows.
Publish(s, ds) ==
  /\ ds \subseteq known[s]
  /\ shared' = shared \cup ds
  /\ UNCHANGED <<known, recorded>>

\* A store downloads some of what the remote holds.
Learn(s, ds) ==
  /\ ds \subseteq shared
  /\ known' = [known EXCEPT ![s] = @ \cup ds]
  /\ UNCHANGED <<shared, recorded>>

\* A store uploads and downloads in one go.
Exchange(s) ==
  /\ shared \subseteq shared' /\ shared' \subseteq shared \cup known[s]
  /\ known[s] \subseteq known'[s] /\ known'[s] \subseteq known[s] \cup shared
  /\ known' = [known EXCEPT ![s] = known'[s]]
  /\ UNCHANGED recorded

\* A store is copied over an empty place.
CopyStore(s, t) ==
  /\ known[t] = {}
  /\ known' = [known EXCEPT ![t] = known[s]]
  /\ UNCHANGED <<shared, recorded>>

Next ==
  \E s \in Store :
    \/ \E d \in Decision : Record(s, d)
    \/ \E ds \in SUBSET Decision : Publish(s, ds) \/ Learn(s, ds)
    \/ Exchange(s)
    \/ \E t \in Store : CopyStore(s, t)

Spec == Init /\ [][Next]_vars
==============================================================================
