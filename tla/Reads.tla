--------------------------------- MODULE Reads ---------------------------------
(***************************************************************************)
(* What a store answers: the reads of kg (internal/engine/reads.go, over   *)
(* the graph), of its viewer (internal/replay/query.go, over a projection  *)
(* of its own), and how the two agree.                                     *)
(***************************************************************************)
EXTENDS TeamGraph

CONSTANTS
  RecordedAt, \* RecordedAt[d]: the date of decision d, which an import may choose
  WhyMax      \* how many reasons kg context gives for an element (4)

ASSUME ReadsAssumption == RecordedAt \in [Decision -> Nat] /\ WhyMax \in Nat \ {0, 1}

\* Provenance: the decisions that touch e, with or without authority.
ShapedBy(g, e) == {d \in Decision : <<d, e>> \in DOMAIN g.shape}

\* Newest first; ids break a tie.
Newer(g, a, b) == g.dec[a] > g.dec[b] \/ (g.dec[a] = g.dec[b] /\ a < b)

NewestFirst(g) == {p \in (DOMAIN g.dec) \X (DOMAIN g.dec) : Newer(g, p[1], p[2])}

\* The members of S as they are listed, in the order R.
Sorted(S, R) ==
  CHOOSE list \in SetToSeqs(S) : \A i, j \in DOMAIN list : i < j => <<list[i], list[j]>> \in R

------------------------------------------------------------------------------
(* kg conflicts, kg context, kg history: over the graph.                   *)

\* The sides of a branch.
Sides(g, e) == Sorted(Heads(g, e), NewestFirst(g))

Conflicts(g) == {<<e, Sides(g, e)>> : e \in {x \in DOMAIN g.elem : Cardinality(Heads(g, x)) > 1}}

\* attachWhy: the newest head decisions.
Why(g, e) == SubSeq(Sides(g, e), 1, Min({WhyMax, Cardinality(Heads(g, e))}))

\* The recency by which kg context ranks: of the newest decision with authority,
\* computed without asking which decisions are heads.
Recency(g, e) == MaxOf({g.dec[d] : d \in {x \in ShapedBy(g, e) : HasAuthority(g, x, e)}})

\* Wrong on purpose: links are followed in their direction only.
AliasClosureOutward(g, e) ==
  {x \in Element : \A S \in SUBSET Element :
     (e \in S /\ \A l \in g.link : l[1] \in S => l[2] \in S) => x \in S}

\* The elements that somebody declared to be the same as e. (All links of an instance are
\* of one kind; in kg history it is ALIAS_OF.)
AliasClosure(g, e) ==
  {x \in Element : \A S \in SUBSET Element :
     (e \in S /\ \A l \in g.link : l[1] \in S <=> l[2] \in S) => x \in S}

\* kg history has one entry for every decision about e or an alias of it, a head if it is the
\* head of one of them.
History(g, e) ==
  LET cluster == AliasClosure(g, e)
  IN  {[dec |-> d, when |-> RecordedAt[d], lam |-> g.dec[d],
        head |-> \E m \in cluster : d \in Heads(g, m)] : d \in UNION {ShapedBy(g, m) : m \in cluster}}

\* ORDER BY recorded_at, lamport, which leaves open what comes first of two decisions of
\* one date and stamp.
ByDate(a, b) == a.when < b.when \/ (a.when = b.when /\ a.lam <= b.lam)

\* The lists that kg history may print.
Listings(g, e) ==
  {list \in SetToSeqs(History(g, e)) :
     \A i, j \in DOMAIN list : i < j => ByDate(list[i], list[j])}

\* kg as-of: the structure that the decisions recorded until then make, replayed from the log.
AsOf(events, cut) ==
  LET g == Replay({ev \in events : RecordedAt[ev.dec] <= cut})
  IN  [elem |-> DOMAIN g.elem, link |-> g.link]

------------------------------------------------------------------------------
(* The viewer: over its own projection p.                                  *)

SupersededBy(p, d) == {s[1] : s \in {x \in p.sup : x[2] = d}}

\* Wrong on purpose: whatever supersedes a decision ends its authority everywhere.
IsHeadAnywhere(p, d, e) == HasAuthority(p, d, e) /\ SupersededBy(p, d) = {}

IsHead(p, d, e) ==
  HasAuthority(p, d, e) /\ \A d2 \in SupersededBy(p, d) : ~HasAuthority(p, d2, e)

ViewHeads(p, e) ==
  Sorted({d \in ShapedBy(p, e) : IsHead(p, d, e)}, NewestFirst(p))

ViewConflicts(p) ==
  {<<e, ViewHeads(p, e)>> : e \in {x \in DOMAIN p.elem : Len(ViewHeads(p, x)) >= 2}}

\* The time line of one element.
Entries(p, e) ==
  {[dec |-> d, when |-> RecordedAt[d], lam |-> p.dec[d], head |-> IsHead(p, d, e)] : d \in ShapedBy(p, e)}

Earlier(a, b) ==
  \/ a.when < b.when
  \/ a.when = b.when /\ a.lam < b.lam
  \/ a.when = b.when /\ a.lam = b.lam /\ a.dec < b.dec

ViewHistory(p, e) ==
  Sorted(Entries(p, e), {x \in Entries(p, e) \X Entries(p, e) : Earlier(x[1], x[2])})

------------------------------------------------------------------------------
(* Properties.                                                             *)

\* The viewer, which projects the log itself, and kg, which asks the graph that ingest, sync
\* and rebuild left behind, report the same branches with their sides in the same order
\* ("exactly as `kg conflicts` does"), and the time line of the viewer is one that kg could
\* print, decision after decision ("as in `kg history`").
ReadsAgree ==
  \A s \in Store : HasGraph(s) /\ faults = 0 /\ InOrder(log[s]) =>
    LET g == graph[s]
        p == Replay(log[s])
    IN  /\ Conflicts(g) = ViewConflicts(p)
        /\ \A e \in DOMAIN g.elem :
             /\ AliasClosure(g, e) = {e} => ViewHistory(p, e) \in Listings(g, e)
             /\ Len(Why(g, e)) > 1 <=> e \in {c[1] : c \in Conflicts(g)}

\* The newest decision with authority over an element is one of its heads, so that kg context
\* ranks by the decision it shows first, and every element somebody decided about has one
\* ("the newest authority decision on an element is necessarily one of its heads"; for teams
\* without failures and rotations: a re-emission stamps decisions anew).
NewestIsHead ==
  \A s \in Store : HasGraph(s) =>
    \A e \in DOMAIN graph[s].elem :
      Recency(graph[s], e) # 0 =>
        /\ Why(graph[s], e) # <<>>
        /\ graph[s].dec[Head(Why(graph[s], e))] = Recency(graph[s], e)

Dates == {RecordedAt[d] : d \in Decision}

\* History and time travel tell one story: an element exists at a time exactly if its history
\* has an entry until then, back-dated ones included, and aliases have one history.
HistoryIsWhole ==
  \A s \in Store : HasGraph(s) /\ faults = 0 =>
    LET g == graph[s]
    IN  /\ \A cut \in Dates :
             AsOf(log[s], cut).elem =
               {e \in DOMAIN g.elem : \E d \in ShapedBy(g, e) : RecordedAt[d] <= cut}
        /\ \A l \in g.link : History(g, l[1]) = History(g, l[2])
================================================================================
