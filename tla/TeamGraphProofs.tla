---------------------------- MODULE TeamGraphProofs ----------------------------
(***************************************************************************)
(* What the graphs of a team have to do with its logs, for any stores,     *)
(* elements, decisions and inputs, any number of rotations and failures,   *)
(* and any order of stamps.                                                *)
(*                                                                         *)
(* The invariants build on one another. TypeInv: a graph states nothing    *)
(* that its log does not state and, until an operation fails, all that it  *)
(* does (Projects). OnceInv: an event that is somebody else's came from    *)
(* the remote, and a store has one of its own for a decision. AuthorInv: a *)
(* decision has one author, so that it has one event. On this rest         *)
(* ReplayInv, the graph is the replay of the log, and HeadInv, who knew of *)
(* a decision about an element superseded it, or knew of one that did. Who *)
(* never rotates and never fails also has OrderInv: what supersedes a      *)
(* decision was stamped after it. ShapedInv is beside these: the elements  *)
(* of a graph are those that its decisions shape.                          *)
(*                                                                         *)
(* ApplyAll is a fold over a set of events from the oldest to the newest.  *)
(* The first sections take it apart.                                       *)
(***************************************************************************)
EXTENDS Reads, FiniteSetTheorems, SequenceTheorems, TLAPS

------------------------------------------------------------------------------
(* Folds.                                                                  *)

\* The two folds over mutations: of a decision's into the graph, of an input's into an event.
Applying == INSTANCE FoldTheory WITH Op <- ApplyMutation
Resolving == INSTANCE FoldTheory WITH Op <- AddMutation

\* ApplyMutation folded over a sequence is FoldTheory's fold of it.
LEMMA ApplyingFold == \A b, s : FoldLeft(ApplyMutation, b, s) = Applying!FoldLeft(ApplyMutation, b, s)
  BY Zenon DEF FoldLeft, MapThenFoldSet, Max, Applying!FoldLeft, Applying!MapThenFoldSet, Applying!Max

\* The same for AddMutation.
LEMMA ResolvingFold == \A b, s : FoldLeft(AddMutation, b, s) = Resolving!FoldLeft(AddMutation, b, s)
  BY Zenon DEF FoldLeft, MapThenFoldSet, Max, Resolving!FoldLeft, Resolving!MapThenFoldSet, Resolving!Max

\* Induction over the subsets of a finite set: P has a set when it has all that lack one
\* of its elements.
LEMMA FiniteInduction ==
  ASSUME NEW E, IsFiniteSet(E), NEW P,
         \A S \in SUBSET E : (\A x \in S : S \ {x} \in P) => S \in P
  PROVE  \A S \in SUBSET E : S \in P
<1> DEFINE N == {n \in Nat : \A S \in SUBSET E : Cardinality(S) = n => S \in P}
<1>0. \A S \in SUBSET E : IsFiniteSet(S) /\ Cardinality(S) \in Nat
  BY FS_Subset, FS_CardinalityType
<1>1. 0 \in N
  <2>1. ASSUME NEW S \in SUBSET E, Cardinality(S) = 0 PROVE S \in P
    <3>1. S = {}
      BY <1>0, <2>1, FS_EmptySet
    <3> QED BY <3>1
  <2> QED BY <2>1
<1>2. ASSUME NEW n \in Nat, n \in N PROVE n + 1 \in N
  <2>1. ASSUME NEW S \in SUBSET E, Cardinality(S) = n + 1 PROVE S \in P
    <3>1. ASSUME NEW x \in S PROVE S \ {x} \in P
      <4>1. Cardinality(S \ {x}) = n
        BY <1>0, <2>1, FS_RemoveElement
      <4>2. S \ {x} \in SUBSET E
        OBVIOUS
      <4> QED BY <1>2, <4>1, <4>2
    <3> QED BY <3>1
  <2> QED BY <2>1
<1> HIDE DEF N
<1>3. \A n \in Nat : n \in N
  BY <1>1, <1>2, Applying!SetInduction
<1> QED BY <1>0, <1>3 DEF N

------------------------------------------------------------------------------
(* The canonical order.                                                    *)

\* What events are compared by.
LEMMA EventFields ==
  ASSUME NEW a \in Event
  PROVE  /\ a.dec \in Decision /\ a.dec \in Nat /\ a.lam \in Nat \ {0}
         /\ a.by \in Store \X (0 .. MaxRotate) /\ a.by[1] \in Nat /\ a.by[2] \in Nat /\ a.by[1] \in Store
         /\ a.muts \in Seq(Change) /\ a.shapes \in SUBSET Element /\ a.targets \in SUBSET Element
         /\ a.supersedes \in SUBSET Decision /\ a.saw \in SUBSET Decision
<1>1. /\ a.dec \in Decision /\ a.lam \in 1 .. MaxLamport /\ a.by \in Store \X (0 .. MaxRotate)
      /\ a.muts \in Seq(Change) /\ a.shapes \in SUBSET Element /\ a.targets \in SUBSET Element
      /\ a.supersedes \in SUBSET Decision /\ a.saw \in SUBSET Decision
  BY DEF Event
<1>2. a.by[1] \in Store /\ a.by[2] \in 0 .. MaxRotate
  BY <1>1
<1>3. a.dec \in Nat
  BY <1>1, ContentAssumption
<1>4. a.by[1] \in Nat
  BY <1>2, TeamAssumption
<1>5. a.lam \in Nat \ {0} /\ a.by[2] \in Nat
  <2>1. MaxLamport \in Nat /\ MaxRotate \in Nat
    BY TeamAssumption
  <2> QED BY <1>1, <1>2, <2>1
<1> QED BY <1>1, <1>2, <1>3, <1>4, <1>5, Zenon

\* Before is a strict order, and orders any two events but those that were recorded under
\* one stamp, for one decision, by one install.
LEMMA BeforeIsOrder ==
  /\ \A a \in Event : ~Before(a, a)
  /\ \A a, b, c \in Event : Before(a, b) /\ Before(b, c) => Before(a, c)
  /\ \A a, b \in Event : Before(a, b) \/ Before(b, a) \/ (a.lam = b.lam /\ a.dec = b.dec /\ a.by = b.by)
<1>1. \A a \in Event : ~Before(a, a)
  BY EventFields DEF Before
<1>2. ASSUME NEW a \in Event, NEW b \in Event, NEW c \in Event, Before(a, b), Before(b, c)
      PROVE  Before(a, c)
  <2>1. \A e \in {a, b, c} : e.lam \in Nat /\ e.dec \in Nat /\ e.by[1] \in Nat /\ e.by[2] \in Nat
    BY EventFields
  <2>2. /\ a.lam \in Nat /\ b.lam \in Nat /\ c.lam \in Nat
        /\ a.dec \in Nat /\ b.dec \in Nat /\ c.dec \in Nat
        /\ a.by[1] \in Nat /\ b.by[1] \in Nat /\ c.by[1] \in Nat
        /\ a.by[2] \in Nat /\ b.by[2] \in Nat /\ c.by[2] \in Nat
    BY <2>1
  <2>3. a.lam <= b.lam /\ b.lam <= c.lam
    BY <1>2, <2>2 DEF Before
  <2>4. CASE a.lam < c.lam
    BY <2>4 DEF Before
  <2>5. CASE a.lam = b.lam /\ b.lam = c.lam
    BY <1>2, <2>2, <2>5 DEF Before
  <2> QED BY <2>2, <2>3, <2>4, <2>5
<1>3. ASSUME NEW a \in Event, NEW b \in Event, ~Before(a, b), ~Before(b, a)
      PROVE  a.lam = b.lam /\ a.dec = b.dec /\ a.by = b.by
  <2>1. a.lam = b.lam /\ a.dec = b.dec /\ a.by[1] = b.by[1] /\ a.by[2] = b.by[2]
    BY <1>3, EventFields DEF Before
  <2>2. a.by = <<a.by[1], a.by[2]>> /\ b.by = <<b.by[1], b.by[2]>>
    BY EventFields
  <2> QED BY <2>1, <2>2
<1> QED BY <1>1, <1>2, <1>3

\* Finitely many events have a newest one.
LEMMA NewestIs ==
  ASSUME NEW E \in SUBSET Event, IsFiniteSet(E), E # {}
  PROVE  Newest(E) \in E /\ \A ev \in E : ~Before(Newest(E), ev)
<1> DEFINE P == {S \in SUBSET E : S = {} \/ \E ev \in S : \A later \in S : ~Before(ev, later)}
<1>1. ASSUME NEW S \in SUBSET E, \A x \in S : S \ {x} \in P
      PROVE  S \in P
  <2>1. SUFFICES ASSUME NEW x \in S PROVE \E ev \in S : \A later \in S : ~Before(ev, later)
    OBVIOUS
  <2>2. CASE S \ {x} = {}
    BY <2>2, BeforeIsOrder
  <2>3. CASE S \ {x} # {}
    <3>1. PICK y \in S \ {x} : \A later \in S \ {x} : ~Before(y, later)
      BY <1>1, <2>3
    <3>2. CASE ~Before(y, x)
      <4>1. \A later \in S : ~Before(y, later)
        BY <3>1, <3>2
      <4> QED BY <4>1
    <3>3. CASE Before(y, x)
      <4>1. ASSUME NEW later \in S, Before(x, later) PROVE FALSE
        <5>1. later \in S \ {x}
          BY <4>1, BeforeIsOrder
        <5>2. Before(y, later)
          BY <3>3, <4>1, BeforeIsOrder
        <5> QED BY <3>1, <5>1, <5>2
      <4> QED BY <4>1
    <3> QED BY <3>2, <3>3
  <2> QED BY <2>2, <2>3
<1>2. E \in P
  <2> HIDE DEF P
  <2>1. \A S \in SUBSET E : S \in P
    BY <1>1, FiniteInduction
  <2> QED BY <2>1
<1>3. \E ev : ev \in Latest(E)
  BY <1>2 DEF Latest
<1>4. Newest(E) \in Latest(E)
  BY <1>3, Zenon DEF Newest
<1> QED BY <1>4 DEF Latest

------------------------------------------------------------------------------
(* Events in that order.                                                   *)

\* f is the recursive function by which ApplyAll is defined, on a family D of sets.
Applies(f, g, D) ==
  f = [S \in D |-> IF S = {} THEN g ELSE ApplyNext(Newest(S), f[S \ {Newest(S)}])]

\* There is one on the subsets of a finite set.
LEMMA AppliesExists ==
  ASSUME NEW E \in SUBSET Event, IsFiniteSet(E), NEW g
  PROVE  \E f : Applies(f, g, SUBSET E)
<1> DEFINE Upto(n) == {S \in SUBSET E : Cardinality(S) <= n}
           N == {n \in Nat : \E f : Applies(f, g, Upto(n))}
<1>0. \A S \in SUBSET E : IsFiniteSet(S) /\ Cardinality(S) \in Nat
  BY FS_Subset, FS_CardinalityType
<1>1. ASSUME NEW S \in SUBSET E, S # {}
     PROVE  /\ Newest(S) \in S /\ S \ {Newest(S)} \in SUBSET E
            /\ Cardinality(S \ {Newest(S)}) = Cardinality(S) - 1
  <2>1. Newest(S) \in S
    BY <1>0, <1>1, NewestIs
  <2> QED BY <1>0, <2>1, FS_RemoveElement
<1>2. 0 \in N
  <2> DEFINE f == [S \in Upto(0) |-> g]
  <2>1. \A S \in Upto(0) : S = {}
    BY <1>0, FS_EmptySet
  <2>2. f = [S \in Upto(0) |-> IF S = {} THEN g ELSE ApplyNext(Newest(S), f[S \ {Newest(S)}])]
    BY <2>1
  <2> QED BY <2>2, 0 \in Nat, Zenon DEF Applies
<1>3. ASSUME NEW n \in Nat, n \in N PROVE n + 1 \in N
  <2>1. PICK f : Applies(f, g, Upto(n))
    BY <1>3
  <2> DEFINE h == [S \in Upto(n + 1) |->
                     IF S = {} THEN g ELSE ApplyNext(Newest(S), f[S \ {Newest(S)}])]
  <2>2. ASSUME NEW S \in Upto(n) PROVE f[S] = h[S]
    <3>1. S \in Upto(n + 1)
      BY <1>0
    <3> HIDE DEF Upto
    <3> QED BY <2>1, <3>1 DEF Applies
  <2>3. \A S \in Upto(n + 1) : S # {} => f[S \ {Newest(S)}] = h[S \ {Newest(S)}]
    <3>1. ASSUME NEW S \in Upto(n + 1), S # {} PROVE S \ {Newest(S)} \in Upto(n)
      <4>1. S \in SUBSET E /\ Cardinality(S) \in Nat /\ Cardinality(S) <= n + 1
        BY <1>0
      <4> QED BY <1>1, <3>1, <4>1
    <3> HIDE DEF Upto, h
    <3> QED BY <2>2, <3>1
  <2> HIDE DEF Upto
  <2>4. Applies(h, g, Upto(n + 1))
    <3> DEFINE k == [S \in Upto(n + 1) |->
                       IF S = {} THEN g ELSE ApplyNext(Newest(S), h[S \ {Newest(S)}])]
    <3>1. \A S \in Upto(n + 1) : h[S] = k[S]
      BY <2>3
    <3>2. h = k
      BY <3>1
    <3> QED BY <3>2, Zenon DEF Applies
  <2> QED BY <2>4, n + 1 \in Nat
<1> HIDE DEF N
<1>4. \A n \in Nat : n \in N
  BY <1>2, <1>3, Applying!SetInduction
<1>5. PICK f : Applies(f, g, Upto(Cardinality(E)))
  BY <1>0, <1>4, E \in SUBSET E DEF N
<1>6. Upto(Cardinality(E)) = SUBSET E
  BY <1>0, FS_Subset
<1> QED BY <1>5, <1>6

\* Two of them agree.
LEMMA AppliesAgree ==
  ASSUME NEW E \in SUBSET Event, IsFiniteSet(E), NEW F \in SUBSET Event, E \subseteq F, NEW g,
         NEW f, NEW h, Applies(f, g, SUBSET E), Applies(h, g, SUBSET F)
  PROVE  f[E] = h[E]
<1> DEFINE P == {S \in SUBSET E : f[S] = h[S]}
<1>1. ASSUME NEW S \in SUBSET E, \A x \in S : S \ {x} \in P PROVE S \in P
  <2>1. IsFiniteSet(S) /\ S \in SUBSET F
    BY FS_Subset
  <2>2. f[S] = IF S = {} THEN g ELSE ApplyNext(Newest(S), f[S \ {Newest(S)}])
    BY DEF Applies
  <2>3. h[S] = IF S = {} THEN g ELSE ApplyNext(Newest(S), h[S \ {Newest(S)}])
    BY <2>1 DEF Applies
  <2>4. S # {} => f[S \ {Newest(S)}] = h[S \ {Newest(S)}]
    BY <1>1, <2>1, NewestIs
  <2>5. f[S] = h[S]
    BY <2>2, <2>3, <2>4, Zenon
  <2> QED BY <2>5
<1> HIDE DEF P
<1>2. \A S \in SUBSET E : S \in P
  BY <1>1, FiniteInduction
<1> QED BY <1>2, E \in SUBSET E DEF P

\* ApplyAll applies the newest event last.
LEMMA ApplyAllIs ==
  ASSUME NEW E \in SUBSET Event, IsFiniteSet(E), NEW g
  PROVE  /\ ApplyAll(g, {}) = g
         /\ E # {} => ApplyAll(g, E) = ApplyEvent(ApplyAll(g, E \ {Newest(E)}), Newest(E))
<1> DEFINE The(S) == CHOOSE f : Applies(f, g, SUBSET S)
<1>1. ASSUME NEW S \in SUBSET E
      PROVE  IsFiniteSet(S) /\ S \in SUBSET Event /\ Applies(The(S), g, SUBSET S)
  <2>1. \E f : Applies(f, g, SUBSET S)
    BY FS_Subset, AppliesExists
  <2> QED BY <2>1, FS_Subset, Zenon
<1>2. \A S : ApplyAll(g, S) = The(S)[S]
  BY Zenon DEF ApplyAll, MapThenFoldSet, Applies
<1> HIDE DEF The
<1>3. ApplyAll(g, {}) = g
  <2>1. Applies(The({}), g, SUBSET {})
    BY <1>1
  <2>2. {} \in SUBSET {}
    OBVIOUS
  <2>3. The({})[{}] = g
    BY <2>1, <2>2 DEF Applies
  <2> QED BY <1>2, <2>3
<1>4. ASSUME E # {}
      PROVE  ApplyAll(g, E) = ApplyEvent(ApplyAll(g, E \ {Newest(E)}), Newest(E))
  <2> DEFINE R == E \ {Newest(E)}
  <2>1. R \in SUBSET E /\ E \in SUBSET E
    OBVIOUS
  <2>2. The(E)[E] = ApplyNext(Newest(E), The(E)[R])
    <3>1. Applies(The(E), g, SUBSET E)
      BY <1>1, <2>1
    <3> QED BY <1>4, <2>1, <3>1 DEF Applies
  <2>3. The(R)[R] = The(E)[R]
    <3>1. /\ IsFiniteSet(R) /\ R \in SUBSET Event
          /\ Applies(The(R), g, SUBSET R) /\ Applies(The(E), g, SUBSET E)
      BY <1>1, <2>1
    <3> HIDE DEF R
    <3> QED BY <2>1, <3>1, AppliesAgree
  <2> QED BY <1>2, <2>2, <2>3 DEF ApplyNext
<1> QED BY <1>3, <1>4

------------------------------------------------------------------------------
(* What an event does to a graph.                                          *)

\* The record a graph is, with ids in the places where ids belong.
GraphOK(g) ==
  /\ g = [elem |-> g.elem, dec |-> g.dec, link |-> g.link, shape |-> g.shape,
          sup |-> g.sup, applied |-> g.applied]
  /\ DOMAIN g.elem \subseteq Element
  /\ DOMAIN g.dec \subseteq Decision /\ \A d \in DOMAIN g.dec : g.dec[d] \in Nat
  /\ g.sup \subseteq Decision \X Decision
  /\ DOMAIN g.shape \subseteq Decision \X Element
  /\ \A p \in g.applied : p[1] \in Decision

\* The empty graph is one.
LEMMA EmptyGraphOK == GraphOK(EmptyGraph)
BY DEF GraphOK, EmptyGraph

\* MERGE adds what is missing and leaves what is there.
LEMMA CreateIs ==
  ASSUME NEW f, NEW new
  PROVE  /\ DOMAIN Create(f, new) = DOMAIN f \cup DOMAIN new
         /\ \A x \in DOMAIN f : Create(f, new)[x] = f[x]
         /\ \A x \in DOMAIN new : x \notin DOMAIN f => Create(f, new)[x] = new[x]
BY DEF Create

\* What the projection of decisions leaves alone.
SameDecisions(r, g) == r.dec = g.dec /\ r.shape = g.shape /\ r.sup = g.sup /\ r.applied = g.applied

\* New elements are all that EnsureElements adds.
LEMMA EnsureIs ==
  ASSUME NEW g, GraphOK(g), NEW els \in SUBSET Element, NEW named
  PROVE  /\ GraphOK(EnsureElements(g, els, named))
         /\ SameDecisions(EnsureElements(g, els, named), g)
         /\ DOMAIN EnsureElements(g, els, named).elem = DOMAIN g.elem \cup els
<1> DEFINE new == [e \in els |-> [named |-> named, val |-> 0]]
           elem == Create(g.elem, new)
<1>1. DOMAIN elem = DOMAIN g.elem \cup els
  <2>1. DOMAIN new = els
    OBVIOUS
  <2> HIDE DEF new
  <2> QED BY <2>1, CreateIs
<1>2. EnsureElements(g, els, named)
        = [elem |-> elem, dec |-> g.dec, link |-> g.link, shape |-> g.shape,
           sup |-> g.sup, applied |-> g.applied]
  <2> HIDE DEF elem
  <2>1. EnsureElements(g, els, named) = [g EXCEPT !.elem = elem]
    BY DEF EnsureElements, elem
  <2> QED BY <2>1 DEF GraphOK
<1> HIDE DEF elem
<1> QED BY <1>1, <1>2 DEF GraphOK, SameDecisions

\* A property is set on an element that exists.
LEMMA SetPropIs ==
  ASSUME NEW g, GraphOK(g), NEW e, NEW val
  PROVE  /\ GraphOK(SetProp(g, e, val))
         /\ SameDecisions(SetProp(g, e, val), g)
         /\ DOMAIN SetProp(g, e, val).elem = DOMAIN g.elem
<1> DEFINE elem == [g.elem EXCEPT ![e].val = val]
<1>1. DOMAIN elem = DOMAIN g.elem
  OBVIOUS
<1>2. SetProp(g, e, val)
        = [elem |-> elem, dec |-> g.dec, link |-> g.link, shape |-> g.shape,
           sup |-> g.sup, applied |-> g.applied]
  <2>1. SetProp(g, e, val) = [g EXCEPT !.elem = elem]
    BY DEF SetProp
  <2> HIDE DEF elem
  <2> QED BY <2>1 DEF GraphOK
<1> HIDE DEF elem
<1> QED BY <1>1, <1>2 DEF GraphOK, SameDecisions

\* So a mutation touches elements and links only.
LEMMA MutationKeeps ==
  ASSUME NEW g, GraphOK(g), NEW m \in Change
  PROVE  GraphOK(ApplyMutation(g, m)) /\ SameDecisions(ApplyMutation(g, m), g)
<1>1. /\ m.op \in {"upsert", "set", "link", "retire"} /\ m.el \in Element /\ m.to \in Element
  BY DEF Change, Op
<1>2. \A h, k : SameDecisions(h, g) /\ SameDecisions(k, h) => SameDecisions(k, g)
  BY DEF SameDecisions
<1> DEFINE up == EnsureElements(g, {m.el}, TRUE)
           one == EnsureElements(g, {m.el}, FALSE)
           two == EnsureElements(one, {m.to}, FALSE)
<1>3. /\ GraphOK(up) /\ SameDecisions(up, g)
      /\ GraphOK(one) /\ SameDecisions(one, g)
  BY <1>1, EnsureIs
<1>4. GraphOK(two) /\ SameDecisions(two, g)
  <2> HIDE DEF one
  <2>1. GraphOK(two) /\ SameDecisions(two, one)
    BY <1>1, <1>3, EnsureIs
  <2> QED BY <1>2, <1>3, <2>1
<1>5. /\ GraphOK(SetProp(up, m.el, m.val)) /\ SameDecisions(SetProp(up, m.el, m.val), g)
      /\ GraphOK(SetProp(one, m.el, m.val)) /\ SameDecisions(SetProp(one, m.el, m.val), g)
  <2> HIDE DEF up, one
  <2> QED BY <1>2, <1>3, SetPropIs
<1> DEFINE linked == [two EXCEPT !.link = @ \cup {<<m.el, m.to>>}]
           cut == [g EXCEPT !.link = @ \ {<<m.el, m.to>>}]
<1>6. ASSUME NEW h, GraphOK(h), NEW l
      PROVE  GraphOK([h EXCEPT !.link = l]) /\ SameDecisions([h EXCEPT !.link = l], h)
  <2>1. [h EXCEPT !.link = l]
          = [elem |-> h.elem, dec |-> h.dec, link |-> l, shape |-> h.shape,
             sup |-> h.sup, applied |-> h.applied]
    BY <1>6 DEF GraphOK
  <2> QED BY <1>6, <2>1 DEF GraphOK, SameDecisions
<1>7. GraphOK(linked) /\ SameDecisions(linked, g) /\ GraphOK(cut) /\ SameDecisions(cut, g)
  <2> HIDE DEF two
  <2> QED BY <1>2, <1>4, <1>6
<1>8. ApplyMutation(g, m) \in {up, SetProp(up, m.el, m.val), SetProp(one, m.el, m.val), linked, cut}
  BY <1>1 DEF ApplyMutation, EnsureElement
<1> HIDE DEF up, one, linked, cut
<1> QED BY <1>3, <1>5, <1>7, <1>8

\* And so do all mutations of an event.
LEMMA MutationsKeep ==
  ASSUME NEW g, GraphOK(g), NEW muts \in Seq(Change)
  PROVE  /\ GraphOK(FoldLeft(ApplyMutation, g, muts))
         /\ SameDecisions(FoldLeft(ApplyMutation, g, muts), g)
<1> DEFINE Done(q) == FoldLeft(ApplyMutation, g, q)
           S == {q \in Seq(Change) : GraphOK(Done(q)) /\ SameDecisions(Done(q), g)}
<1>1. <<>> \in S
  <2>1. Done(<<>>) = g
    BY ApplyingFold, Applying!FoldLeftEmpty, Zenon
  <2> HIDE DEF Done
  <2> QED BY <2>1 DEF SameDecisions
<1>2. ASSUME NEW q \in Seq(Change), NEW m \in Change, q \in S PROVE Append(q, m) \in S
  <2>1. Applying!FoldLeft(ApplyMutation, g, Append(q, m))
          = ApplyMutation(Applying!FoldLeft(ApplyMutation, g, q), m)
    BY Applying!FoldLeftAppend, Zenon
  <2>2. Done(Append(q, m)) = ApplyMutation(Done(q), m)
    BY <2>1, ApplyingFold, Zenon
  <2> HIDE DEF Done
  <2>3. GraphOK(Done(q)) /\ SameDecisions(Done(q), g)
    BY <1>2
  <2>4. GraphOK(ApplyMutation(Done(q), m)) /\ SameDecisions(ApplyMutation(Done(q), m), Done(q))
    BY <2>3, MutationKeeps
  <2>5. Append(q, m) \in Seq(Change)
    OBVIOUS
  <2> QED BY <2>2, <2>3, <2>4, <2>5 DEF SameDecisions
<1> HIDE DEF S
<1>3. \A q \in Seq(Change) : q \in S
  BY <1>1, <1>2, Applying!SeqInduction
<1> QED BY <1>3 DEF S

\* The decision is created, or kept as the stub's place is taken; the rest is untouched.
LEMMA AddDecisionIs ==
  ASSUME NEW g, GraphOK(g), NEW ev \in Event
  PROVE  /\ GraphOK(AddDecision(g, ev))
         /\ AddDecision(g, ev).elem = g.elem
         /\ AddDecision(g, ev).dec = Create(g.dec, [d \in {ev.dec} |-> ev.lam])
         /\ AddDecision(g, ev).shape = g.shape
         /\ AddDecision(g, ev).sup = g.sup
         /\ AddDecision(g, ev).applied = g.applied
<1>0. ev.dec \in Decision /\ ev.lam \in Nat
  BY EventFields
<1> DEFINE stamp == [d \in {ev.dec} |-> ev.lam]
           dec == Create(g.dec, stamp)
           a == AddDecision(g, ev)
<1>1. /\ DOMAIN dec \subseteq Decision /\ \A d \in DOMAIN dec : dec[d] \in Nat
  <2>1. DOMAIN stamp = {ev.dec} /\ stamp[ev.dec] = ev.lam
    OBVIOUS
  <2> HIDE DEF stamp
  <2>2. /\ DOMAIN dec = DOMAIN g.dec \cup {ev.dec}
        /\ \A d \in DOMAIN g.dec : dec[d] = g.dec[d]
        /\ ev.dec \notin DOMAIN g.dec => dec[ev.dec] = ev.lam
    <3>1. /\ DOMAIN dec = DOMAIN g.dec \cup DOMAIN stamp
          /\ \A d \in DOMAIN g.dec : dec[d] = g.dec[d]
          /\ \A d \in DOMAIN stamp : d \notin DOMAIN g.dec => dec[d] = stamp[d]
      BY CreateIs, Zenon
    <3> HIDE DEF dec
    <3> QED BY <2>1, <3>1
  <2> HIDE DEF dec
  <2> QED BY <1>0, <2>2 DEF GraphOK
<1>2. a = [g EXCEPT !.dec = dec]
  BY DEF AddDecision
<1> HIDE DEF dec, a
<1>3. a = [elem |-> g.elem, dec |-> dec, link |-> g.link, shape |-> g.shape,
           sup |-> g.sup, applied |-> g.applied]
  BY <1>2 DEF GraphOK
<1>4. /\ GraphOK(a) /\ a.elem = g.elem /\ a.dec = dec /\ a.shape = g.shape
      /\ a.sup = g.sup /\ a.applied = g.applied
  BY <1>1, <1>3 DEF GraphOK
<1> QED BY <1>4 DEF a, dec

\* The decision, its authority and what it supersedes.
LEMMA ApplyEventIs ==
  ASSUME NEW g, GraphOK(g), NEW ev \in Event
  PROVE  /\ GraphOK(ApplyEvent(g, ev))
         /\ ApplyEvent(g, ev).dec = Create(Create(g.dec, [d \in {ev.dec} |-> ev.lam]),
                                           [prev \in ev.supersedes |-> 0])
         /\ ApplyEvent(g, ev).shape
              = Create(g.shape, [p \in {ev.dec} \X ev.shapes |-> p[2] \in ev.targets])
         /\ ApplyEvent(g, ev).sup = g.sup \cup ({ev.dec} \X ev.supersedes)
         /\ ApplyEvent(g, ev).applied = g.applied \cup {<<ev.dec, ev.by>>}
<1>0. /\ ev.dec \in Decision /\ ev.lam \in Nat /\ ev.muts \in Seq(Change)
      /\ ev.shapes \in SUBSET Element /\ ev.supersedes \in SUBSET Decision
  BY EventFields
<1> DEFINE stamp == [d \in {ev.dec} |-> ev.lam]
           dec == Create(g.dec, stamp)
           shape == Create(g.shape, [p \in {ev.dec} \X ev.shapes |-> p[2] \in ev.targets])
           stubs == [prev \in ev.supersedes |-> 0]
           a == AddDecision(g, ev)
           m == FoldLeft(ApplyMutation, a, ev.muts)
           e == EnsureElements(m, ev.shapes, FALSE)
           r == ApplyEvent(g, ev)
<1>1. GraphOK(a) /\ a.dec = dec /\ a.shape = g.shape /\ a.sup = g.sup /\ a.applied = g.applied
  BY AddDecisionIs
<1>2. GraphOK(m) /\ SameDecisions(m, a)
  <2> HIDE DEF a
  <2> QED BY <1>0, <1>1, MutationsKeep
<1>3. GraphOK(e) /\ SameDecisions(e, m)
  <2> HIDE DEF m
  <2> QED BY <1>0, <1>2, EnsureIs
<1> DEFINE full == Create(dec, stubs)
           sup == g.sup \cup ({ev.dec} \X ev.supersedes)
           applied == g.applied \cup {<<ev.dec, ev.by>>}
<1>4. e.dec = dec /\ e.shape = g.shape /\ e.sup = g.sup /\ e.applied = g.applied
  <2> HIDE DEF a, m, e, dec
  <2> QED BY <1>1, <1>2, <1>3 DEF SameDecisions
<1>5. r = [elem |-> e.elem, dec |-> full, link |-> e.link, shape |-> shape,
           sup |-> sup, applied |-> applied]
  <2>1. AddShapes(m, ev) = [e EXCEPT !.shape = Create(@, [p \in {ev.dec} \X ev.shapes |-> p[2] \in ev.targets])]
    BY DEF AddShapes
  <2> DEFINE sh == AddShapes(m, ev)
  <2> HIDE DEF e
  <2>2. sh = [elem |-> e.elem, dec |-> dec, link |-> e.link, shape |-> shape,
              sup |-> g.sup, applied |-> g.applied]
    <3>1. sh = [e EXCEPT !.shape = shape]
      BY <1>4, <2>1
    <3> HIDE DEF sh, shape, dec
    <3> QED BY <1>3, <1>4, <3>1 DEF GraphOK
  <2>3. r = [AddSupersedes(sh, ev) EXCEPT !.applied = @ \cup {<<ev.dec, ev.by>>}]
    BY DEF ApplyEvent
  <2> HIDE DEF sh
  <2>4. AddSupersedes(sh, ev) = [sh EXCEPT !.dec = full, !.sup = sup]
    BY <2>2 DEF AddSupersedes
  <2> DEFINE su == AddSupersedes(sh, ev)
  <2>6. r = [su EXCEPT !.applied = @ \cup {<<ev.dec, ev.by>>}]
    BY <2>3
  <2> HIDE DEF full, sup, dec, shape, r
  <2>5. AddSupersedes(sh, ev) = [elem |-> e.elem, dec |-> full, link |-> e.link, shape |-> shape,
                                 sup |-> sup, applied |-> g.applied]
    BY <2>2, <2>4
  <2>7. su.applied = g.applied
    BY <2>5
  <2>8. r = [su EXCEPT !.applied = applied]
    BY <2>6, <2>7
  <2> HIDE DEF applied
  <2> QED BY <2>5, <2>8
<1>6. DOMAIN full \subseteq Decision /\ \A d \in DOMAIN full : full[d] \in Nat
  <2>1. DOMAIN stubs = ev.supersedes /\ \A d \in ev.supersedes : stubs[d] = 0
    OBVIOUS
  <2>2. DOMAIN dec \subseteq Decision /\ \A d \in DOMAIN dec : dec[d] \in Nat
    <3> HIDE DEF dec, a
    <3> QED BY <1>1 DEF GraphOK
  <2> HIDE DEF stubs, dec
  <2>3. /\ DOMAIN full = DOMAIN dec \cup ev.supersedes
        /\ \A d \in DOMAIN dec : full[d] = dec[d]
        /\ \A d \in ev.supersedes : d \notin DOMAIN dec => full[d] = 0
    <3>1. /\ DOMAIN full = DOMAIN dec \cup DOMAIN stubs
          /\ \A d \in DOMAIN dec : full[d] = dec[d]
          /\ \A d \in DOMAIN stubs : d \notin DOMAIN dec => full[d] = stubs[d]
      BY CreateIs, Zenon
    <3> HIDE DEF full
    <3> QED BY <2>1, <3>1
  <2> HIDE DEF full
  <2> QED BY <1>0, <2>2, <2>3
<1>7. DOMAIN shape \subseteq Decision \X Element
  <2> DEFINE new == [p \in {ev.dec} \X ev.shapes |-> p[2] \in ev.targets]
  <2>1. DOMAIN new = {ev.dec} \X ev.shapes
    OBVIOUS
  <2>2. DOMAIN shape = DOMAIN g.shape \cup DOMAIN new
    BY CreateIs
  <2> HIDE DEF shape, new
  <2> QED BY <1>0, <2>1, <2>2 DEF GraphOK
<1>8. sup \subseteq Decision \X Decision /\ \A p \in applied : p[1] \in Decision
  BY <1>0 DEF GraphOK
<1>9. DOMAIN e.elem \subseteq Element
  <2> HIDE DEF e
  <2> QED BY <1>3 DEF GraphOK
<1> HIDE DEF full, shape, sup, applied, r, e
<1>10. GraphOK(r)
  BY <1>5, <1>6, <1>7, <1>8, <1>9 DEF GraphOK
<1> QED BY <1>5, <1>10 DEF full, shape, sup, applied, r

------------------------------------------------------------------------------
(* What a graph owes to the events that made it.                           *)

\* It states nothing that no event of E states ...
Backed(g, E) ==
  /\ \A d \in DOMAIN g.dec :
       /\ Known(g, d) => d \in Decided(E)
       /\ d \in Decided(E) \/ \E ev \in E : d \in ev.supersedes
  /\ \A p \in g.sup : \E ev \in E : ev.dec = p[1] /\ p[2] \in ev.supersedes
  /\ \A p \in DOMAIN g.shape :
       \E ev \in E : ev.dec = p[1] /\ p[2] \in ev.shapes /\ g.shape[p] = (p[2] \in ev.targets)
  /\ \A q \in g.applied : q[1] \in Decided(E)

\* ... and has what they state.
Complete(g, E) ==
  \A ev \in E :
    /\ ev.dec \in DOMAIN g.dec
    /\ \A d \in ev.supersedes : <<ev.dec, d>> \in g.sup
    /\ \A e \in ev.shapes : <<ev.dec, e>> \in DOMAIN g.shape
    /\ \E q \in g.applied : q[1] = ev.dec

\* Edges have nodes: a decision that shapes an element or supersedes another has a node,
\* and so has what it supersedes.
Joined(g) ==
  /\ \A p \in g.sup : p[1] \in DOMAIN g.dec /\ p[2] \in DOMAIN g.dec
  /\ \A p \in DOMAIN g.shape : p[1] \in DOMAIN g.dec

Projects(g, F, E) == GraphOK(g) /\ Joined(g) /\ Backed(g, F) /\ Complete(g, E)

\* The stamp of a node, and whether it is a stub.
LEMMA DecisionNodes ==
  ASSUME NEW g, GraphOK(g), NEW ev \in Event
  PROVE  /\ DOMAIN ApplyEvent(g, ev).dec = DOMAIN g.dec \cup {ev.dec} \cup ev.supersedes
         /\ \A d \in DOMAIN g.dec : ApplyEvent(g, ev).dec[d] = g.dec[d]
         /\ ev.dec \notin DOMAIN g.dec => ApplyEvent(g, ev).dec[ev.dec] = ev.lam
         /\ \A d \in ev.supersedes : d \notin DOMAIN g.dec /\ d # ev.dec => ApplyEvent(g, ev).dec[d] = 0
<1> DEFINE stamp == [d \in {ev.dec} |-> ev.lam]
           stubs == [prev \in ev.supersedes |-> 0]
           first == Create(g.dec, stamp)
           r == ApplyEvent(g, ev)
<1>1. r.dec = Create(first, stubs)
  BY ApplyEventIs, Zenon
<1>2. /\ DOMAIN first = DOMAIN g.dec \cup DOMAIN stamp
      /\ \A d \in DOMAIN g.dec : first[d] = g.dec[d]
      /\ \A d \in DOMAIN stamp : d \notin DOMAIN g.dec => first[d] = stamp[d]
  <2> HIDE DEF stamp
  <2> QED BY CreateIs, Zenon
<1> HIDE DEF first
<1> DEFINE full == Create(first, stubs)
<1>3. /\ DOMAIN full = DOMAIN first \cup DOMAIN stubs
      /\ \A d \in DOMAIN first : full[d] = first[d]
      /\ \A d \in DOMAIN stubs : d \notin DOMAIN first => full[d] = stubs[d]
  <2> HIDE DEF stubs
  <2> QED BY CreateIs, Zenon DEF full
<1>4. DOMAIN stamp = {ev.dec} /\ stamp[ev.dec] = ev.lam
  OBVIOUS
<1>5. DOMAIN stubs = ev.supersedes /\ \A d \in ev.supersedes : stubs[d] = 0
  OBVIOUS
<1> HIDE DEF stamp, stubs, full, r
<1>6. /\ DOMAIN r.dec = DOMAIN g.dec \cup {ev.dec} \cup ev.supersedes
      /\ \A d \in DOMAIN g.dec : r.dec[d] = g.dec[d]
      /\ ev.dec \notin DOMAIN g.dec => r.dec[ev.dec] = ev.lam
      /\ \A d \in ev.supersedes : d \notin DOMAIN g.dec /\ d # ev.dec => r.dec[d] = 0
  <2>1. /\ DOMAIN full = DOMAIN g.dec \cup {ev.dec} \cup ev.supersedes
        /\ \A d \in DOMAIN g.dec : full[d] = g.dec[d]
        /\ ev.dec \notin DOMAIN g.dec => full[ev.dec] = ev.lam
        /\ \A d \in ev.supersedes : d \notin DOMAIN g.dec /\ d # ev.dec => full[d] = 0
    BY <1>2, <1>3, <1>4, <1>5
  <2>2. r.dec = full
    BY <1>1 DEF full
  <2> QED BY <2>1, <2>2, Zenon
<1> QED BY <1>6 DEF r

\* The same for authority: whoever comes first decides it.
LEMMA ShapeEdges ==
  ASSUME NEW g, GraphOK(g), NEW ev \in Event
  PROVE  /\ DOMAIN ApplyEvent(g, ev).shape = DOMAIN g.shape \cup ({ev.dec} \X ev.shapes)
         /\ \A p \in DOMAIN g.shape : ApplyEvent(g, ev).shape[p] = g.shape[p]
         /\ \A p \in {ev.dec} \X ev.shapes :
              p \notin DOMAIN g.shape => ApplyEvent(g, ev).shape[p] = (p[2] \in ev.targets)
<1> DEFINE new == [p \in {ev.dec} \X ev.shapes |-> p[2] \in ev.targets]
           r == ApplyEvent(g, ev)
<1>1. r.shape = Create(g.shape, new)
  BY ApplyEventIs, Zenon
<1> DEFINE full == Create(g.shape, new)
<1>2. /\ DOMAIN full = DOMAIN g.shape \cup DOMAIN new
      /\ \A p \in DOMAIN g.shape : full[p] = g.shape[p]
      /\ \A p \in DOMAIN new : p \notin DOMAIN g.shape => full[p] = new[p]
  <2> HIDE DEF new
  <2> QED BY CreateIs, Zenon DEF full
<1>3. DOMAIN new = {ev.dec} \X ev.shapes /\ \A p \in {ev.dec} \X ev.shapes : new[p] = (p[2] \in ev.targets)
  BY Zenon
<1> HIDE DEF new, full, r
<1>4. r.shape = full
  BY <1>1 DEF full
<1>5. /\ DOMAIN r.shape = DOMAIN g.shape \cup ({ev.dec} \X ev.shapes)
      /\ \A p \in DOMAIN g.shape : r.shape[p] = g.shape[p]
      /\ \A p \in {ev.dec} \X ev.shapes : p \notin DOMAIN g.shape => r.shape[p] = (p[2] \in ev.targets)
  BY <1>2, <1>3, <1>4, Zenon
<1> QED BY <1>5 DEF r

\* One more event.
LEMMA ApplyProjects ==
  ASSUME NEW g, NEW F, NEW E, Projects(g, F, E), NEW ev \in Event
  PROVE  Projects(ApplyEvent(g, ev), F \cup {ev}, E \cup {ev})
<1> DEFINE r == ApplyEvent(g, ev)
<1>0. GraphOK(g) /\ Joined(g) /\ Backed(g, F) /\ Complete(g, E) /\ GraphOK(r)
  BY ApplyEventIs DEF Projects
<1>1. /\ ev.dec \in Decision /\ ev.shapes \in SUBSET Element /\ ev.supersedes \in SUBSET Decision
  BY EventFields
<1>2. /\ DOMAIN r.dec = DOMAIN g.dec \cup {ev.dec} \cup ev.supersedes
      /\ \A d \in DOMAIN g.dec : r.dec[d] = g.dec[d]
      /\ \A d \in ev.supersedes : d \notin DOMAIN g.dec /\ d # ev.dec => r.dec[d] = 0
  BY <1>0, DecisionNodes
<1>3. /\ DOMAIN r.shape = DOMAIN g.shape \cup ({ev.dec} \X ev.shapes)
      /\ \A p \in DOMAIN g.shape : r.shape[p] = g.shape[p]
      /\ \A p \in {ev.dec} \X ev.shapes : p \notin DOMAIN g.shape => r.shape[p] = (p[2] \in ev.targets)
  BY <1>0, ShapeEdges
<1>4. /\ r.sup = g.sup \cup ({ev.dec} \X ev.supersedes)
      /\ r.applied = g.applied \cup {<<ev.dec, ev.by>>}
  BY <1>0, ApplyEventIs
<1>5. \A p \in {ev.dec} \X ev.supersedes : p[1] = ev.dec /\ p[2] \in ev.supersedes
  OBVIOUS
<1>6. \A p \in {ev.dec} \X ev.shapes : p[1] = ev.dec /\ p[2] \in ev.shapes
  OBVIOUS
<1>7. /\ \A d : d \in Decided(F \cup {ev}) <=> d \in Decided(F) \/ d = ev.dec
      /\ \A x : x \in F \cup {ev} <=> x \in F \/ x = ev
  BY DEF Decided
<1> HIDE DEF r
<1>8. Backed(r, F \cup {ev})
  <2>1. ASSUME NEW d \in DOMAIN r.dec
        PROVE  /\ Known(r, d) => d \in Decided(F \cup {ev})
               /\ d \in Decided(F \cup {ev}) \/ \E x \in F \cup {ev} : d \in x.supersedes
    <3>1. CASE d \in DOMAIN g.dec
      <4>1. Known(r, d) => Known(g, d)
        BY <1>2, <3>1 DEF Known
      <4>2. /\ Known(g, d) => d \in Decided(F)
            /\ d \in Decided(F) \/ \E x \in F : d \in x.supersedes
        BY <1>0, <3>1 DEF Backed
      <4> QED BY <1>7, <4>1, <4>2, Zenon
    <3>2. CASE d = ev.dec
      BY <1>7, <3>2
    <3>3. CASE d \in ev.supersedes /\ d \notin DOMAIN g.dec /\ d # ev.dec
      <4>1. ~Known(r, d)
        BY <1>2, <3>3 DEF Known
      <4> QED BY <1>7, <3>3, <4>1
    <3> QED BY <1>2, <3>1, <3>2, <3>3
  <2>2. ASSUME NEW p \in r.sup PROVE \E x \in F \cup {ev} : x.dec = p[1] /\ p[2] \in x.supersedes
    <3>1. CASE p \in g.sup
      BY <1>0, <1>7, <3>1, Zenon DEF Backed
    <3>2. CASE p \in {ev.dec} \X ev.supersedes
      BY <1>5, <1>7, <3>2, Zenon
    <3> QED BY <1>4, <3>1, <3>2
  <2>3. ASSUME NEW p \in DOMAIN r.shape
        PROVE  \E x \in F \cup {ev} :
                 x.dec = p[1] /\ p[2] \in x.shapes /\ r.shape[p] = (p[2] \in x.targets)
    <3>1. CASE p \in DOMAIN g.shape
      <4>1. PICK x \in F : x.dec = p[1] /\ p[2] \in x.shapes /\ g.shape[p] = (p[2] \in x.targets)
        BY <1>0, <3>1, Zenon DEF Backed
      <4>2. r.shape[p] = g.shape[p]
        BY <1>3, <3>1
      <4> QED BY <1>7, <4>1, <4>2, Zenon
    <3>2. CASE p \in {ev.dec} \X ev.shapes /\ p \notin DOMAIN g.shape
      <4>1. r.shape[p] = (p[2] \in ev.targets) /\ p[1] = ev.dec /\ p[2] \in ev.shapes
        BY <1>3, <1>6, <3>2, Zenon
      <4> QED BY <1>7, <4>1, Zenon
    <3> QED BY <1>3, <3>1, <3>2
  <2>4. ASSUME NEW q \in r.applied PROVE q[1] \in Decided(F \cup {ev})
    <3>1. CASE q \in g.applied
      <4>1. q[1] \in Decided(F)
        BY <1>0, <3>1, Zenon DEF Backed
      <4> QED BY <1>7, <4>1, Zenon
    <3>2. CASE q = <<ev.dec, ev.by>>
      <4>1. q[1] = ev.dec
        BY <3>2
      <4> QED BY <1>7, <4>1, Zenon
    <3> QED BY <1>4, <3>1, <3>2
  <2> QED BY <2>1, <2>2, <2>3, <2>4, Zenon DEF Backed
<1>9. Complete(r, E \cup {ev})
  <2>1. ASSUME NEW x \in E \cup {ev}
        PROVE  /\ x.dec \in DOMAIN r.dec
               /\ \A d \in x.supersedes : <<x.dec, d>> \in r.sup
               /\ \A e \in x.shapes : <<x.dec, e>> \in DOMAIN r.shape
               /\ \E q \in r.applied : q[1] = x.dec
    <3>1. CASE x \in E
      <4>1. /\ x.dec \in DOMAIN g.dec
            /\ \A d \in x.supersedes : <<x.dec, d>> \in g.sup
            /\ \A e \in x.shapes : <<x.dec, e>> \in DOMAIN g.shape
            /\ \E q \in g.applied : q[1] = x.dec
        BY <1>0, <3>1 DEF Complete
      <4> QED BY <1>2, <1>3, <1>4, <4>1
    <3>2. CASE x = ev
      <4>1. <<ev.dec, ev.by>> \in r.applied /\ <<ev.dec, ev.by>>[1] = ev.dec
        BY <1>4
      <4> QED BY <1>2, <1>3, <1>4, <3>2, <4>1
    <3> QED BY <3>1, <3>2
  <2> QED BY <2>1 DEF Complete
<1>10. Joined(r)
  <2>1. \A p \in g.sup : p[1] \in DOMAIN g.dec /\ p[2] \in DOMAIN g.dec
    BY <1>0 DEF Joined
  <2>2. \A p \in DOMAIN g.shape : p[1] \in DOMAIN g.dec
    BY <1>0 DEF Joined
  <2> QED BY <1>2, <1>3, <1>4, <1>5, <1>6, <2>1, <2>2 DEF Joined
<1> QED BY <1>0, <1>8, <1>9, <1>10 DEF Projects, r

\* Any number of events, in any graph.
LEMMA ApplyAllProjects ==
  ASSUME NEW g, NEW F, NEW E, Projects(g, F, E), NEW X \in SUBSET Event, IsFiniteSet(X)
  PROVE  Projects(ApplyAll(g, X), F \cup X, E \cup X)
<1> DEFINE P == {S \in SUBSET X : Projects(ApplyAll(g, S), F \cup S, E \cup S)}
<1>1. ASSUME NEW S \in SUBSET X, \A x \in S : S \ {x} \in P PROVE S \in P
  <2>0. IsFiniteSet(S) /\ S \in SUBSET Event
    BY FS_Subset
  <2>1. CASE S = {}
    <3>1. ApplyAll(g, S) = g /\ F \cup S = F /\ E \cup S = E
      BY <2>0, <2>1, ApplyAllIs
    <3> QED BY <3>1
  <2>2. CASE S # {}
    <3> DEFINE n == Newest(S)
    <3>1. n \in S /\ n \in Event
      BY <2>0, <2>2, NewestIs
    <3>2. ApplyAll(g, S) = ApplyEvent(ApplyAll(g, S \ {n}), n)
      BY <2>0, <2>2, ApplyAllIs
    <3> HIDE DEF n
    <3>3. Projects(ApplyAll(g, S \ {n}), F \cup (S \ {n}), E \cup (S \ {n}))
      BY <1>1, <3>1
    <3>4. Projects(ApplyAll(g, S), (F \cup (S \ {n})) \cup {n}, (E \cup (S \ {n})) \cup {n})
      BY <3>1, <3>2, <3>3, ApplyProjects
    <3>5. (F \cup (S \ {n})) \cup {n} = F \cup S /\ (E \cup (S \ {n})) \cup {n} = E \cup S
      BY <3>1
    <3> QED BY <3>4, <3>5
  <2> QED BY <2>1, <2>2
<1> HIDE DEF P
<1>2. \A S \in SUBSET X : S \in P
  BY <1>1, FiniteInduction
<1> QED BY <1>2, X \in SUBSET X DEF P

\* A replay states exactly what its log states.
LEMMA ReplayProjects ==
  ASSUME NEW E \in SUBSET Event, IsFiniteSet(E)
  PROVE  Projects(Replay(E), E, E)
<1>1. Projects(EmptyGraph, {}, {})
  BY EmptyGraphOK DEF Projects, Joined, Backed, Complete, EmptyGraph
<1>2. Projects(ApplyAll(EmptyGraph, E), {} \cup E, {} \cup E)
  BY <1>1, ApplyAllProjects
<1>3. {} \cup E = E
  OBVIOUS
<1> QED BY <1>2, <1>3 DEF Replay

------------------------------------------------------------------------------
(* The event of a decision.                                                *)

\* Governing becomes no mutation.
LEMMA ResolvedTyped ==
  ASSUME NEW input \in Seq(Mutation)
  PROVE  Resolved(input) \in Seq(Change)
<1> DEFINE S == {q \in Seq(Mutation) : FoldLeft(AddMutation, <<>>, q) \in Seq(Change)}
<1>1. <<>> \in S
  <2>1. FoldLeft(AddMutation, <<>>, <<>>) = <<>>
    BY ResolvingFold, Resolving!FoldLeftEmpty, Zenon
  <2>2. <<>> \in Seq(Change) /\ <<>> \in Seq(Mutation)
    BY EmptySeq
  <2> QED BY <2>1, <2>2, Zenon
<1>2. ASSUME NEW muts \in Seq(Change), NEW m \in Mutation PROVE AddMutation(muts, m) \in Seq(Change)
  <2>1. /\ m.op \in {"upsert", "set", "link", "retire", "govern"} /\ m.el \in Element /\ m.to \in Element
        /\ m.op # "govern" => m \in Change
    BY DEF Mutation, Change, Op
  <2>2. ASSUME NEW e \in Element PROVE Upsert(e) \in Change
    BY DEF Upsert, Change, Op
  <2>3. ASSUME NEW ms \in Seq(Change), NEW e \in Element PROVE EnsureUpsert(ms, e) \in Seq(Change)
    BY <2>2, AppendProperties DEF EnsureUpsert
  <2>4. ASSUME NEW ms \in Seq(Change), m.op # "govern" PROVE Append(ms, m) \in Seq(Change)
    BY <2>1, <2>4, AppendProperties
  <2> DEFINE one == EnsureUpsert(muts, m.el)
             two == EnsureUpsert(one, m.to)
  <2>5. one \in Seq(Change)
    BY <2>1, <2>3
  <2>6. two \in Seq(Change)
    <3> HIDE DEF one
    <3> QED BY <2>1, <2>3, <2>5
  <2>7. AddMutation(muts, m) \in {muts, Append(muts, m), Append(one, m), Append(two, m)}
        /\ (m.op = "govern" => AddMutation(muts, m) = muts)
    BY <2>1 DEF AddMutation
  <2> HIDE DEF one, two
  <2> QED BY <2>4, <2>5, <2>6, <2>7
<1>3. ASSUME NEW q \in Seq(Mutation), NEW m \in Mutation, q \in S PROVE Append(q, m) \in S
  <2>1. Resolving!FoldLeft(AddMutation, <<>>, Append(q, m))
          = AddMutation(Resolving!FoldLeft(AddMutation, <<>>, q), m)
    BY Resolving!FoldLeftAppend, Zenon
  <2>2. FoldLeft(AddMutation, <<>>, Append(q, m)) = AddMutation(FoldLeft(AddMutation, <<>>, q), m)
    BY <2>1, ResolvingFold, Zenon
  <2>3. FoldLeft(AddMutation, <<>>, q) \in Seq(Change)
    BY <1>3
  <2>4. Append(q, m) \in Seq(Mutation)
    OBVIOUS
  <2> QED BY <1>2, <2>2, <2>3, <2>4
<1> HIDE DEF S
<1>4. \A q \in Seq(Mutation) : q \in S
  BY <1>1, <1>3, Resolving!SeqInduction
<1> QED BY <1>4 DEF S, Resolved

\* Only decisions that are in the graph are superseded.
LEMMA HeadsTyped ==
  ASSUME NEW g, GraphOK(g), NEW e
  PROVE  Heads(g, e) \in SUBSET Decision
BY DEF Heads, GraphOK

\* buildDecisionEvent makes an event, of whatever a person writes on top of whatever graph.
LEMMA BuildTyped ==
  ASSUME NEW g, GraphOK(g), NEW d \in Decision, NEW lam \in 1 .. MaxLamport,
         NEW by \in Store \X (0 .. MaxRotate)
  PROVE  BuildEvent(g, d, lam, by) \in Event
<1> DEFINE input == Input[d]
           targets == TargetsOf(g, input)
<1>1. input \in Seq(Mutation)
  BY ContentAssumption
<1> HIDE DEF input
<1>2. \A m \in ToSet(input) : m.el \in Element /\ m.to \in Element
  <2>1. \A k \in DOMAIN input : input[k] \in Mutation
    BY <1>1
  <2>2. \A m \in Mutation : m.el \in Element /\ m.to \in Element
    BY DEF Mutation
  <2> QED BY <2>1, <2>2 DEF ToSet
<1>3. targets \in SUBSET Element /\ ShapesOf(input) \in SUBSET Element
  BY <1>2 DEF TargetsOf, ShapesOf
<1>4. Resolved(input) \in Seq(Change)
  BY <1>1, ResolvedTyped
<1> HIDE DEF targets
<1>5. Superseded(g, targets) \in SUBSET Decision
  BY HeadsTyped DEF Superseded
<1>6. {p[1] : p \in g.applied} \in SUBSET Decision
  BY DEF GraphOK
<1>7. BuildEvent(g, d, lam, by)
        = [dec |-> d, lam |-> lam, by |-> by, muts |-> Resolved(input), shapes |-> ShapesOf(input),
           targets |-> targets, supersedes |-> Superseded(g, targets), saw |-> {p[1] : p \in g.applied}]
  BY Zenon DEF BuildEvent, input, targets
<1> QED BY <1>3, <1>4, <1>5, <1>6, <1>7 DEF Event

\* A finite set of numbers has a largest one.
LEMMA MaxIs ==
  ASSUME NEW S \in SUBSET Nat, IsFiniteSet(S), S # {}
  PROVE  Max(S) \in S /\ \A x \in S : x <= Max(S)
<1> DEFINE P == {T \in SUBSET S : T = {} \/ \E x \in T : \A y \in T : y <= x}
<1>1. ASSUME NEW T \in SUBSET S, \A x \in T : T \ {x} \in P PROVE T \in P
  <2>1. SUFFICES ASSUME NEW x \in T PROVE \E z \in T : \A y \in T : y <= z
    OBVIOUS
  <2>2. CASE T \ {x} = {}
    BY <2>2
  <2>3. CASE T \ {x} # {}
    <3>1. PICK z \in T \ {x} : \A y \in T \ {x} : y <= z
      BY <1>1, <2>3
    <3>2. CASE x <= z
      <4>1. \A y \in T : y <= z
        BY <3>1, <3>2
      <4> QED BY <4>1
    <3>3. CASE ~(x <= z)
      <4>1. \A y \in T : y <= x
        BY <3>1, <3>3
      <4> QED BY <4>1
    <3> QED BY <3>2, <3>3
  <2> QED BY <2>2, <2>3
<1> HIDE DEF P
<1>2. \A T \in SUBSET S : T \in P
  BY <1>1, FiniteInduction
<1>3. \E x \in S : \A y \in S : x >= y
  BY <1>2, S \in SUBSET S DEF P
<1>4. Max(S) \in S /\ \A y \in S : Max(S) >= y
  BY <1>3, Zenon DEF Max
<1> QED BY <1>4

\* The next stamp is later than all others.
LEMMA NextLamportIs ==
  ASSUME NEW E, IsFiniteSet(E), \A ev \in E : ev.lam \in Nat
  PROVE  /\ NextLamport(E) \in Nat \ {0}
         /\ \A ev \in E : ev.lam < NextLamport(E)
<1> DEFINE lams == {ev.lam : ev \in E}
<1>1. lams \in SUBSET Nat /\ IsFiniteSet(lams)
  <2> DEFINE f == [ev \in E |-> ev.lam]
  <2>2. f \in Surjection(E, lams)
    BY DEF Surjection
  <2>3. IsFiniteSet(lams)
    BY <2>2, FS_Surjection
  <2> QED BY <2>3
<1> HIDE DEF lams
<1>2. IsFiniteSet(lams \cup {0}) /\ lams \cup {0} \in SUBSET Nat
  BY <1>1, FS_AddElement
<1>3. Max(lams \cup {0}) \in Nat /\ \A x \in lams : x <= Max(lams \cup {0})
  BY <1>2, MaxIs
<1>4. NextLamport(E) = 1 + Max(lams \cup {0})
  BY DEF NextLamport, MaxOf, lams
<1>5. \A ev \in E : ev.lam \in lams /\ ev.lam \in Nat
  BY DEF lams
<1> DEFINE mx == Max(lams \cup {0})
<1>6. mx \in Nat /\ (\A x \in lams : x <= mx) /\ NextLamport(E) = 1 + mx
  BY <1>3, <1>4
<1> HIDE DEF mx
<1>7. \A ev \in E : ev.lam \in Nat /\ ev.lam <= mx
  BY <1>5, <1>6
<1> QED BY <1>6, <1>7

------------------------------------------------------------------------------
(* The types of a team.                                                    *)

LogOK ==
  /\ log \in [Store -> SUBSET Event] /\ \A s \in Store : IsFiniteSet(log[s])
  /\ bucket \in SUBSET Event /\ IsFiniteSet(bucket)

WriterOK ==
  /\ writer \in [Store -> Store \X (0 .. MaxRotate)]
  /\ \A s \in Store : writer[s][1] = s

\* A graph states nothing that its log does not state, and, as long as no operation has
\* failed, all that it does.
Owed(s) == IF faults = 0 THEN log[s] ELSE {}

GraphsOK ==
  /\ DOMAIN graph = Store
  /\ \A s \in Store : HasGraph(s) => Projects(graph[s], log[s], Owed(s))

TypeInv == LogOK /\ WriterOK /\ GraphsOK /\ faults \in 0 .. MaxFault

\* What a graph states of a log it states of a log that says the same of every decision.
Content(ev) ==
  [dec |-> ev.dec, muts |-> ev.muts, shapes |-> ev.shapes, targets |-> ev.targets,
   supersedes |-> ev.supersedes, saw |-> ev.saw]

Says(F, G) == \A a \in F : \E b \in G : Content(b) = Content(a)

\* Re-emission changes stamps and identities, which no graph owes to its events.
LEMMA SaysProjects ==
  ASSUME NEW g, NEW F, NEW G, NEW E, Projects(g, F, E), Says(F, G)
  PROVE  Projects(g, G, E)
<1>1. ASSUME NEW a \in F
      PROVE  \E b \in G : /\ b.dec = a.dec /\ b.shapes = a.shapes /\ b.targets = a.targets
                          /\ b.supersedes = a.supersedes
  <2>1. PICK b \in G : Content(b) = Content(a)
    BY DEF Says
  <2>2. /\ b.dec = a.dec /\ b.shapes = a.shapes /\ b.targets = a.targets
        /\ b.supersedes = a.supersedes
    BY <2>1 DEF Content
  <2> QED BY <2>2
<1>2. \A d : d \in Decided(F) => d \in Decided(G)
  BY <1>1 DEF Decided
<1>3. Backed(g, F)
  BY DEF Projects
<1>4. ASSUME NEW d \in DOMAIN g.dec
      PROVE  /\ Known(g, d) => d \in Decided(G)
             /\ d \in Decided(G) \/ \E ev \in G : d \in ev.supersedes
  <2>1. Known(g, d) => d \in Decided(F)
    BY <1>3, Zenon DEF Backed
  <2>2. d \in Decided(F) \/ \E ev \in F : d \in ev.supersedes
    BY <1>3, Zenon DEF Backed
  <2>3. (\E ev \in F : d \in ev.supersedes) => \E ev \in G : d \in ev.supersedes
    BY <1>1
  <2> QED BY <1>2, <2>1, <2>2, <2>3
<1>5. ASSUME NEW p \in g.sup PROVE \E ev \in G : ev.dec = p[1] /\ p[2] \in ev.supersedes
  <2>1. PICK a \in F : a.dec = p[1] /\ p[2] \in a.supersedes
    BY <1>3, Zenon DEF Backed
  <2> QED BY <1>1, <2>1
<1>6. ASSUME NEW p \in DOMAIN g.shape
      PROVE  \E ev \in G : ev.dec = p[1] /\ p[2] \in ev.shapes /\ g.shape[p] = (p[2] \in ev.targets)
  <2>1. PICK a \in F : a.dec = p[1] /\ p[2] \in a.shapes /\ g.shape[p] = (p[2] \in a.targets)
    BY <1>3, Zenon DEF Backed
  <2>2. PICK b \in G : b.dec = a.dec /\ b.shapes = a.shapes /\ b.targets = a.targets
    BY <1>1
  <2> QED BY <2>1, <2>2, Zenon
<1>7. \A q \in g.applied : q[1] \in Decided(G)
  BY <1>2, <1>3, Zenon DEF Backed
<1>8. Backed(g, G)
  BY <1>4, <1>5, <1>6, <1>7, Zenon DEF Backed
<1> QED BY <1>8 DEF Projects

\* More is said by a larger log, and less is complete.
LEMMA ProjectsMore ==
  ASSUME NEW g, NEW F, NEW G, NEW E, NEW D, Projects(g, F, E), F \subseteq G, D \subseteq E
  PROVE  Projects(g, G, D)
<1>1. Says(F, G)
  BY DEF Says
<1>2. Projects(g, G, E)
  BY <1>1, SaysProjects
<1>3. Complete(g, D)
  BY DEF Projects, Complete
<1> QED BY <1>2, <1>3 DEF Projects

------------------------------------------------------------------------------
(* What a sync makes of a log.                                             *)

\* A re-emitted event has a stamp after all that is left, and else says what it said.
LEMMA ReEmittedIs ==
  ASSUME LogOK, WriterOK, NEW s \in Store, NEW ev \in Orphans(s)
  PROVE  LET kept == log[s] \ Orphans(s)
             new == ReEmitted(s, kept, ev)
         IN  /\ Content(new) = Content(ev) /\ new.dec = ev.dec /\ new.by = writer[s]
             /\ new.lam \in Nat \ {0} /\ new.lam >= NextLamport(kept)
             /\ new.lam <= MaxLamport => new \in Event
<1> DEFINE kept == log[s] \ Orphans(s)
           earlier == {o \in Orphans(s) : Before(o, ev)}
           lam == NextLamport(kept) + Cardinality(earlier)
           new == ReEmitted(s, kept, ev)
<1>1. ev \in Event
  BY DEF Orphans, LogOK
<1>2. NextLamport(kept) \in Nat \ {0}
  <2>1. IsFiniteSet(kept) /\ \A x \in kept : x.lam \in Nat
    BY FS_Subset, EventFields DEF LogOK
  <2> HIDE DEF kept
  <2> QED BY <2>1, NextLamportIs
<1>3. Cardinality(earlier) \in Nat
  <2>1. earlier \subseteq log[s]
    BY DEF Orphans
  <2> HIDE DEF earlier
  <2> QED BY <2>1, FS_Subset, FS_CardinalityType DEF LogOK
<1>4. new = [ev EXCEPT !.lam = lam, !.by = writer[s]]
  BY DEF ReEmitted
<1>5. writer[s] \in Store \X (0 .. MaxRotate)
  BY DEF WriterOK
<1> HIDE DEF lam
<1>6. new = [dec |-> ev.dec, lam |-> lam, by |-> writer[s], muts |-> ev.muts, shapes |-> ev.shapes,
             targets |-> ev.targets, supersedes |-> ev.supersedes, saw |-> ev.saw]
  <2> HIDE DEF new
  <2> QED BY <1>1, <1>4 DEF Event
<1>7. lam \in Nat \ {0} /\ lam >= NextLamport(kept)
  <2> HIDE DEF kept, earlier
  <2> QED BY <1>2, <1>3 DEF lam
<1>8. lam <= MaxLamport => new \in Event
  <2> HIDE DEF new
  <2>1. lam <= MaxLamport => lam \in 1 .. MaxLamport
    BY <1>7, TeamAssumption
  <2> QED BY <1>1, <1>5, <1>6, <2>1 DEF Event
<1> HIDE DEF new
<1>9. Content(new) = Content(ev) /\ new.dec = ev.dec /\ new.by = writer[s] /\ new.lam = lam
  BY <1>6 DEF Content
<1> QED BY <1>7, <1>8, <1>9 DEF new

\* What the log is afterwards.
LEMMA AfterIs ==
  ASSUME LogOK, WriterOK, NEW s \in Store, NEW got \in Pulls(s),
         NextLamport(Reconciled(s) \cup got) <= MaxLamport + 1
  PROVE  /\ Reconciled(s) \cup got \in SUBSET Event /\ IsFiniteSet(Reconciled(s) \cup got)
         /\ got \subseteq bucket /\ \A ev \in got : ev.by[1] # s /\ ev \notin log[s]
         /\ Says(log[s], Reconciled(s)) /\ Says(Reconciled(s), log[s])
         /\ Orphans(s) = {} => Reconciled(s) = log[s]
<1> DEFINE kept == log[s] \ Orphans(s)
           new == {ReEmitted(s, kept, ev) : ev \in Orphans(s)}
           after == Reconciled(s) \cup got
<1>1. Reconciled(s) = kept \cup new
  BY DEF Reconciled
<1>2. got \subseteq bucket /\ \A ev \in got : ev.by[1] # s /\ ev \notin log[s]
  BY DEF Pulls
<1>3. IsFiniteSet(kept) /\ IsFiniteSet(got) /\ IsFiniteSet(Orphans(s))
  <2>1. Orphans(s) \subseteq log[s] /\ kept \subseteq log[s]
    BY DEF Orphans
  <2> QED BY <1>2, <2>1, FS_Subset DEF LogOK
<1>4. IsFiniteSet(new)
  <2> DEFINE f == [ev \in Orphans(s) |-> ReEmitted(s, kept, ev)]
  <2>1. f \in Surjection(Orphans(s), new)
    BY DEF Surjection
  <2> HIDE DEF f, new
  <2> QED BY <1>3, <2>1, FS_Surjection
<1>5. IsFiniteSet(after)
  <2> HIDE DEF kept, new
  <2> QED BY <1>1, <1>3, <1>4, FS_Union
<1>6. \A ev \in new : ev.lam \in Nat \ {0} /\ (ev.lam <= MaxLamport => ev \in Event)
  BY ReEmittedIs
<1>7. kept \in SUBSET Event /\ got \in SUBSET Event
  BY <1>2 DEF LogOK
<1> HIDE DEF new
<1>8. \A ev \in after : ev.lam \in Nat
  BY <1>1, <1>6, <1>7, EventFields
<1>9. \A ev \in after : ev.lam < NextLamport(after) /\ NextLamport(after) \in Nat
  <2> HIDE DEF after
  <2> QED BY <1>5, <1>8, NextLamportIs
<1>10. \A ev \in after : ev.lam <= MaxLamport
  <2>1. NextLamport(after) <= MaxLamport + 1
    OBVIOUS
  <2> HIDE DEF after
  <2> QED BY <1>8, <1>9, <2>1, TeamAssumption
<1>11. after \in SUBSET Event
  BY <1>1, <1>6, <1>7, <1>10
<1>12. ASSUME NEW a \in log[s] PROVE \E b \in Reconciled(s) : Content(b) = Content(a)
  <2>1. CASE a \in Orphans(s)
    <3>1. ReEmitted(s, kept, a) \in new /\ Content(ReEmitted(s, kept, a)) = Content(a)
      BY <2>1, ReEmittedIs DEF new
    <3> QED BY <1>1, <3>1
  <2>2. CASE a \in kept
    BY <1>1, <2>2
  <2> QED BY <2>1, <2>2
<1>13. ASSUME NEW b \in Reconciled(s) PROVE \E a \in log[s] : Content(a) = Content(b)
  <2>1. CASE b \in new
    <3>1. PICK a \in Orphans(s) : b = ReEmitted(s, kept, a)
      BY <2>1 DEF new
    <3>2. Content(b) = Content(a) /\ a \in log[s]
      BY <3>1, ReEmittedIs DEF Orphans
    <3> QED BY <3>2
  <2>2. CASE b \in kept
    BY <2>2
  <2> QED BY <1>1, <2>1, <2>2
<1>14. Orphans(s) = {} => Reconciled(s) = log[s]
  BY <1>1 DEF new
<1> QED BY <1>2, <1>5, <1>11, <1>12, <1>13, <1>14 DEF Says

\* A projection that is missing is made from the log.
LEMMA OpenWriteIs ==
  ASSUME NEW g, NEW E \in SUBSET Event, IsFiniteSet(E), NEW C, C \subseteq E,
         g # NoGraph => Projects(g, E, C)
  PROVE  Projects(OpenWrite(g, E), E, C)
<1>1. CASE g = NoGraph
  <2>1. Projects(Replay(E), E, C)
    BY ReplayProjects, ProjectsMore
  <2> QED BY <1>1, <2>1 DEF OpenWrite
<1>2. CASE g # NoGraph
  BY <1>2 DEF OpenWrite
<1> QED BY <1>1, <1>2

\* The graph on which a decision is recorded, and its event.
LEMMA NewEvent ==
  ASSUME TypeInv, NEW s \in Store, NEW d \in Decision
  PROVE  LET g == OpenWrite(graph[s], log[s])
             ev == BuildEvent(g, d, NextLamport(log[s]), writer[s])
         IN  /\ Projects(g, log[s], Owed(s))
             /\ ev.dec = d /\ ev.by = writer[s] /\ ev.lam = NextLamport(log[s])
             /\ ev.targets = TargetsOf(g, Input[d])
             /\ ev.supersedes = Superseded(g, TargetsOf(g, Input[d]))
             /\ ev.saw = {p[1] : p \in g.applied}
             /\ ev.lam \in Nat \ {0} /\ \A x \in log[s] : x.lam < ev.lam
             /\ ev.lam <= MaxLamport => ev \in Event
<1> DEFINE g == OpenWrite(graph[s], log[s])
           ev == BuildEvent(g, d, NextLamport(log[s]), writer[s])
<1>1. log[s] \in SUBSET Event /\ IsFiniteSet(log[s]) /\ writer[s] \in Store \X (0 .. MaxRotate)
  BY DEF TypeInv, LogOK, WriterOK
<1>2. Projects(g, log[s], Owed(s))
  <2>1. Owed(s) \subseteq log[s] /\ (graph[s] # NoGraph => Projects(graph[s], log[s], Owed(s)))
    BY DEF TypeInv, GraphsOK, HasGraph, Owed
  <2> QED BY <1>1, <2>1, OpenWriteIs
<1>3. GraphOK(g)
  BY <1>2 DEF Projects
<1> HIDE DEF g
<1>4. NextLamport(log[s]) \in Nat \ {0} /\ \A x \in log[s] : x.lam < NextLamport(log[s])
  BY <1>1, NextLamportIs, EventFields
<1>5. /\ ev.dec = d /\ ev.by = writer[s] /\ ev.lam = NextLamport(log[s])
      /\ ev.targets = TargetsOf(g, Input[d])
      /\ ev.supersedes = Superseded(g, TargetsOf(g, Input[d]))
      /\ ev.saw = {p[1] : p \in g.applied}
  BY DEF BuildEvent
<1>6. ev.lam <= MaxLamport => ev \in Event
  <2>1. ev.lam <= MaxLamport => NextLamport(log[s]) \in 1 .. MaxLamport
    BY <1>4, <1>5, TeamAssumption
  <2> QED BY <1>1, <1>3, <2>1, BuildTyped
<1> HIDE DEF ev
<1> QED BY <1>2, <1>4, <1>5, <1>6 DEF ev, g

\* A graph after a pull.
LEMMA ApplyPulledIs ==
  ASSUME NEW g, NEW E \in SUBSET Event, NEW after \in SUBSET Event, IsFiniteSet(after),
         E \subseteq after, NEW C, C \subseteq E, g # NoGraph => Projects(g, E, C),
         ApplyPulled(g, E, after) # NoGraph
  PROVE  Projects(ApplyPulled(g, E, after), after, C \cup (after \ E))
<1> DEFINE pulled == after \ E
           opened == OpenWrite(g, after)
<1>1. CASE pulled = {}
  <2>1. after = E /\ C \cup (after \ E) = C
    BY <1>1
  <2>2. ApplyPulled(g, E, after) = g
    BY <1>1 DEF ApplyPulled
  <2> QED BY <2>1, <2>2
<1>2. CASE pulled # {} /\ ApplyPulled(g, E, after) = ApplyAll(opened, pulled)
  <2>1. g # NoGraph => Projects(g, after, C)
    BY ProjectsMore
  <2>2. Projects(opened, after, C)
    BY <2>1, OpenWriteIs
  <2>3. IsFiniteSet(pulled) /\ pulled \in SUBSET Event /\ after \cup pulled = after
    BY FS_Subset
  <2> HIDE DEF opened, pulled
  <2>4. Projects(ApplyAll(opened, pulled), after \cup pulled, C \cup pulled)
    BY <2>2, <2>3, ApplyAllProjects
  <2> QED BY <1>2, <2>3, <2>4 DEF pulled
<1>3. CASE pulled # {} /\ ApplyPulled(g, E, after) = Replay(after)
  <2>1. Projects(Replay(after), after, after)
    BY ReplayProjects
  <2>2. C \cup (after \ E) \subseteq after
    OBVIOUS
  <2> QED BY <1>3, <2>1, <2>2, ProjectsMore
<1>4. pulled # {} =>
        ApplyPulled(g, E, after) = ApplyAll(opened, pulled) \/ ApplyPulled(g, E, after) = Replay(after)
  BY Zenon DEF ApplyPulled
<1> QED BY <1>1, <1>2, <1>3, <1>4

------------------------------------------------------------------------------
(* One store at a time.                                                    *)

OthersStay(s) ==
  /\ \A t \in Store : t # s => log'[t] = log[t] /\ graph'[t] = graph[t]
  /\ DOMAIN graph' = Store
  /\ faults' \in {faults, faults + 1}

\* What a step does to one store leaves the graphs of the others as they are.
LEMMA GraphsStay ==
  ASSUME TypeInv, NEW s \in Store, OthersStay(s),
         graph'[s] # NoGraph => Projects(graph'[s], log'[s], IF faults' = 0 THEN log'[s] ELSE {})
  PROVE  GraphsOK'
<1>1. ASSUME NEW t \in Store, t # s, graph'[t] # NoGraph
      PROVE  Projects(graph'[t], log'[t], IF faults' = 0 THEN log'[t] ELSE {})
  <2>1. graph'[t] = graph[t] /\ log'[t] = log[t]
    BY <1>1 DEF OthersStay
  <2>2. Projects(graph[t], log[t], Owed(t))
    BY <1>1, <2>1 DEF TypeInv, GraphsOK, HasGraph
  <2>3. (IF faults' = 0 THEN log[t] ELSE {}) \subseteq Owed(t)
    BY TeamAssumption DEF OthersStay, Owed, TypeInv
  <2>4. Projects(graph[t], log[t], IF faults' = 0 THEN log[t] ELSE {})
    BY <2>2, <2>3, ProjectsMore
  <2> QED BY <2>1, <2>4
<1>2. \A t \in Store : graph'[t] # NoGraph => Projects(graph'[t], log'[t], IF faults' = 0 THEN log'[t] ELSE {})
  BY <1>1
<1>3. DOMAIN graph' = Store
  BY DEF OthersStay
<1> QED BY <1>2, <1>3, Zenon DEF GraphsOK, HasGraph, Owed

\* A new team has no events and no graphs.
LEMMA TypeInit == Init => TypeInv
<1> SUFFICES ASSUME Init PROVE TypeInv
  OBVIOUS
<1>1. LogOK
  BY FS_EmptySet DEF Init, LogOK
<1>2. WriterOK
  BY TeamAssumption DEF Init, WriterOK
<1>3. GraphsOK
  BY DEF Init, GraphsOK, HasGraph
<1> QED BY <1>1, <1>2, <1>3, TeamAssumption DEF Init, TypeInv

\* Recording a decision.
LEMMA TypeIngest ==
  ASSUME TypeInv, NEW s \in Store, NEW d \in Decision,
         Ingest(s, d) \/ IngestNoOp(s, d) \/ IngestFails(s, d)
  PROVE  TypeInv'
<1> DEFINE g == OpenWrite(graph[s], log[s])
           ev == BuildEvent(g, d, NextLamport(log[s]), writer[s])
<1>1. Projects(g, log[s], Owed(s)) /\ (ev.lam <= MaxLamport => ev \in Event)
  BY NewEvent
<1>2. CASE IngestNoOp(s, d)
  <2>1. /\ graph' = [graph EXCEPT ![s] = g] /\ UNCHANGED <<log, writer, bucket, faults>>
    BY <1>2 DEF IngestNoOp
  <2> HIDE DEF g
  <2>2. graph'[s] = g /\ OthersStay(s)
    BY <2>1 DEF OthersStay, TypeInv, GraphsOK
  <2>3. GraphsOK'
    BY <1>1, <2>1, <2>2, GraphsStay DEF Owed
  <2> QED BY <2>1, <2>3 DEF TypeInv, LogOK, WriterOK
<1>3. CASE Ingest(s, d)
  <2>1. /\ ev.lam <= MaxLamport
        /\ log' = [log EXCEPT ![s] = @ \cup {ev}]
        /\ graph' = [graph EXCEPT ![s] = ApplyEvent(g, ev)]
        /\ UNCHANGED <<writer, bucket, faults>>
    BY <1>3 DEF Ingest
  <2> HIDE DEF g, ev
  <2>2. /\ graph'[s] = ApplyEvent(g, ev) /\ log'[s] = log[s] \cup {ev} /\ OthersStay(s)
    BY <2>1 DEF OthersStay, TypeInv, GraphsOK, LogOK
  <2>3. Projects(ApplyEvent(g, ev), log[s] \cup {ev}, Owed(s) \cup {ev})
    BY <1>1, <2>1, ApplyProjects
  <2>4. (IF faults' = 0 THEN log'[s] ELSE {}) \subseteq Owed(s) \cup {ev}
    BY <2>1, <2>2 DEF Owed
  <2>5. Projects(graph'[s], log'[s], IF faults' = 0 THEN log'[s] ELSE {})
    BY <2>2, <2>3, <2>4, ProjectsMore
  <2>6. GraphsOK'
    BY <2>2, <2>5, GraphsStay
  <2>7. LogOK'
    BY <1>1, <2>1, FS_AddElement DEF TypeInv, LogOK
  <2> QED BY <2>1, <2>6, <2>7 DEF TypeInv, WriterOK
<1>4. CASE IngestFails(s, d)
  <2>1. /\ ev.lam <= MaxLamport /\ Fault(s)
        /\ log' = [log EXCEPT ![s] = @ \cup {ev}]
        /\ graph' = [graph EXCEPT ![s] = g]
        /\ UNCHANGED <<writer, bucket>>
    BY <1>4 DEF IngestFails
  <2> HIDE DEF g, ev
  <2>2. faults' = faults + 1 /\ faults' \in 0 .. MaxFault /\ faults' # 0
    BY <2>1, TeamAssumption DEF Fault, TypeInv
  <2>3. /\ graph'[s] = g /\ log'[s] = log[s] \cup {ev} /\ OthersStay(s)
    BY <2>1, <2>2 DEF OthersStay, TypeInv, GraphsOK, LogOK
  <2>4. Projects(g, log[s] \cup {ev}, {})
    BY <1>1, ProjectsMore
  <2>5. GraphsOK'
    BY <2>2, <2>3, <2>4, GraphsStay
  <2>6. LogOK'
    BY <1>1, <2>1, FS_AddElement DEF TypeInv, LogOK
  <2> QED BY <2>1, <2>2, <2>5, <2>6 DEF TypeInv, WriterOK
<1> QED BY <1>2, <1>3, <1>4

\* A sync.
LEMMA TypeSync ==
  ASSUME TypeInv, NEW s \in Store, NEW got \in Pulls(s), Sync(s, got) \/ SyncFails(s, got)
  PROVE  TypeInv'
<1> DEFINE after == Reconciled(s) \cup got
<1>0. NextLamport(after) <= MaxLamport + 1 /\ log' = [log EXCEPT ![s] = after] /\ writer' = writer
  BY DEF Sync, SyncFails
<1>1. /\ after \in SUBSET Event /\ IsFiniteSet(after)
      /\ Says(log[s], after)
      /\ Orphans(s) = {} => log[s] \subseteq after /\ after = log[s] \cup got
  <2>1. /\ after \in SUBSET Event /\ IsFiniteSet(after) /\ Says(log[s], Reconciled(s))
        /\ Orphans(s) = {} => Reconciled(s) = log[s]
    BY <1>0, AfterIs DEF TypeInv
  <2> QED BY <2>1 DEF Says
<1> HIDE DEF after
<1>2. log'[s] = after /\ \A t \in Store : t # s => log'[t] = log[t]
  BY <1>0 DEF TypeInv, LogOK
<1>3. bucket' \in {bucket, bucket \cup Own(s, after)} /\ IsFiniteSet(Own(s, after))
  <2>1. bucket' \in {bucket, bucket \cup Own(s, after)}
    BY DEF Sync, SyncFails, after
  <2>2. IsFiniteSet(Own(s, after))
    BY <1>1, FS_Subset DEF Own
  <2> QED BY <2>1, <2>2
<1>4. LogOK'
  <2>1. bucket' \in SUBSET Event /\ IsFiniteSet(bucket')
    <3>1. bucket \in SUBSET Event /\ IsFiniteSet(bucket) /\ Own(s, after) \in SUBSET Event
      BY <1>1 DEF TypeInv, LogOK, Own
    <3>2. IsFiniteSet(bucket \cup Own(s, after))
      BY <1>3, <3>1, FS_Union
    <3> QED BY <1>3, <3>1, <3>2
  <2> QED BY <1>0, <1>1, <1>2, <2>1 DEF TypeInv, LogOK
<1>5. CASE Sync(s, got)
  <2>1. /\ graph' = [graph EXCEPT ![s] =
                       IF Orphans(s) # {} THEN Replay(after) ELSE ApplyPulled(@, log[s], after)]
        /\ faults' = faults
    BY <1>5 DEF Sync, after
  <2>2. /\ graph'[s] = IF Orphans(s) # {} THEN Replay(after) ELSE ApplyPulled(graph[s], log[s], after)
        /\ OthersStay(s)
    BY <1>2, <2>1 DEF OthersStay, TypeInv, GraphsOK
  <2>3. ASSUME graph'[s] # NoGraph
        PROVE  Projects(graph'[s], log'[s], IF faults' = 0 THEN log'[s] ELSE {})
    <3>1. CASE Orphans(s) # {}
      <4>1. Projects(Replay(after), after, after)
        BY <1>1, ReplayProjects
      <4>2. (IF faults' = 0 THEN after ELSE {}) \subseteq after
        OBVIOUS
      <4>3. Projects(Replay(after), after, IF faults' = 0 THEN after ELSE {})
        BY <4>1, <4>2, ProjectsMore
      <4> QED BY <1>2, <2>2, <3>1, <4>3
    <3>2. CASE Orphans(s) = {}
      <4>1. graph[s] # NoGraph => Projects(graph[s], log[s], Owed(s))
        BY DEF TypeInv, GraphsOK, HasGraph
      <4>2. Owed(s) \subseteq log[s] /\ log[s] \in SUBSET Event
        BY DEF Owed, TypeInv, LogOK
      <4>3. graph'[s] = ApplyPulled(graph[s], log[s], after)
        BY <2>2, <3>2
      <4>4. Projects(ApplyPulled(graph[s], log[s], after), after, Owed(s) \cup (after \ log[s]))
        BY <1>1, <2>3, <3>2, <4>1, <4>2, <4>3, ApplyPulledIs
      <4>5. (IF faults' = 0 THEN after ELSE {}) \subseteq Owed(s) \cup (after \ log[s])
        BY <2>1 DEF Owed
      <4>6. Projects(graph'[s], after, IF faults' = 0 THEN after ELSE {})
        BY <4>3, <4>4, <4>5, ProjectsMore
      <4> QED BY <1>2, <4>6
    <3> QED BY <3>1, <3>2
  <2>4. GraphsOK'
    BY <2>2, <2>3, GraphsStay
  <2> QED BY <1>0, <1>4, <2>1, <2>4 DEF TypeInv, WriterOK
<1>6. CASE SyncFails(s, got)
  <2>1. Fault(s) /\ graph' = graph
    BY <1>6 DEF SyncFails
  <2>2. faults' = faults + 1 /\ faults' \in 0 .. MaxFault /\ faults' # 0
    BY <2>1, TeamAssumption DEF Fault, TypeInv
  <2>3. OthersStay(s)
    BY <1>2, <2>1, <2>2 DEF OthersStay, TypeInv, GraphsOK
  <2>4. ASSUME graph'[s] # NoGraph PROVE Projects(graph'[s], log'[s], {})
    <3>1. Projects(graph[s], log[s], Owed(s))
      BY <2>1, <2>4 DEF TypeInv, GraphsOK, HasGraph
    <3>2. Projects(graph[s], after, Owed(s))
      BY <1>1, <3>1, SaysProjects
    <3>3. Projects(graph[s], after, {})
      BY <3>2, ProjectsMore
    <3> QED BY <1>2, <2>1, <3>3
  <2>5. GraphsOK'
    BY <2>2, <2>3, <2>4, GraphsStay
  <2> QED BY <1>0, <1>4, <2>2, <2>5 DEF TypeInv, WriterOK
<1> QED BY <1>5, <1>6

\* A rebuild that does not get to its end projects some events of the log.
LEMMA TypeRebuildFails ==
  ASSUME TypeInv, NEW s \in Store, RebuildFails(s)
  PROVE  TypeInv'
<1>1. log[s] \in SUBSET Event /\ IsFiniteSet(log[s])
  BY DEF TypeInv, LogOK
<1>2. /\ UNCHANGED <<log, writer, bucket>>
      /\ faults' = faults + 1 /\ faults' \in 0 .. MaxFault /\ faults' # 0
  BY TeamAssumption DEF RebuildFails, Fault, TypeInv
<1>3. PICK part \in Begun(log[s]) : graph' = [graph EXCEPT ![s] = Replay(part)]
  BY DEF RebuildFails
<1>4. part \in SUBSET Event /\ IsFiniteSet(part) /\ part \subseteq log[s]
  BY <1>1, <1>3, FS_Subset DEF Begun
<1>5. OthersStay(s) /\ graph'[s] = Replay(part)
  BY <1>2, <1>3 DEF OthersStay, TypeInv, GraphsOK
<1>6. Projects(Replay(part), log[s], {})
  <2>1. Projects(Replay(part), part, part)
    BY <1>4, ReplayProjects
  <2>2. Projects(Replay(part), part, {})
    BY <2>1, ProjectsMore
  <2> QED BY <1>1, <1>4, <2>2, ProjectsMore
<1>7. GraphsOK'
  BY <1>2, <1>5, <1>6, GraphsStay
<1> QED BY <1>2, <1>7 DEF TypeInv, LogOK, WriterOK

\* A rebuild, the first read, the loss of a graph, a new identity.
LEMMA TypeRest ==
  ASSUME TypeInv, NEW s \in Store, Rebuild(s) \/ OpenRead(s) \/ LoseGraph(s) \/ Rotate(s)
  PROVE  TypeInv'
<1>0. log[s] \in SUBSET Event /\ IsFiniteSet(log[s])
  BY DEF TypeInv, LogOK
<1>1. CASE Rotate(s)
  <2>1. /\ writer' = [writer EXCEPT ![s][2] = @ + 1] /\ writer[s][2] < MaxRotate
        /\ UNCHANGED <<log, graph, bucket, faults>>
    BY <1>1 DEF Rotate
  <2>2. WriterOK'
    <3>1. writer[s][1] = s /\ writer[s][2] \in 0 .. MaxRotate /\ writer[s] = <<s, writer[s][2]>>
      BY DEF TypeInv, WriterOK
    <3>2. writer'[s] = <<s, writer[s][2] + 1>> /\ writer[s][2] + 1 \in 0 .. MaxRotate
      BY <2>1, <3>1, TeamAssumption DEF TypeInv, WriterOK
    <3> QED BY <2>1, <3>2 DEF TypeInv, WriterOK
  <2> QED BY <2>1, <2>2 DEF TypeInv, LogOK, GraphsOK, HasGraph, Owed
<1>2. CASE ~Rotate(s)
  <2>1. /\ UNCHANGED <<log, writer, bucket, faults>>
        /\ \/ graph' = [graph EXCEPT ![s] = Replay(log[s])]
           \/ graph' = [graph EXCEPT ![s] = NoGraph]
    BY <1>2 DEF Rebuild, OpenRead, LoseGraph, OpenWrite
  <2>2. OthersStay(s) /\ graph'[s] \in {Replay(log[s]), NoGraph}
    BY <2>1 DEF OthersStay, TypeInv, GraphsOK
  <2>3. Projects(Replay(log[s]), log[s], IF faults' = 0 THEN log[s] ELSE {})
    <3>1. Projects(Replay(log[s]), log[s], log[s])
      BY <1>0, ReplayProjects
    <3> QED BY <3>1, ProjectsMore
  <2>4. GraphsOK'
    BY <2>1, <2>2, <2>3, GraphsStay
  <2> QED BY <2>1, <2>4 DEF TypeInv, LogOK, WriterOK
<1> QED BY <1>1, <1>2

\* Every operation keeps the types.
LEMMA TypeStep == ASSUME TypeInv, [Next]_vars PROVE TypeInv'
<1>1. CASE Next
  BY <1>1, TypeIngest, TypeSync, TypeRest, TypeRebuildFails DEF Next
<1>2. CASE UNCHANGED vars
  BY <1>2 DEF vars, TypeInv, LogOK, WriterOK, GraphsOK, HasGraph, Owed
<1> QED BY <1>1, <1>2

\* TypeInv holds in every state, whichever stores rotate and whatever fails.
THEOREM TypeSafe == Spec => []TypeInv
BY TypeInit, TypeStep, PTL DEF Spec

\* The state is what the types say.
THEOREM Typed == Spec => []TypeOK
<1>1. TypeInv => TypeOK
  <2> SUFFICES ASSUME TypeInv PROVE TypeOK
    OBVIOUS
  <2>1. ASSUME NEW s \in Store, graph[s] # NoGraph
        PROVE  /\ DOMAIN graph[s].elem \subseteq Element
               /\ DOMAIN graph[s].dec \subseteq Decision
               /\ graph[s].sup \subseteq Decision \X Decision
    BY <2>1 DEF TypeInv, GraphsOK, HasGraph, Projects, GraphOK
  <2> QED BY <2>1 DEF TypeInv, LogOK, WriterOK, TypeOK
<1> QED BY <1>1, TypeSafe, PTL

\* The log is the truth: whatever fails half-way, no graph shows more than its log has.
THEOREM GraphsAreBacked == Spec => []GraphBacked
<1>1. TypeInv => GraphBacked
  <2> SUFFICES ASSUME TypeInv, NEW s \in Store, HasGraph(s)
               PROVE  /\ \A d \in DOMAIN graph[s].dec : Known(graph[s], d) => d \in Decided(log[s])
                      /\ \A p \in graph[s].sup :
                           \E ev \in log[s] : ev.dec = p[1] /\ p[2] \in ev.supersedes
                      /\ \A p \in DOMAIN graph[s].shape :
                           graph[s].shape[p] => \E ev \in log[s] : ev.dec = p[1] /\ p[2] \in ev.targets
    BY DEF GraphBacked
  <2>1. Backed(graph[s], log[s])
    BY DEF TypeInv, GraphsOK, Projects
  <2> QED BY <2>1, Zenon DEF Backed
<1> QED BY <1>1, TypeSafe, PTL

------------------------------------------------------------------------------
(* Whose event is where.                                                   *)

\* Events of other stores came from the remote; what the remote has of a store, the store has.
Shared ==
  /\ \A s \in Store : \A ev \in log[s] : ev.by[1] # s => ev \in bucket
  /\ \A ev \in bucket : ev \in log[ev.by[1]]

\* A store has one event of its own for a decision.
OwnOnce ==
  \A s \in Store : \A a, b \in log[s] : a.by[1] = s /\ b.by[1] = s /\ a.dec = b.dec => a = b

OnceInv == TypeInv /\ Shared /\ (faults = 0 => OwnOnce)

\* Where the events of a log come from that a sync leaves.
LEMMA AfterParts ==
  ASSUME LogOK, WriterOK, NEW s \in Store, NEW got \in Pulls(s),
         NEW x \in Reconciled(s) \cup got
  PROVE  \/ x \in log[s] \ Orphans(s)
         \/ x \in got /\ x \in bucket /\ x.by[1] # s
         \/ \E o \in Orphans(s) : /\ x = ReEmitted(s, log[s] \ Orphans(s), o)
                                  /\ x.dec = o.dec /\ x.by = writer[s] /\ x.by[1] = s
                                  /\ o \in log[s] /\ o.by[1] = s /\ Content(x) = Content(o)
<1>1. CASE x \in got
  BY <1>1 DEF Pulls
<1>2. CASE x \in log[s] \ Orphans(s)
  BY <1>2
<1>3. ASSUME NEW o \in Orphans(s), x = ReEmitted(s, log[s] \ Orphans(s), o)
      PROVE  /\ x.dec = o.dec /\ x.by = writer[s] /\ x.by[1] = s
             /\ o \in log[s] /\ o.by[1] = s /\ Content(x) = Content(o)
  <2>1. x.dec = o.dec /\ x.by = writer[s] /\ Content(x) = Content(o)
    BY <1>3, ReEmittedIs
  <2>2. o \in log[s] /\ o.by[1] = s
    BY DEF Orphans
  <2>3. writer[s][1] = s
    BY DEF WriterOK
  <2> QED BY <2>1, <2>2, <2>3
<1>4. x \in got \/ x \in log[s] \ Orphans(s) \/ \E o \in Orphans(s) : x = ReEmitted(s, log[s] \ Orphans(s), o)
  BY DEF Reconciled
<1> QED BY <1>1, <1>2, <1>3, <1>4

\* Their decisions and authors were there before.
LEMMA AfterAuthors ==
  ASSUME LogOK, WriterOK, NEW s \in Store, NEW got \in Pulls(s),
         NEW x \in Reconciled(s) \cup got
  PROVE  \/ x \in log[s]
         \/ x \in bucket
         \/ \E o \in log[s] : o.dec = x.dec /\ o.by[1] = x.by[1]
<1>1. \/ x \in log[s] \ Orphans(s)
      \/ x \in got /\ x \in bucket /\ x.by[1] # s
      \/ \E o \in Orphans(s) : /\ x = ReEmitted(s, log[s] \ Orphans(s), o)
                               /\ x.dec = o.dec /\ x.by = writer[s] /\ x.by[1] = s
                               /\ o \in log[s] /\ o.by[1] = s /\ Content(x) = Content(o)
  BY AfterParts
<1> QED BY <1>1

\* A new team has recorded nothing.
LEMMA OnceInit == Init => OnceInv
<1>1. Init => Shared /\ OwnOnce
  BY DEF Init, Shared, OwnOnce
<1> QED BY <1>1, TypeInit DEF OnceInv

\* One more own event.
LEMMA OnceIngest ==
  ASSUME OnceInv, TypeInv', NEW s \in Store, NEW d \in Decision, Ingest(s, d) \/ IngestFails(s, d)
  PROVE  OnceInv'
<1> DEFINE g == OpenWrite(graph[s], log[s])
           ev == BuildEvent(g, d, NextLamport(log[s]), writer[s])
<1>1. /\ log' = [log EXCEPT ![s] = @ \cup {ev}] /\ bucket' = bucket
      /\ d \notin DOMAIN g.dec
      /\ faults' = faults \/ faults' = faults + 1
  BY DEF Ingest, IngestFails, AlreadyRecorded, Fault
<1>2. ev.dec = d /\ ev.by = writer[s] /\ Projects(g, log[s], Owed(s))
  BY NewEvent DEF OnceInv
<1> HIDE DEF g, ev
<1>3. /\ log'[s] = log[s] \cup {ev} /\ \A t \in Store : t # s => log'[t] = log[t]
      /\ ev.by[1] = s /\ \A x \in bucket : x.by[1] \in Store
  BY <1>1, <1>2, EventFields DEF OnceInv, TypeInv, LogOK, WriterOK
<1>4. Shared'
  <2>1. ASSUME NEW t \in Store, NEW x \in log'[t], x.by[1] # t PROVE x \in bucket'
    BY <1>1, <1>3, <2>1 DEF OnceInv, Shared
  <2>2. ASSUME NEW x \in bucket' PROVE x \in log'[x.by[1]]
    BY <1>1, <1>3 DEF OnceInv, Shared
  <2> QED BY <2>1, <2>2 DEF Shared
<1>5. ASSUME faults' = 0 PROVE OwnOnce'
  <2>1. faults = 0
    BY <1>1, <1>5, TeamAssumption DEF OnceInv, TypeInv
  <2>2. \A x \in log[s] : x.dec # d
    <3>1. Complete(g, log[s])
      BY <1>2, <2>1 DEF Projects, Owed
    <3> QED BY <1>1, <3>1 DEF Complete
  <2>3. OwnOnce
    BY <2>1 DEF OnceInv
  <2>4. ASSUME NEW t \in Store, NEW a \in log'[t], NEW b \in log'[t],
               a.by[1] = t, b.by[1] = t, a.dec = b.dec
        PROVE  a = b
    <3>1. CASE t # s
      BY <1>3, <2>3, <2>4, <3>1 DEF OwnOnce
    <3>2. CASE t = s /\ a \in log[s] /\ b \in log[s]
      BY <2>3, <2>4, <3>2 DEF OwnOnce
    <3>3. CASE t = s /\ (a = ev \/ b = ev)
      BY <1>2, <1>3, <2>2, <2>4, <3>3
    <3> QED BY <1>3, <3>1, <3>2, <3>3
  <2> QED BY <2>4 DEF OwnOnce
<1> QED BY <1>4, <1>5 DEF OnceInv

\* What a sync re-emits replaces what it drops, and what it pulls is not its own.
LEMMA OnceSync ==
  ASSUME OnceInv, TypeInv', NEW s \in Store, NEW got \in Pulls(s), Sync(s, got) \/ SyncFails(s, got)
  PROVE  OnceInv'
<1> DEFINE after == Reconciled(s) \cup got
           kept == log[s] \ Orphans(s)
<1>1. /\ log' = [log EXCEPT ![s] = after]
      /\ bucket' \in {bucket, bucket \cup Own(s, after)}
      /\ faults' = faults \/ faults' = faults + 1
  BY DEF Sync, SyncFails, Fault
<1>2. ASSUME NEW x \in after
      PROVE  \/ x \in kept
             \/ x \in got /\ x \in bucket /\ x.by[1] # s
             \/ \E o \in Orphans(s) : /\ x = ReEmitted(s, kept, o) /\ x.dec = o.dec /\ x.by[1] = s
                                      /\ o \in log[s] /\ o.by[1] = s
  BY AfterParts DEF OnceInv, TypeInv
<1>3. kept \subseteq after
  BY DEF Reconciled
<1> HIDE DEF after
<1>4. /\ log'[s] = after /\ \A t \in Store : t # s => log'[t] = log[t]
      /\ \A x \in bucket : x.by[1] \in Store
      /\ \A x \in Own(s, after) : x \in after /\ x.by[1] = s
  BY <1>1, EventFields DEF OnceInv, TypeInv, LogOK, WriterOK, Own
<1>5. Shared'
  <2>1. ASSUME NEW t \in Store, NEW x \in log'[t], x.by[1] # t PROVE x \in bucket
    <3>1. CASE t # s
      BY <1>4, <2>1, <3>1 DEF OnceInv, Shared
    <3>2. CASE t = s
      BY <1>2, <1>4, <2>1, <3>2 DEF OnceInv, Shared
    <3> QED BY <3>1, <3>2
  <2>2. ASSUME NEW x \in bucket PROVE x \in log'[x.by[1]]
    <3>1. x \in log[x.by[1]]
      BY DEF OnceInv, Shared
    <3>2. CASE x.by[1] # s
      BY <1>4, <3>1, <3>2
    <3>3. CASE x.by[1] = s
      <4>1. x \in log[s] /\ x \notin Orphans(s)
        BY <3>1, <3>3 DEF Orphans
      <4> QED BY <1>3, <1>4, <3>3, <4>1
    <3> QED BY <3>2, <3>3
  <2>3. ASSUME NEW x \in Own(s, after) PROVE x \in log'[x.by[1]]
    BY <1>4
  <2> QED BY <1>1, <2>1, <2>2, <2>3 DEF Shared
<1>6. ASSUME faults' = 0 PROVE OwnOnce'
  <2>1. OwnOnce
    BY <1>1, <1>6, TeamAssumption DEF OnceInv, TypeInv
  <2>2. ASSUME NEW t \in Store, NEW a \in log'[t], NEW b \in log'[t],
               a.by[1] = t, b.by[1] = t, a.dec = b.dec
        PROVE  a = b
    <3>1. CASE t # s
      BY <1>4, <2>1, <2>2, <3>1 DEF OwnOnce
    <3>2. CASE t = s
      <4>1. /\ a \in kept \/ \E o \in Orphans(s) : /\ a = ReEmitted(s, kept, o) /\ a.dec = o.dec
                                                   /\ o \in log[s] /\ o.by[1] = s
            /\ b \in kept \/ \E o \in Orphans(s) : /\ b = ReEmitted(s, kept, o) /\ b.dec = o.dec
                                                   /\ o \in log[s] /\ o.by[1] = s
        <5>1. a \in after /\ b \in after /\ a.by[1] = s /\ b.by[1] = s
          BY <1>4, <2>2, <3>2
        <5> HIDE DEF kept
        <5>2. ASSUME NEW x \in after, x.by[1] = s
              PROVE  x \in kept \/ \E o \in Orphans(s) : /\ x = ReEmitted(s, kept, o) /\ x.dec = o.dec
                                                         /\ o \in log[s] /\ o.by[1] = s
          <6>1. \/ x \in kept
                \/ x \in got /\ x \in bucket /\ x.by[1] # s
                \/ \E o \in Orphans(s) : /\ x = ReEmitted(s, kept, o) /\ x.dec = o.dec /\ x.by[1] = s
                                         /\ o \in log[s] /\ o.by[1] = s
            BY <1>2
          <6> QED BY <5>2, <6>1
        <5> QED BY <5>1, <5>2
      <4>2. CASE a \in kept /\ b \in kept
        BY <2>1, <2>2, <3>2, <4>2 DEF OwnOnce
      <4>3. ASSUME NEW x \in kept, x.by[1] = s, NEW o \in Orphans(s), o \in log[s], o.by[1] = s,
                   x.dec = o.dec
            PROVE  FALSE
        BY <2>1, <4>3 DEF OwnOnce
      <4>4. ASSUME NEW o1 \in Orphans(s), NEW o2 \in Orphans(s), o1 \in log[s], o2 \in log[s],
                   o1.by[1] = s, o2.by[1] = s, o1.dec = o2.dec
            PROVE  o1 = o2
        BY <2>1, <4>4 DEF OwnOnce
      <4> HIDE DEF kept
      <4>5. CASE a \in kept /\ b \notin kept
        BY <2>2, <3>2, <4>1, <4>3, <4>5
      <4>6. CASE a \notin kept /\ b \in kept
        BY <2>2, <3>2, <4>1, <4>3, <4>6
      <4>7. CASE a \notin kept /\ b \notin kept
        BY <2>2, <4>1, <4>4, <4>7
      <4> QED BY <4>2, <4>5, <4>6, <4>7
    <3> QED BY <3>1, <3>2
  <2> QED BY <2>2 DEF OwnOnce
<1> QED BY <1>5, <1>6 DEF OnceInv

\* Every operation keeps OnceInv.
LEMMA OnceStep == ASSUME OnceInv, [Next]_vars PROVE OnceInv'
<1>0. TypeInv'
  BY TypeStep DEF OnceInv
<1>1. CASE \E s \in Store : \E d \in Decision : Ingest(s, d) \/ IngestFails(s, d)
  BY <1>0, <1>1, OnceIngest
<1>2. CASE \E s \in Store : \E got \in Pulls(s) : Sync(s, got) \/ SyncFails(s, got)
  BY <1>0, <1>2, OnceSync
<1>3. CASE UNCHANGED <<log, bucket>> /\ faults' \in {faults, faults + 1}
  <2>1. faults' = 0 => faults = 0
    BY <1>3 DEF OnceInv, TypeInv
  <2> QED BY <1>0, <1>3, <2>1 DEF OnceInv, Shared, OwnOnce
<1>4. \/ \E s \in Store : \E d \in Decision : Ingest(s, d) \/ IngestFails(s, d)
      \/ \E s \in Store : \E got \in Pulls(s) : Sync(s, got) \/ SyncFails(s, got)
      \/ UNCHANGED <<log, bucket>> /\ faults' \in {faults, faults + 1}
  BY DEF Next, IngestNoOp, Rebuild, RebuildFails, Fault, OpenRead, LoseGraph, Rotate, vars
<1> QED BY <1>1, <1>2, <1>3, <1>4

\* OnceInv holds in every state.
THEOREM OnceSafe == Spec => []OnceInv
BY OnceInit, OnceStep, PTL DEF Spec

\* No decision is recorded twice under one identity: not by ingesting it again, not by
\* emitting it again under a new identity, and not by syncing.
THEOREM RecordsOnce == Spec => []RecordedOnce
<1>1. OnceInv => RecordedOnce
  <2> SUFFICES ASSUME OnceInv, faults = 0, NEW s \in Store, NEW a \in log[s], NEW b \in log[s],
                      a.by = b.by, a.dec = b.dec
               PROVE  a = b
    BY DEF RecordedOnce
  <2>1. a.by[1] \in Store /\ b.by[1] = a.by[1]
    BY EventFields DEF OnceInv, TypeInv, LogOK
  <2>2. a \in log[a.by[1]] /\ b \in log[a.by[1]]
    BY <2>1 DEF OnceInv, Shared
  <2> QED BY <2>1, <2>2 DEF OnceInv, OwnOnce
<1> QED BY <1>1, OnceSafe, PTL

------------------------------------------------------------------------------
(* One author per decision.                                                *)

\* All events of a decision are of the same store,
OneAuthor ==
  \A s, t \in Store : \A a \in log[s], b \in log[t] : a.dec = b.dec => a.by[1] = b.by[1]

\* so that there is one of them, wherever it is.
OneEvent == \A s, t \in Store : \A a \in log[s], b \in log[t] : a.dec = b.dec => a = b

AuthorInv == OnceInv /\ OneAuthor

\* An ingest asks all logs for its decision (MayRecord), a sync copies and re-emits.
LEMMA AuthorStep == ASSUME ~SameAuthor, AuthorInv, [Next]_vars PROVE AuthorInv'
<1>0. OnceInv'
  BY OnceStep DEF AuthorInv
<1>1. ASSUME NEW s \in Store, NEW d \in Decision, Ingest(s, d) \/ IngestFails(s, d) PROVE OneAuthor'
  <2> DEFINE ev == BuildEvent(OpenWrite(graph[s], log[s]), d, NextLamport(log[s]), writer[s])
  <2>1. /\ log' = [log EXCEPT ![s] = @ \cup {ev}] /\ MayRecord(s, d)
    BY <1>1 DEF Ingest, IngestFails
  <2>2. ev.dec = d /\ ev.by[1] = s
    <3>1. ev.dec = d /\ ev.by = writer[s]
      BY NewEvent DEF AuthorInv, OnceInv
    <3> QED BY <3>1 DEF AuthorInv, OnceInv, TypeInv, WriterOK
  <2> HIDE DEF ev
  <2>3. \A t \in Store : \A x \in log'[t] : (\E u \in Store : x \in log[u]) \/ x = ev
    BY <2>1 DEF AuthorInv, OnceInv, TypeInv, LogOK
  <2>4. \A t \in Store : \A x \in log[t] : x.dec = d => x.by[1] = s
    BY <2>1 DEF MayRecord
  <2> QED BY <2>2, <2>3, <2>4 DEF AuthorInv, OneAuthor
<1>2. ASSUME NEW s \in Store, NEW got \in Pulls(s), Sync(s, got) \/ SyncFails(s, got) PROVE OneAuthor'
  <2> DEFINE after == Reconciled(s) \cup got
  <2>1. log' = [log EXCEPT ![s] = after]
    BY <1>2 DEF Sync, SyncFails
  <2>2. ASSUME NEW x \in after
        PROVE  \E u \in Store : \E y \in log[u] : y.dec = x.dec /\ y.by[1] = x.by[1]
    <3>1. \/ x \in log[s]
          \/ x \in bucket
          \/ \E o \in log[s] : o.dec = x.dec /\ o.by[1] = x.by[1]
      <4>1. LogOK /\ WriterOK
        BY DEF AuthorInv, OnceInv, TypeInv
      <4> QED BY <4>1, AfterAuthors
    <3>2. CASE x \in bucket
      <4>1. x.by[1] \in Store /\ x \in log[x.by[1]]
        BY <3>2, EventFields DEF AuthorInv, OnceInv, TypeInv, LogOK, Shared
      <4> QED BY <4>1
    <3> QED BY <3>1, <3>2
  <2> HIDE DEF after
  <2>3. \A t \in Store : \A x \in log'[t] :
          \E u \in Store : \E y \in log[u] : y.dec = x.dec /\ y.by[1] = x.by[1]
    BY <2>1, <2>2 DEF AuthorInv, OnceInv, TypeInv, LogOK
  <2> QED BY <2>3 DEF AuthorInv, OneAuthor
<1>3. ASSUME UNCHANGED log PROVE OneAuthor'
  BY <1>3 DEF AuthorInv, OneAuthor
<1>4. \/ \E s \in Store : \E d \in Decision : Ingest(s, d) \/ IngestFails(s, d)
      \/ \E s \in Store : \E got \in Pulls(s) : Sync(s, got) \/ SyncFails(s, got)
      \/ UNCHANGED log
  BY DEF Next, IngestNoOp, Rebuild, RebuildFails, OpenRead, LoseGraph, Rotate, vars
<1> QED BY <1>0, <1>1, <1>2, <1>3, <1>4 DEF AuthorInv

\* A new team has no author to confuse.
LEMMA AuthorInit == Init => AuthorInv
BY OnceInit DEF Init, AuthorInv, OneAuthor

\* One author, and one event of the author's own.
LEMMA EventsUnique == ASSUME AuthorInv, faults = 0 PROVE OneEvent
<1> SUFFICES ASSUME NEW s \in Store, NEW t \in Store, NEW a \in log[s], NEW b \in log[t], a.dec = b.dec
             PROVE  a = b
  BY DEF OneEvent
<1>1. a.by[1] = b.by[1] /\ a.by[1] \in Store
  BY EventFields DEF AuthorInv, OneAuthor, OnceInv, TypeInv, LogOK
<1>2. a \in log[a.by[1]] /\ b \in log[a.by[1]]
  BY <1>1 DEF AuthorInv, OnceInv, Shared
<1> QED BY <1>1, <1>2 DEF AuthorInv, OnceInv, OwnOnce

------------------------------------------------------------------------------
(* Replaying a log, and projecting what comes later on top of it.          *)

\* A newer event is applied last.
LEMMA ApplyAllNewer ==
  ASSUME NEW g, NEW E \in SUBSET Event, IsFiniteSet(E), NEW ev \in Event,
         \A x \in E : Before(x, ev)
  PROVE  ApplyAll(g, E \cup {ev}) = ApplyEvent(ApplyAll(g, E), ev)
<1> DEFINE S == E \cup {ev}
<1>1. IsFiniteSet(S) /\ S \in SUBSET Event /\ S # {}
  BY FS_AddElement
<1>2. Newest(S) \in S /\ \A x \in S : ~Before(Newest(S), x)
  <2> HIDE DEF S
  <2> QED BY <1>1, NewestIs
<1>3. Newest(S) = ev
  BY <1>2
<1>4. ev \notin E
  BY BeforeIsOrder
<1>5. S \ {ev} = E
  BY <1>4
<1>6. ApplyAll(g, S) = ApplyEvent(ApplyAll(g, S \ {Newest(S)}), Newest(S))
  <2> HIDE DEF S
  <2> QED BY <1>1, ApplyAllIs
<1> HIDE DEF S
<1>7. ApplyAll(g, S) = ApplyEvent(ApplyAll(g, E), ev)
  BY <1>3, <1>5, <1>6
<1> QED BY <1>7 DEF S

\* So are any number of them.
LEMMA ApplyAllLater ==
  ASSUME NEW g, NEW A \in SUBSET Event, IsFiniteSet(A), NEW B \in SUBSET Event, IsFiniteSet(B),
         \A a \in A, b \in B : Before(a, b)
  PROVE  ApplyAll(ApplyAll(g, A), B) = ApplyAll(g, A \cup B)
<1> DEFINE P == {S \in SUBSET B : ApplyAll(ApplyAll(g, A), S) = ApplyAll(g, A \cup S)}
<1>1. ASSUME NEW S \in SUBSET B, \A x \in S : S \ {x} \in P PROVE S \in P
  <2>0. IsFiniteSet(S) /\ S \in SUBSET Event /\ IsFiniteSet(A \cup S) /\ A \cup S \in SUBSET Event
    BY FS_Subset, FS_Union
  <2>1. CASE S = {}
    <3>1. ApplyAll(ApplyAll(g, A), S) = ApplyAll(g, A) /\ A \cup S = A
      BY <2>0, <2>1, ApplyAllIs
    <3> QED BY <3>1
  <2>2. CASE S # {}
    <3>1. Newest(S) \in S /\ \A x \in S : ~Before(Newest(S), x)
      BY <2>0, <2>2, NewestIs
    <3>2. Latest(A \cup S) = Latest(S)
      <4>1. ASSUME NEW x \in Latest(A \cup S) PROVE x \in Latest(S)
        <5>1. x \in A \cup S /\ \A later \in A \cup S : ~Before(x, later)
          BY <4>1 DEF Latest
        <5>2. x \notin A
          BY <3>1, <5>1
        <5> QED BY <5>1, <5>2 DEF Latest
      <4>2. ASSUME NEW x \in Latest(S) PROVE x \in Latest(A \cup S)
        <5>1. x \in S /\ \A later \in S : ~Before(x, later)
          BY <4>2 DEF Latest
        <5>2. ASSUME NEW a \in A, Before(x, a) PROVE FALSE
          <6>1. Before(a, x) /\ a \in Event /\ x \in Event
            BY <5>1
          <6>2. Before(a, a)
            BY <5>2, <6>1, BeforeIsOrder
          <6> QED BY <6>1, <6>2, BeforeIsOrder
        <5> QED BY <5>1, <5>2 DEF Latest
      <4> QED BY <4>1, <4>2
    <3> DEFINE n == Newest(S)
    <3>3. Newest(A \cup S) = n
      BY <3>2 DEF Newest
    <3>4. n \in S /\ n \notin A
      <4>1. \A x \in S : x \notin A
        <5>1. ASSUME NEW x \in S, x \in A PROVE FALSE
          BY <5>1, BeforeIsOrder
        <5> QED BY <5>1
      <4> QED BY <3>1, <4>1
    <3> HIDE DEF n
    <3>5. (A \cup S) \ {n} = A \cup (S \ {n})
      BY <3>4
    <3>6. ApplyAll(ApplyAll(g, A), S) = ApplyEvent(ApplyAll(ApplyAll(g, A), S \ {n}), n)
      BY <2>0, <2>2, ApplyAllIs DEF n
    <3>7. ApplyAll(g, A \cup S) = ApplyEvent(ApplyAll(g, (A \cup S) \ {n}), n)
      <4>1. A \cup S # {}
        BY <2>2
      <4> QED BY <2>0, <3>3, <4>1, ApplyAllIs
    <3>8. ApplyAll(ApplyAll(g, A), S \ {n}) = ApplyAll(g, A \cup (S \ {n}))
      BY <1>1, <3>4
    <3> QED BY <3>5, <3>6, <3>7, <3>8
  <2> QED BY <2>1, <2>2
<1> HIDE DEF P
<1>2. \A S \in SUBSET B : S \in P
  BY <1>1, FiniteInduction
<1> QED BY <1>2, B \in SUBSET B DEF P

\* No two events of one decision.
Distinct(E) == \A a, b \in E : a.dec = b.dec => a = b

\* In order, every decision has the stamp of its event.
LEMMA ReplayStamps ==
  ASSUME NEW E \in SUBSET Event, IsFiniteSet(E), InOrder(E), Distinct(E)
  PROVE  \A ev \in E : ev.dec \in DOMAIN Replay(E).dec /\ Replay(E).dec[ev.dec] = ev.lam
<1> DEFINE P == {S \in SUBSET E : \A ev \in S : Replay(S).dec[ev.dec] = ev.lam}
<1>1. ASSUME NEW S \in SUBSET E, \A x \in S : S \ {x} \in P PROVE S \in P
  <2>0. IsFiniteSet(S) /\ S \in SUBSET Event
    BY FS_Subset
  <2>1. CASE S = {}
    BY <2>1
  <2>2. CASE S # {}
    <3> DEFINE n == Newest(S)
               R == S \ {n}
    <3>1. n \in S /\ n \in Event /\ \A x \in S : ~Before(n, x)
      BY <2>0, <2>2, NewestIs
    <3>2. Replay(S) = ApplyEvent(Replay(R), n)
      BY <2>0, <2>2, ApplyAllIs DEF Replay
    <3>3. IsFiniteSet(R) /\ R \in SUBSET Event /\ R \in SUBSET E
      BY <2>0, FS_Subset
    <3>4. \A ev \in R : Replay(R).dec[ev.dec] = ev.lam
      BY <1>1, <3>1
    <3> HIDE DEF n
    <3>5. \A x \in S : x \in R \/ x = n
      OBVIOUS
    <3>6. \A x \in R : x \in S /\ x # n
      OBVIOUS
    <3> HIDE DEF R
    <3>7. GraphOK(Replay(R)) /\ Backed(Replay(R), R) /\ Complete(Replay(R), R)
      BY <3>3, ReplayProjects DEF Projects
    <3>8. n.dec \notin DOMAIN Replay(R).dec
      <4>1. SUFFICES ASSUME n.dec \in DOMAIN Replay(R).dec PROVE FALSE
        OBVIOUS
      <4>2. n.dec \in Decided(R) \/ \E x \in R : n.dec \in x.supersedes
        BY <3>7, <4>1, Zenon DEF Backed
      <4>3. CASE n.dec \in Decided(R)
        <5>1. PICK x \in R : x.dec = n.dec
          BY <4>3 DEF Decided
        <5>2. x \in E /\ n \in E /\ x # n
          BY <3>1, <3>6
        <5> QED BY <5>1, <5>2 DEF Distinct
      <4>4. ASSUME NEW x \in R, n.dec \in x.supersedes PROVE FALSE
        <5>1. x \in E /\ n \in E /\ x \in S
          BY <3>1, <3>6
        <5>2. Before(n, x)
          BY <4>4, <5>1 DEF InOrder
        <5> QED BY <3>1, <5>1, <5>2
      <4> QED BY <4>2, <4>3, <4>4
    <3>9. /\ \A d \in DOMAIN Replay(R).dec : Replay(S).dec[d] = Replay(R).dec[d]
          /\ Replay(S).dec[n.dec] = n.lam
      BY <3>1, <3>2, <3>7, <3>8, DecisionNodes
    <3>10. \A ev \in R : ev.dec \in DOMAIN Replay(R).dec
      BY <3>7 DEF Complete
    <3>11. \A ev \in S : Replay(S).dec[ev.dec] = ev.lam
      BY <3>4, <3>5, <3>9, <3>10
    <3> QED BY <3>11
  <2> QED BY <2>1, <2>2
<1> HIDE DEF P
<1>2. \A S \in SUBSET E : S \in P
  BY <1>1, FiniteInduction
<1>3. \A ev \in E : Replay(E).dec[ev.dec] = ev.lam
  BY <1>2, E \in SUBSET E DEF P
<1>4. Complete(Replay(E), E)
  BY ReplayProjects DEF Projects
<1> QED BY <1>3, <1>4 DEF Complete

\* What Incremental compares with is at least the stamp of every decision.
LEMMA IncrementalIs ==
  ASSUME NEW g, GraphOK(g), NEW pulled \in SUBSET Event, Incremental(g, pulled),
         NEW d \in DOMAIN g.dec
  PROVE  \A ev \in pulled : g.dec[d] < ev.lam
<1> DEFINE lams == {g.dec[x] : x \in DOMAIN g.dec}
           f == [x \in DOMAIN g.dec |-> g.dec[x]]
<1>1. DOMAIN g.dec \subseteq Decision /\ \A x \in DOMAIN g.dec : g.dec[x] \in Nat
  BY DEF GraphOK
<1>2. IsFiniteSet(lams)
  <2>1. IsFiniteSet(DOMAIN g.dec)
    BY <1>1, FS_Subset, ContentAssumption
  <2>2. f \in Surjection(DOMAIN g.dec, lams)
    BY DEF Surjection
  <2> HIDE DEF f, lams
  <2> QED BY <2>1, <2>2, FS_Surjection
<1>3. lams \in SUBSET Nat /\ g.dec[d] \in lams
  BY <1>1
<1>4. \A ev \in pulled : ev.lam > MaxOf(lams)
  BY DEF Incremental
<1>5. g.dec[d] \in Nat
  BY <1>1
<1> HIDE DEF lams
<1>6. MaxOf(lams) \in Nat /\ g.dec[d] <= MaxOf(lams)
  <2>1. IsFiniteSet(lams \cup {0}) /\ lams \cup {0} \in SUBSET Nat /\ lams \cup {0} # {}
    BY <1>2, <1>3, FS_AddElement
  <2>2. Max(lams \cup {0}) \in lams \cup {0} /\ \A x \in lams \cup {0} : x <= Max(lams \cup {0})
    BY <2>1, MaxIs
  <2> QED BY <1>3, <2>1, <2>2 DEF MaxOf
<1>7. \A ev \in pulled : ev.lam \in Nat
  BY EventFields
<1> QED BY <1>4, <1>6, <1>7, <1>5

\* An incremental apply is a replay.
LEMMA ApplyPulledReplays ==
  ASSUME NEW g, NEW E \in SUBSET Event, NEW after \in SUBSET Event, IsFiniteSet(after),
         E \subseteq after, InOrder(after), Distinct(after),
         g # NoGraph => g = Replay(E), ApplyPulled(g, E, after) # NoGraph
  PROVE  ApplyPulled(g, E, after) = Replay(after)
<1> DEFINE pulled == after \ E
           opened == OpenWrite(g, after)
<1>1. CASE pulled = {}
  <2>1. after = E
    BY <1>1
  <2>2. ApplyPulled(g, E, after) = g
    BY <1>1 DEF ApplyPulled
  <2> QED BY <2>1, <2>2
<1>2. CASE pulled # {} /\ Incremental(opened, pulled) /\ ApplyPulled(g, E, after) = ApplyAll(opened, pulled)
  <2>0. /\ IsFiniteSet(pulled) /\ pulled \in SUBSET Event /\ E \cup pulled = after
        /\ IsFiniteSet(E) /\ InOrder(E) /\ Distinct(E)
    BY FS_Subset DEF InOrder, Distinct
  <2>1. CASE g = NoGraph
    <3>1. opened = Replay(after)
      BY <2>1 DEF OpenWrite
    <3> HIDE DEF opened
    <3>2. PICK ev \in pulled : ev \in after
      BY <1>2
    <3>3. ev.dec \in DOMAIN opened.dec /\ opened.dec[ev.dec] = ev.lam /\ GraphOK(opened)
      BY <3>1, <3>2, ReplayStamps, ReplayProjects DEF Projects
    <3> HIDE DEF pulled
    <3>4. opened.dec[ev.dec] < ev.lam
      BY <1>2, <2>0, <3>2, <3>3, IncrementalIs
    <3>5. ev.lam \in Nat
      BY <3>2, EventFields
    <3> QED BY <3>3, <3>4, <3>5
  <2>2. CASE g # NoGraph
    <3>1. opened = Replay(E)
      BY <2>2 DEF OpenWrite
    <3> HIDE DEF opened, pulled
    <3>2. ASSUME NEW a \in E, NEW b \in pulled PROVE Before(a, b)
      <4>1. a.dec \in DOMAIN opened.dec /\ opened.dec[a.dec] = a.lam /\ GraphOK(opened)
        BY <2>0, <3>1, ReplayStamps, ReplayProjects DEF Projects
      <4>2. opened.dec[a.dec] < b.lam
        BY <1>2, <2>0, <4>1, IncrementalIs
      <4> QED BY <4>1, <4>2 DEF Before
    <3>3. ApplyAll(ApplyAll(EmptyGraph, E), pulled) = ApplyAll(EmptyGraph, E \cup pulled)
      BY <2>0, <3>2, ApplyAllLater
    <3> QED BY <1>2, <2>0, <3>1, <3>3 DEF Replay
  <2> QED BY <2>1, <2>2
<1>3. CASE pulled # {} /\ ApplyPulled(g, E, after) = Replay(after)
  BY <1>3
<1>4. pulled # {} =>
        \/ Incremental(opened, pulled) /\ ApplyPulled(g, E, after) = ApplyAll(opened, pulled)
        \/ ApplyPulled(g, E, after) = Replay(after)
  BY Zenon DEF ApplyPulled
<1> QED BY <1>1, <1>2, <1>3, <1>4

------------------------------------------------------------------------------
(* The graph is the replay of the log.                                     *)

\* EventsUnique, of the next state.
LEMMA EventsStayUnique == ASSUME AuthorInv', faults' = 0 PROVE OneEvent'
<1> SUFFICES ASSUME NEW s \in Store, NEW t \in Store, NEW a \in log'[s], NEW b \in log'[t],
                    a.dec = b.dec
             PROVE  a = b
  BY DEF OneEvent
<1>1. a.by[1] = b.by[1] /\ a.by[1] \in Store
  BY EventFields DEF AuthorInv, OneAuthor, OnceInv, TypeInv, LogOK
<1>2. a \in log'[a.by[1]] /\ b \in log'[a.by[1]]
  BY <1>1 DEF AuthorInv, OnceInv, Shared
<1> QED BY <1>1, <1>2 DEF AuthorInv, OnceInv, OwnOnce

ReplayInv == AuthorInv /\ GraphIsReplay

\* The graph a decision is recorded on is the replay, too.
LEMMA OpenedIsReplay ==
  ASSUME ReplayInv, faults = 0, NEW s \in Store, InOrder(log[s])
  PROVE  OpenWrite(graph[s], log[s]) = Replay(log[s])
BY DEF ReplayInv, GraphIsReplay, HasGraph, OpenWrite

\* One store at a time.
LEMMA ReplayStays ==
  ASSUME ReplayInv, NEW s \in Store, OthersStay(s),
         faults' = 0 /\ graph'[s] # NoGraph /\ InOrder(log'[s]) => graph'[s] = Replay(log'[s])
  PROVE  GraphIsReplay'
<1>1. ASSUME NEW t \in Store, t # s, faults' = 0, graph'[t] # NoGraph, InOrder(log'[t])
      PROVE  graph'[t] = Replay(log'[t])
  <2>1. faults = 0
    BY <1>1, TeamAssumption DEF OthersStay, ReplayInv, AuthorInv, OnceInv, TypeInv
  <2>2. graph'[t] = graph[t] /\ log'[t] = log[t]
    BY <1>1 DEF OthersStay
  <2>3. graph[t] = Replay(log[t])
    BY <1>1, <2>1, <2>2 DEF ReplayInv, GraphIsReplay, HasGraph
  <2> QED BY <2>2, <2>3
<1>2. \A t \in Store : graph'[t] # NoGraph /\ faults' = 0 /\ InOrder(log'[t]) => graph'[t] = Replay(log'[t])
  BY <1>1
<1> QED BY <1>2, Zenon DEF GraphIsReplay, HasGraph

\* A new event is the newest of its log, and is projected last.
LEMMA ReplayIngest ==
  ASSUME ReplayInv, NEW s \in Store, NEW d \in Decision, Ingest(s, d) \/ IngestNoOp(s, d)
  PROVE  GraphIsReplay'
<1> DEFINE g == OpenWrite(graph[s], log[s])
           ev == BuildEvent(g, d, NextLamport(log[s]), writer[s])
<1>1. TypeInv
  BY DEF ReplayInv, AuthorInv, OnceInv
<1>2. CASE IngestNoOp(s, d)
  <2>1. graph' = [graph EXCEPT ![s] = g] /\ UNCHANGED <<log, faults>>
    BY <1>2 DEF IngestNoOp
  <2>2. faults = 0 /\ InOrder(log[s]) => g = Replay(log[s])
    BY OpenedIsReplay
  <2> HIDE DEF g
  <2>3. graph'[s] = g /\ OthersStay(s)
    BY <1>1, <2>1 DEF OthersStay, TypeInv, GraphsOK
  <2> QED BY <2>1, <2>2, <2>3, ReplayStays
<1>3. CASE Ingest(s, d)
  <2>1. /\ ev.lam <= MaxLamport
        /\ log' = [log EXCEPT ![s] = @ \cup {ev}]
        /\ graph' = [graph EXCEPT ![s] = ApplyEvent(g, ev)]
        /\ UNCHANGED faults
    BY <1>3 DEF Ingest
  <2>2. faults = 0 /\ InOrder(log[s]) => g = Replay(log[s])
    BY OpenedIsReplay
  <2>3. ev \in Event /\ \A x \in log[s] : x.lam < ev.lam
    BY <1>1, <2>1, NewEvent
  <2> HIDE DEF g, ev
  <2>4. graph'[s] = ApplyEvent(g, ev) /\ log'[s] = log[s] \cup {ev} /\ OthersStay(s)
    BY <1>1, <2>1 DEF OthersStay, TypeInv, GraphsOK, LogOK
  <2>5. InOrder(log'[s]) => InOrder(log[s])
    BY <2>4 DEF InOrder
  <2>6. Replay(log[s] \cup {ev}) = ApplyEvent(Replay(log[s]), ev)
    <3>1. \A x \in log[s] : Before(x, ev)
      BY <2>3 DEF Before
    <3>2. log[s] \in SUBSET Event /\ IsFiniteSet(log[s])
      BY <1>1 DEF TypeInv, LogOK
    <3> QED BY <2>3, <3>1, <3>2, ApplyAllNewer DEF Replay
  <2> QED BY <2>1, <2>2, <2>4, <2>5, <2>6, ReplayStays
<1> QED BY <1>2, <1>3

\* A pull is projected behind the graph only if it is newer than all that is in it.
LEMMA ReplaySync ==
  ASSUME ReplayInv, AuthorInv', NEW s \in Store, NEW got \in Pulls(s), Sync(s, got)
  PROVE  GraphIsReplay'
<1> DEFINE after == Reconciled(s) \cup got
<1>1. TypeInv
  BY DEF ReplayInv, AuthorInv, OnceInv
<1>2. /\ log' = [log EXCEPT ![s] = after]
      /\ graph' = [graph EXCEPT ![s] =
                     IF Orphans(s) # {} THEN Replay(after) ELSE ApplyPulled(@, log[s], after)]
      /\ faults' = faults /\ NextLamport(after) <= MaxLamport + 1
  BY DEF Sync
<1>3. /\ after \in SUBSET Event /\ IsFiniteSet(after)
      /\ Orphans(s) = {} => log[s] \subseteq after
  <2>1. /\ after \in SUBSET Event /\ IsFiniteSet(after)
        /\ Orphans(s) = {} => Reconciled(s) = log[s]
    BY <1>1, <1>2, AfterIs DEF TypeInv
  <2> QED BY <2>1
<1> HIDE DEF after
<1>4. /\ log'[s] = after /\ OthersStay(s)
      /\ graph'[s] = IF Orphans(s) # {} THEN Replay(after) ELSE ApplyPulled(graph[s], log[s], after)
  BY <1>1, <1>2 DEF OthersStay, TypeInv, GraphsOK, LogOK
<1>5. ASSUME faults' = 0, graph'[s] # NoGraph, InOrder(log'[s])
      PROVE  graph'[s] = Replay(log'[s])
  <2>1. CASE Orphans(s) # {}
    BY <1>4, <2>1
  <2>2. CASE Orphans(s) = {}
    <3>1. graph'[s] = ApplyPulled(graph[s], log[s], after)
      BY <1>4, <2>2
    <3>2. InOrder(after) /\ InOrder(log[s]) /\ log[s] \subseteq after
      BY <1>3, <1>4, <1>5, <2>2 DEF InOrder
    <3>3. graph[s] # NoGraph => graph[s] = Replay(log[s])
      BY <1>2, <1>5, <3>2 DEF ReplayInv, GraphIsReplay, HasGraph
    <3>4. Distinct(after)
      BY <1>4, <1>5, EventsStayUnique DEF OneEvent, Distinct
    <3>5. log[s] \in SUBSET Event
      BY <1>1 DEF TypeInv, LogOK
    <3> QED BY <1>3, <1>4, <1>5, <3>1, <3>2, <3>3, <3>4, <3>5, ApplyPulledReplays
  <2> QED BY <2>1, <2>2
<1> QED BY <1>4, <1>5, ReplayStays

\* A rebuild is a replay; a graph that is lost is replayed when it is opened.
LEMMA ReplayRest ==
  ASSUME ReplayInv, NEW s \in Store, Rebuild(s) \/ OpenRead(s) \/ LoseGraph(s)
  PROVE  GraphIsReplay'
<1>1. /\ UNCHANGED <<log, faults>>
      /\ \/ graph' = [graph EXCEPT ![s] = Replay(log[s])]
         \/ graph' = [graph EXCEPT ![s] = NoGraph]
  BY DEF Rebuild, OpenRead, LoseGraph, OpenWrite
<1>2. OthersStay(s) /\ graph'[s] \in {Replay(log[s]), NoGraph} /\ log'[s] = log[s]
  BY <1>1 DEF OthersStay, ReplayInv, AuthorInv, OnceInv, TypeInv, GraphsOK
<1>3. graph'[s] # NoGraph => graph'[s] = Replay(log'[s])
  BY <1>2
<1> QED BY <1>2, <1>3, ReplayStays

\* Every operation keeps the graph a replay.
LEMMA ReplayStep == ASSUME ~SameAuthor, ReplayInv, [Next]_vars PROVE ReplayInv'
<1>0. AuthorInv'
  BY AuthorStep DEF ReplayInv
<1>1. ASSUME NEW s \in Store, NEW d \in Decision, Ingest(s, d) \/ IngestNoOp(s, d)
      PROVE  GraphIsReplay'
  BY <1>1, ReplayIngest
<1>2. ASSUME NEW s \in Store, NEW got \in Pulls(s), Sync(s, got) PROVE GraphIsReplay'
  BY <1>0, <1>2, ReplaySync
<1>3. ASSUME NEW s \in Store, Rebuild(s) \/ OpenRead(s) \/ LoseGraph(s) PROVE GraphIsReplay'
  BY <1>3, ReplayRest
<1>4. ASSUME faults' = faults + 1 PROVE GraphIsReplay'
  <2>1. faults' # 0
    BY <1>4, TeamAssumption DEF ReplayInv, AuthorInv, OnceInv, TypeInv
  <2> QED BY <2>1 DEF GraphIsReplay
<1>5. ASSUME UNCHANGED <<log, graph, faults>> PROVE GraphIsReplay'
  BY <1>5 DEF ReplayInv, GraphIsReplay, HasGraph
<1>6. \/ \E s \in Store : \E d \in Decision : Ingest(s, d) \/ IngestNoOp(s, d)
      \/ \E s \in Store : \E got \in Pulls(s) : Sync(s, got)
      \/ \E s \in Store : Rebuild(s) \/ OpenRead(s) \/ LoseGraph(s)
      \/ faults' = faults + 1
      \/ UNCHANGED <<log, graph, faults>>
  BY DEF Next, IngestFails, SyncFails, RebuildFails, Fault, Rotate, vars
<1>7. GraphIsReplay'
  BY <1>1, <1>2, <1>3, <1>4, <1>5, <1>6
<1> QED BY <1>0, <1>7 DEF ReplayInv

\* A new team has no graph.
LEMMA ReplayInit == Init => ReplayInv
BY AuthorInit DEF Init, ReplayInv, GraphIsReplay, HasGraph

\* ReplayInv holds in every state.
THEOREM ReplaySafe == ASSUME ~SameAuthor PROVE Spec => []ReplayInv
<1>1. ReplayInv /\ [Next]_vars => ReplayInv'
  BY ReplayStep
<1> QED BY <1>1, ReplayInit, PTL DEF Spec

\* The cache is never observably a cache: whatever mix of ingest, incremental apply, rebuild
\* and first open made a graph, it is the replay of its log.
THEOREM GraphsAreReplays == ASSUME ~SameAuthor PROVE Spec => []GraphIsReplay
<1>1. ReplayInv => GraphIsReplay
  BY DEF ReplayInv
<1> QED BY <1>1, ReplaySafe, PTL

------------------------------------------------------------------------------
(* Authority and heads, as the events of a log have them.                  *)

Changed(E, e) == {ev \in E : e \in ev.targets}

\* A decision has authority over what its event targets.
LEMMA AuthorityIs ==
  ASSUME NEW g, NEW E, Projects(g, E, E), Distinct(E), \A ev \in E : ev.targets \subseteq ev.shapes,
         NEW d, NEW e
  PROVE  HasAuthority(g, d, e) <=> \E a \in Changed(E, e) : a.dec = d
<1>1. Backed(g, E) /\ Complete(g, E)
  BY DEF Projects
<1>2. ASSUME HasAuthority(g, d, e) PROVE \E a \in Changed(E, e) : a.dec = d
  <2>1. <<d, e>> \in DOMAIN g.shape /\ g.shape[<<d, e>>]
    BY <1>2 DEF HasAuthority
  <2>2. PICK a \in E : /\ a.dec = <<d, e>>[1] /\ <<d, e>>[2] \in a.shapes
                       /\ g.shape[<<d, e>>] = (<<d, e>>[2] \in a.targets)
    BY <1>1, <2>1, Zenon DEF Backed
  <2>3. a.dec = d /\ e \in a.targets
    BY <2>1, <2>2
  <2> QED BY <2>3 DEF Changed
<1>3. ASSUME NEW a \in E, e \in a.targets, a.dec = d PROVE HasAuthority(g, d, e)
  <2>1. <<d, e>> \in DOMAIN g.shape
    BY <1>1, <1>3 DEF Complete
  <2>2. PICK b \in E : /\ b.dec = <<d, e>>[1] /\ g.shape[<<d, e>>] = (<<d, e>>[2] \in b.targets)
    BY <1>1, <2>1, Zenon DEF Backed
  <2>3. b = a
    BY <1>3, <2>2 DEF Distinct
  <2>4. g.shape[<<d, e>>]
    BY <1>3, <2>2, <2>3
  <2> QED BY <2>1, <2>4 DEF HasAuthority
<1> QED BY <1>2, <1>3 DEF Changed

\* The heads are the decisions with authority that none with authority supersedes.
LEMMA HeadsAre ==
  ASSUME NEW g, NEW E, Projects(g, E, E), Distinct(E), \A ev \in E : ev.targets \subseteq ev.shapes,
         NEW e
  PROVE  Heads(g, e) =
           Decided({a \in Changed(E, e) : ~\E b \in Changed(E, e) : a.dec \in b.supersedes})
<1>1. Backed(g, E) /\ Complete(g, E)
  BY DEF Projects
<1>2. \A d : HasAuthority(g, d, e) <=> \E a \in Changed(E, e) : a.dec = d
  BY AuthorityIs
<1>3. ASSUME NEW d \in Heads(g, e)
      PROVE  \E a \in Changed(E, e) : a.dec = d /\ ~\E b \in Changed(E, e) : a.dec \in b.supersedes
  <2>1. PICK a \in Changed(E, e) : a.dec = d
    BY <1>2 DEF Heads
  <2>2. ASSUME NEW b \in Changed(E, e), d \in b.supersedes PROVE FALSE
    <3>1. b.dec \in DOMAIN g.dec /\ <<b.dec, d>> \in g.sup
      BY <1>1, <2>2 DEF Complete, Changed
    <3>2. HasAuthority(g, b.dec, e)
      BY <1>2
    <3> QED BY <3>1, <3>2 DEF Heads
  <2> QED BY <2>1, <2>2
<1>4. ASSUME NEW a \in Changed(E, e), ~\E b \in Changed(E, e) : a.dec \in b.supersedes
      PROVE  a.dec \in Heads(g, e)
  <2>1. a.dec \in DOMAIN g.dec /\ HasAuthority(g, a.dec, e)
    BY <1>1, <1>2 DEF Complete, Changed
  <2>2. ASSUME NEW d2, <<d2, a.dec>> \in g.sup, HasAuthority(g, d2, e) PROVE FALSE
    <3>1. PICK b \in E : b.dec = <<d2, a.dec>>[1] /\ <<d2, a.dec>>[2] \in b.supersedes
      BY <1>1, <2>2, Zenon DEF Backed
    <3>2. PICK c \in Changed(E, e) : c.dec = d2
      BY <1>2, <2>2
    <3>3. b = c
      BY <3>1, <3>2 DEF Distinct, Changed
    <3> QED BY <1>4, <3>1, <3>2, <3>3
  <2> QED BY <2>1, <2>2 DEF Heads
<1> QED BY <1>3, <1>4 DEF Decided

------------------------------------------------------------------------------
(* What the authors knew.                                                  *)

\* What all events of the team say.
Written == {Content(ev) : ev \in UNION {log[s] : s \in Store}}

\* An author has seen what he supersedes, and what he has seen was written; and of what he
\* has seen and changes, too, he supersedes what nobody he has seen superseded.
Coherent(X) ==
  /\ \A b \in X : /\ b.targets \subseteq b.shapes /\ b.supersedes \subseteq b.saw
                  /\ \A d \in b.saw : \E c \in X : c.dec = d
  /\ \A a, b \in X : \A e :
       e \in a.targets /\ e \in b.targets /\ a.dec \in b.saw =>
         \E c \in X : e \in c.targets /\ a.dec \in c.supersedes /\ (c.dec = b.dec \/ c.dec \in b.saw)

HeadInv == AuthorInv /\ (faults = 0 => Coherent(Written))

\* The fields of a content are those of its event.
LEMMA ContentIs ==
  ASSUME NEW ev
  PROVE  /\ Content(ev).dec = ev.dec /\ Content(ev).shapes = ev.shapes
         /\ Content(ev).targets = ev.targets /\ Content(ev).supersedes = ev.supersedes
         /\ Content(ev).saw = ev.saw
BY DEF Content

\* A sync says nothing new.
LEMMA WrittenSync ==
  ASSUME OnceInv, NEW s \in Store, NEW got \in Pulls(s), Sync(s, got) \/ SyncFails(s, got)
  PROVE  Written' = Written
<1> DEFINE after == Reconciled(s) \cup got
<1>0. LogOK /\ WriterOK
  BY DEF OnceInv, TypeInv
<1>1. log' = [log EXCEPT ![s] = after] /\ NextLamport(after) <= MaxLamport + 1
  BY DEF Sync, SyncFails
<1>2. Says(log[s], Reconciled(s)) /\ Says(Reconciled(s), log[s]) /\ got \subseteq bucket
  BY <1>0, <1>1, AfterIs
<1>3. \A x \in bucket : x.by[1] \in Store /\ x \in log[x.by[1]]
  BY <1>0, EventFields DEF OnceInv, Shared, LogOK
<1>4. ASSUME NEW x \in after PROVE Content(x) \in Written
  <2>1. CASE x \in got
    BY <1>2, <1>3, <2>1 DEF Written
  <2>2. CASE x \in Reconciled(s)
    BY <1>2, <2>2 DEF Written, Says
  <2> QED BY <2>1, <2>2
<1>5. ASSUME NEW x \in log[s] PROVE \E y \in after : Content(y) = Content(x)
  BY <1>2 DEF Says
<1> HIDE DEF after
<1>6. log'[s] = after /\ \A t \in Store : t # s => log'[t] = log[t]
  BY <1>0, <1>1 DEF LogOK
<1>7. ASSUME NEW c \in Written' PROVE c \in Written
  <2>1. PICK t \in Store : \E x \in log'[t] : c = Content(x)
    BY <1>7 DEF Written
  <2> QED BY <1>4, <1>6, <2>1 DEF Written
<1>8. ASSUME NEW c \in Written PROVE c \in Written'
  <2>1. PICK t \in Store : \E x \in log[t] : c = Content(x)
    BY <1>8 DEF Written
  <2>2. \E x \in log'[t] : c = Content(x)
    BY <1>5, <1>6, <2>1
  <2> QED BY <2>2 DEF Written
<1> QED BY <1>7, <1>8

\* A new event knows what its log knows.
LEMMA NewIsCoherent ==
  ASSUME ~SameAuthor, HeadInv, faults = 0, NEW s \in Store, NEW d \in Decision, Ingest(s, d)
  PROVE  Coherent(Written')
<1> DEFINE g == OpenWrite(graph[s], log[s])
           ev == BuildEvent(g, d, NextLamport(log[s]), writer[s])
           x == Content(ev)
<1>0. /\ AuthorInv /\ OnceInv /\ TypeInv /\ LogOK /\ Coherent(Written) /\ OneEvent
  BY EventsUnique DEF HeadInv, AuthorInv, OnceInv, TypeInv
<1>1. /\ log' = [log EXCEPT ![s] = @ \cup {ev}] /\ d \notin DOMAIN g.dec /\ MayRecord(s, d)
  BY DEF Ingest, AlreadyRecorded
<1>2. /\ Projects(g, log[s], log[s])
      /\ ev.dec = d /\ ev.targets = TargetsOf(g, Input[d])
      /\ ev.supersedes = Superseded(g, TargetsOf(g, Input[d]))
      /\ ev.saw = {p[1] : p \in g.applied}
  BY <1>0, NewEvent DEF Owed
<1>3. ev.targets \subseteq ev.shapes
  <2>1. ev.shapes = ShapesOf(Input[d])
    BY DEF BuildEvent
  <2> HIDE DEF ev
  <2> QED BY <1>2, <2>1 DEF TargetsOf, ShapesOf
<1>4. /\ x.dec = d /\ x.shapes = ev.shapes /\ x.targets = ev.targets /\ x.supersedes = ev.supersedes
      /\ x.saw = ev.saw
  BY <1>2, ContentIs
<1> HIDE DEF g, ev, x
<1>5. Written' = Written \cup {x}
  <2>1. \A t \in Store : log'[t] = IF t = s THEN log[s] \cup {ev} ELSE log[t]
    BY <1>0, <1>1 DEF LogOK
  <2>2. ASSUME NEW c \in Written' PROVE c \in Written \cup {x}
    <3>1. PICK t \in Store : \E y \in log'[t] : c = Content(y)
      BY <2>2, Zenon DEF Written
    <3> QED BY <2>1, <3>1 DEF Written, x
  <2>3. ASSUME NEW c \in Written PROVE c \in Written'
    <3>1. PICK t \in Store : \E y \in log[t] : c = Content(y)
      BY <2>3, Zenon DEF Written
    <3>2. \E y \in log'[t] : c = Content(y)
      BY <2>1, <3>1
    <3> QED BY <3>2, Zenon DEF Written
  <2>4. x \in Written'
    <3>1. ev \in log'[s]
      BY <2>1
    <3> QED BY <3>1, Zenon DEF Written, x
  <2> QED BY <2>2, <2>3, <2>4
<1>6. \A c \in Written : \E t \in Store : \E y \in log[t] : c = Content(y)
  BY DEF Written
<1>7. ASSUME NEW t \in Store, NEW y \in log[t], y.dec = d PROVE FALSE
  <2>1. y.by[1] = s
    BY <1>1, <1>7 DEF MayRecord
  <2>2. y \in log[s]
    BY <1>0, <2>1 DEF OnceInv, Shared
  <2>3. Complete(g, log[s])
    BY <1>2 DEF Projects
  <2> QED BY <1>1, <1>7, <2>2, <2>3 DEF Complete
<1>8. ASSUME NEW c \in Written PROVE c.dec # d
  BY <1>6, <1>7, <1>8, ContentIs
<1>9. ev.saw = Decided(log[s])
  <2>1. Backed(g, log[s]) /\ Complete(g, log[s])
    BY <1>2 DEF Projects
  <2>2. \A p \in g.applied : p[1] \in Decided(log[s])
    BY <2>1, Zenon DEF Backed
  <2>3. \A y \in log[s] : \E p \in g.applied : p[1] = y.dec
    BY <2>1 DEF Complete
  <2> QED BY <1>2, <2>2, <2>3 DEF Decided
<1>10. /\ Distinct(log[s]) /\ \A y \in log[s] : y.targets \subseteq y.shapes
       /\ \A y \in log[s] : Content(y) \in Written
  <2>1. \A y \in log[s] : Content(y) \in Written
    BY DEF Written
  <2>2. \A y \in log[s] : y.targets \subseteq y.shapes
    BY <1>0, <2>1, ContentIs DEF Coherent
  <2> QED BY <1>0, <2>1, <2>2 DEF OneEvent, Distinct
<1>11. \A e : Heads(g, e) =
         Decided({a \in Changed(log[s], e) : ~\E b \in Changed(log[s], e) : a.dec \in b.supersedes})
  BY <1>2, <1>10, HeadsAre
<1>12. \A e : Heads(g, e) \subseteq Decided(log[s])
  BY <1>11 DEF Decided, Changed
<1>13. /\ ev.supersedes \subseteq ev.saw /\ \A e \in ev.targets : Heads(g, e) \subseteq ev.supersedes
  BY <1>2, <1>9, <1>12 DEF Superseded
<1>14. ASSUME NEW b \in Written'
       PROVE  /\ b.targets \subseteq b.shapes /\ b.supersedes \subseteq b.saw
              /\ \A f \in b.saw : \E c \in Written' : c.dec = f
  <2>1. CASE b \in Written
    <3>1. /\ b.targets \subseteq b.shapes /\ b.supersedes \subseteq b.saw
          /\ \A f \in b.saw : \E c \in Written : c.dec = f
      BY <1>0, <2>1 DEF Coherent
    <3> QED BY <1>5, <3>1
  <2>2. CASE b = x
    <3>1. ASSUME NEW f \in x.saw PROVE \E c \in Written' : c.dec = f
      <4>1. PICK y \in log[s] : y.dec = f
        BY <1>4, <1>9, <3>1 DEF Decided
      <4> QED BY <1>5, <1>10, <4>1, ContentIs
    <3> QED BY <1>3, <1>4, <1>13, <2>2, <3>1
  <2> QED BY <1>5, <2>1, <2>2
<1>15. ASSUME NEW a \in Written', NEW b \in Written', NEW e,
              e \in a.targets, e \in b.targets, a.dec \in b.saw
       PROVE  \E c \in Written' : e \in c.targets /\ a.dec \in c.supersedes
                                  /\ (c.dec = b.dec \/ c.dec \in b.saw)
  <2>1. CASE a \in Written /\ b \in Written
    <3>1. \E c \in Written : e \in c.targets /\ a.dec \in c.supersedes
                             /\ (c.dec = b.dec \/ c.dec \in b.saw)
      BY <1>0, <1>15, <2>1 DEF Coherent
    <3> QED BY <1>5, <3>1
  <2>2. CASE a = x /\ b \in Written
    <3>1. PICK c \in Written : c.dec = a.dec
      BY <1>0, <1>15, <2>2 DEF Coherent
    <3> QED BY <1>4, <1>8, <2>2, <3>1
  <2>3. CASE a = x /\ b = x
    <3>1. d \in Decided(log[s])
      BY <1>4, <1>9, <1>15, <2>3
    <3> QED BY <1>7, <3>1 DEF Decided
  <2>4. CASE a \in Written /\ b = x
    <3>1. PICK t \in Store : \E y \in log[t] : a = Content(y)
      BY <1>6, <2>4
    <3>2. PICK y \in log[t] : a = Content(y)
      BY <3>1
    <3>3. PICK z \in log[s] : z.dec = y.dec
      BY <1>4, <1>9, <1>15, <2>4, <3>2, ContentIs DEF Decided
    <3>4. z = y
      BY <1>0, <3>3 DEF OneEvent
    <3>5. y \in Changed(log[s], e) /\ a.dec = y.dec
      BY <1>15, <3>2, <3>3, <3>4, ContentIs DEF Changed
    <3>6. CASE y.dec \in Heads(g, e)
      <4>1. a.dec \in x.supersedes /\ e \in x.targets /\ x \in Written'
        BY <1>4, <1>5, <1>13, <1>15, <2>4, <3>5, <3>6
      <4> QED BY <2>4, <4>1
    <3>7. CASE y.dec \notin Heads(g, e)
      <4>1. PICK c \in Changed(log[s], e) : y.dec \in c.supersedes
        BY <1>11, <3>5, <3>7 DEF Decided
      <4>2. c \in log[s] /\ e \in c.targets /\ c.dec \in x.saw
        BY <1>4, <1>9, <4>1 DEF Changed, Decided
      <4>3. /\ Content(c) \in Written' /\ Content(c).dec = c.dec /\ e \in Content(c).targets
            /\ a.dec \in Content(c).supersedes
        BY <1>5, <1>10, <3>5, <4>1, <4>2, ContentIs
      <4> QED BY <2>4, <4>2, <4>3
    <3> QED BY <3>6, <3>7
  <2> QED BY <1>5, <2>1, <2>2, <2>3, <2>4
<1> QED BY <1>14, <1>15 DEF Coherent

\* Every operation keeps what is written coherent.
LEMMA HeadStep == ASSUME ~SameAuthor, HeadInv, [Next]_vars PROVE HeadInv'
<1>0. AuthorInv'
  BY AuthorStep DEF HeadInv
<1>1. ASSUME faults' = 0 PROVE Coherent(Written')
  <2>0. OnceInv /\ faults \in Nat
    BY TeamAssumption DEF HeadInv, AuthorInv, OnceInv, TypeInv
  <2>1. CASE \E s \in Store : \E d \in Decision : IngestFails(s, d)
    BY <1>1, <2>0, <2>1 DEF IngestFails, Fault
  <2>2. CASE \E s \in Store : \E got \in Pulls(s) : SyncFails(s, got)
    BY <1>1, <2>0, <2>2 DEF SyncFails, Fault
  <2>3. ASSUME NEW s \in Store, NEW d \in Decision, Ingest(s, d) PROVE Coherent(Written')
    <3>1. faults = 0
      BY <1>1, <2>3 DEF Ingest
    <3> QED BY <2>3, <3>1, NewIsCoherent
  <2>4. ASSUME NEW s \in Store, NEW got \in Pulls(s), Sync(s, got) PROVE Coherent(Written')
    <3>1. faults = 0 /\ Written' = Written
      BY <1>1, <2>0, <2>4, WrittenSync DEF Sync
    <3> QED BY <3>1 DEF HeadInv
  <2>5. CASE UNCHANGED <<log, faults>>
    <3>1. Written' = Written
      BY <2>5 DEF Written
    <3> QED BY <1>1, <2>5, <3>1 DEF HeadInv
  <2>6. \/ \E s \in Store : \E d \in Decision : IngestFails(s, d)
        \/ \E s \in Store : \E got \in Pulls(s) : SyncFails(s, got)
        \/ \E s \in Store : \E d \in Decision : Ingest(s, d)
        \/ \E s \in Store : \E got \in Pulls(s) : Sync(s, got)
        \/ \E s \in Store : RebuildFails(s)
        \/ UNCHANGED <<log, faults>>
    BY DEF Next, IngestNoOp, Rebuild, OpenRead, LoseGraph, Rotate, vars
  <2>7. ASSUME NEW s \in Store, RebuildFails(s) PROVE FALSE
    BY <1>1, <2>0, <2>7 DEF RebuildFails, Fault
  <2> QED BY <2>1, <2>2, <2>3, <2>4, <2>5, <2>6, <2>7
<1> QED BY <1>0, <1>1 DEF HeadInv

\* A new team has written nothing.
LEMMA HeadInit == Init => HeadInv
<1> SUFFICES ASSUME Init PROVE HeadInv
  OBVIOUS
<1>1. Written = {}
  BY DEF Init, Written
<1>2. Coherent(Written)
  BY <1>1 DEF Coherent
<1> QED BY <1>2, AuthorInit DEF HeadInv

\* HeadInv holds in every state.
THEOREM HeadSafe == ASSUME ~SameAuthor PROVE Spec => []HeadInv
<1>1. HeadInv /\ [Next]_vars => HeadInv'
  BY HeadStep
<1> QED BY <1>1, HeadInit, PTL DEF Spec

\* Concurrent decisions are a branch and nothing else is.
LEMMA HeadsMaximal == ASSUME HeadInv PROVE HeadsAreMaximal
<1> SUFFICES ASSUME NEW s \in Store, HasGraph(s), Closed(log[s]), faults = 0, NEW e \in Element
             PROVE  Heads(graph[s], e) =
                      Decided({a \in Changed(log[s], e) : ~\E b \in Changed(log[s], e) : a.dec \in b.saw})
  BY Zenon DEF HeadsAreMaximal, Changed
<1>0. Coherent(Written) /\ OneEvent /\ Projects(graph[s], log[s], log[s])
  BY EventsUnique DEF HeadInv, AuthorInv, OnceInv, TypeInv, GraphsOK, Owed
<1>1. \A y \in log[s] : Content(y) \in Written
  BY DEF Written
<1>2. \A y \in log[s] : y.targets \subseteq y.shapes /\ y.supersedes \subseteq y.saw
  BY <1>0, <1>1, ContentIs DEF Coherent
<1>3. Heads(graph[s], e) =
        Decided({a \in Changed(log[s], e) : ~\E b \in Changed(log[s], e) : a.dec \in b.supersedes})
  <2>1. Distinct(log[s])
    BY <1>0 DEF OneEvent, Distinct
  <2> QED BY <1>0, <1>2, <2>1, HeadsAre
<1>4. ASSUME NEW a \in Changed(log[s], e), NEW b \in Changed(log[s], e), a.dec \in b.supersedes
      PROVE  a.dec \in b.saw
  BY <1>2, <1>4 DEF Changed
<1>5. ASSUME NEW a \in Changed(log[s], e), NEW b \in Changed(log[s], e), a.dec \in b.saw
      PROVE  \E c \in Changed(log[s], e) : a.dec \in c.supersedes
  <2>1. /\ Content(a) \in Written /\ Content(b) \in Written
        /\ e \in Content(a).targets /\ e \in Content(b).targets /\ Content(a).dec \in Content(b).saw
    BY <1>1, <1>5, ContentIs DEF Changed
  <2>2. PICK c \in Written : /\ e \in c.targets /\ Content(a).dec \in c.supersedes
                             /\ c.dec = Content(b).dec \/ c.dec \in Content(b).saw
    BY <1>0, <2>1 DEF Coherent
  <2>3. PICK t \in Store : \E y \in log[t] : c = Content(y)
    BY DEF Written
  <2>4. PICK y \in log[t] : c = Content(y)
    BY <2>3
  <2>5. /\ e \in y.targets /\ a.dec \in y.supersedes /\ (y.dec = b.dec \/ y.dec \in b.saw)
    BY <2>2, <2>4, ContentIs
  <2>6. \E z \in log[s] : z.dec = y.dec
    BY <1>5, <2>5 DEF Closed, Decided, Changed
  <2>7. y \in log[s]
    BY <1>0, <2>6 DEF OneEvent
  <2> QED BY <2>5, <2>7 DEF Changed
<1>6. \A a \in Changed(log[s], e) :
        (\E b \in Changed(log[s], e) : a.dec \in b.supersedes)
          <=> (\E b \in Changed(log[s], e) : a.dec \in b.saw)
  BY <1>4, <1>5
<1> QED BY <1>3, <1>6

\* Concurrent decisions are a branch and nothing else is: the heads of an element are the
\* decisions with authority over it that no other such decision knew of, in every store whose
\* log holds what its events knew of.
THEOREM HeadsAreTheBranches == ASSUME ~SameAuthor PROVE Spec => []HeadsAreMaximal
<1>1. HeadInv => HeadsAreMaximal
  BY HeadsMaximal
<1> QED BY <1>1, HeadSafe, PTL

------------------------------------------------------------------------------
(* A new decision resolves what it changes.                                *)

\* An event that supersedes all heads of what it targets becomes its head, and no edge of a
\* graph that did not have its decision speaks against it.
LEMMA NewIsHead ==
  ASSUME NEW g, GraphOK(g), Joined(g), NEW ev \in Event, ev.dec \notin DOMAIN g.dec,
         ev.supersedes = Superseded(g, ev.targets), ev.targets \subseteq ev.shapes,
         NEW e \in ev.targets
  PROVE  Heads(ApplyEvent(g, ev), e) = {ev.dec}
<1> DEFINE r == ApplyEvent(g, ev)
<1>1. /\ DOMAIN r.dec = DOMAIN g.dec \cup {ev.dec} \cup ev.supersedes
      /\ DOMAIN r.shape = DOMAIN g.shape \cup ({ev.dec} \X ev.shapes)
      /\ \A p \in DOMAIN g.shape : r.shape[p] = g.shape[p]
      /\ \A p \in {ev.dec} \X ev.shapes : p \notin DOMAIN g.shape => r.shape[p] = (p[2] \in ev.targets)
  BY DecisionNodes, ShapeEdges
<1>2. r.sup = g.sup \cup ({ev.dec} \X ev.supersedes)
  BY ApplyEventIs
<1>3. /\ Heads(g, e) \subseteq ev.supersedes
      /\ \A d \in ev.supersedes : d \in DOMAIN g.dec
  BY DEF Superseded, Heads
<1> HIDE DEF r
<1>4. HasAuthority(r, ev.dec, e)
  <2>1. <<ev.dec, e>> \in {ev.dec} \X ev.shapes
    OBVIOUS
  <2>2. <<ev.dec, e>> \notin DOMAIN g.shape
    BY DEF Joined
  <2>3. r.shape[<<ev.dec, e>>] = (<<ev.dec, e>>[2] \in ev.targets)
    BY <1>1, <2>1, <2>2, Zenon
  <2> QED BY <1>1, <2>1, <2>3 DEF HasAuthority
<1>5. ev.dec \in Heads(r, e)
  <2>1. ASSUME NEW d, <<d, ev.dec>> \in r.sup PROVE FALSE
    BY <1>2, <1>3, <2>1 DEF Joined
  <2> QED BY <1>1, <1>4, <2>1 DEF Heads
<1>6. ASSUME NEW d, d # ev.dec
      PROVE  HasAuthority(r, d, e) <=> HasAuthority(g, d, e)
  BY <1>1, <1>6 DEF HasAuthority
<1>7. ASSUME NEW d \in Heads(r, e) PROVE d = ev.dec
  <2>1. SUFFICES ASSUME d # ev.dec PROVE FALSE
    OBVIOUS
  <2>2. HasAuthority(g, d, e)
    BY <1>6, <2>1 DEF Heads
  <2>3. d \in DOMAIN g.dec
    BY <2>2 DEF HasAuthority, Joined
  <2>4. CASE d \in Heads(g, e)
    <3>1. <<ev.dec, d>> \in r.sup
      BY <1>2, <1>3, <2>4
    <3> QED BY <1>1, <1>4, <3>1 DEF Heads
  <2>5. CASE d \notin Heads(g, e)
    <3>1. PICK d2 \in DOMAIN g.dec : <<d2, d>> \in g.sup /\ HasAuthority(g, d2, e)
      BY <2>2, <2>3, <2>5 DEF Heads
    <3>2. HasAuthority(r, d2, e)
      BY <1>4, <1>6, <3>1
    <3> QED BY <1>1, <1>2, <3>1, <3>2 DEF Heads
  <2> QED BY <2>4, <2>5
<1> QED BY <1>5, <1>7 DEF r

\* So it is with the event that an ingest records.
LEMMA IngestResolves ==
  ASSUME TypeInv, NEW s \in Store, NEW d \in Decision, Ingest(s, d),
         NEW ev \in log'[s] \ log[s], NEW e \in ev.targets
  PROVE  Heads(graph'[s], e) = {ev.dec}
<1> DEFINE g == OpenWrite(graph[s], log[s])
           new == BuildEvent(g, d, NextLamport(log[s]), writer[s])
<1>1. /\ log' = [log EXCEPT ![s] = @ \cup {new}] /\ graph' = [graph EXCEPT ![s] = ApplyEvent(g, new)]
      /\ new.lam <= MaxLamport /\ d \notin DOMAIN g.dec
  BY DEF Ingest, AlreadyRecorded
<1>2. /\ Projects(g, log[s], Owed(s)) /\ new.dec = d
      /\ new.targets = TargetsOf(g, Input[d]) /\ new.supersedes = Superseded(g, TargetsOf(g, Input[d]))
      /\ new \in Event
  BY <1>1, NewEvent
<1>3. new.targets \subseteq new.shapes
  <2>1. new.shapes = ShapesOf(Input[d])
    BY DEF BuildEvent
  <2> HIDE DEF new
  <2> QED BY <1>2, <2>1 DEF TargetsOf, ShapesOf
<1> HIDE DEF g, new
<1>4. ev = new /\ graph'[s] = ApplyEvent(g, new)
  BY <1>1 DEF TypeInv, LogOK, GraphsOK
<1>5. GraphOK(g) /\ Joined(g)
  BY <1>2 DEF Projects
<1> QED BY <1>1, <1>2, <1>3, <1>4, <1>5, NewIsHead

\* A sync adds, under the current identity, only what the log decided before.
LEMMA SyncDecidesNothing ==
  ASSUME TypeInv, NEW s \in Store, NEW got \in Pulls(s), Sync(s, got),
         NEW ev \in log'[s], ev.by = writer[s]
  PROVE  ev.dec \in Decided(log[s])
<1>1. log'[s] = Reconciled(s) \cup got
  BY DEF Sync, TypeInv, LogOK
<1>2. writer[s][1] = s
  BY DEF TypeInv, WriterOK
<1>3. LogOK /\ WriterOK /\ ev \in Reconciled(s) \cup got
  BY <1>1 DEF TypeInv
<1>4. \/ ev \in log[s] \ Orphans(s)
      \/ ev \in got /\ ev \in bucket /\ ev.by[1] # s
      \/ \E o \in Orphans(s) : /\ ev = ReEmitted(s, log[s] \ Orphans(s), o)
                               /\ ev.dec = o.dec /\ ev.by = writer[s] /\ ev.by[1] = s
                               /\ o \in log[s] /\ o.by[1] = s /\ Content(ev) = Content(o)
  BY <1>3, AfterParts
<1> QED BY <1>2, <1>4 DEF Decided

\* No operation breaks Resolves.
LEMMA ResolvesStep ==
  ASSUME TypeInv, [Next]_vars, NEW s \in Store, NEW ev \in log'[s] \ log[s],
         ev.by = writer[s], ev.dec \notin Decided(log[s]), faults' = faults, NEW e \in ev.targets
  PROVE  Heads(graph'[s], e) = {ev.dec}
<1>0. LogOK /\ faults \in Nat
  BY TeamAssumption DEF TypeInv
<1>1. ASSUME NEW t \in Store, NEW d \in Decision, Ingest(t, d) PROVE Heads(graph'[s], e) = {ev.dec}
  <2>1. t # s => log'[s] = log[s]
    BY <1>0, <1>1 DEF Ingest, LogOK
  <2>2. t = s
    BY <2>1
  <2> QED BY <1>1, <2>2, IngestResolves
<1>2. ASSUME NEW t \in Store, NEW got \in Pulls(t), Sync(t, got) PROVE FALSE
  <2>1. t # s => log'[s] = log[s]
    BY <1>0, <1>2 DEF Sync, LogOK
  <2>2. t = s
    BY <2>1
  <2> QED BY <1>2, <2>2, SyncDecidesNothing
<1>3. ASSUME NEW t \in Store, Fault(t) PROVE FALSE
  BY <1>0, <1>3 DEF Fault
<1>4. log' # log
  OBVIOUS
<1>5. \/ \E t \in Store : \E d \in Decision : Ingest(t, d)
      \/ \E t \in Store : \E got \in Pulls(t) : Sync(t, got)
      \/ \E t \in Store : Fault(t)
      \/ log' = log
  BY DEF Next, IngestNoOp, IngestFails, SyncFails, Rebuild, RebuildFails, OpenRead, LoseGraph, Rotate, vars
<1> QED BY <1>1, <1>2, <1>3, <1>4, <1>5

\* In the store that records it a new decision is the only head of everything it changes.
THEOREM NewDecisionsResolve == Spec => Resolves
<1>1. TypeInv /\ [Next]_vars =>
        [\A s \in Store : \A ev \in log'[s] \ log[s] :
           ev.by = writer[s] /\ ev.dec \notin Decided(log[s]) /\ faults' = faults
             => \A e \in ev.targets : Heads(graph'[s], e) = {ev.dec}]_vars
  BY ResolvesStep
<1> QED BY <1>1, TypeSafe, PTL DEF Spec, Resolves

------------------------------------------------------------------------------
(* A team without rotations and failures: nothing is re-emitted.           *)

\* What supersedes a decision was stamped after it.
Ordered == \A s, t \in Store : \A a \in log[s], b \in log[t] : a.dec \in b.supersedes => a.lam < b.lam

Settled == \A s \in Store : writer[s] = <<s, 0>> /\ \A ev \in log[s] : ev.by[2] = 0

OrderInv == HeadInv /\ ReplayInv /\ faults = 0 /\ Settled /\ Ordered

\* There is nothing to re-emit.
LEMMA NoOrphans == ASSUME OrderInv, NEW s \in Store PROVE Orphans(s) = {}
<1> SUFFICES ASSUME NEW ev \in log[s], ev.by[1] = s PROVE ev.by = writer[s]
  BY DEF Orphans
<1>1. ev.by \in Store \X (0 .. MaxRotate) /\ ev.by[2] = 0
  BY EventFields DEF OrderInv, ReplayInv, AuthorInv, OnceInv, TypeInv, LogOK, Settled
<1> QED BY <1>1 DEF OrderInv, Settled

\* A sync brings nothing that is in no log.
LEMMA OrderSync ==
  ASSUME OrderInv, NEW s \in Store, NEW got \in Pulls(s), Sync(s, got), NEW t \in Store, NEW x \in log'[t]
  PROVE  \E u \in Store : x \in log[u]
<1>0. LogOK /\ WriterOK /\ Shared
  BY DEF OrderInv, ReplayInv, AuthorInv, OnceInv, TypeInv
<1>1. log' = [log EXCEPT ![s] = Reconciled(s) \cup got] /\ NextLamport(Reconciled(s) \cup got) <= MaxLamport + 1
  BY DEF Sync
<1>2. Reconciled(s) = log[s] /\ got \subseteq bucket
  BY <1>0, <1>1, NoOrphans, AfterIs
<1>3. \A y \in bucket : y.by[1] \in Store /\ y \in log[y.by[1]]
  BY <1>0, EventFields DEF LogOK, Shared
<1> QED BY <1>0, <1>1, <1>2, <1>3 DEF LogOK

\* A new event is stamped after all it supersedes, and nobody can have superseded it.
LEMMA OrderIngest ==
  ASSUME ~SameAuthor, OrderInv, NEW s \in Store, NEW d \in Decision, Ingest(s, d)
  PROVE  Ordered' /\ \E ev : /\ ev.by = writer[s] /\ log'[s] = log[s] \cup {ev}
                             /\ \A t \in Store : t # s => log'[t] = log[t]
<1> DEFINE g == OpenWrite(graph[s], log[s])
           ev == BuildEvent(g, d, NextLamport(log[s]), writer[s])
<1>0. TypeInv /\ LogOK /\ Shared /\ faults = 0 /\ OneEvent /\ Ordered /\ Coherent(Written)
  BY EventsUnique DEF OrderInv, HeadInv, ReplayInv, AuthorInv, OnceInv, TypeInv
<1>1. /\ log' = [log EXCEPT ![s] = @ \cup {ev}] /\ d \notin DOMAIN g.dec /\ MayRecord(s, d)
  BY DEF Ingest, AlreadyRecorded
<1>2. /\ Projects(g, log[s], log[s]) /\ ev.dec = d /\ ev.by = writer[s]
      /\ ev.supersedes = Superseded(g, TargetsOf(g, Input[d]))
      /\ \A x \in log[s] : x.lam < ev.lam
  BY <1>0, NewEvent DEF Owed
<1> HIDE DEF g, ev
<1>3. log'[s] = log[s] \cup {ev} /\ \A t \in Store : t # s => log'[t] = log[t]
  BY <1>0, <1>1 DEF LogOK
<1>4. ASSUME NEW t \in Store, NEW y \in log[t], y.dec = d PROVE FALSE
  <2>1. y.by[1] = s
    BY <1>1, <1>4 DEF MayRecord
  <2>2. y \in log[s]
    BY <1>0, <2>1, <1>4 DEF Shared
  <2>3. Complete(g, log[s])
    BY <1>2 DEF Projects
  <2> QED BY <1>1, <1>4, <2>2, <2>3 DEF Complete
<1>5. ASSUME NEW f \in ev.supersedes PROVE f \in DOMAIN g.dec /\ f \in Decided(log[s])
  <2>1. PICK e : f \in Heads(g, e)
    BY <1>2, <1>5 DEF Superseded
  <2>2. f \in DOMAIN g.dec /\ <<f, e>> \in DOMAIN g.shape
    BY <2>1 DEF Heads, HasAuthority
  <2>3. \E x \in log[s] : x.dec = <<f, e>>[1]
    BY <1>2, <2>2, Zenon DEF Projects, Backed
  <2> QED BY <2>2, <2>3 DEF Decided
<1>6. ASSUME NEW t \in Store, NEW b \in log[t] PROVE d \notin b.supersedes
  <2>1. SUFFICES ASSUME d \in b.supersedes PROVE FALSE
    OBVIOUS
  <2>2. Content(b) \in Written
    BY DEF Written
  <2>3. \E c \in Written : c.dec = d
    BY <1>0, <2>1, <2>2, ContentIs DEF Coherent
  <2>4. PICK u \in Store : \E y \in log[u] : Content(y).dec = d
    BY <2>3 DEF Written
  <2> QED BY <1>4, <2>4, ContentIs
<1>7. ASSUME NEW t \in Store, NEW a \in log'[t], NEW u \in Store, NEW b \in log'[u],
             a.dec \in b.supersedes
      PROVE  a.lam < b.lam
  <2>1. CASE a \in log[t] /\ b \in log[u]
    BY <1>0, <1>7, <2>1 DEF Ordered
  <2>2. CASE a \in log[t] /\ b = ev
    <3>1. PICK x \in log[s] : x.dec = a.dec
      BY <1>5, <1>7, <2>2 DEF Decided
    <3>2. x = a
      BY <1>0, <2>2, <3>1 DEF OneEvent
    <3> QED BY <1>2, <2>2, <3>2
  <2>3. CASE a = ev /\ b \in log[u]
    BY <1>2, <1>6, <1>7, <2>3
  <2>4. CASE a = ev /\ b = ev
    BY <1>1, <1>2, <1>5, <1>7, <2>4
  <2> QED BY <1>3, <2>1, <2>2, <2>3, <2>4
<1>8. Ordered'
  BY <1>7 DEF Ordered
<1> QED BY <1>2, <1>3, <1>8

\* Every operation of a team without rotations and failures keeps the order.
LEMMA OrderStep == ASSUME ~SameAuthor, Troubled = {}, OrderInv, [Next]_vars PROVE OrderInv'
<1>0. HeadInv' /\ ReplayInv'
  BY HeadStep, ReplayStep DEF OrderInv
<1>1. LogOK /\ WriterOK
  BY DEF OrderInv, ReplayInv, AuthorInv, OnceInv, TypeInv
<1>2. ASSUME NEW s \in Store, NEW d \in Decision, Ingest(s, d) PROVE OrderInv'
  <2>1. PICK ev : /\ ev.by = writer[s] /\ log'[s] = log[s] \cup {ev}
                  /\ \A t \in Store : t # s => log'[t] = log[t]
    BY <1>2, OrderIngest
  <2>2. faults' = 0 /\ writer' = writer
    BY <1>2 DEF Ingest, OrderInv
  <2>3. Settled'
    BY <2>1, <2>2 DEF OrderInv, Settled
  <2>4. Ordered'
    BY <1>2, OrderIngest
  <2> QED BY <1>0, <2>2, <2>3, <2>4 DEF OrderInv
<1>3. ASSUME NEW s \in Store, NEW got \in Pulls(s), Sync(s, got) PROVE OrderInv'
  <2>1. \A t \in Store : \A x \in log'[t] : \E u \in Store : x \in log[u]
    BY <1>3, OrderSync
  <2>2. faults' = 0 /\ writer' = writer
    BY <1>3 DEF Sync, OrderInv
  <2>3. Settled'
    BY <2>1, <2>2 DEF OrderInv, Settled
  <2>4. Ordered'
    BY <2>1 DEF OrderInv, Ordered
  <2> QED BY <1>0, <2>2, <2>3, <2>4 DEF OrderInv
<1>4. CASE UNCHANGED <<log, writer, faults>>
  BY <1>0, <1>4 DEF OrderInv, Settled, Ordered
<1>5. \/ \E s \in Store : \E d \in Decision : Ingest(s, d)
      \/ \E s \in Store : \E got \in Pulls(s) : Sync(s, got)
      \/ UNCHANGED <<log, writer, faults>>
  BY DEF Next, IngestNoOp, IngestFails, SyncFails, Fault, Rebuild, RebuildFails, OpenRead, LoseGraph, Rotate, vars
<1> QED BY <1>2, <1>3, <1>4, <1>5

\* A new team has superseded nothing.
LEMMA OrderInit == Init => OrderInv
<1> SUFFICES ASSUME Init PROVE OrderInv
  OBVIOUS
<1>1. HeadInv /\ ReplayInv
  BY HeadInit, ReplayInit
<1> QED BY <1>1 DEF Init, OrderInv, Settled, Ordered

\* The graph has the stamp of every decision of its log.
LEMMA StubsAreFilled == ASSUME OrderInv PROVE StubsFilled
<1> SUFFICES ASSUME NEW s \in Store, HasGraph(s), NEW ev \in log[s] PROVE Known(graph[s], ev.dec)
  BY DEF StubsFilled, Decided
<1>0. /\ log[s] \in SUBSET Event /\ IsFiniteSet(log[s]) /\ OneEvent /\ GraphIsReplay /\ faults = 0
      /\ Ordered
  BY EventsUnique DEF OrderInv, ReplayInv, AuthorInv, OnceInv, TypeInv, LogOK
<1>1. InOrder(log[s]) /\ Distinct(log[s])
  BY <1>0 DEF Ordered, InOrder, Before, OneEvent, Distinct
<1>2. graph[s] = Replay(log[s])
  BY <1>0, <1>1 DEF GraphIsReplay
<1>3. ev.dec \in DOMAIN graph[s].dec /\ graph[s].dec[ev.dec] = ev.lam
  BY <1>0, <1>1, <1>2, ReplayStamps
<1>4. ev.lam # 0
  BY <1>0, EventFields
<1> QED BY <1>3, <1>4 DEF Known

\* In a team where nobody rotates or fails, no decision of a log is a stub: whichever shards
\* are pulled first, a node made up for a SUPERSEDES edge is filled in by its event.
THEOREM NoStubsStay == ASSUME ~SameAuthor, Troubled = {} PROVE Spec => []StubsFilled
<1>1. OrderInv /\ [Next]_vars => OrderInv'
  BY OrderStep
<1>2. OrderInv => StubsFilled
  BY StubsAreFilled
<1> QED BY <1>1, <1>2, OrderInit, PTL DEF Spec

------------------------------------------------------------------------------
(* The reads.                                                              *)

\* Graphs in which the elements and the decisions of every edge have a node.
WellFormed(g) ==
  /\ DOMAIN g.dec \subseteq Decision
  /\ g.sup \subseteq (DOMAIN g.dec) \X (DOMAIN g.dec)
  /\ \A d \in Decision : \A e \in Element : <<d, e>> \in DOMAIN g.shape => d \in DOMAIN g.dec

\* Supersession goes back in Lamport time: what breaks when a rotated store stamps its
\* decisions anew, and when an event is projected before what it supersedes.
Descending(g) == \A s \in g.sup : g.dec[s[1]] > g.dec[s[2]]

\* The heads of an element in the viewer, which looks at what supersedes a decision, are the
\* heads kg conflicts and kg ingest find with their query over SHAPES and SUPERSEDES.
THEOREM SameHeads ==
  ASSUME NEW g, WellFormed(g), NEW e \in Element
  PROVE  {d \in ShapedBy(g, e) : IsHead(g, d, e)} = Heads(g, e)
<1>1. ASSUME NEW d \in ShapedBy(g, e), IsHead(g, d, e) PROVE d \in Heads(g, e)
  <2>1. d \in DOMAIN g.dec /\ HasAuthority(g, d, e)
    BY <1>1 DEF ShapedBy, IsHead, WellFormed
  <2>2. ASSUME NEW d2 \in DOMAIN g.dec, <<d2, d>> \in g.sup PROVE ~HasAuthority(g, d2, e)
    <3>1. d2 \in SupersededBy(g, d)
      BY <2>2 DEF SupersededBy
    <3> QED
      BY <1>1, <3>1 DEF IsHead
  <2> QED
    BY <2>1, <2>2 DEF Heads
<1>2. ASSUME NEW d \in Heads(g, e) PROVE d \in ShapedBy(g, e) /\ IsHead(g, d, e)
  <2>1. d \in DOMAIN g.dec /\ HasAuthority(g, d, e) /\ d \in Decision
    BY <1>2 DEF Heads, WellFormed
  <2>2. ASSUME NEW d2 \in SupersededBy(g, d) PROVE ~HasAuthority(g, d2, e)
    <3>1. d2 \in DOMAIN g.dec /\ <<d2, d>> \in g.sup
      <4>1. PICK s \in g.sup : s[2] = d /\ d2 = s[1]
        BY <2>2 DEF SupersededBy
      <4>2. s = <<d2, d>> /\ d2 \in DOMAIN g.dec
        BY <4>1 DEF WellFormed
      <4> QED
        BY <4>2
    <3> QED
      BY <1>2, <3>1 DEF Heads
  <2> QED
    BY <2>1, <2>2 DEF ShapedBy, IsHead, HasAuthority
<1> QED
  BY <1>1, <1>2

\* "The newest authority decision on an element is necessarily one of its heads": what kg
\* context ranks by, without asking for heads, is what it shows first.
THEOREM NewestIsAHead ==
  ASSUME NEW g, WellFormed(g), Descending(g), NEW e \in Element,
         \A d \in DOMAIN g.dec : g.dec[d] \in Nat,
         NEW newest \in DOMAIN g.dec, HasAuthority(g, newest, e),
         \A d \in DOMAIN g.dec : HasAuthority(g, d, e) => g.dec[d] <= g.dec[newest]
  PROVE  newest \in Heads(g, e)
<1>1. ASSUME NEW d \in DOMAIN g.dec, <<d, newest>> \in g.sup, HasAuthority(g, d, e)
      PROVE  FALSE
  <2>1. g.dec[d] > g.dec[newest]
    BY <1>1 DEF Descending
  <2>2. g.dec[d] <= g.dec[newest]
    BY <1>1
  <2> QED
    BY <2>1, <2>2
<1> QED
  BY <1>1 DEF Heads

\* Every graph that its log accounts for is well-formed.
LEMMA GraphsWellFormed ==
  ASSUME NEW g, NEW F, NEW E, Projects(g, F, E)
  PROVE  WellFormed(g)
<1>1. GraphOK(g) /\ Joined(g)
  BY DEF Projects
<1>2. ASSUME NEW p \in g.sup PROVE p \in (DOMAIN g.dec) \X (DOMAIN g.dec)
  BY <1>1, <1>2 DEF GraphOK, Joined
<1>3. ASSUME NEW d, NEW e, <<d, e>> \in DOMAIN g.shape PROVE d \in DOMAIN g.dec
  BY <1>1, <1>3 DEF Joined
<1> QED BY <1>1, <1>2, <1>3 DEF WellFormed, GraphOK

\* The heads of the viewer are the heads of kg, of every element in every store.
ViewerHeads ==
  \A s \in Store : HasGraph(s) => \A e \in Element :
    {d \in ShapedBy(graph[s], e) : IsHead(graph[s], d, e)} = Heads(graph[s], e)

\* SameHeads, for all graphs there are.
THEOREM ViewerHasTheHeads == Spec => []ViewerHeads
<1>1. TypeInv => ViewerHeads
  <2> SUFFICES ASSUME TypeInv, NEW s \in Store, HasGraph(s), NEW e \in Element
               PROVE  {d \in ShapedBy(graph[s], e) : IsHead(graph[s], d, e)} = Heads(graph[s], e)
    BY DEF ViewerHeads
  <2>1. Projects(graph[s], log[s], Owed(s))
    BY DEF TypeInv, GraphsOK
  <2>2. WellFormed(graph[s])
    BY <2>1, GraphsWellFormed
  <2> QED BY <2>2, SameHeads
<1> QED BY <1>1, TypeSafe, PTL

\* The newest decision with authority over an element is one of its heads.
NewestAreHeads ==
  \A s \in Store : HasGraph(s) => \A e \in Element : \A newest \in DOMAIN graph[s].dec :
    /\ HasAuthority(graph[s], newest, e)
    /\ \A d \in DOMAIN graph[s].dec :
         HasAuthority(graph[s], d, e) => graph[s].dec[d] <= graph[s].dec[newest]
    => newest \in Heads(graph[s], e)

\* In such a team decisions supersede only older ones.
LEMMA GraphsDescend == ASSUME OrderInv, NEW s \in Store, HasGraph(s) PROVE Descending(graph[s])
<1> DEFINE g == graph[s]
<1> SUFFICES ASSUME NEW p \in g.sup PROVE g.dec[p[1]] > g.dec[p[2]]
  BY DEF Descending
<1>0. /\ log[s] \in SUBSET Event /\ IsFiniteSet(log[s]) /\ OneEvent /\ GraphIsReplay /\ faults = 0
      /\ Ordered /\ Projects(g, log[s], log[s])
  BY EventsUnique DEF OrderInv, ReplayInv, AuthorInv, OnceInv, TypeInv, LogOK, GraphsOK, Owed
<1>1. InOrder(log[s]) /\ Distinct(log[s])
  BY <1>0 DEF Ordered, InOrder, Before, OneEvent, Distinct
<1>2. g = Replay(log[s])
  BY <1>0, <1>1 DEF GraphIsReplay
<1>3. \A ev \in log[s] : g.dec[ev.dec] = ev.lam /\ ev.lam \in Nat \ {0}
  BY <1>0, <1>1, <1>2, ReplayStamps, EventFields
<1> HIDE DEF g
<1>4. PICK b \in log[s] : b.dec = p[1] /\ p[2] \in b.supersedes
  BY <1>0 DEF Projects, Backed
<1>5. p[2] \in DOMAIN g.dec
  BY <1>0 DEF Projects, Joined
<1>6. CASE p[2] \in Decided(log[s])
  <2>1. PICK a \in log[s] : a.dec = p[2]
    BY <1>6 DEF Decided
  <2>2. a.lam < b.lam
    BY <1>0, <1>4, <2>1 DEF Ordered
  <2> QED BY <1>3, <1>4, <2>1, <2>2
<1>7. CASE p[2] \notin Decided(log[s])
  <2>1. g.dec[p[2]] = 0
    BY <1>0, <1>5, <1>7 DEF Projects, Backed, Known
  <2> QED BY <1>3, <1>4, <2>1
<1> QED BY <1>6, <1>7

\* NewestIsAHead, for all graphs of a team in which no store rotates and nothing fails.
THEOREM NewestAlwaysHeads == ASSUME ~SameAuthor, Troubled = {} PROVE Spec => []NewestAreHeads
<1>1. OrderInv => NewestAreHeads
  <2> SUFFICES ASSUME OrderInv, NEW s \in Store, HasGraph(s), NEW e \in Element,
                      NEW newest \in DOMAIN graph[s].dec, HasAuthority(graph[s], newest, e),
                      \A d \in DOMAIN graph[s].dec :
                        HasAuthority(graph[s], d, e) => graph[s].dec[d] <= graph[s].dec[newest]
               PROVE  newest \in Heads(graph[s], e)
    BY DEF NewestAreHeads
  <2>1. Projects(graph[s], log[s], Owed(s))
    BY DEF OrderInv, ReplayInv, AuthorInv, OnceInv, TypeInv, GraphsOK
  <2>2. WellFormed(graph[s]) /\ \A d \in DOMAIN graph[s].dec : graph[s].dec[d] \in Nat
    BY <2>1, GraphsWellFormed DEF Projects, GraphOK
  <2> QED BY <2>2, GraphsDescend, NewestIsAHead
<1>2. OrderInv /\ [Next]_vars => OrderInv'
  BY OrderStep
<1> QED BY <1>1, <1>2, OrderInit, PTL DEF Spec

------------------------------------------------------------------------------
(* The elements of a graph.                                                *)

\* An event shapes what its mutations name.
Contained(ev) ==
  \A k \in DOMAIN ev.muts : ev.muts[k].el \in ev.shapes /\ ev.muts[k].to \in ev.shapes

\* So that elements and those that a decision shapes are the same.
Shaped(g) == \A e : e \in DOMAIN g.elem <=> \E d : <<d, e>> \in DOMAIN g.shape

\* The members of a list that got one more.
LEMMA ToSetAppend ==
  ASSUME NEW X, NEW q \in Seq(X), NEW x \in X
  PROVE  ToSet(Append(q, x)) = ToSet(q) \cup {x}
<1>1. /\ DOMAIN Append(q, x) = 1 .. Len(q) + 1 /\ DOMAIN q = 1 .. Len(q) /\ Len(q) \in Nat
      /\ \A k \in 1 .. Len(q) : Append(q, x)[k] = q[k]
      /\ Append(q, x)[Len(q) + 1] = x
  OBVIOUS
<1>2. \A k : k \in 1 .. Len(q) + 1 <=> k \in 1 .. Len(q) \/ k = Len(q) + 1
  BY <1>1
<1> DEFINE r == Append(q, x)
<1> HIDE DEF r
<1>3. ASSUME NEW y \in ToSet(r) PROVE y \in ToSet(q) \cup {x}
  BY <1>1, <1>2, <1>3 DEF ToSet, r
<1>4. ASSUME NEW y \in ToSet(q) \cup {x} PROVE y \in ToSet(r)
  BY <1>1, <1>2, <1>4 DEF ToSet, r
<1> QED BY <1>3, <1>4 DEF r

\* Missing elements are upserted, those that the input names.
LEMMA ResolvedWithin ==
  ASSUME NEW input \in Seq(Mutation)
  PROVE  \A k \in DOMAIN Resolved(input) :
           Resolved(input)[k].el \in ShapesOf(input) /\ Resolved(input)[k].to \in ShapesOf(input)
<1> DEFINE Names(muts, X) == \A k \in DOMAIN muts : muts[k].el \in X /\ muts[k].to \in X
           Done(q) == FoldLeft(AddMutation, <<>>, q)
           S == {q \in Seq(Mutation) : Done(q) \in Seq(Change) /\ Names(Done(q), ShapesOf(q))}
<1>1. <<>> \in S
  <2>1. Done(<<>>) = <<>>
    BY ResolvingFold, Resolving!FoldLeftEmpty, Zenon
  <2>2. <<>> \in Seq(Change) /\ <<>> \in Seq(Mutation) /\ DOMAIN <<>> = {}
    BY EmptySeq
  <2> HIDE DEF Done
  <2> QED BY <2>1, <2>2
<1>2. ASSUME NEW muts \in Seq(Change), NEW X, Names(muts, X), NEW m \in Change, m.el \in X, m.to \in X
      PROVE  Append(muts, m) \in Seq(Change) /\ Names(Append(muts, m), X)
  <2>1. /\ Append(muts, m) \in Seq(Change) /\ DOMAIN Append(muts, m) = 1 .. Len(muts) + 1
        /\ \A k \in 1 .. Len(muts) : Append(muts, m)[k] = muts[k]
        /\ Append(muts, m)[Len(muts) + 1] = m /\ Len(muts) \in Nat
        /\ DOMAIN muts = 1 .. Len(muts)
    OBVIOUS
  <2>2. \A k \in 1 .. Len(muts) + 1 : k \in 1 .. Len(muts) \/ k = Len(muts) + 1
    BY <2>1
  <2> QED BY <1>2, <2>1, <2>2
<1>3. ASSUME NEW muts \in Seq(Change), NEW X, Names(muts, X), NEW e \in Element, e \in X
      PROVE  EnsureUpsert(muts, e) \in Seq(Change) /\ Names(EnsureUpsert(muts, e), X)
  <2>1. Upsert(e) \in Change /\ Upsert(e).el = e /\ Upsert(e).to = e
    BY DEF Upsert, Change, Op
  <2>2. Append(muts, Upsert(e)) \in Seq(Change) /\ Names(Append(muts, Upsert(e)), X)
    BY <1>2, <1>3, <2>1
  <2>3. EnsureUpsert(muts, e) \in {muts, Append(muts, Upsert(e))}
    BY DEF EnsureUpsert
  <2> HIDE DEF Names
  <2> QED BY <1>3, <2>2, <2>3
<1>4. ASSUME NEW muts \in Seq(Change), NEW X, Names(muts, X), NEW m \in Mutation, m.el \in X, m.to \in X
      PROVE  AddMutation(muts, m) \in Seq(Change) /\ Names(AddMutation(muts, m), X)
  <2>1. /\ m.op \in {"upsert", "set", "link", "retire", "govern"} /\ m.el \in Element /\ m.to \in Element
        /\ m.op # "govern" => m \in Change
    BY DEF Mutation, Change, Op
  <2> DEFINE one == EnsureUpsert(muts, m.el)
             two == EnsureUpsert(one, m.to)
  <2>2. AddMutation(muts, m) \in {muts, Append(muts, m), Append(one, m), Append(two, m)}
        /\ (m.op = "govern" => AddMutation(muts, m) = muts)
    BY <2>1 DEF AddMutation
  <2> HIDE DEF Names
  <2>3. one \in Seq(Change) /\ Names(one, X)
    BY <1>3, <1>4, <2>1
  <2> HIDE DEF one
  <2>4. two \in Seq(Change) /\ Names(two, X)
    BY <1>3, <1>4, <2>1, <2>3
  <2> HIDE DEF two
  <2>5. CASE m.op = "govern"
    BY <1>4, <2>2, <2>5
  <2>6. CASE m \in Change
    BY <1>2, <1>4, <2>2, <2>3, <2>4, <2>6
  <2> QED BY <2>1, <2>5, <2>6
<1>5. ASSUME NEW q \in Seq(Mutation), NEW m \in Mutation, q \in S PROVE Append(q, m) \in S
  <2>1. Resolving!FoldLeft(AddMutation, <<>>, Append(q, m))
          = AddMutation(Resolving!FoldLeft(AddMutation, <<>>, q), m)
    BY Resolving!FoldLeftAppend, Zenon
  <2>2. Done(Append(q, m)) = AddMutation(Done(q), m)
    BY <2>1, ResolvingFold, Zenon
  <2>3. Done(q) \in Seq(Change) /\ Names(Done(q), ShapesOf(q))
    BY <1>5
  <2>4. /\ Append(q, m) \in Seq(Mutation)
        /\ ToSet(Append(q, m)) = ToSet(q) \cup {m}
    BY ToSetAppend
  <2>5. ShapesOf(Append(q, m)) = ShapesOf(q) \cup {m.el, m.to}
    BY <2>4 DEF ShapesOf
  <2> HIDE DEF Done
  <2>6. Names(Done(q), ShapesOf(Append(q, m)))
    BY <2>3, <2>5
  <2> HIDE DEF Names
  <2>7. /\ AddMutation(Done(q), m) \in Seq(Change)
        /\ Names(AddMutation(Done(q), m), ShapesOf(Append(q, m)))
    BY <1>4, <2>3, <2>5, <2>6
  <2> QED BY <2>2, <2>4, <2>7
<1> HIDE DEF S
<1>6. \A q \in Seq(Mutation) : q \in S
  BY <1>1, <1>5, Resolving!SeqInduction
<1> QED BY <1>6 DEF S, Resolved

\* So does the event that is built from the input.
LEMMA BuildContained ==
  ASSUME NEW g, NEW d \in Decision, NEW lam, NEW by
  PROVE  Contained(BuildEvent(g, d, lam, by))
<1>1. Input[d] \in Seq(Mutation)
  BY ContentAssumption
<1>2. /\ BuildEvent(g, d, lam, by).muts = Resolved(Input[d])
      /\ BuildEvent(g, d, lam, by).shapes = ShapesOf(Input[d])
  BY DEF BuildEvent
<1> QED BY <1>1, <1>2, ResolvedWithin DEF Contained

\* A mutation makes the elements it names.
LEMMA MutationElems ==
  ASSUME NEW g, GraphOK(g), NEW m \in Change
  PROVE  /\ DOMAIN g.elem \subseteq DOMAIN ApplyMutation(g, m).elem
         /\ DOMAIN ApplyMutation(g, m).elem \subseteq DOMAIN g.elem \cup {m.el, m.to}
<1>1. /\ m.op \in {"upsert", "set", "link", "retire"} /\ m.el \in Element /\ m.to \in Element
  BY DEF Change, Op
<1> DEFINE up == EnsureElements(g, {m.el}, TRUE)
           one == EnsureElements(g, {m.el}, FALSE)
           two == EnsureElements(one, {m.to}, FALSE)
<1>2. /\ GraphOK(up) /\ DOMAIN up.elem = DOMAIN g.elem \cup {m.el}
      /\ GraphOK(one) /\ DOMAIN one.elem = DOMAIN g.elem \cup {m.el}
  BY <1>1, EnsureIs
<1>3. GraphOK(two) /\ DOMAIN two.elem = DOMAIN g.elem \cup {m.el, m.to}
  <2> HIDE DEF one
  <2>1. GraphOK(two) /\ DOMAIN two.elem = DOMAIN one.elem \cup {m.to}
    BY <1>1, <1>2, EnsureIs
  <2> HIDE DEF two
  <2> QED BY <1>2, <2>1
<1>4. /\ DOMAIN SetProp(up, m.el, m.val).elem = DOMAIN up.elem
      /\ DOMAIN SetProp(one, m.el, m.val).elem = DOMAIN one.elem
  <2> HIDE DEF up, one
  <2> QED BY <1>2, SetPropIs
<1> DEFINE linked == [two EXCEPT !.link = @ \cup {<<m.el, m.to>>}]
           cut == [g EXCEPT !.link = @ \ {<<m.el, m.to>>}]
<1>5. linked.elem = two.elem /\ cut.elem = g.elem
  <2> HIDE DEF two
  <2> QED BY <1>3 DEF GraphOK
<1>6. ApplyMutation(g, m) \in {up, SetProp(up, m.el, m.val), SetProp(one, m.el, m.val), linked, cut}
  BY <1>1 DEF ApplyMutation, EnsureElement
<1> HIDE DEF up, one, two, linked, cut
<1> QED BY <1>2, <1>3, <1>4, <1>5, <1>6

\* So do all mutations of an event.
LEMMA MutationsElems ==
  ASSUME NEW g, GraphOK(g), NEW muts \in Seq(Change), NEW X,
         \A k \in DOMAIN muts : muts[k].el \in X /\ muts[k].to \in X
  PROVE  /\ DOMAIN g.elem \subseteq DOMAIN FoldLeft(ApplyMutation, g, muts).elem
         /\ DOMAIN FoldLeft(ApplyMutation, g, muts).elem \subseteq DOMAIN g.elem \cup X
<1> DEFINE Done(q) == FoldLeft(ApplyMutation, g, q)
           Within(q) == \A k \in DOMAIN q : q[k].el \in X /\ q[k].to \in X
           S == {q \in Seq(Change) :
                   Within(q) => /\ DOMAIN g.elem \subseteq DOMAIN Done(q).elem
                                /\ DOMAIN Done(q).elem \subseteq DOMAIN g.elem \cup X}
<1>1. <<>> \in S
  <2>1. Done(<<>>) = g
    BY ApplyingFold, Applying!FoldLeftEmpty, Zenon
  <2> HIDE DEF Done, Within
  <2> QED BY <2>1
<1>2. ASSUME NEW q \in Seq(Change), NEW m \in Change, q \in S PROVE Append(q, m) \in S
  <2>1. Applying!FoldLeft(ApplyMutation, g, Append(q, m))
          = ApplyMutation(Applying!FoldLeft(ApplyMutation, g, q), m)
    BY Applying!FoldLeftAppend, Zenon
  <2>2. Done(Append(q, m)) = ApplyMutation(Done(q), m)
    BY <2>1, ApplyingFold, Zenon
  <2>3. GraphOK(Done(q))
    BY MutationsKeep
  <2> HIDE DEF Done
  <2>4. ASSUME Within(Append(q, m)) PROVE Within(q) /\ m.el \in X /\ m.to \in X
    <3>1. /\ DOMAIN Append(q, m) = 1 .. Len(q) + 1 /\ DOMAIN q = 1 .. Len(q) /\ Len(q) \in Nat
          /\ \A k \in 1 .. Len(q) : Append(q, m)[k] = q[k]
          /\ Append(q, m)[Len(q) + 1] = m
      OBVIOUS
    <3>2. Len(q) + 1 \in DOMAIN Append(q, m) /\ \A k \in DOMAIN q : k \in DOMAIN Append(q, m)
      BY <3>1
    <3> QED BY <2>4, <3>1, <3>2
  <2>5. /\ DOMAIN Done(q).elem \subseteq DOMAIN Done(Append(q, m)).elem
        /\ DOMAIN Done(Append(q, m)).elem \subseteq DOMAIN Done(q).elem \cup {m.el, m.to}
    BY <2>2, <2>3, MutationElems
  <2>6. Append(q, m) \in Seq(Change)
    OBVIOUS
  <2> HIDE DEF Within
  <2> QED BY <1>2, <2>4, <2>5, <2>6
<1> HIDE DEF S
<1>3. \A q \in Seq(Change) : q \in S
  BY <1>1, <1>2, Applying!SeqInduction
<1>4. muts \in S
  BY <1>3
<1> QED BY <1>4 DEF S

\* An event applies its mutations, then makes what is left of what it shapes.
LEMMA ApplyEventElem ==
  ASSUME NEW g, GraphOK(g), NEW ev \in Event
  PROVE  ApplyEvent(g, ev).elem =
           EnsureElements(FoldLeft(ApplyMutation, AddDecision(g, ev), ev.muts), ev.shapes, FALSE).elem
<1>0. /\ ev.muts \in Seq(Change) /\ ev.shapes \in SUBSET Element
  BY EventFields
<1> DEFINE a == AddDecision(g, ev)
           m == FoldLeft(ApplyMutation, a, ev.muts)
           e == EnsureElements(m, ev.shapes, FALSE)
           sh == AddShapes(m, ev)
           su == AddSupersedes(sh, ev)
<1>1. GraphOK(a)
  BY AddDecisionIs
<1> HIDE DEF a
<1>2. GraphOK(m)
  BY <1>0, <1>1, MutationsKeep
<1> HIDE DEF m
<1>3. GraphOK(e)
  BY <1>0, <1>2, EnsureIs
<1>4. sh = [e EXCEPT !.shape = Create(@, [p \in {ev.dec} \X ev.shapes |-> p[2] \in ev.targets])]
  BY DEF AddShapes
<1> HIDE DEF e
<1>5. sh.elem = e.elem /\ sh = [elem |-> sh.elem, dec |-> sh.dec, link |-> sh.link, shape |-> sh.shape,
                               sup |-> sh.sup, applied |-> sh.applied]
  BY <1>3, <1>4 DEF GraphOK
<1> HIDE DEF sh
<1>6. su.elem = sh.elem /\ su = [elem |-> su.elem, dec |-> su.dec, link |-> su.link, shape |-> su.shape,
                                sup |-> su.sup, applied |-> su.applied]
  <2> DEFINE dec == Create(sh.dec, [prev \in ev.supersedes |-> 0])
             sup == sh.sup \cup ({ev.dec} \X ev.supersedes)
  <2>1. su = [sh EXCEPT !.dec = dec, !.sup = sup]
    BY DEF AddSupersedes
  <2> HIDE DEF su, dec, sup
  <2> QED BY <1>5, <2>1
<1>7. ApplyEvent(g, ev) = [su EXCEPT !.applied = @ \cup {<<ev.dec, ev.by>>}]
  BY DEF ApplyEvent, su, sh, m, a
<1> HIDE DEF su
<1>8. ApplyEvent(g, ev).elem = su.elem
  BY <1>6, <1>7
<1> QED BY <1>5, <1>6, <1>8 DEF e, m, a

\* The elements after an event are those before it and those it shapes.
LEMMA EventElems ==
  ASSUME NEW g, GraphOK(g), NEW ev \in Event, Contained(ev)
  PROVE  DOMAIN ApplyEvent(g, ev).elem = DOMAIN g.elem \cup ev.shapes
<1>1. /\ ev.muts \in Seq(Change) /\ ev.shapes \in SUBSET Element
  BY EventFields
<1> DEFINE a == AddDecision(g, ev)
<1>2. /\ GraphOK(a) /\ a.elem = g.elem
      /\ ApplyEvent(g, ev).elem
           = EnsureElements(FoldLeft(ApplyMutation, a, ev.muts), ev.shapes, FALSE).elem
  BY AddDecisionIs, ApplyEventElem
<1> HIDE DEF a
<1> DEFINE m == FoldLeft(ApplyMutation, a, ev.muts)
<1>3. GraphOK(m) /\ DOMAIN a.elem \subseteq DOMAIN m.elem /\ DOMAIN m.elem \subseteq DOMAIN a.elem \cup ev.shapes
  BY <1>1, <1>2, MutationsKeep, MutationsElems DEF Contained
<1> HIDE DEF m
<1>4. DOMAIN EnsureElements(m, ev.shapes, FALSE).elem = DOMAIN m.elem \cup ev.shapes
  BY <1>1, <1>3, EnsureIs
<1> QED BY <1>2, <1>3, <1>4 DEF m

\* So events keep the elements those that are shaped.
LEMMA EventShaped ==
  ASSUME NEW g, GraphOK(g), Shaped(g), NEW ev \in Event, Contained(ev)
  PROVE  Shaped(ApplyEvent(g, ev))
<1> DEFINE r == ApplyEvent(g, ev)
<1>1. DOMAIN r.elem = DOMAIN g.elem \cup ev.shapes
  BY EventElems
<1>2. DOMAIN r.shape = DOMAIN g.shape \cup ({ev.dec} \X ev.shapes)
  BY ShapeEdges
<1> HIDE DEF r
<1>3. \A d, e : <<d, e>> \in {ev.dec} \X ev.shapes <=> d = ev.dec /\ e \in ev.shapes
  OBVIOUS
<1>4. Shaped(r)
  BY <1>1, <1>2, <1>3 DEF Shaped
<1> QED BY <1>4 DEF r

\* And so do many events.
LEMMA AllShaped ==
  ASSUME NEW g, GraphOK(g), Shaped(g), NEW E \in SUBSET Event, IsFiniteSet(E),
         \A ev \in E : Contained(ev)
  PROVE  GraphOK(ApplyAll(g, E)) /\ Shaped(ApplyAll(g, E))
<1> DEFINE P == {S \in SUBSET E : GraphOK(ApplyAll(g, S)) /\ Shaped(ApplyAll(g, S))}
<1>1. ASSUME NEW S \in SUBSET E, \A x \in S : S \ {x} \in P PROVE S \in P
  <2>1. IsFiniteSet(S) /\ S \in SUBSET Event
    BY FS_Subset
  <2>2. CASE S = {}
    <3>1. ApplyAll(g, S) = g
      BY <2>1, <2>2, ApplyAllIs
    <3> QED BY <3>1
  <2>3. CASE S # {}
    <3> DEFINE n == Newest(S)
    <3>1. n \in S /\ n \in Event
      BY <2>1, <2>3, NewestIs
    <3>2. ApplyAll(g, S) = ApplyEvent(ApplyAll(g, S \ {n}), n)
      BY <2>1, <2>3, ApplyAllIs
    <3> HIDE DEF n
    <3>3. GraphOK(ApplyAll(g, S \ {n})) /\ Shaped(ApplyAll(g, S \ {n})) /\ Contained(n)
      BY <1>1, <3>1
    <3> DEFINE h == ApplyAll(g, S \ {n})
    <3> HIDE DEF h
    <3>4. GraphOK(h) /\ Shaped(h)
      BY <3>3 DEF h
    <3>5. GraphOK(ApplyEvent(h, n))
      BY <3>1, <3>4, ApplyEventIs
    <3>6. Shaped(ApplyEvent(h, n))
      BY <3>1, <3>3, <3>4, EventShaped
    <3>7. ApplyAll(g, S) = ApplyEvent(h, n)
      BY <3>2 DEF h
    <3> HIDE DEF P
    <3>8. GraphOK(ApplyAll(g, S)) /\ Shaped(ApplyAll(g, S))
      BY <3>5, <3>6, <3>7, Zenon
    <3> QED BY <3>8, Zenon DEF P
  <2> QED BY <2>2, <2>3
<1> HIDE DEF P
<1>2. \A S \in SUBSET E : S \in P
  BY <1>1, FiniteInduction
<1>3. E \in P
  BY <1>2
<1> QED BY <1>3 DEF P

\* From nothing, a replay makes what it shapes.
LEMMA ReplayShaped ==
  ASSUME NEW E \in SUBSET Event, IsFiniteSet(E), \A ev \in E : Contained(ev)
  PROVE  GraphOK(Replay(E)) /\ Shaped(Replay(E))
<1>1. EmptyGraph.elem = <<>> /\ EmptyGraph.shape = <<>>
  BY DEF EmptyGraph
<1>2. DOMAIN <<>> = {}
  OBVIOUS
<1>3. Shaped(EmptyGraph)
  BY <1>1, <1>2 DEF Shaped
<1> QED BY <1>3, EmptyGraphOK, AllShaped DEF Replay

------------------------------------------------------------------------------
(* Elements are what decisions shape.                                      *)

\* Every event there is shapes what its mutations name.
AllContained ==
  /\ \A s \in Store : \A ev \in log[s] : Contained(ev)
  /\ \A ev \in bucket : Contained(ev)

\* The elements of every graph are those that its decisions shape.
ShapedInv ==
  TypeInv /\ AllContained /\ \A s \in Store : HasGraph(s) => Shaped(graph[s])

\* What a sync brings or re-emits was written so.
LEMMA ContainedSync ==
  ASSUME TypeInv, AllContained, NEW s \in Store, NEW got \in Pulls(s), Sync(s, got) \/ SyncFails(s, got)
  PROVE  AllContained'
<1> DEFINE after == Reconciled(s) \cup got
<1>0. LogOK /\ WriterOK
  BY DEF TypeInv
<1>1. /\ log' = [log EXCEPT ![s] = after] /\ NextLamport(after) <= MaxLamport + 1
      /\ bucket' \in {bucket, bucket \cup Own(s, after)}
  BY DEF Sync, SyncFails
<1>2. Says(Reconciled(s), log[s]) /\ got \subseteq bucket
  BY <1>0, <1>1, AfterIs
<1>3. ASSUME NEW x \in after PROVE Contained(x)
  <2>1. CASE x \in got
    BY <1>2, <2>1 DEF AllContained
  <2>2. CASE x \in Reconciled(s)
    <3>1. PICK y \in log[s] : Content(y) = Content(x)
      BY <1>2, <2>2 DEF Says
    <3>2. x.muts = y.muts /\ x.shapes = y.shapes
      BY <3>1 DEF Content
    <3> QED BY <3>2 DEF AllContained, Contained
  <2> QED BY <2>1, <2>2
<1> HIDE DEF after
<1>4. log'[s] = after /\ \A t \in Store : t # s => log'[t] = log[t]
  BY <1>0, <1>1 DEF LogOK
<1>5. \A ev \in bucket' : ev \in bucket \/ ev \in after
  BY <1>1 DEF Own
<1> QED BY <1>3, <1>4, <1>5 DEF AllContained

\* A graph that is opened to be written to.
LEMMA ShapedOpen ==
  ASSUME ShapedInv, NEW s \in Store
  PROVE  GraphOK(OpenWrite(graph[s], log[s])) /\ Shaped(OpenWrite(graph[s], log[s]))
<1>1. log[s] \in SUBSET Event /\ IsFiniteSet(log[s]) /\ \A ev \in log[s] : Contained(ev)
  BY DEF ShapedInv, TypeInv, LogOK, AllContained
<1>2. graph[s] # NoGraph => GraphOK(graph[s]) /\ Shaped(graph[s])
  BY DEF ShapedInv, TypeInv, GraphsOK, Projects, HasGraph
<1> QED BY <1>1, <1>2, ReplayShaped DEF OpenWrite

\* An ingest adds one event.
LEMMA ShapedIngest ==
  ASSUME ShapedInv, NEW s \in Store, NEW d \in Decision,
         Ingest(s, d) \/ IngestNoOp(s, d) \/ IngestFails(s, d)
  PROVE  /\ AllContained'
         /\ \A t \in Store : graph'[t] # NoGraph => Shaped(graph'[t])
<1> DEFINE g == OpenWrite(graph[s], log[s])
           ev == BuildEvent(g, d, NextLamport(log[s]), writer[s])
<1>0. /\ TypeInv /\ LogOK /\ DOMAIN graph = Store /\ bucket' = bucket
      /\ \A t \in Store : graph[t] # NoGraph => Shaped(graph[t])
  BY DEF ShapedInv, TypeInv, GraphsOK, HasGraph, Ingest, IngestNoOp, IngestFails
<1>1. GraphOK(g) /\ Shaped(g)
  BY ShapedOpen
<1>2. Contained(ev) /\ (ev.lam <= MaxLamport => ev \in Event)
  BY <1>0, BuildContained, NewEvent
<1>3. /\ log' \in {log, [log EXCEPT ![s] = @ \cup {ev}]}
      /\ \/ graph' = [graph EXCEPT ![s] = g]
         \/ graph' = [graph EXCEPT ![s] = ApplyEvent(g, ev)] /\ ev.lam <= MaxLamport
  BY DEF Ingest, IngestNoOp, IngestFails
<1> HIDE DEF g, ev
<1>4. ev.lam <= MaxLamport => Shaped(ApplyEvent(g, ev))
  BY <1>1, <1>2, EventShaped
<1>5. \A t \in Store : \A x \in log'[t] : x \in log[t] \/ x = ev
  BY <1>0, <1>3 DEF LogOK
<1>6. AllContained'
  BY <1>0, <1>2, <1>5 DEF ShapedInv, AllContained
<1>7. \A t \in Store : graph'[t] # NoGraph => Shaped(graph'[t])
  BY <1>0, <1>1, <1>3, <1>4
<1> QED BY <1>6, <1>7

\* A pull is applied or replayed.
LEMMA ShapedPull ==
  ASSUME NEW g, g # NoGraph => GraphOK(g) /\ Shaped(g), NEW before, NEW after \in SUBSET Event,
         IsFiniteSet(after), \A ev \in after : Contained(ev), ApplyPulled(g, before, after) # NoGraph
  PROVE  Shaped(ApplyPulled(g, before, after))
<1> DEFINE opened == OpenWrite(g, after)
           pulled == after \ before
<1>1. GraphOK(opened) /\ Shaped(opened)
  BY ReplayShaped DEF OpenWrite
<1>2. IsFiniteSet(pulled) /\ pulled \in SUBSET Event /\ \A ev \in pulled : Contained(ev)
  BY FS_Subset
<1>3. ApplyPulled(g, before, after) \in {g, ApplyAll(opened, pulled), Replay(after)}
  BY DEF ApplyPulled
<1> HIDE DEF opened, pulled
<1>4. Shaped(ApplyAll(opened, pulled)) /\ Shaped(Replay(after))
  BY <1>1, <1>2, AllShaped, ReplayShaped
<1> QED BY <1>3, <1>4

\* No step makes an element that no decision shapes, or shapes one that is not made.
LEMMA ShapedStep == ASSUME ShapedInv, [Next]_vars PROVE ShapedInv'
<1>0. TypeInv' /\ TypeInv /\ LogOK /\ DOMAIN graph = Store
  BY TypeStep DEF ShapedInv, TypeInv, GraphsOK
<1>1. ASSUME NEW s \in Store, NEW d \in Decision,
             Ingest(s, d) \/ IngestNoOp(s, d) \/ IngestFails(s, d)
      PROVE  ShapedInv'
  BY <1>0, <1>1, ShapedIngest DEF ShapedInv, HasGraph
<1>2. ASSUME NEW s \in Store, NEW got \in Pulls(s), Sync(s, got) \/ SyncFails(s, got) PROVE ShapedInv'
  <2> DEFINE after == Reconciled(s) \cup got
  <2>1. AllContained'
    BY <1>0, <1>2, ContainedSync DEF ShapedInv
  <2>2. log'[s] = after
    BY <1>0, <1>2 DEF Sync, SyncFails, LogOK
  <2>3. after \in SUBSET Event /\ IsFiniteSet(after) /\ \A ev \in after : Contained(ev)
    BY <1>0, <2>1, <2>2 DEF TypeInv, LogOK, AllContained
  <2>4. graph' \in {graph, [graph EXCEPT ![s] = Replay(after)],
                    [graph EXCEPT ![s] = ApplyPulled(graph[s], log[s], after)]}
    BY <1>0, <1>2 DEF Sync, SyncFails
  <2>5. \A t \in Store : graph[t] # NoGraph => GraphOK(graph[t]) /\ Shaped(graph[t])
    BY DEF ShapedInv, TypeInv, GraphsOK, Projects, HasGraph
  <2> HIDE DEF after
  <2>6. /\ Shaped(Replay(after))
        /\ ApplyPulled(graph[s], log[s], after) # NoGraph => Shaped(ApplyPulled(graph[s], log[s], after))
    BY <2>3, <2>5, ReplayShaped, ShapedPull
  <2>7. \A t \in Store : graph'[t] # NoGraph => Shaped(graph'[t])
    BY <1>0, <2>4, <2>5, <2>6
  <2> QED BY <1>0, <2>1, <2>7 DEF ShapedInv, HasGraph
<1>3. ASSUME NEW s \in Store, Rebuild(s) \/ OpenRead(s) \/ LoseGraph(s) PROVE ShapedInv'
  <2>1. /\ UNCHANGED <<log, bucket>>
        /\ graph' \in {[graph EXCEPT ![s] = Replay(log[s])], [graph EXCEPT ![s] = NoGraph]}
    BY <1>3 DEF Rebuild, OpenRead, LoseGraph, OpenWrite
  <2>2. Shaped(Replay(log[s])) /\ \A t \in Store : graph[t] # NoGraph => Shaped(graph[t])
    BY <1>0, ReplayShaped DEF ShapedInv, LogOK, AllContained, HasGraph
  <2>3. \A t \in Store : graph'[t] # NoGraph => Shaped(graph'[t])
    BY <1>0, <2>1, <2>2
  <2> QED BY <1>0, <2>1, <2>3 DEF ShapedInv, HasGraph, AllContained
<1>4. CASE UNCHANGED <<log, graph, bucket>>
  BY <1>0, <1>4 DEF ShapedInv, HasGraph, AllContained
<1>5. ASSUME NEW s \in Store, RebuildFails(s) PROVE ShapedInv'
  <2>1. UNCHANGED <<log, bucket>>
    BY <1>5 DEF RebuildFails
  <2>2. PICK part \in Begun(log[s]) : graph' = [graph EXCEPT ![s] = Replay(part)]
    BY <1>5 DEF RebuildFails
  <2>3. part \in SUBSET Event /\ IsFiniteSet(part) /\ \A ev \in part : Contained(ev)
    BY <1>0, <2>2, FS_Subset DEF ShapedInv, LogOK, AllContained, Begun
  <2>4. Shaped(Replay(part)) /\ \A t \in Store : graph[t] # NoGraph => Shaped(graph[t])
    BY <2>3, ReplayShaped DEF ShapedInv, HasGraph
  <2>5. \A t \in Store : graph'[t] # NoGraph => Shaped(graph'[t])
    BY <1>0, <2>2, <2>4
  <2> QED BY <1>0, <2>1, <2>5 DEF ShapedInv, HasGraph, AllContained
<1>6. \/ \E s \in Store : \E d \in Decision : Ingest(s, d) \/ IngestNoOp(s, d) \/ IngestFails(s, d)
      \/ \E s \in Store : \E got \in Pulls(s) : Sync(s, got) \/ SyncFails(s, got)
      \/ \E s \in Store : Rebuild(s) \/ OpenRead(s) \/ LoseGraph(s)
      \/ \E s \in Store : RebuildFails(s)
      \/ UNCHANGED <<log, graph, bucket>>
  BY DEF Next, Rotate, vars
<1> QED BY <1>1, <1>2, <1>3, <1>4, <1>5, <1>6

\* There is nothing at the start.
LEMMA ShapedInit == Init => ShapedInv
BY TypeInit DEF Init, ShapedInv, AllContained, HasGraph

\* The elements of every graph are at all times those that its decisions shape.
THEOREM ShapedSafe == Spec => []ShapedInv
BY ShapedInit, ShapedStep, PTL DEF Spec

------------------------------------------------------------------------------
(* Histories.                                                              *)

\* A link makes its ends one thing with one history.
LEMMA AliasesAlike ==
  ASSUME NEW g, NEW l \in g.link
  PROVE  History(g, l[1]) = History(g, l[2])
<1>1. AliasClosure(g, l[1]) = AliasClosure(g, l[2])
  BY DEF AliasClosure
<1> QED BY <1>1 DEF History

\* What existed at a time is what decisions until then shape.
LEMMA AsOfShapes ==
  ASSUME ShapedInv, NEW s \in Store, HasGraph(s), faults = 0, NEW cut
  PROVE  AsOf(log[s], cut).elem =
           {e \in DOMAIN graph[s].elem : \E d \in ShapedBy(graph[s], e) : RecordedAt[d] <= cut}
<1> DEFINE g == graph[s]
           early == {ev \in log[s] : RecordedAt[ev.dec] <= cut}
           h == Replay(early)
<1>1. /\ log[s] \in SUBSET Event /\ IsFiniteSet(log[s]) /\ \A ev \in log[s] : Contained(ev)
      /\ Shaped(g) /\ Projects(g, log[s], log[s])
  BY DEF ShapedInv, TypeInv, LogOK, GraphsOK, Owed, AllContained
<1>2. early \in SUBSET Event /\ IsFiniteSet(early) /\ \A ev \in early : Contained(ev)
  BY <1>1, FS_Subset
<1> HIDE DEF g
<1>3. Shaped(h) /\ Projects(h, early, early)
  <2> HIDE DEF early
  <2> QED BY <1>2, ReplayShaped, ReplayProjects
<1>4. \A d, e : <<d, e>> \in DOMAIN g.shape <=> \E ev \in log[s] : ev.dec = d /\ e \in ev.shapes
  <2>1. Backed(g, log[s]) /\ Complete(g, log[s])
    BY <1>1 DEF Projects
  <2>2. ASSUME NEW d, NEW e, <<d, e>> \in DOMAIN g.shape
        PROVE  \E ev \in log[s] : ev.dec = d /\ e \in ev.shapes
    <3>1. \E ev \in log[s] : ev.dec = <<d, e>>[1] /\ <<d, e>>[2] \in ev.shapes
      BY <2>1, <2>2, Zenon DEF Backed
    <3> QED BY <3>1
  <2> QED BY <2>1, <2>2 DEF Complete
<1>5. \A d, e : <<d, e>> \in DOMAIN h.shape <=> \E ev \in early : ev.dec = d /\ e \in ev.shapes
  <2> HIDE DEF h, early
  <2>1. Backed(h, early) /\ Complete(h, early)
    BY <1>3 DEF Projects
  <2>2. ASSUME NEW d, NEW e, <<d, e>> \in DOMAIN h.shape
        PROVE  \E ev \in early : ev.dec = d /\ e \in ev.shapes
    <3>1. \E ev \in early : ev.dec = <<d, e>>[1] /\ <<d, e>>[2] \in ev.shapes
      BY <2>1, <2>2, Zenon DEF Backed
    <3> QED BY <3>1
  <2> QED BY <2>1, <2>2 DEF Complete
<1>6. AsOf(log[s], cut).elem = DOMAIN h.elem
  BY DEF AsOf
<1> HIDE DEF h
<1>7. ASSUME NEW e
      PROVE  e \in DOMAIN h.elem <=>
               e \in DOMAIN g.elem /\ \E d \in ShapedBy(g, e) : RecordedAt[d] <= cut
  <2>1. e \in DOMAIN h.elem <=> \E ev \in log[s] : RecordedAt[ev.dec] <= cut /\ e \in ev.shapes
    BY <1>3, <1>5 DEF Shaped
  <2>2. ASSUME NEW ev \in log[s], RecordedAt[ev.dec] <= cut, e \in ev.shapes
        PROVE  e \in DOMAIN g.elem /\ \E d \in ShapedBy(g, e) : RecordedAt[d] <= cut
    <3>1. <<ev.dec, e>> \in DOMAIN g.shape /\ ev.dec \in Decision
      BY <1>1, <1>4, <2>2, EventFields
    <3> QED BY <1>1, <2>2, <3>1 DEF Shaped, ShapedBy
  <2>3. ASSUME NEW d \in ShapedBy(g, e), RecordedAt[d] <= cut
        PROVE  \E ev \in log[s] : RecordedAt[ev.dec] <= cut /\ e \in ev.shapes
    <3>1. <<d, e>> \in DOMAIN g.shape
      BY DEF ShapedBy
    <3> QED BY <1>4, <2>3, <3>1
  <2> QED BY <2>1, <2>2, <2>3
<1> QED BY <1>6, <1>7 DEF g

\* History and time travel tell one story, whoever recorded what and whichever stores rotated.
THEOREM HistoriesAreWhole == Spec => []HistoryIsWhole
<1>1. ShapedInv => HistoryIsWhole
  BY AliasesAlike, AsOfShapes DEF HistoryIsWhole
<1> QED BY <1>1, ShapedSafe, PTL

------------------------------------------------------------------------------
(* The value of an element.                                                *)

\* The record that a node is.
Nodes(g) ==
  \A e \in DOMAIN g.elem : g.elem[e] = [named |-> g.elem[e].named, val |-> g.elem[e].val]

\* New nodes are nodes, and those that exist stay as they are.
LEMMA EnsureNodes ==
  ASSUME NEW g, GraphOK(g), Nodes(g), NEW els \in SUBSET Element, NEW named
  PROVE  /\ Nodes(EnsureElements(g, els, named))
         /\ DOMAIN EnsureElements(g, els, named).elem = DOMAIN g.elem \cup els
         /\ \A e \in DOMAIN g.elem : EnsureElements(g, els, named).elem[e] = g.elem[e]
<1> DEFINE new == [e \in els |-> [named |-> named, val |-> 0]]
           elem == Create(g.elem, new)
           r == EnsureElements(g, els, named)
<1>1. r.elem = elem
  <2> HIDE DEF elem
  <2>1. r = [g EXCEPT !.elem = elem]
    BY DEF EnsureElements, elem
  <2> QED BY <2>1 DEF GraphOK
<1>2. DOMAIN new = els /\ \A e \in els : new[e] = [named |-> named, val |-> 0]
  OBVIOUS
<1> HIDE DEF new, r
<1>3. /\ DOMAIN elem = DOMAIN g.elem \cup DOMAIN new
      /\ \A e \in DOMAIN g.elem : elem[e] = g.elem[e]
      /\ \A e \in DOMAIN new : e \notin DOMAIN g.elem => elem[e] = new[e]
  BY CreateIs, Zenon
<1> HIDE DEF elem
<1>4. Nodes(r)
  <2> SUFFICES ASSUME NEW e \in DOMAIN r.elem
               PROVE  r.elem[e] = [named |-> r.elem[e].named, val |-> r.elem[e].val]
    BY DEF Nodes
  <2>1. CASE e \in DOMAIN g.elem
    BY <1>1, <1>3, <2>1 DEF Nodes
  <2>2. CASE e \notin DOMAIN g.elem
    BY <1>1, <1>2, <1>3, <2>2
  <2> QED BY <2>1, <2>2
<1> QED BY <1>1, <1>2, <1>3, <1>4 DEF r

\* A property is set on one node.
LEMMA SetPropNodes ==
  ASSUME NEW g, GraphOK(g), Nodes(g), NEW e \in DOMAIN g.elem, NEW val
  PROVE  /\ Nodes(SetProp(g, e, val))
         /\ DOMAIN SetProp(g, e, val).elem = DOMAIN g.elem
         /\ SetProp(g, e, val).elem[e].val = val
         /\ \A x \in DOMAIN g.elem : x # e => SetProp(g, e, val).elem[x] = g.elem[x]
<1> DEFINE elem == [g.elem EXCEPT ![e].val = val]
           r == SetProp(g, e, val)
<1>1. r.elem = elem
  <2>1. r = [g EXCEPT !.elem = elem]
    BY DEF SetProp
  <2> HIDE DEF elem
  <2> QED BY <2>1 DEF GraphOK
<1>2. g.elem[e] = [named |-> g.elem[e].named, val |-> g.elem[e].val]
  BY DEF Nodes
<1>3. /\ DOMAIN elem = DOMAIN g.elem /\ elem[e] = [g.elem[e] EXCEPT !.val = val]
      /\ \A x \in DOMAIN g.elem : x # e => elem[x] = g.elem[x]
  OBVIOUS
<1>4. elem[e] = [named |-> g.elem[e].named, val |-> val]
  BY <1>2, <1>3
<1> HIDE DEF elem, r
<1>5. \A x \in DOMAIN elem : elem[x] = [named |-> elem[x].named, val |-> elem[x].val]
  <2> SUFFICES ASSUME NEW x \in DOMAIN elem
               PROVE  elem[x] = [named |-> elem[x].named, val |-> elem[x].val]
    OBVIOUS
  <2>1. CASE x = e
    BY <1>4, <2>1
  <2>2. CASE x # e
    BY <1>3, <2>2 DEF Nodes
  <2> QED BY <2>1, <2>2
<1>6. elem[e].val = val
  BY <1>4
<1> QED BY <1>1, <1>3, <1>5, <1>6 DEF r, Nodes

\* A mutation gives the properties it assigns and no others.
LEMMA MutationValue ==
  ASSUME NEW g, GraphOK(g), Nodes(g), NEW m \in Change
  PROVE  LET r == ApplyMutation(g, m)
         IN  /\ Nodes(r)
             /\ \A e : Assigns(m, e) => e \in DOMAIN r.elem /\ r.elem[e].val = m.val
             /\ \A e \in DOMAIN g.elem :
                  ~Assigns(m, e) => e \in DOMAIN r.elem /\ r.elem[e].val = g.elem[e].val
<1>1. /\ m.op \in {"upsert", "set", "link", "retire"} /\ m.el \in Element /\ m.to \in Element
  BY DEF Change, Op
<1> DEFINE up == EnsureElements(g, {m.el}, TRUE)
           one == EnsureElements(g, {m.el}, FALSE)
           two == EnsureElements(one, {m.to}, FALSE)
           linked == [two EXCEPT !.link = @ \cup {<<m.el, m.to>>}]
           cut == [g EXCEPT !.link = @ \ {<<m.el, m.to>>}]
           r == ApplyMutation(g, m)
           Keeps(h, e) == e \in DOMAIN h.elem /\ h.elem[e].val = g.elem[e].val
           Gives(h) == /\ Nodes(h) /\ m.el \in DOMAIN h.elem /\ h.elem[m.el].val = m.val
                       /\ \A e \in DOMAIN g.elem : e # m.el => Keeps(h, e)
<1>2. ASSUME NEW h, GraphOK(h), Nodes(h), m.el \in DOMAIN h.elem,
             \A e \in DOMAIN g.elem : Keeps(h, e)
      PROVE  Gives(SetProp(h, m.el, m.val))
  <2> DEFINE k == SetProp(h, m.el, m.val)
  <2>1. /\ Nodes(k) /\ DOMAIN k.elem = DOMAIN h.elem /\ k.elem[m.el].val = m.val
        /\ \A x \in DOMAIN h.elem : x # m.el => k.elem[x] = h.elem[x]
    BY <1>2, SetPropNodes
  <2> HIDE DEF k
  <2> QED BY <1>2, <2>1 DEF k
<1>3. /\ GraphOK(up) /\ Nodes(up) /\ m.el \in DOMAIN up.elem /\ \A e \in DOMAIN g.elem : Keeps(up, e)
      /\ GraphOK(one) /\ Nodes(one) /\ m.el \in DOMAIN one.elem /\ \A e \in DOMAIN g.elem : Keeps(one, e)
  <2>1. {m.el} \in SUBSET Element
    BY <1>1
  <2>2. GraphOK(up) /\ GraphOK(one)
    BY <2>1, EnsureIs, Zenon
  <2>3. /\ Nodes(up) /\ DOMAIN up.elem = DOMAIN g.elem \cup {m.el}
        /\ \A e \in DOMAIN g.elem : up.elem[e] = g.elem[e]
    BY <2>1, EnsureNodes, Zenon
  <2>4. /\ Nodes(one) /\ DOMAIN one.elem = DOMAIN g.elem \cup {m.el}
        /\ \A e \in DOMAIN g.elem : one.elem[e] = g.elem[e]
    BY <2>1, EnsureNodes, Zenon
  <2> HIDE DEF up, one
  <2> QED BY <2>2, <2>3, <2>4
<1>4. /\ GraphOK(two) /\ Nodes(two) /\ \A e \in DOMAIN g.elem : Keeps(two, e)
  <2> HIDE DEF one
  <2>1. {m.to} \in SUBSET Element /\ GraphOK(one) /\ Nodes(one)
    BY <1>1, <1>3
  <2>2. GraphOK(two)
    BY <2>1, EnsureIs, Zenon
  <2>3. /\ Nodes(two) /\ DOMAIN two.elem = DOMAIN one.elem \cup {m.to}
        /\ \A e \in DOMAIN one.elem : two.elem[e] = one.elem[e]
    BY <2>1, EnsureNodes, Zenon
  <2> HIDE DEF two
  <2> QED BY <1>3, <2>2, <2>3
<1>5. Gives(SetProp(up, m.el, m.val)) /\ Gives(SetProp(one, m.el, m.val))
  <2> HIDE DEF up, one, Gives, Keeps
  <2> QED BY <1>2, <1>3
<1>6. linked.elem = two.elem /\ cut.elem = g.elem
  <2> HIDE DEF two
  <2> QED BY <1>4 DEF GraphOK
<1>7. \/ /\ r = up /\ m.op = "upsert" /\ m.val = 0
      \/ /\ r = SetProp(up, m.el, m.val) /\ m.op = "upsert" /\ m.val # 0
      \/ /\ r = SetProp(one, m.el, m.val) /\ m.op = "set"
      \/ r \in {linked, cut} /\ m.op \in {"link", "retire"}
  BY <1>1 DEF ApplyMutation, EnsureElement
<1> HIDE DEF up, one, two, linked, cut, r
<1>8. CASE r = up /\ m.op = "upsert" /\ m.val = 0
  BY <1>3, <1>8 DEF Assigns, r
<1>9. CASE Gives(r) /\ (m.op = "set" \/ (m.op = "upsert" /\ m.val # 0))
  BY <1>9 DEF Assigns, r
<1>10. CASE r \in {linked, cut} /\ m.op \in {"link", "retire"}
  <2>1. Nodes(r) /\ \A e \in DOMAIN g.elem : Keeps(r, e)
    BY <1>4, <1>6, <1>10 DEF Nodes
  <2> QED BY <1>10, <2>1 DEF Assigns, r
<1> HIDE DEF Gives
<1> QED BY <1>5, <1>7, <1>8, <1>9, <1>10

\* So does a list of mutations: the last one that assigns decides.
LEMMA MutationsValue ==
  ASSUME NEW g, GraphOK(g), Nodes(g), NEW muts \in Seq(Change)
  PROVE  LET r == FoldLeft(ApplyMutation, g, muts)
         IN  /\ Nodes(r)
             /\ \A e : (\E m \in ToSet(muts) : Assigns(m, e)) =>
                  /\ e \in DOMAIN r.elem
                  /\ \E m \in ToSet(muts) : Assigns(m, e) /\ m.val = r.elem[e].val
             /\ \A e \in DOMAIN g.elem : (~\E m \in ToSet(muts) : Assigns(m, e)) =>
                  e \in DOMAIN r.elem /\ r.elem[e].val = g.elem[e].val
<1> DEFINE Done(q) == FoldLeft(ApplyMutation, g, q)
           Gives(h, X) ==
             /\ Nodes(h)
             /\ \A e : (\E m \in X : Assigns(m, e)) =>
                  /\ e \in DOMAIN h.elem
                  /\ \E m \in X : Assigns(m, e) /\ m.val = h.elem[e].val
             /\ \A e \in DOMAIN g.elem : (~\E m \in X : Assigns(m, e)) =>
                  e \in DOMAIN h.elem /\ h.elem[e].val = g.elem[e].val
           S == {q \in Seq(Change) : Gives(Done(q), ToSet(q))}
<1>1. <<>> \in S
  <2>1. Done(<<>>) = g
    BY ApplyingFold, Applying!FoldLeftEmpty, Zenon
  <2>2. ToSet(<<>>) = {} /\ <<>> \in Seq(Change)
    BY DEF ToSet
  <2>3. Gives(g, {})
    OBVIOUS
  <2> HIDE DEF Done, Gives
  <2> QED BY <2>1, <2>2, <2>3
<1>2. ASSUME NEW h, NEW k, NEW X, NEW m, Gives(h, X), Nodes(k),
             \A e : Assigns(m, e) => e \in DOMAIN k.elem /\ k.elem[e].val = m.val,
             \A e \in DOMAIN h.elem :
               ~Assigns(m, e) => e \in DOMAIN k.elem /\ k.elem[e].val = h.elem[e].val
      PROVE  Gives(k, X \cup {m})
  <2>1. ASSUME NEW e, \E x \in X \cup {m} : Assigns(x, e)
        PROVE  /\ e \in DOMAIN k.elem
               /\ \E x \in X \cup {m} : Assigns(x, e) /\ x.val = k.elem[e].val
    <3>1. CASE Assigns(m, e)
      BY <1>2, <3>1
    <3>2. CASE ~Assigns(m, e)
      <4>1. PICK x \in X : Assigns(x, e) /\ x.val = h.elem[e].val
        BY <1>2, <2>1, <3>2
      <4>2. e \in DOMAIN h.elem
        BY <1>2, <4>1
      <4> QED BY <1>2, <3>2, <4>1, <4>2
    <3> QED BY <3>1, <3>2
  <2>2. ASSUME NEW e \in DOMAIN g.elem, ~\E x \in X \cup {m} : Assigns(x, e)
        PROVE  e \in DOMAIN k.elem /\ k.elem[e].val = g.elem[e].val
    BY <1>2, <2>2
  <2> QED BY <1>2, <2>1, <2>2
<1>3. ASSUME NEW q \in Seq(Change), NEW m \in Change, q \in S PROVE Append(q, m) \in S
  <2>1. Applying!FoldLeft(ApplyMutation, g, Append(q, m))
          = ApplyMutation(Applying!FoldLeft(ApplyMutation, g, q), m)
    BY Applying!FoldLeftAppend, Zenon
  <2>2. Done(Append(q, m)) = ApplyMutation(Done(q), m)
    BY <2>1, ApplyingFold, Zenon
  <2>3. GraphOK(Done(q))
    BY MutationsKeep
  <2>4. ToSet(Append(q, m)) = ToSet(q) \cup {m} /\ Append(q, m) \in Seq(Change)
    BY ToSetAppend
  <2>5. Gives(Done(q), ToSet(q))
    BY <1>3
  <2> HIDE DEF Done
  <2> DEFINE h == Done(q)
             k == ApplyMutation(h, m)
  <2>6. Nodes(h)
    BY <2>5
  <2>7. /\ Nodes(k)
        /\ \A e : Assigns(m, e) => e \in DOMAIN k.elem /\ k.elem[e].val = m.val
        /\ \A e \in DOMAIN h.elem :
             ~Assigns(m, e) => e \in DOMAIN k.elem /\ k.elem[e].val = h.elem[e].val
    BY <2>3, <2>6, MutationValue
  <2> HIDE DEF Gives
  <2>8. Gives(k, ToSet(q) \cup {m})
    <3> HIDE DEF h, k
    <3> QED BY <1>2, <2>5, <2>7 DEF h
  <2> QED BY <2>2, <2>4, <2>8
<1> HIDE DEF S
<1>4. \A q \in Seq(Change) : q \in S
  BY <1>1, <1>3, Applying!SeqInduction
<1>5. muts \in S
  BY <1>4
<1> QED BY <1>5 DEF S

\* An event gives e its property.
Sets(ev, e) == \E m \in ToSet(ev.muts) : Assigns(m, e)

\* The last mutation of an event that assigns decides, or nothing changes.
LEMMA EventValue ==
  ASSUME NEW g, GraphOK(g), Nodes(g), NEW ev \in Event
  PROVE  LET r == ApplyEvent(g, ev)
         IN  /\ Nodes(r)
             /\ \A e : Sets(ev, e) =>
                  /\ e \in DOMAIN r.elem
                  /\ \E m \in ToSet(ev.muts) : Assigns(m, e) /\ m.val = r.elem[e].val
             /\ \A e \in DOMAIN g.elem : ~Sets(ev, e) =>
                  e \in DOMAIN r.elem /\ r.elem[e].val = g.elem[e].val
<1> DEFINE a == AddDecision(g, ev)
           m == FoldLeft(ApplyMutation, a, ev.muts)
           f == EnsureElements(m, ev.shapes, FALSE)
           r == ApplyEvent(g, ev)
<1>1. ev.muts \in Seq(Change) /\ ev.shapes \in SUBSET Element
  BY EventFields
<1>2. GraphOK(a) /\ a.elem = g.elem /\ r.elem = f.elem
  BY AddDecisionIs, ApplyEventElem
<1> HIDE DEF a
<1>3. Nodes(a)
  BY <1>2 DEF Nodes
<1>4. /\ GraphOK(m) /\ Nodes(m)
      /\ \A e : Sets(ev, e) =>
           /\ e \in DOMAIN m.elem
           /\ \E x \in ToSet(ev.muts) : Assigns(x, e) /\ x.val = m.elem[e].val
      /\ \A e \in DOMAIN a.elem : ~Sets(ev, e) =>
           e \in DOMAIN m.elem /\ m.elem[e].val = a.elem[e].val
  BY <1>1, <1>2, <1>3, MutationsKeep, MutationsValue DEF Sets
<1> HIDE DEF m
<1>5. /\ Nodes(f) /\ DOMAIN f.elem = DOMAIN m.elem \cup ev.shapes
      /\ \A e \in DOMAIN m.elem : f.elem[e] = m.elem[e]
  <2>1. GraphOK(m) /\ Nodes(m) /\ ev.shapes \in SUBSET Element
    BY <1>1, <1>4
  <2> QED BY <2>1, EnsureNodes, Zenon
<1> HIDE DEF f, r
<1>6. /\ Nodes(r)
      /\ \A e : Sets(ev, e) =>
           /\ e \in DOMAIN r.elem
           /\ \E x \in ToSet(ev.muts) : Assigns(x, e) /\ x.val = r.elem[e].val
      /\ \A e \in DOMAIN g.elem : ~Sets(ev, e) =>
           e \in DOMAIN r.elem /\ r.elem[e].val = g.elem[e].val
  <2>1. Nodes(r)
    BY <1>2, <1>5 DEF Nodes
  <2>2. ASSUME NEW e, Sets(ev, e)
        PROVE  /\ e \in DOMAIN r.elem
               /\ \E x \in ToSet(ev.muts) : Assigns(x, e) /\ x.val = r.elem[e].val
    BY <1>2, <1>4, <1>5, <2>2
  <2>3. ASSUME NEW e \in DOMAIN g.elem, ~Sets(ev, e)
        PROVE  e \in DOMAIN r.elem /\ r.elem[e].val = g.elem[e].val
    BY <1>2, <1>4, <1>5, <2>3
  <2> QED BY <2>1, <2>2, <2>3
<1> QED BY <1>6 DEF r

\* After a replay an element has the value that the newest of its setters gave it.
LiveFrom(g, E) ==
  \A e : (\E ev \in E : Sets(ev, e)) =>
    /\ e \in DOMAIN g.elem
    /\ \E ev \in E : /\ \E m \in ToSet(ev.muts) : Assigns(m, e) /\ m.val = g.elem[e].val
                     /\ \A later \in E : Sets(later, e) => ~Before(ev, later)

\* Events are applied from the oldest to the newest, so the newest setter is the last.
LEMMA ReplayValue ==
  ASSUME NEW E \in SUBSET Event, IsFiniteSet(E)
  PROVE  LiveFrom(Replay(E), E)
<1> DEFINE At(S) == ApplyAll(EmptyGraph, S)
           P == {S \in SUBSET E : GraphOK(At(S)) /\ Nodes(At(S)) /\ LiveFrom(At(S), S)}
<1>1. ASSUME NEW S \in SUBSET E, \A x \in S : S \ {x} \in P PROVE S \in P
  <2>1. IsFiniteSet(S) /\ S \in SUBSET Event
    BY FS_Subset
  <2>2. CASE S = {}
    <3>1. At(S) = EmptyGraph
      BY <2>1, <2>2, ApplyAllIs
    <3>2. EmptyGraph.elem = <<>> /\ DOMAIN <<>> = {}
      BY DEF EmptyGraph
    <3>3. Nodes(EmptyGraph) /\ LiveFrom(EmptyGraph, S)
      BY <2>2, <3>2 DEF Nodes, LiveFrom
    <3> HIDE DEF At
    <3> QED BY <3>1, <3>3, EmptyGraphOK
  <2>3. CASE S # {}
    <3> DEFINE n == Newest(S)
               h == At(S \ {n})
               r == ApplyEvent(h, n)
    <3>1. n \in S /\ n \in Event /\ \A ev \in S : ~Before(n, ev)
      BY <2>1, <2>3, NewestIs
    <3>2. At(S) = r
      BY <2>1, <2>3, ApplyAllIs
    <3> HIDE DEF n
    <3>3. GraphOK(h) /\ Nodes(h) /\ LiveFrom(h, S \ {n})
      BY <1>1, <3>1
    <3> HIDE DEF h, P, At
    <3>4. GraphOK(r)
      BY <3>1, <3>3, ApplyEventIs
    <3>5. /\ Nodes(r)
          /\ \A e : Sets(n, e) =>
               /\ e \in DOMAIN r.elem
               /\ \E m \in ToSet(n.muts) : Assigns(m, e) /\ m.val = r.elem[e].val
          /\ \A e \in DOMAIN h.elem : ~Sets(n, e) =>
               e \in DOMAIN r.elem /\ r.elem[e].val = h.elem[e].val
      BY <3>1, <3>3, EventValue, Zenon
    <3> HIDE DEF r
    <3>6. ASSUME NEW e, \E ev \in S : Sets(ev, e)
          PROVE  /\ e \in DOMAIN r.elem
                 /\ \E ev \in S : /\ \E m \in ToSet(ev.muts) : Assigns(m, e) /\ m.val = r.elem[e].val
                                  /\ \A later \in S : Sets(later, e) => ~Before(ev, later)
      <4>1. CASE Sets(n, e)
        BY <3>1, <3>5, <4>1
      <4>2. CASE ~Sets(n, e)
        <5>1. \E ev \in S \ {n} : Sets(ev, e)
          BY <3>6, <4>2
        <5>2. PICK ev \in S \ {n} :
                /\ e \in DOMAIN h.elem
                /\ \E m \in ToSet(ev.muts) : Assigns(m, e) /\ m.val = h.elem[e].val
                /\ \A later \in S \ {n} : Sets(later, e) => ~Before(ev, later)
          BY <3>3, <5>1 DEF LiveFrom
        <5>3. e \in DOMAIN r.elem /\ r.elem[e].val = h.elem[e].val
          BY <3>5, <4>2, <5>2
        <5>4. \A later \in S : Sets(later, e) => ~Before(ev, later)
          BY <4>2, <5>2
        <5> QED BY <5>2, <5>3, <5>4
      <4> QED BY <4>1, <4>2
    <3>7. LiveFrom(r, S)
      BY <3>6 DEF LiveFrom
    <3> QED BY <3>2, <3>4, <3>5, <3>7 DEF P
  <2> QED BY <2>2, <2>3
<1> HIDE DEF P
<1>2. \A S \in SUBSET E : S \in P
  BY <1>1, FiniteInduction
<1>3. E \in P
  BY <1>2
<1> QED BY <1>3 DEF P, Replay

\* Who supersedes was stamped later, so the newest setter is superseded by no other.
LEMMA LiveValues == ASSUME OrderInv PROVE LiveValueCurrent
<1> SUFFICES ASSUME NEW s \in Store, HasGraph(s), NEW e \in DOMAIN graph[s].elem,
                    \E ev \in log[s] : Sets(ev, e)
             PROVE  \E ev \in log[s] :
                      /\ Sets(ev, e)
                      /\ \E m \in ToSet(ev.muts) : Assigns(m, e) /\ m.val = graph[s].elem[e].val
                      /\ ~\E later \in log[s] : Sets(later, e) /\ ev.dec \in later.supersedes
  BY DEF LiveValueCurrent, Sets
<1>1. /\ log[s] \in SUBSET Event /\ IsFiniteSet(log[s]) /\ faults = 0 /\ Ordered /\ GraphIsReplay
  BY DEF OrderInv, HeadInv, ReplayInv, AuthorInv, OnceInv, TypeInv, LogOK
<1>2. \A a, b \in log[s] : a.dec \in b.supersedes => Before(a, b)
  BY <1>1 DEF Ordered, Before
<1>3. graph[s] = Replay(log[s])
  BY <1>1, <1>2 DEF GraphIsReplay, InOrder
<1>4. LiveFrom(graph[s], log[s])
  BY <1>1, <1>3, ReplayValue
<1>5. PICK ev \in log[s] :
        /\ \E m \in ToSet(ev.muts) : Assigns(m, e) /\ m.val = graph[s].elem[e].val
        /\ \A later \in log[s] : Sets(later, e) => ~Before(ev, later)
  BY <1>4 DEF LiveFrom
<1> QED BY <1>2, <1>5 DEF Sets

\* The value of an element is never one that a decision about it has superseded, for teams
\* without failures and rotations.
THEOREM LiveValuesAreCurrent == ASSUME ~SameAuthor, Troubled = {} PROVE Spec => []LiveValueCurrent
<1>1. Spec => []OrderInv
  <2>1. OrderInv /\ [Next]_vars => OrderInv'
    BY OrderStep
  <2> QED BY <2>1, OrderInit, PTL DEF Spec
<1> QED BY <1>1, LiveValues, PTL

------------------------------------------------------------------------------
(* Lists in an order.                                                      *)

\* R is a strict total order on S.
Total(R, S) ==
  /\ \A a, b \in S : a # b => <<a, b>> \in R \/ <<b, a>> \in R
  /\ \A a, b, c \in S : <<a, b>> \in R /\ <<b, c>> \in R => <<a, c>> \in R
  /\ \A a \in S : <<a, a>> \notin R

\* The lists of S that are in order.
InLine(S, R) ==
  {list \in SetToSeqs(S) : \A i, j \in DOMAIN list : i < j => <<list[i], list[j]>> \in R}

\* A finite set has a last member.
LEMMA LastIs ==
  ASSUME NEW S, IsFiniteSet(S), NEW R, Total(R, S), S # {}
  PROVE  \E x \in S : \A y \in S \ {x} : <<y, x>> \in R
<1> DEFINE P == {T \in SUBSET S : T = {} \/ \E x \in T : \A y \in T \ {x} : <<y, x>> \in R}
<1>1. ASSUME NEW T \in SUBSET S, \A x \in T : T \ {x} \in P PROVE T \in P
  <2>1. SUFFICES ASSUME NEW x \in T PROVE \E z \in T : \A y \in T \ {z} : <<y, z>> \in R
    OBVIOUS
  <2>2. CASE T \ {x} = {}
    BY <2>2
  <2>3. CASE T \ {x} # {}
    <3>1. PICK z \in T \ {x} : \A y \in (T \ {x}) \ {z} : <<y, z>> \in R
      BY <1>1, <2>3
    <3>2. CASE <<x, z>> \in R
      <4>1. \A y \in T \ {z} : <<y, z>> \in R
        BY <3>1, <3>2
      <4> QED BY <4>1
    <3>3. CASE <<z, x>> \in R
      <4>1. \A y \in T \ {x} : <<y, x>> \in R
        BY <3>1, <3>3 DEF Total
      <4> QED BY <4>1
    <3> QED BY <3>1, <3>2, <3>3 DEF Total
  <2> QED BY <2>2, <2>3
<1> HIDE DEF P
<1>2. \A T \in SUBSET S : T \in P
  BY <1>1, FiniteInduction
<1> QED BY <1>2, S \in SUBSET S DEF P

\* A finite set can be listed in order.
LEMMA LineExists ==
  ASSUME NEW S, IsFiniteSet(S), NEW R, Total(R, S)
  PROVE  InLine(S, R) # {}
<1> DEFINE P == {T \in SUBSET S : InLine(T, R) # {}}
<1>1. ASSUME NEW T \in SUBSET S, \A x \in T : T \ {x} \in P PROVE T \in P
  <2>1. IsFiniteSet(T) /\ Total(R, T)
    BY FS_Subset DEF Total
  <2>2. CASE T = {}
    <3>1. Cardinality(T) = 0 /\ 1 .. 0 = {}
      BY <2>2, FS_EmptySet
    <3>2. [i \in {} |-> i] \in InLine(T, R)
      BY <3>1 DEF InLine, SetToSeqs
    <3> QED BY <3>2
  <2>3. CASE T # {}
    <3>1. PICK x \in T : \A y \in T \ {x} : <<y, x>> \in R
      BY <2>1, <2>3, LastIs
    <3>2. PICK list : list \in InLine(T \ {x}, R)
      BY <1>1, <3>1
    <3> DEFINE n == Cardinality(T \ {x})
               more == [i \in 1 .. n + 1 |-> IF i = n + 1 THEN x ELSE list[i]]
    <3>3. n \in Nat /\ Cardinality(T) = n + 1
      <4>1. IsFiniteSet(T \ {x}) /\ (T \ {x}) \cup {x} = T /\ x \notin T \ {x}
        BY <2>1, <3>1, FS_Subset
      <4> DEFINE U == T \ {x}
      <4> HIDE DEF U
      <4>2. Cardinality(U) \in Nat /\ Cardinality(U \cup {x}) = Cardinality(U) + 1
        BY <4>1, FS_AddElement, FS_CardinalityType DEF U
      <4> QED BY <4>1, <4>2 DEF U
    <3>4. /\ list \in [1 .. n -> T \ {x}] /\ \A i, j \in 1 .. n : i # j => list[i] # list[j]
          /\ \A i, j \in 1 .. n : i < j => <<list[i], list[j]>> \in R
      BY <3>2 DEF InLine, SetToSeqs
    <3> HIDE DEF n
    <3>5. \A i \in 1 .. n + 1 : \/ i = n + 1 /\ more[i] = x
                                \/ i \in 1 .. n /\ more[i] = list[i] /\ list[i] \in T \ {x}
      BY <3>3, <3>4
    <3>6. more \in [1 .. n + 1 -> T] /\ DOMAIN more = 1 .. n + 1
      BY <3>1, <3>5
    <3> HIDE DEF more
    <3>7. \A i, j \in 1 .. n + 1 : i # j => more[i] # more[j]
      BY <3>4, <3>5
    <3>8. \A i, j \in 1 .. n + 1 : i < j => <<more[i], more[j]>> \in R
      BY <3>1, <3>3, <3>4, <3>5
    <3>9. more \in InLine(T, R)
      BY <3>3, <3>6, <3>7, <3>8 DEF InLine, SetToSeqs
    <3> QED BY <3>9
  <2> QED BY <2>2, <2>3
<1> HIDE DEF P
<1>2. \A T \in SUBSET S : T \in P
  BY <1>1, FiniteInduction
<1> QED BY <1>2, S \in SUBSET S DEF P

\* Such a list has every member, once.
LEMMA LineIs ==
  ASSUME NEW S, IsFiniteSet(S), NEW R, NEW list \in InLine(S, R)
  PROVE  /\ list \in Seq(S) /\ Len(list) = Cardinality(S) /\ Cardinality(S) \in Nat
         /\ ToSet(list) = S
         /\ S # {} => \A y \in S \ {list[1]} : <<list[1], y>> \in R
<1> DEFINE n == Cardinality(S)
<1>1. n \in Nat
  BY FS_CardinalityType
<1>2. /\ list \in [1 .. n -> S] /\ \A i, j \in 1 .. n : i # j => list[i] # list[j]
      /\ \A i, j \in 1 .. n : i < j => <<list[i], list[j]>> \in R
  BY DEF InLine, SetToSeqs
<1>3. IsFiniteSet(1 .. n) /\ Cardinality(1 .. n) = n
  <2> HIDE DEF n
  <2> QED BY <1>1, FS_Interval
<1>4. list \in Injection(1 .. n, S)
  <2> HIDE DEF n
  <2> QED BY <1>2 DEF Injection, IsInjective
<1>5. list \in Surjection(1 .. n, S)
  BY <1>3, <1>4, FS_Injection
<1>6. \A y \in S : \E i \in 1 .. n : list[i] = y
  <2> HIDE DEF n
  <2> QED BY <1>5 DEF Surjection
<1> HIDE DEF n
<1>7. list \in Seq(S) /\ Len(list) = n
  BY <1>1, <1>2
<1>8. ToSet(list) = S
  BY <1>2, <1>6 DEF ToSet
<1>9. ASSUME NEW y \in S \ {list[1]} PROVE <<list[1], y>> \in R
  <2>1. PICK i \in 1 .. n : list[i] = y
    BY <1>6
  <2>2. i # 1 /\ 1 \in 1 .. n /\ 1 < i
    BY <1>1, <2>1
  <2> QED BY <1>2, <2>1, <2>2
<1> QED BY <1>1, <1>7, <1>8, <1>9 DEF n

\* Sorted lists in order.
LEMMA SortedIs ==
  ASSUME NEW S, IsFiniteSet(S), NEW R, Total(R, S)
  PROVE  Sorted(S, R) \in InLine(S, R)
<1>1. \E list \in SetToSeqs(S) : \A i, j \in DOMAIN list : i < j => <<list[i], list[j]>> \in R
  BY LineExists DEF InLine
<1>2. /\ Sorted(S, R) \in SetToSeqs(S)
      /\ \A i, j \in DOMAIN Sorted(S, R) : i < j => <<Sorted(S, R)[i], Sorted(S, R)[j]>> \in R
  BY <1>1, Zenon DEF Sorted
<1> QED BY <1>2 DEF InLine

------------------------------------------------------------------------------
(* The sides of a branch.                                                  *)

\* They are listed newest first.
LEMMA SidesAre ==
  ASSUME NEW g, GraphOK(g), NEW e
  PROVE  /\ Sides(g, e) \in Seq(Heads(g, e))
         /\ Len(Sides(g, e)) = Cardinality(Heads(g, e)) /\ Cardinality(Heads(g, e)) \in Nat
         /\ Heads(g, e) # {} => \A d \in Heads(g, e) : g.dec[d] <= g.dec[Sides(g, e)[1]]
<1> DEFINE H == Heads(g, e)
           R == NewestFirst(g)
<1>1. \A d \in H : d \in Decision /\ d \in Nat /\ d \in DOMAIN g.dec /\ g.dec[d] \in Nat
  BY ContentAssumption DEF GraphOK, Heads
<1>2. IsFiniteSet(H)
  BY <1>1, ContentAssumption, FS_Subset
<1>3. \A a, b \in H : <<a, b>> \in R <=> Newer(g, a, b)
  <2> HIDE DEF H
  <2> QED BY <1>1 DEF NewestFirst
<1> HIDE DEF H, R
<1>4. Total(R, H)
  BY <1>1, <1>3 DEF Total, Newer
<1>5. Sides(g, e) \in InLine(H, R)
  BY <1>2, <1>4, SortedIs DEF Sides, H, R
<1> DEFINE sides == Sides(g, e)
<1> HIDE DEF sides
<1>6. /\ sides \in Seq(H) /\ Len(sides) = Cardinality(H) /\ Cardinality(H) \in Nat
      /\ ToSet(sides) = H
      /\ H # {} => \A y \in H \ {sides[1]} : <<sides[1], y>> \in R
  BY <1>2, <1>5, LineIs DEF sides
<1>7. ASSUME NEW d \in H PROVE g.dec[d] <= g.dec[sides[1]]
  <2>1. sides[1] \in H
    <3>1. Len(sides) # 0
      BY <1>2, <1>6, <1>7, FS_EmptySet
    <3> QED BY <1>6, <3>1
  <2>2. CASE d = sides[1]
    BY <1>1, <2>1, <2>2
  <2>3. CASE d # sides[1]
    <3>1. Newer(g, sides[1], d)
      BY <1>3, <1>6, <1>7, <2>1, <2>3
    <3> QED BY <1>1, <2>1, <3>1 DEF Newer
  <2> QED BY <2>2, <2>3
<1> QED BY <1>6, <1>7 DEF sides, H

\* kg context gives as many of them as it may.
LEMMA WhyIs ==
  ASSUME NEW g, GraphOK(g), NEW e
  PROVE  /\ Why(g, e) # <<>> <=> Heads(g, e) # {}
         /\ Len(Why(g, e)) > 1 <=> Cardinality(Heads(g, e)) > 1
         /\ Heads(g, e) # {} => Head(Why(g, e)) = Sides(g, e)[1]
<1> DEFINE H == Heads(g, e)
           sides == Sides(g, e)
           n == Cardinality(H)
           k == Min({WhyMax, n})
<1>1. sides \in Seq(H) /\ Len(sides) = n /\ n \in Nat
  BY SidesAre
<1>2. H = {} <=> n = 0
  <2>1. H \subseteq Decision
    BY DEF GraphOK, Heads
  <2>2. IsFiniteSet(H)
    BY <2>1, ContentAssumption, FS_Subset
  <2> HIDE DEF H
  <2> QED BY <2>2, FS_EmptySet
<1> HIDE DEF H, n, sides
<1>3. k \in {WhyMax, n} /\ k <= WhyMax /\ k <= n
  <2>1. WhyMax \in Nat
    BY ReadsAssumption
  <2>2. \E x \in {WhyMax, n} : \A y \in {WhyMax, n} : x =< y
    BY <1>1, <2>1
  <2>3. k \in {WhyMax, n} /\ \A y \in {WhyMax, n} : k =< y
    BY <2>2, Zenon DEF Min
  <2> QED BY <2>3
<1>4. Why(g, e) = SubSeq(sides, 1, k)
  BY DEF Why, sides, n, H
<1> HIDE DEF k
<1>5. k \in Nat /\ k <= n /\ (k = 0 <=> n = 0) /\ (k > 1 <=> n > 1)
  BY <1>1, <1>3, ReadsAssumption
<1>6. /\ Len(SubSeq(sides, 1, k)) = k
      /\ k # 0 => Head(SubSeq(sides, 1, k)) = sides[1]
      /\ SubSeq(sides, 1, k) # <<>> <=> k # 0
  BY <1>1, <1>5
<1> QED BY <1>2, <1>4, <1>5, <1>6 DEF H, n, sides

\* The time line of the viewer has every decision about the element once, oldest first.
LEMMA TimeLineIs ==
  ASSUME NEW g, GraphOK(g), Joined(g), NEW e
  PROVE  /\ ViewHistory(g, e) \in SetToSeqs(Entries(g, e))
         /\ \A i, j \in DOMAIN ViewHistory(g, e) :
              i < j => ByDate(ViewHistory(g, e)[i], ViewHistory(g, e)[j])
<1> DEFINE D == ShapedBy(g, e)
           entry(d) == [dec |-> d, when |-> RecordedAt[d], lam |-> g.dec[d], head |-> IsHead(g, d, e)]
           X == {entry(d) : d \in D}
           R == {x \in X \X X : Earlier(x[1], x[2])}
<1>1. \A d \in D : d \in Decision /\ d \in Nat /\ g.dec[d] \in Nat /\ RecordedAt[d] \in Nat
  BY ContentAssumption, ReadsAssumption DEF GraphOK, Joined, ShapedBy
<1>2. IsFiniteSet(X)
  <2>1. IsFiniteSet(D)
    BY <1>1, ContentAssumption, FS_Subset
  <2> DEFINE f == [d \in D |-> entry(d)]
  <2>2. f \in Surjection(D, X)
    BY DEF Surjection
  <2> HIDE DEF f, X, D
  <2> QED BY <2>1, <2>2, FS_Surjection
<1>3. \A a \in X : a.when \in Nat /\ a.lam \in Nat /\ a.dec \in Nat
  <2> HIDE DEF D
  <2> QED BY <1>1
<1>4. \A a, b \in X : a.dec = b.dec => a = b
  <2> HIDE DEF D
  <2> QED OBVIOUS
<1>5. Entries(g, e) = X
  BY Zenon DEF Entries
<1> HIDE DEF X
<1>6. Total(R, X)
  BY <1>3, <1>4 DEF Total, Earlier
<1>7. ViewHistory(g, e) = Sorted(X, R)
  BY <1>5, Zenon DEF ViewHistory
<1>8. \A x \in R : ByDate(x[1], x[2])
  BY <1>3 DEF ByDate, Earlier
<1> HIDE DEF R
<1>9. Sorted(X, R) \in InLine(X, R)
  BY <1>2, <1>6, SortedIs
<1> DEFINE list == Sorted(X, R)
<1> HIDE DEF list
<1>10. list \in SetToSeqs(X) /\ \A i, j \in DOMAIN list : i < j => <<list[i], list[j]>> \in R
  BY <1>9 DEF InLine, list
<1>11. \A i, j \in DOMAIN list : i < j => ByDate(list[i], list[j])
  BY <1>8, <1>10
<1>12. ViewHistory(g, e) = list
  BY <1>7 DEF list
<1> QED BY <1>5, <1>10, <1>11, <1>12, Zenon

\* What kg answers over a graph is what the viewer answers over the same projection.
LEMMA SameAnswers ==
  ASSUME NEW g, GraphOK(g), Joined(g), WellFormed(g)
  PROVE  /\ Conflicts(g) = ViewConflicts(g)
         /\ \A e \in DOMAIN g.elem :
              /\ AliasClosure(g, e) = {e} => ViewHistory(g, e) \in Listings(g, e)
              /\ Len(Why(g, e)) > 1 <=> e \in {c[1] : c \in Conflicts(g)}
<1>1. \A e \in DOMAIN g.elem : e \in Element
  BY DEF GraphOK
<1>2. \A e \in DOMAIN g.elem : {d \in ShapedBy(g, e) : IsHead(g, d, e)} = Heads(g, e)
  BY <1>1, SameHeads
<1>3. \A e \in DOMAIN g.elem : ViewHeads(g, e) = Sides(g, e)
  BY <1>2 DEF ViewHeads, Sides
<1>4. \A e \in DOMAIN g.elem : Len(Sides(g, e)) = Cardinality(Heads(g, e)) /\ Cardinality(Heads(g, e)) \in Nat
  BY SidesAre
<1>5. Conflicts(g) = ViewConflicts(g)
  <2>1. {x \in DOMAIN g.elem : Cardinality(Heads(g, x)) > 1} = {x \in DOMAIN g.elem : Len(ViewHeads(g, x)) >= 2}
    BY <1>3, <1>4
  <2> QED BY <1>3, <2>1 DEF Conflicts, ViewConflicts
<1>6. ASSUME NEW e \in DOMAIN g.elem, AliasClosure(g, e) = {e}
      PROVE  ViewHistory(g, e) \in Listings(g, e)
  <2> DEFINE D == ShapedBy(g, e)
             K == AliasClosure(g, e)
             inAny(d) == \E m \in K : d \in Heads(g, m)
             kg(d) == [dec |-> d, when |-> RecordedAt[d], lam |-> g.dec[d], head |-> inAny(d)]
             view(d) == [dec |-> d, when |-> RecordedAt[d], lam |-> g.dec[d], head |-> IsHead(g, d, e)]
  <2>1. History(g, e) = {kg(d) : d \in UNION {ShapedBy(g, m) : m \in K}}
    BY Zenon DEF History
  <2>2. UNION {ShapedBy(g, m) : m \in K} = D
    BY <1>6
  <2>3. ASSUME NEW d \in D PROVE inAny(d) <=> IsHead(g, d, e)
    <3>1. d \in Heads(g, e) <=> IsHead(g, d, e)
      BY <1>2
    <3> QED BY <1>6, <3>1
  <2>4. ASSUME NEW d \in D PROVE kg(d) = view(d)
    <3>1. inAny(d) = IsHead(g, d, e)
      BY <2>3, Zenon DEF IsHead
    <3> HIDE DEF inAny
    <3> QED BY <3>1, Zenon
  <2>5. History(g, e) = {kg(d) : d \in D}
    <3> HIDE DEF kg, D
    <3> QED BY <2>1, <2>2, Zenon
  <2>6. {kg(d) : d \in D} = {view(d) : d \in D}
    <3> HIDE DEF kg, view, D
    <3> QED BY <2>4
  <2>7. Entries(g, e) = {view(d) : d \in D}
    BY Zenon DEF Entries
  <2>8. History(g, e) = Entries(g, e)
    BY <2>5, <2>6, <2>7, Zenon
  <2> QED BY <2>8, TimeLineIs, Zenon DEF Listings
<1>7. ASSUME NEW e \in DOMAIN g.elem
      PROVE  Len(Why(g, e)) > 1 <=> e \in {c[1] : c \in Conflicts(g)}
  <2>1. Len(Why(g, e)) > 1 <=> Cardinality(Heads(g, e)) > 1
    BY WhyIs
  <2> DEFINE B == {x \in DOMAIN g.elem : Cardinality(Heads(g, x)) > 1}
  <2>2. e \in {c[1] : c \in Conflicts(g)} <=> e \in B
    <3>1. Conflicts(g) = {<<x, Sides(g, x)>> : x \in B}
      BY DEF Conflicts
    <3> HIDE DEF B
    <3>2. ASSUME NEW c \in Conflicts(g) PROVE c[1] \in B
      BY <3>1, <3>2
    <3>3. ASSUME e \in B PROVE e \in {c[1] : c \in Conflicts(g)}
      <4>1. <<e, Sides(g, e)>> \in Conflicts(g) /\ <<e, Sides(g, e)>>[1] = e
        BY <3>1, <3>3
      <4> QED BY <4>1, Zenon
    <3> QED BY <3>2, <3>3, Zenon
  <2> QED BY <2>1, <2>2
<1> QED BY <1>5, <1>6, <1>7

\* kg and its viewer agree, where one person records a decision on one store.
THEOREM ReadsDoAgree == ASSUME ~SameAuthor PROVE Spec => []ReadsAgree
<1>1. ReplayInv => ReadsAgree
  <2> SUFFICES ASSUME ReplayInv, NEW s \in Store, HasGraph(s), faults = 0, InOrder(log[s])
               PROVE  LET g == graph[s]
                          p == Replay(log[s])
                      IN  /\ Conflicts(g) = ViewConflicts(p)
                          /\ \A e \in DOMAIN g.elem :
                               /\ AliasClosure(g, e) = {e} => ViewHistory(p, e) \in Listings(g, e)
                               /\ Len(Why(g, e)) > 1 <=> e \in {c[1] : c \in Conflicts(g)}
    BY DEF ReadsAgree
  <2>1. graph[s] = Replay(log[s])
    BY DEF ReplayInv, GraphIsReplay
  <2>2. Projects(graph[s], log[s], Owed(s))
    BY DEF ReplayInv, AuthorInv, OnceInv, TypeInv, GraphsOK
  <2>3. GraphOK(graph[s]) /\ Joined(graph[s]) /\ WellFormed(graph[s])
    BY <2>2, GraphsWellFormed DEF Projects
  <2> QED BY <2>1, <2>3, SameAnswers
<1> QED BY <1>1, ReplaySafe, PTL

------------------------------------------------------------------------------
(* What kg context ranks by.                                               *)

\* The newest decision with authority is the first of the heads.
LEMMA RanksByFirst ==
  ASSUME NEW g, GraphOK(g), Joined(g), WellFormed(g), Descending(g), NEW e \in Element,
         Recency(g, e) # 0
  PROVE  Why(g, e) # <<>> /\ g.dec[Head(Why(g, e))] = Recency(g, e)
<1> DEFINE A == {x \in ShapedBy(g, e) : HasAuthority(g, x, e)}
           stamps == {g.dec[d] : d \in A} \cup {0}
           H == Heads(g, e)
           first == Sides(g, e)[1]
<1>1. \A d \in A : d \in Decision /\ d \in DOMAIN g.dec /\ g.dec[d] \in Nat
  BY DEF GraphOK, Joined, ShapedBy
<1>2. \A d \in DOMAIN g.dec : HasAuthority(g, d, e) => d \in A
  BY DEF ShapedBy, HasAuthority, GraphOK
<1>3. stamps \in SUBSET Nat /\ IsFiniteSet(stamps) /\ stamps # {}
  <2>1. IsFiniteSet(A)
    BY <1>1, ContentAssumption, FS_Subset
  <2> DEFINE T == {g.dec[d] : d \in A}
             f == [d \in A |-> g.dec[d]]
  <2>2. f \in Surjection(A, T)
    BY DEF Surjection
  <2> HIDE DEF f
  <2>3. IsFiniteSet(T)
    <3> HIDE DEF T, A
    <3> QED BY <2>1, <2>2, FS_Surjection
  <2>4. T \subseteq Nat
    BY <1>1
  <2> HIDE DEF T, A
  <2>5. IsFiniteSet(T \cup {0})
    BY <2>3, FS_AddElement
  <2> QED BY <2>4, <2>5 DEF T
<1>4. Recency(g, e) = Max(stamps)
  BY DEF Recency, MaxOf
<1> HIDE DEF stamps
<1>5. Max(stamps) \in stamps /\ \A x \in stamps : x <= Max(stamps)
  BY <1>3, MaxIs
<1>6. PICK newest \in A : g.dec[newest] = Recency(g, e)
  BY <1>4, <1>5 DEF stamps
<1>7. \A d \in A : g.dec[d] <= g.dec[newest]
  BY <1>4, <1>5, <1>6 DEF stamps
<1>8. newest \in H
  <2>1. /\ newest \in DOMAIN g.dec /\ HasAuthority(g, newest, e)
        /\ \A d \in DOMAIN g.dec : HasAuthority(g, d, e) => g.dec[d] <= g.dec[newest]
    BY <1>1, <1>2, <1>6, <1>7
  <2> QED BY <2>1, NewestIsAHead DEF GraphOK
<1>9. first \in H /\ g.dec[newest] <= g.dec[first]
  <2>1. /\ Sides(g, e) \in Seq(H) /\ Len(Sides(g, e)) = Cardinality(H) /\ Cardinality(H) \in Nat
        /\ \A d \in H : g.dec[d] <= g.dec[first]
    BY <1>8, SidesAre
  <2>2. IsFiniteSet(H)
    <3>1. H \subseteq Decision
      BY DEF Heads, GraphOK
    <3> QED BY <3>1, ContentAssumption, FS_Subset
  <2> HIDE DEF H
  <2>3. Cardinality(H) # 0
    BY <1>8, <2>2, FS_EmptySet
  <2> QED BY <1>8, <2>1, <2>3
<1>10. first \in A
  <2> HIDE DEF first, A
  <2> QED BY <1>2, <1>9 DEF Heads
<1>11. g.dec[first] = g.dec[newest]
  <2> HIDE DEF first, A
  <2> QED BY <1>1, <1>6, <1>7, <1>9, <1>10
<1>12. Why(g, e) # <<>> /\ Head(Why(g, e)) = first
  BY <1>8, WhyIs
<1> QED BY <1>6, <1>11, <1>12

\* kg context ranks an element by the decision it shows first, for teams without failures
\* and rotations.
THEOREM NewestIsShownFirst == ASSUME ~SameAuthor, Troubled = {} PROVE Spec => []NewestIsHead
<1>1. OrderInv => NewestIsHead
  <2> SUFFICES ASSUME OrderInv, NEW s \in Store, HasGraph(s), NEW e \in DOMAIN graph[s].elem,
                      Recency(graph[s], e) # 0
               PROVE  /\ Why(graph[s], e) # <<>>
                      /\ graph[s].dec[Head(Why(graph[s], e))] = Recency(graph[s], e)
    BY DEF NewestIsHead
  <2>1. Projects(graph[s], log[s], Owed(s))
    BY DEF OrderInv, ReplayInv, AuthorInv, OnceInv, TypeInv, GraphsOK
  <2>2. GraphOK(graph[s]) /\ Joined(graph[s]) /\ WellFormed(graph[s]) /\ Descending(graph[s])
    BY <2>1, GraphsWellFormed, GraphsDescend DEF Projects
  <2>3. e \in Element
    BY <2>2 DEF GraphOK
  <2> QED BY <2>2, <2>3, RanksByFirst
<1>2. OrderInv /\ [Next]_vars => OrderInv'
  BY OrderStep
<1> QED BY <1>1, <1>2, OrderInit, PTL DEF Spec

------------------------------------------------------------------------------
(* The growing union of decisions.                                         *)

\* What the stores know, as UnionLog sees it, and what anybody recorded.
AllDecided == [s \in Store |-> Decided(log[s])]
Recorded == UNION {Decided(log[s]) : s \in Store}

\* Who changes one log changes the knowledge of one store, and what was recorded with it.
LEMMA OneLearns ==
  ASSUME LogOK, NEW s \in Store, NEW L, log' = [log EXCEPT ![s] = L], Decided(log[s]) \subseteq Decided(L)
  PROVE  /\ AllDecided' = [AllDecided EXCEPT ![s] = Decided(L)]
         /\ AllDecided'[s] = Decided(L) /\ AllDecided[s] = Decided(log[s])
         /\ Recorded' = Recorded \cup Decided(L)
<1>1. log'[s] = L /\ \A t \in Store : t # s => log'[t] = log[t]
  BY DEF LogOK
<1>2. /\ \A t \in Store : AllDecided[t] = Decided(log[t]) /\ AllDecided'[t] = Decided(log'[t])
      /\ AllDecided' = [t \in Store |-> Decided(log'[t])]
      /\ AllDecided = [t \in Store |-> Decided(log[t])]
  BY DEF AllDecided, Decided
<1>3. AllDecided' = [AllDecided EXCEPT ![s] = Decided(L)]
  BY <1>1, <1>2
<1>4. Recorded' = UNION {Decided(log'[t]) : t \in Store}
  BY DEF Recorded, Decided
<1>5. Recorded' = Recorded \cup Decided(L)
  BY <1>1, <1>4 DEF Recorded
<1> QED BY <1>1, <1>2, <1>3, <1>5

\* An ingest records a decision that nobody has, or one that only a graph which lags behind
\* its log has forgotten.
LEMMA IngestRecords ==
  ASSUME ~SameAuthor, AuthorInv, NEW s \in Store, NEW d \in Decision, Ingest(s, d) \/ IngestFails(s, d)
  PROVE  Abstract!Record(s, d) \/ UNCHANGED <<AllDecided, Decided(bucket), Recorded>>
<1> DEFINE ev == BuildEvent(OpenWrite(graph[s], log[s]), d, NextLamport(log[s]), writer[s])
           L == log[s] \cup {ev}
<1>1. log' = [log EXCEPT ![s] = L] /\ bucket' = bucket /\ MayRecord(s, d)
  BY DEF Ingest, IngestFails
<1>2. ev.dec = d
  BY NewEvent DEF AuthorInv, OnceInv
<1> HIDE DEF ev
<1>3. Decided(L) = Decided(log[s]) \cup {d}
  BY <1>2 DEF Decided
<1>4. LogOK
  BY DEF AuthorInv, OnceInv, TypeInv
<1> HIDE DEF L
<1>5. /\ AllDecided' = [AllDecided EXCEPT ![s] = Decided(L)]
      /\ AllDecided[s] = Decided(log[s]) /\ Recorded' = Recorded \cup Decided(L)
  BY <1>1, <1>3, <1>4, OneLearns
<1>6. Decided(log[s]) \subseteq Recorded
  BY DEF Recorded
<1>7. ASSUME d \in Recorded PROVE d \in Decided(log[s])
  <2>1. PICK t \in Store : \E y \in log[t] : y.dec = d
    BY <1>7 DEF Recorded, Decided
  <2>2. PICK x \in log[t] : x.dec = d
    BY <2>1
  <2>3. x.by[1] = s
    BY <1>1, <2>2 DEF MayRecord
  <2>4. x \in log[s]
    BY <2>3 DEF AuthorInv, OnceInv, Shared
  <2> QED BY <2>2, <2>4 DEF Decided
<1>8. CASE d \in Recorded
  <2>1. Decided(L) = Decided(log[s])
    BY <1>3, <1>7, <1>8
  <2>2. AllDecided' = AllDecided
    BY <1>5, <2>1 DEF AllDecided
  <2> QED BY <1>1, <1>5, <1>6, <2>1, <2>2
<1>9. CASE d \notin Recorded
  <2>1. Recorded' = Recorded \cup {d}
    BY <1>3, <1>5, <1>6
  <2>2. AllDecided' = [AllDecided EXCEPT ![s] = @ \cup {d}]
    BY <1>3, <1>5
  <2>3. Decided(bucket)' = Decided(bucket)
    BY <1>1
  <2> QED BY <1>9, <2>1, <2>2, <2>3 DEF Abstract!Record, AllDecided, Recorded
<1> QED BY <1>8, <1>9

\* A sync, whole or cut short, re-emits every decision it takes back, uploads decisions the
\* store knew, and downloads decisions the remote has.
LEMMA SyncExchanges ==
  ASSUME AuthorInv, NEW s \in Store, NEW got \in Pulls(s), Sync(s, got) \/ SyncFails(s, got)
  PROVE  Abstract!Exchange(s)
<1> DEFINE L == Reconciled(s) \cup got
<1>1. /\ log' = [log EXCEPT ![s] = L] /\ NextLamport(L) <= MaxLamport + 1
      /\ bucket' \in {bucket, bucket \cup Own(s, L)}
  BY DEF Sync, SyncFails
<1>2. LogOK /\ WriterOK
  BY DEF AuthorInv, OnceInv, TypeInv
<1>3. /\ got \subseteq bucket /\ \A x \in got : x.by[1] # s
      /\ Says(log[s], Reconciled(s)) /\ Says(Reconciled(s), log[s])
  BY <1>1, <1>2, AfterIs
<1>4. Decided(Reconciled(s)) = Decided(log[s])
  BY <1>3, ContentIs DEF Says, Decided
<1>5. Decided(L) = Decided(log[s]) \cup Decided(got) /\ Decided(got) \subseteq Decided(bucket)
  BY <1>3, <1>4 DEF Decided
<1>6. Decided(Own(s, L)) \subseteq Decided(log[s])
  <2>1. Own(s, L) \subseteq Reconciled(s)
    BY <1>2, <1>3 DEF Own, WriterOK
  <2> QED BY <1>4, <2>1 DEF Decided
<1>7. Decided(bucket') \in {Decided(bucket), Decided(bucket) \cup Decided(Own(s, L))}
  BY <1>1 DEF Decided
<1> HIDE DEF L
<1>8. /\ AllDecided' = [AllDecided EXCEPT ![s] = Decided(L)]
      /\ AllDecided'[s] = Decided(L) /\ AllDecided[s] = Decided(log[s])
      /\ Recorded' = Recorded \cup Decided(L)
  BY <1>1, <1>2, <1>5, OneLearns
<1>9. Recorded' = Recorded
  <2>1. Decided(log[s]) \subseteq Recorded
    BY DEF Recorded
  <2>2. Decided(bucket) \subseteq Recorded
    BY <1>2, EventFields DEF AuthorInv, OnceInv, Shared, LogOK, Decided, Recorded
  <2> QED BY <1>5, <1>8, <2>1, <2>2
<1>10. Decided(bucket)' = Decided(bucket')
  BY DEF Decided
<1>11. /\ Decided(bucket) \subseteq Decided(bucket')
       /\ Decided(bucket') \subseteq Decided(bucket) \cup AllDecided[s]
       /\ AllDecided[s] \subseteq AllDecided'[s] /\ AllDecided'[s] \subseteq AllDecided[s] \cup Decided(bucket)
       /\ AllDecided' = [AllDecided EXCEPT ![s] = AllDecided'[s]]
  BY <1>5, <1>6, <1>7, <1>8
<1> QED BY <1>9, <1>10, <1>11 DEF Abstract!Exchange, AllDecided, Recorded

\* An engine implements UnionLog (ImplementsUnionLog): every ingest, sync, failure, rotation
\* and re-emission is a step of the growing union of decisions or none that it sees.
THEOREM TeamImplementsUnionLog == ASSUME ~SameAuthor PROVE Spec => ImplementsUnionLog
<1>1. Init => Abstract!Init
  <2> SUFFICES ASSUME Init PROVE Abstract!Init
    OBVIOUS
  <2>1. (\A s \in Store : Decided(log[s]) = {}) /\ Decided(bucket) = {}
    BY DEF Init, Decided
  <2> QED BY <2>1 DEF Abstract!Init
<1>2. AuthorInv /\ [Next]_vars => [Abstract!Next]_(Abstract!vars)
  <2>1. ASSUME AuthorInv, NEW s \in Store, NEW d \in Decision, Ingest(s, d) \/ IngestFails(s, d)
        PROVE  Abstract!Next \/ UNCHANGED <<AllDecided, Decided(bucket), Recorded>>
    BY <2>1, IngestRecords DEF Abstract!Next
  <2>2. ASSUME AuthorInv, NEW s \in Store, NEW got \in Pulls(s), Sync(s, got) \/ SyncFails(s, got)
        PROVE  Abstract!Next
    BY <2>2, SyncExchanges DEF Abstract!Next
  <2>3. ASSUME UNCHANGED <<log, bucket>> PROVE UNCHANGED <<AllDecided, Decided(bucket), Recorded>>
    BY <2>3 DEF AllDecided, Recorded, Decided
  <2>4. [Next]_vars => \/ \E s \in Store : \E d \in Decision : Ingest(s, d) \/ IngestFails(s, d)
                       \/ \E s \in Store : \E got \in Pulls(s) : Sync(s, got) \/ SyncFails(s, got)
                       \/ UNCHANGED <<log, bucket>>
    BY DEF Next, IngestNoOp, Rebuild, RebuildFails, OpenRead, LoseGraph, Rotate, vars
  <2>5. UNCHANGED <<AllDecided, Decided(bucket), Recorded>> => UNCHANGED Abstract!vars
    BY DEF Abstract!vars, AllDecided, Recorded
  <2> QED BY <2>1, <2>2, <2>3, <2>4, <2>5
<1>3. AuthorInv /\ [Next]_vars => AuthorInv'
  BY AuthorStep
<1> QED BY <1>1, <1>2, <1>3, AuthorInit, PTL DEF Spec, ImplementsUnionLog, Abstract!Spec
================================================================================
